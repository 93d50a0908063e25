CONSTANTS
    MaxWork = 1
    Runtimes = {r1, r2}
    NoRuntime = NoRuntime
    MaxAttempts = 1
    MaxVersion = 20
    MaxFaults = 0
SPECIFICATION EngineSafety
PROPERTIES
    RecoveryInterruptsCancelRequested
CHECK_DEADLOCK FALSE
