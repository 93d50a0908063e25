CONSTANTS
    MaxWork = 1
    Runtimes = {r1}
    NoRuntime = NoRuntime
    MaxAttempts = 1
    MaxVersion = 20
    MaxFaults = 0
SPECIFICATION EngineSafety
PROPERTIES
    CancelBeforeDispatchCancels
CHECK_DEADLOCK FALSE
