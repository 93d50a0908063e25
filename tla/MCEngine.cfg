CONSTANTS
    MaxWork = 2
    Runtimes = {r1, r2, r3}
    NoRuntime = NoRuntime
    MaxAttempts = 2
    MaxVersion = 20
    MaxFaults = 1
SPECIFICATION ScopedSpec
SYMMETRY RuntimeSymmetry
INVARIANTS
    EffectsTold
    WorkTended
    SchedulerNeverRefused
PROPERTIES
    ImplementsStore
    SchedulerSteps
CHECK_DEADLOCK FALSE
