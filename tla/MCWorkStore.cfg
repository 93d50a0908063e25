CONSTANTS
    MaxWork = 2
    Runtimes = {r1, r2}
    NoRuntime = NoRuntime
    MaxAttempts = 1
    MaxVersion = 8
SPECIFICATION Spec
SYMMETRY RuntimeSymmetry
INVARIANTS
    CancelledMeansSettled
    RecoveryAgreesWithPolicy
    StoreInvariant
PROPERTIES
    ImplementsContract
    OwnershipNeverTransferred
    FirstComeFirstServed
CHECK_DEADLOCK FALSE
