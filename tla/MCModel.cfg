SPECIFICATION Spec
CONSTANTS
    v1 = v1
    v2 = v2
    v3 = v3
SYMMETRY Symmetry
INVARIANTS
    StreamRecorded
    AttemptsSound
    CausalHistory
    
CHECK_DEADLOCK FALSE
