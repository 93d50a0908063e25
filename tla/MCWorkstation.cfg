SPECIFICATION StationSpec
CONSTANTS
    e1 = e1
    Modes = {"direct", "launcher"}
    HardLimit = 3
    MaxWrites = 2
    MaxLen = 4
    Platforms = {"linux", "macos"}
    Places = {1, 2}
    MaxMoves = 3
INVARIANTS
    
    ReadSafe
    AdmissionSafe
    OutputSafe
    
PROPERTIES
    WorkstationSteps
CHECK_DEADLOCK FALSE
