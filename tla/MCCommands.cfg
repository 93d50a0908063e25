SPECIFICATION EntriesSpec
CONSTANTS
    Devices = {d1}
    Keys = {k1, k2}
    Texts = {t1}
    Conversations = {c1, c2}
    Primary = c1
    Targets = {1, 2}
    Validity = {TRUE, FALSE}
    NoDevice = NoDevice
    NoRow = NoRow
    Clock = "distinct"
    MaxWorks = 1
    MaxRequests = 3
    MaxClock = 4
    MaxRestarts = 2
    MaxAttemptEvents = 1
SYMMETRY Symmetry
INVARIANTS
    GatewaySafe
    
PROPERTIES
    ImplementsLedger
    ClosedMeansQuiet
CHECK_DEADLOCK FALSE
