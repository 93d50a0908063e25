SPECIFICATION FairSpec
CONSTANTS
    r1 = r1
    r2 = r2
    NoRuntime = NoRuntime
PROPERTIES
    WorkSettles
    ShutdownEnds
    QueueServed
CHECK_DEADLOCK FALSE
