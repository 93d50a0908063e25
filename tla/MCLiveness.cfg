SPECIFICATION FairSpec
CONSTANTS
    m1 = m1
    d1 = d1
    k1 = k1
    t1 = t1
    c1 = c1
    e1 = e1
    n1 = n1
    i1 = i1
    i2 = i2
    NoDevice = NoDevice
    NoCommandRow = NoCommandRow
    NoRuntime = NoRuntime
PROPERTIES
    PartsSettle
    EveryUpdateClassified
    CallsReturn
    ClientsServed
    ShutdownsReturn
CHECK_DEADLOCK FALSE
