SPECIFICATION Spec
CONSTANTS
    m1 = m1
    d1 = d1
    d2 = d2
    d3 = d3
    i1 = i1
    i2 = i2
    i3 = i3
    NoRuntime = NoRuntime
SYMMETRY Symmetry
INVARIANTS
    DeliverySafe
    ClientsSeeTruth
    ConnectionsSafe
PROPERTIES
    ImplementsReplyChannel
    ImplementsFeed
CHECK_DEADLOCK FALSE
