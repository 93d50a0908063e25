SPECIFICATION Spec
CONSTANTS
    r1 = r1
    r2 = r2
    q1 = q1
    q2 = q2
    q3 = q3
    NoRuntime = NoRuntime
SYMMETRY Symmetry
INVARIANTS
    RowsMatchJournal
    RecoveriesAddUp
CHECK_DEADLOCK FALSE
