CONSTANTS
    Runner = {r1, r2}
    Closer = {c1, c2}
    MaxDatagrams = 3
    MaxRecipients = 2
SPECIFICATION FairSpec
INVARIANTS Accounted ClosingIsClean
PROPERTIES CloseEndsRun
CHECK_DEADLOCK FALSE
