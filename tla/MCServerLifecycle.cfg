CONSTANTS
    Runner = {r1, r2}
    Closer = {c1}
    MaxHandlers = 1
SPECIFICATION FairSpec
INVARIANTS NothingLeftBehind FailureReported NoFalseAlarm
PROPERTIES EverybodyReturns
CHECK_DEADLOCK FALSE
