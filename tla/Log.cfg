SPECIFICATION Spec
CONSTANTS
    Writers = {w1, w2}
    SplitLines = 2
    QueueSize = 1
    MaxLines = 2
    LastDay = 1
INVARIANTS
    LinesAccounted
    DurableOnReturn
    SessionBound
PROPERTY LinesReachFile
CHECK_DEADLOCK FALSE
