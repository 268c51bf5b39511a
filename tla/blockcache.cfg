CONSTANTS
    Node = {n1, n2}
    Caller = {c1, c2}
    Query <- MCQuery
    MaxHeight = 2
    MaxFork = 1
    Quiet = {0}
    LruSize = 2
    MaxAsks = 2
SYMMETRY Symmetry
SPECIFICATION Spec
INVARIANTS AnswerFits NoHoleInLogs NobodyIsForgotten
PROPERTIES StaleIsNotRevived
CHECK_DEADLOCK FALSE
