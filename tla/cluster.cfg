CONSTANTS
    a = a
    b = b
    c = c
    q1 = q1
    q2 = q2
    q3 = q3
    Remote <- MCRemote
    Priority <- MCPriority
    Request <- MCRequest
    Allowed <- MCAllowed
SPECIFICATION Spec
INVARIANT Balanced
PROPERTY TriesEachByPriority
CHECK_DEADLOCK FALSE
