CONSTANTS
    Chain = {eth}
    Sub = {s1, s2}
    NewHeads = {s1}
    Logs = {s2}
    Watched = eth
    MaxHead = 3
    MaxStream = 3
    Dollar = Dollar
    Nothing = Nothing
SPECIFICATION Spec
INVARIANTS HeadsHaveNoGap LogsHaveNoGap
PROPERTY HeadsAscend
