CONSTANTS
    Request = {q1, q2}
    Old = 2
    MaxBlock = 3
SPECIFICATION FairSpec
PROPERTIES HeadNeverFallsBack StuckRemoteIsRefused
