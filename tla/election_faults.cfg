CONSTANTS
    Node = {n1, n2}
    None = None
    Orphan = Orphan
    HealthTTL = 2
    LockTTL = 3
    MaxLate = 1
    MaxCrash = 1
    MaxCut = 1
SPECIFICATION HealingSpec
INVARIANT LeaderOnScheduleLooksAlive
PROPERTIES PromotionOverwritesNobody VacuumEnds DeadLeaderIsReplaced BeliefsFollowKey
CHECK_DEADLOCK FALSE
