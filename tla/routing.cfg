CONSTANTS
    Null = Null
    A = A
    B = B
    X = X
    Y = Y
    Half = 16
    MaxTip = 4
    MaxLogRange = 1
    ChainLookback = 2
    RemoteLookback = 1
    ForgeBlockReceipts = TRUE
    Param <- MCParam
    Filter <- MCFilter
    LogsOf <- MCLogsOf
SPECIFICATION Spec
INVARIANTS LatestRangeIsOrdered ForgedIsWhole FiltersAgree
PROPERTIES ToldNeverRetreats OldBlocksStayOut
CHECK_DEADLOCK FALSE
