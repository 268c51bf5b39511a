CONSTANTS
    Stalk = {g1, g2}
    BlockTime = 3
    Skew = 1
    MaxBlock = 2
SPECIFICATION FairSpec
PROPERTIES WaitIsBounded HeadIsPublished
