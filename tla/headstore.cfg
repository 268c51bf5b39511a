CONSTANTS
    Chain = {eth, gno}
    Sub = {s1}
    MaxHead = 3
    MaxStream = 3
    Dollar = Dollar
    Nothing = Nothing
SPECIFICATION FairStoreSpec
INVARIANT AnnouncedIsNewAndStored
PROPERTY MessageReachesHead
