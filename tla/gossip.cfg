SPECIFICATION FairSpec
CONSTANTS
    Identity = {1, 2, 3}
    Name = {1, 2, 3}
    Root = 2
    MaxHost = 3
    MaxTime = 3
    MaxCrash = 1
    HostName <- MCHostName
INVARIANT GossipInv
PROPERTIES RecordsConverge RecordsOnlyGrow
CHECK_DEADLOCK FALSE
