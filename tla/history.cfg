SPECIFICATION HistorySpec
CONSTANTS
    Identity = {1, 2, 3}
    Name = {1, 2, 3}
    Root = 2
    MaxHost = 2
    MaxTime = 5
    HostName <- MCHostName
    SameSecond = FALSE
    Reenrols = FALSE
INVARIANTS ArrivalOrderIrrelevant NoSharedSlot
PROPERTY JudgedAsPromised
CHECK_DEADLOCK FALSE
