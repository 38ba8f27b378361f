SPECIFICATION Spec
CONSTANTS
    Identity = {1, 2, 3, 4}
    Name = {1, 2, 3, 4}
    Root = 2
    MaxHost = 4
    MaxTime = 3
    MaxCrash = 0
    HostName <- MCHostName
INVARIANT SlotsExclusive
CHECK_DEADLOCK FALSE
