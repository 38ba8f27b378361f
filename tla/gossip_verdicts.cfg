SPECIFICATION Spec
CONSTANTS
    Identity = {1, 2, 3}
    Name = {1, 2, 3}
    Root = 2
    MaxHost = 3
    MaxTime = 5
    MaxCrash = 0
    HostName <- MCHostName
INVARIANT VerdictsAgree
CHECK_DEADLOCK FALSE
