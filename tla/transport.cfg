SPECIFICATION FairSpec
CONSTANTS
    Node = {1, 2}
    Caller <- MCCaller
    Slot = {1, 2}
    MaxFault = 1
INVARIANTS DialInv SidesAgree
PROPERTIES Settle
CHECK_DEADLOCK FALSE
