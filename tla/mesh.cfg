SPECIFICATION FairSpec
CONSTANTS
    Peer = {1, 2}
    Net = {"n1", "n2", "in"}
    Inside = {"in"}
    AllowedIPs <- MCAllowedIPs
    EventCap = 1
    MaxChange = 2
    MaxFault = 1
INVARIANTS MeshInv NothingMissed ClosedUnused LeavesNothing
PROPERTIES Converges LeaveReturns
CHECK_DEADLOCK FALSE
