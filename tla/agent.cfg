SPECIFICATION FairSpec
CONSTANTS
    Req = {"invite", "revoke", "leave"}
    Kind <- MCKind
    MaxStart = 2
    Faults = {"revoke", "hosts", "down", "forget"}
INVARIANTS HandlersAnswer IdentityKept
PROPERTIES LeaveAnsweredLast AgentStops
CHECK_DEADLOCK FALSE
