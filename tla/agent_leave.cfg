SPECIFICATION Spec
CONSTANTS
    Req = {"leave"}
    Kind <- MCKind
    MaxStart = 1
    Faults = {}
PROPERTY LeaveIsComplete
CHECK_DEADLOCK FALSE
