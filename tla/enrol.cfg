SPECIFICATION Spec
CONSTANTS
    Identity = {1, 2, 3}
    Root = 2
    Self = 2
    Name = {"a", "b", "c"}
    MaxHost = 2
    MaxTime = 1
    Conn = {"c1", "c2", "c3"}
    Token = {"t"}
    Joiner <- MCJoiner
    NameOf <- MCNameOf
    TokenOf <- MCTokenOf
    Uses <- MCUses
    Incoming <- MCIncoming
    MaxEnrolments = 2
    MaxFrame = 3
    MaxCrash = 0
    MaxUnsaved = 0
INVARIANTS TokenUsesBound AdmissionsDistinct
CHECK_DEADLOCK FALSE
