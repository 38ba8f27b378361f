SPECIFICATION FairSpec
CONSTANTS
    Identity = {1, 2, 3}
    Root = 2
    Self = 2
    Name = {"a", "b", "c"}
    MaxHost = 2
    MaxTime = 0
    Conn = {"c1", "c2"}
    Token = {"t"}
    Joiner <- MCJoiner
    NameOf <- MCNameOf
    TokenOf <- MCTokenOf
    Uses <- MCUses
    Incoming <- MCIncoming
    MaxEnrolments = 2
    MaxFrame = 3
    MaxCrash = 1
    MaxUnsaved = 2
INVARIANTS WelcomeIsDurable EnrolInv
PROPERTY HandlersEnd
CHECK_DEADLOCK FALSE
