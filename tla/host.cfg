SPECIFICATION HostSpec
CONSTANTS
    Iface = {"x", "y"}
    HostsFile <- MCHostsFile
    HostsEntries <- MCHostsEntries
    MaxHostsWrite = 2
    MaxHostsFault = 1
    Reader = {"r", "s"}
    BusyTries = 2
    MaxSave = 3
    MaxStateFault = 2
    Node = {"p", "q"}
    Advertised <- MCAdvertised
    OwnAddr = {"a", "q"}
    Elsewhere = {"lan"}
    MaxStart = 2
    MaxSetUp = 3
    MaxDevFault = 2
    Setting = {"port", "net", "userspace"}
    Default <- MCDefault
    Zero <- MCZero
    Given <- MCGiven
    ConfigIface = {"wgcloth", "b", "c"}
    DefaultInterface = "wgcloth"
    InitialFile <- MCInitialFile
    Known <- MCKnown
    Cmd = {"s", "t"}
    Width4 = 3
    Word = 4
    Base6 <- MCBase6
    MaxRequest = 3
INVARIANTS
    ForeignKept WriteIsExact NoStrayTemp
    StateInv
    DeviceInv SetUpIsExact
    InitIsRoundTrip DumpIsFaithful
    SlotsHaveAddresses StoppedIsLast
PROPERTIES ImplementsRegister SaveEnds StopIsObeyed
CHECK_DEADLOCK FALSE
