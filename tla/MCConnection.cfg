CONSTANTS
    None = None
    NoWindow = NoWindow
    Nobody = Nobody
    Pairings <- MCPairings
    MaxSends = 3
    HeaderLen = 2
    ByteValues = 3
    MaxFrameLen = 4
    Payloads <- MCPayloads
    MaxFrames = 3
    Clients = {c1, c2}
    PingInterval <- MCPingInterval
    PeerTimeout <- MCPeerTimeout
    RoundTrip = 2
    MaxStall = 1
    MaxInbox = 3
    Toplevels = {1, 2, 3}
    AppOf <- MCAppOf
    Keyed = {"terminal"}
    FreshWindow = 1
    MaxTime = 2
    Vanishing = TRUE
    ShortReads = TRUE
    MaxRestarts = 1
    n0 = n0
    n1 = n1
    Root = n0
    Nodes = {n0, n1}
    Trees <- MCTrees
    Windows = {w1, w2}
    Host = "visible"
    MaxQueue = 3
SPECIFICATION Spec
INVARIANTS TypeOK InOrder EndsAgree FramesExact SlotFreedInTime IdsPaired RulesKept FocusLands HeldIsExact CaughtUpIsCurrent
PROPERTIES HandshakeEnds CloseReachesPeer LivePeerKept DeadSlotFreed ActivationCompletes
CHECK_DEADLOCK FALSE
