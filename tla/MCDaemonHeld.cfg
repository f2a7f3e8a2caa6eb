CONSTANTS
    Nobody = Nobody
    Clients = {c1, c2}
    PingInterval <- MCPingInterval
    PeerTimeout <- MCPeerTimeout
    RoundTrip = 1
    MaxStall = 1
    MaxInbox = 2
SPECIFICATION DaemonSpec
PROPERTIES NeverHeldByTheDead
CHECK_DEADLOCK FALSE
