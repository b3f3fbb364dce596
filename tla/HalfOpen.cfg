SPECIFICATION FairRoomSpec
CONSTANTS
    c1 = c1
    c2 = c2
    Rooms = {1}
    Clients = {c1}
    Identity <- MCIdentity
    ExpectedIdentity <- MCExpected
    Foreign = {c1}
    MaxPeers = 1
    HandshakeTimeout = 1
    PeerIdModulus = 65536
    MaxStray = 1
    MaxPolled = 2
CHECK_DEADLOCK FALSE
INVARIANTS
    SlotsKept
PROPERTIES
    HandshakesSettle
