SPECIFICATION RoomSpec
CONSTANTS
    c1 = c1
    c2 = c2
    Rooms = {1, 2}
    Clients = {c1, c2}
    Identity <- MCIdentity
    ExpectedIdentity <- MCExpected
    Foreign = {}
    MaxPeers = 2
    HandshakeTimeout = 1
    PeerIdModulus = 65536
    MaxStray = 0
    MaxPolled = 2
CHECK_DEADLOCK FALSE
INVARIANTS
    SessionsAgree
    SlotsKept
PROPERTIES
    SessionSpec
