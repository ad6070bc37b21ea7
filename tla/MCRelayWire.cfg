CONSTANTS
    p1 = p1
    p2 = p2
    Room = {r1}
    Participant = {p1, p2}
    Grant = {g1, g2}
    Candidate = {c1, c2}
    Binding = {b1, b2}
    Endpoint = {e1, e2}
    Nonce = {n1, n2}
    None = None
    Definition <- MCPair
    RoomTTL = {3}
    GrantTTL = {2}
    ChallengeTTL = 1
    BindingTTL = 1
    EmptyGrace = 1
    TombstoneTTL = 1
    MaxOpenRooms = 1
    MaxRoomRecords = 2
    MaxActiveSessions = 2
    Width = 1
    Sequence = {1}
    MaxTime = 3
    WriteTimeout = 1
    MaxGeneration = 2
SYMMETRY Symmetry
SPECIFICATION WireSpec
PROPERTIES FanoutAudience SilentAfterTheEnd
CHECK_DEADLOCK FALSE
