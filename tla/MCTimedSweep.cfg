CONSTANTS
    p1 = p1
    p2 = p2
    Room = {r1, r2}
    Participant = {p1, p2}
    Grant = {g1, g2, g3}
    Candidate = {c1}
    Binding = {b1}
    Endpoint = {e1}
    Nonce = {n1}
    None = None
    Definition <- MCDefinition
    RoomTTL = {3}
    GrantTTL = {1, 3}
    ChallengeTTL = 1
    BindingTTL = 1
    EmptyGrace = 1
    TombstoneTTL = 2
    MaxOpenRooms = 1
    MaxRoomRecords = 2
    MaxActiveSessions = 2
    Width = 2
    Sequence = {}
    MaxTime = 5
    SweepInterval = 2
    MaxGeneration = 1
SYMMETRY Symmetry
SPECIFICATION TimedSpec
INVARIANTS CountersExact ReclaimedInTime
PROPERTIES TombstoneHolds GrantsEndOnce SweepIsInvisible
CHECK_DEADLOCK FALSE
