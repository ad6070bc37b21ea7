CONSTANTS
    p1 = p1
    Room = {r1}
    Participant = {p1, p2}
    Grant = {g1}
    Candidate = {c1, c2}
    Binding = {b1, b2}
    Endpoint = {e1, e2}
    Nonce = {n1, n2}
    None = None
    Definition <- MCSolo
    RoomTTL = {3}
    GrantTTL = {2, 3}
    ChallengeTTL = 1
    BindingTTL = 2
    EmptyGrace = 1
    TombstoneTTL = 1
    MaxOpenRooms = 1
    MaxRoomRecords = 2
    MaxActiveSessions = 2
    Width = 2
    Sequence = {1, 2}
    MaxTime = 3
    MaxGeneration = 3
SYMMETRY Symmetry
SPECIFICATION Spec
INVARIANTS IndexIntegrity DeadlineNesting HandshakeCoherence
PROPERTIES AuthorityEndsAtDeadline RebindIsAtomic SequenceSpentOnce
CHECK_DEADLOCK FALSE
