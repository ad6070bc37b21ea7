CONSTANTS
    Player = {p1, p2, p3}
    LobbyID = {l1}
    Match = {m1, m2}
    OwnRoom = {o1}
    QueueKey = {k1}
    Capacity = {2}
    None = None
    LobbyTTL = 2
    TicketTTL = 2
    MatchTTL = 3
    OperatorTTL = {3}
    TombstoneTTL = 1
    SweepInterval = 1
    MaxOpenRooms = 1
    MaxRoomRecords = 2
    MaxLobbies = 1
    MaxTickets = 3
    MaxSequence = 5
    MaxRevision = 5
    MaxTime = 3
SYMMETRY Symmetry
SPECIFICATION SharedSpec
INVARIANTS QueueIntegrity AssignmentHasRoom
PROPERTIES FifoMatching ManagerSparesOperator HeadIsServed
CHECK_DEADLOCK FALSE
