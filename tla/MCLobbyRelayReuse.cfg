CONSTANTS
    Player = {p1, p2}
    LobbyID = {}
    Match = {m1}
    OwnRoom = {}
    QueueKey = {k1}
    Capacity = {2}
    None = None
    LobbyTTL = 3
    TicketTTL = 3
    MatchTTL = 3
    OperatorTTL = {3}
    TombstoneTTL = 1
    SweepInterval = 1
    MaxOpenRooms = 1
    MaxRoomRecords = 1
    MaxLobbies = 0
    MaxTickets = 2
    MaxSequence = 5
    MaxRevision = 4
    MaxTime = 5
SPECIFICATION SharedSpec
PROPERTIES RoomEndsOnItsOwn
CHECK_DEADLOCK FALSE
