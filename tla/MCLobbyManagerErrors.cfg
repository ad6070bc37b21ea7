CONSTANTS
    Player = {p1, p2}
    LobbyID = {l1, l2}
    Match = {m1}
    QueueKey = {k1}
    Capacity = {2}
    None = None
    LobbyTTL = 2
    TicketTTL = 2
    MatchTTL = 1
    MaxLobbies = 1
    MaxTickets = 2
    MaxSequence = 5
    MaxRevision = 6
    MaxTime = 3
SYMMETRY Symmetry
SPECIFICATION Spec
PROPERTIES FailedCallChangesNothing
CHECK_DEADLOCK FALSE
