CONSTANTS
    Player = {p1, p2, p3}
    LobbyID = {l1}
    Match = {m1}
    QueueKey = {k1}
    Capacity = {2,3}
    None = None
    LobbyTTL = 2
    TicketTTL = 2
    MatchTTL = 1
    MaxLobbies = 1
    MaxTickets = 3
    MaxSequence = 5
    MaxRevision = 6
    MaxTime = 2
SYMMETRY Symmetry
SPECIFICATION Spec
INVARIANTS LobbyShape ReadyMeansThisGroup MatchIntegrity SeatIntegrity
PROPERTIES RevisionWitness ExactDeadline
CHECK_DEADLOCK FALSE
