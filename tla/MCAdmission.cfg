CONSTANTS
    g1 = g1
    g2 = g2
    g3 = g3
    r1 = r1
    r2 = r2
    Source = {s1, s2, s3}
    Grant = {g1, g2, g3}
    Room = {r1, r2}
    None = None
    RoomOf <- MCRoomOf
    Rate <- MCRate
    Burst <- MCBurst
    MaxSources = 2
    IdleTTL = 2
    Size = {1, 2}
    MaxTime = 4
SYMMETRY Symmetry
CONSTRAINT OneSide
SPECIFICATION Spec
INVARIANTS BooksBalance
PROPERTIES ImplementsPerSource
CHECK_DEADLOCK FALSE
