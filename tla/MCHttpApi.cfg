CONSTANTS
    Exchange = {x1, x2}
    Room = {r1}
    Player = {p1}
    Expiry = {3}
    None = None
    TokenTTL = 1
    ReadTimeout = 2
    TombstoneTTL = 2
    Rate = 2
    Burst = 2
    MaxConcurrent <- MCConcurrent
    MaxTokens = 1
    MaxStarts = 2
    MaxTime = 3
SPECIFICATION Spec
INVARIANTS PlacesHeld FatalIsAnswered
PROPERTIES EveryRequestEnds ActsWithinAuthority NoResurrection
CHECK_DEADLOCK FALSE
