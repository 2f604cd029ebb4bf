SPECIFICATION MissionSpec
CONSTANTS
    p1 = p1
    p2 = p2
    c1 = c1
    c2 = c2
    Nodes = {p1, p2}
    Work <- WorkValue
    First = p1
    Second = p2
    Commands <- CommandsValue
    BaseVersion = 1
    MaxAttempts = 2
    LeaseDuration = 1
    BaseBackoff = 1
    MaxBackoff = 1
    MissionExpiry = 3
    MaxClock = 3
    MaxRenewals = 1
    MaxDeliveries = 12
    MaxCreated = 2
INVARIANTS
    FencedPublication
    RevocationFence
    AttemptsAccounted
    WorkMatches
    Agreement
PROPERTIES
    NoGrantOverLiveLease
    MissionEnds
CHECK_DEADLOCK FALSE
