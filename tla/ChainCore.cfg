SPECIFICATION FairSpec
CONSTANTS
    Keys = {k1, k2}
    Operators = {o1, o2}
    NoDraft = NoDraft
    Loop = loop
    ByHand = hand
    ReviewCap = 1
    PerCycle = 1
    DailyCap = 1
    GlobalCap = 1
    KeyCap = 1
    DayLength <- MCDay
    Ttl <- MCTtl
    Cooldown <- MCCooldown
    MaxNow = 1
    MaxPasses = 2
    MaxIntents = 3
    MaxUpsets = 1
INVARIANTS
    ChainInv
    OpenCaps
    OnePositionPerIntent
    VerdictsStand
    DailyIntents
    DailyReviews
PROPERTIES
    PendingSettles
CHECK_DEADLOCK FALSE
