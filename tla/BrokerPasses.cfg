SPECIFICATION FairSpec
CONSTANTS
    Symbols = {btc, eth}
    Prices <- MCPrices
    NoPrice = NoPrice
    MaxPositions = 2
    MaxCount = 3
    MaxCrashes = 1
INVARIANTS
    BrokerInv
    ClosedIsBooked
    RepeatsNeedACut
PROPERTIES
    StopsOnlyTighten
    GivebackIsLocked
    FirstExitsAreTaken
