SPECIFICATION FairSpec
CONSTANTS
    Symbols = {btc}
    Prices <- MCPrices
    NoPrice = NoPrice
    MaxPositions = 1
    MaxCount = 2
    MaxCrashes = 0
PROPERTIES
    ExitsAreTaken
