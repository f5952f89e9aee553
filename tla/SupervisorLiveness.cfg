SPECIFICATION FairSpec
CONSTANTS
    s1 = s1
    s2 = s2
    s3 = s3
    Ids <- MCIds
    Grace = 0
    Window = 2
    MaxRestarts = 1
    Cooldown = 1
    MaxBlanks = 1
    MaxCuts = 0
PROPERTIES
    ComesBack
    KeepsTrying
    DuplicatesEnd
