SPECIFICATION Spec
CONSTANTS
    s1 = s1
    s2 = s2
    s3 = s3
    Ids <- MCIds
    Grace = 1
    Window = 2
    MaxRestarts = 2
    Cooldown = 1
    MaxBlanks = 1
    MaxCuts = 1
INVARIANTS
    SupervisorInv
    StartBudget
    GraceHolds
SYMMETRY MCSymmetry
