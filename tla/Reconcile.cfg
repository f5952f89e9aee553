SPECIFICATION Spec
CONSTANTS
    Symbols = {btc}
    Operators = {o1, o2}
    None = None
    MaxLegacy = 3
    MaxPositions = 4
    MaxMarks = 1
    MaxUpsets = 1
SYMMETRY MCSymmetry
INVARIANTS
    IntegrityInv
    ClosedOnce
    ConflictsStayResolved
