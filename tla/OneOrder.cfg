SPECIFICATION Spec
CONSTANTS
    Outcomes <- MCOutcomes
    EntryNet <- MCEntryNet
    LossLimit = 2
    SumFrom = 3
    SumFloor <- MCSumFloor
    RateFrom = 3
    LongFrom = 4
    LongFloor <- MCLongFloor
    KpiFrom = 4
    DrawdownFloor <- MCDrawdownFloor
    None = None
    MaxRows = 5
INVARIANTS
    OrderInv
    OneOrder
    LossesAreCut
PROPERTIES
    CooldownIsFinal
