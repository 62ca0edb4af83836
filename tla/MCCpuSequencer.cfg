SPECIFICATION FairSpec
CONSTANTS
    Targets = {"memory", "OAMDMA", "register"}
    PageSize = 4
    Program <- AllInstructions
    OverflowChecks = TRUE
INVARIANTS
    TypeOK
    CycleExact
    ConsumesItsBytes
    NothingOverlooked
    DmaAligned
    MaskedIrqIsLate
PROPERTY UnitsEnd
CHECK_DEADLOCK FALSE
