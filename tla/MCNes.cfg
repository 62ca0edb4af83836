SPECIFICATION Spec
CONSTANTS
    Targets = {"memory", "OAMDMA", "PPUSTATUS", "PPUCTRL"}
    PageSize = 2
    Program <- RacingProgram
    OverflowChecks = FALSE
    LastDot = 7
    LastDrawnDot = 4
    LastVisible = 1
    PreRender = 6
    StartDot = 3
INVARIANTS TypeOK NoNmiWhileDisabled NmiMissedAtMostOnce
