SPECIFICATION FairSpec
CONSTANTS
    Targets = {"memory", "OAMDMA", "PPUSTATUS", "PPUCTRL"}
    PageSize = 1
    Program <- PollingProgram
    OverflowChecks = FALSE
    LastDot = 7
    LastDrawnDot = 4
    LastVisible = 1
    PreRender = 6
    StartDot = 3

PROPERTY RipeNmiIsServed
