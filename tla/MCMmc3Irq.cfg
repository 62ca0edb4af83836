SPECIFICATION Spec
CONSTANTS
    Tiles = 1
    SpriteUnits = 2
    LastVisible = 0
    PreRender = 2
    Latches = {0, 2}
    AccessDots = {0, 13, 20}
INVARIANTS
    TypeOK
    TriggeredIsEnabled
PROPERTIES
    OncePerScanline
    IrqPeriod
