SPECIFICATION Spec
CONSTANTS
    N = 3
    P = 2
    EvalDots = 18
    LastVisible = 1
    PreRender = 3
    Empty = 3
    Height = 1
    Bytes = {0, 1}
    Volatile = {0, 8}
    AccessDots = {0, 24}
INVARIANTS
    TypeOK
    FirstSpritesFound
    UnitsShowSlots
