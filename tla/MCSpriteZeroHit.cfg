SPECIFICATION Spec
CONSTANTS
    LastDot = 10
    LastDrawnDot = 6
    LastVisible = 2
    PreRender = 7
    StartDot = 3
PROPERTY SpriteZeroHitClearedAtDot1
