SPECIFICATION Spec
CONSTANTS
    Coarse = 3
    Rows = 2
    Fine = 4
    Tiles = 1
    LastVisible = 1
    Written = {7}
    AccessEvents = {0, 2}
INVARIANTS
    TypeOK
    ScrollFollowsBeam
PROPERTIES
    AddressedDataIsSafe
CHECK_DEADLOCK FALSE
