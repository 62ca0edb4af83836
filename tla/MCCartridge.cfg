SPECIFICATION CartridgeSpec
CONSTANTS
    PrgBanks = 5
    ChrBanks = 2
    Mappers = {0, 1, 2, 3, 4, 7, 9, 10, 11, 34, 66, 71, 79, 94, 180}
    PrgUnits = {1, 5}
    ChrUnits = {0, 2}
    Written = {6, 81, 195}
INVARIANTS
    CartridgeTypeOK
    OffsetsStayInside
    VectorsStayMapped
    LatchSelects
    WindowsFollowData
PROPERTIES
    ImplementsPort
    CountsEveryWrite
