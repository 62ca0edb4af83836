SPECIFICATION Spec
CONSTANTS
    Quarter1 = 5
    Half = 6
    Quarter3 = 7
    FourWrap = 8
    FiveWrap = 9
    Channels = {"triangle", "noise"}
    Lengths = {2}
    LinearLoads = {1}
INVARIANTS
    TypeOK
PROPERTIES
    HalvesAlternate
    LineFallsWhenTaken
    FrameIrqArrives
