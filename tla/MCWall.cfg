SPECIFICATION Spec
CONSTANTS
    WallLen = 36
    Dealt = 12
    DiceSums <- MCDiceSums
    MaxChain = 3
    WordSize = 1024
CONSTRAINT RedrawsBounded
INVARIANTS
    TypeOK
    WallCountExact
    IndicatorNeverDrawn
    HaiteiOfferedFresh
