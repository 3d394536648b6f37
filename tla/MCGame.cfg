SPECIFICATION Spec
CONSTANTS
    WallLen = 24
    DealBlock = 1
    DiceSums = {2}
    Walls <- MCWalls
    DealerDraws <- MCSeat0
    CanWin <- MCCanWin
    WinScores = {1}
    Chongci = FALSE
    Capped = FALSE
    StartingScore = 0
    BustThreshold = 0
    MaxHands = 0
    HandBound = 1
    MaxChain = 4
    WordSize = 1024
CONSTRAINT RedrawsBounded
CHECK_DEADLOCK FALSE
INVARIANTS
    TilesConserved
    ZeroSum
    SomebodyToAct
    ClaimsExecutable
PROPERTIES
    RonWins
    StealThenDiscard
    WallSpec
    TurnsSpec
