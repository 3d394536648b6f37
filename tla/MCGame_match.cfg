SPECIFICATION Spec
CONSTANTS
    WallLen = 22
    DealBlock = 1
    DiceSums = {2}
    Walls <- MCShortWalls
    DealerDraws <- MCSeat0
    CanWin <- MCCanWin
    WinScores = {1, 2}
    Chongci = TRUE
    Capped = TRUE
    StartingScore = 3
    BustThreshold = 0
    MaxHands = 2
    HandBound = 2
    MaxChain = 4
    WordSize = 1024
CONSTRAINT RedrawsBounded
CHECK_DEADLOCK FALSE
PROPERTIES
    MatchProceeds
