SPECIFICATION Spec
CONSTANTS
    RowCap = 5
    RangeCap = 400
    RRF_K = 60
    HardBytes = 7
    MaxBytes = 5
    MaxTokens = 3
    Word = 4
    BatchItems = 2
    TokenWindow = 5
    TokenLimits <- Ladder
    MaxRetries = 2
INVARIANTS
    DatesAreRight
    CitationsAreReal
    RankingIsFair
    ChunksAreWhole
CHECK_DEADLOCK FALSE
