SPECIFICATION BoardSpec
CONSTANTS
    a = a
    b = b
    c = c
    Wallets = {a, b, c}
    Window = "1d"
    CandidateTopK = 2
    MaxCandidates = 3
    PageSize = 4
    MaxActivity = 11
    FreshMinSamples = 4
    CusumK = 5
    CusumH = 10
    CusumClamp = 13
    ShrinkK = 3
    ClvFull = 4
    Criteria <- MCCriteria
    TopN = 2
    Address <- MCAddress
    Boards <- MCBoards
    Histories <- MCHistories
    Portfolio <- MCPortfolio
    ClvAnswers <- MCClvAnswers
    Concurrency = 2
    MaxRefreshes = 2
    MaxFaults = 2
INVARIANTS
    BoardIsSound
    RatingsAreSound
    SkillIsSound
PROPERTIES
    LeavesForAReason
    CLVNeverFlashes
CHECK_DEADLOCK FALSE
