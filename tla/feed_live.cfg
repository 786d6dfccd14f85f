SPECIFICATION FairFeedSpec
CONSTANTS
    w1 = w1
    w2 = w2
    Wallets = {w1, w2}
    InitialTable = {w1}
    SubBuffer = 1
    MaxRefreshes = 4
    MaxBreaks = 2
INVARIANTS
    FeedIsSound
PROPERTIES
    EventuallyWatched
CHECK_DEADLOCK FALSE
