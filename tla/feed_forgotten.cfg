SPECIFICATION FairFeedSpec
CONSTANTS
    w1 = w1
    w2 = w2
    Wallets = {w1, w2}
    InitialTable = {w1}
    SubBuffer = 1
    MaxRefreshes = 1
    MaxBreaks = 0
PROPERTIES
    EventuallyForgotten
CHECK_DEADLOCK FALSE
