SPECIFICATION Spec
CONSTANTS
    k1 = k1
    w = w
    Tokens = {k1}
    Trades <- MCTrades
    EndOf <- MCEndOf
    Listings <- MCListings
    Price <- MCPrice
    TokenTTL = 1
    Retention = 2
    CloseBuffer = 1
    CacheTTL = 1
    NegCacheTTL = 1
    NegTTL = 1
    MaxTime = 4
    MaxDeliveries = 2
    MaxFailures = 1
    MaxSpan = 1
PROPERTIES
    SettledIsFinal
    ClosesOnNearest
    EventuallySettled
CHECK_DEADLOCK FALSE
