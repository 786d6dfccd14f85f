SPECIFICATION FairSpec
CONSTANTS
    a1 = a1
    a2 = a2
    b1 = b1
    u1 = u1
    again1 = again1
    again2 = again2
    Logs = {a1, a2, b1, u1, again1, again2}
    Watched = {a1, a2, b1, again1, again2}
    Tx <- TxOf
    Index <- IndexOf
    Fill <- FillOf
    Inclusions <- InclusionsOf
    First <- FirstOf
    MaxBlock = 3
    Chunk = 2
    ReorgDepth = 2
    StreamLag = 1
    MaxFailures = 2
    MaxReorgs = 1
    Conditions = {"rpc", "publish", "save", "disconnect", "crash", "stop", "reorg", "fresh"}
INVARIANTS
    Inv
    WholeTrades
    EmittedOnce
PROPERTIES
    EveryTradePublished
CHECK_DEADLOCK FALSE
