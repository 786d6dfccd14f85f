SPECIFICATION Spec
CONSTANTS
    p1 = p1
    p2 = p2
    p3 = p3
    NoProposal = NoProposal
    Proposals = {p1, p2}
    Buys = {p1}
    Size <- TwoAndOnes
    ExecutionMode = "auto_below"
    CeilingUSD = 2
    MaxPerTrade = 2
    MaxPerDay = 2
    MaxOpenExposure = 2
    MaxDay = 2
    Faults = {"claim", "unclaim", "mark", "publish", "sign", "refuse", "network", "crash"}
INVARIANTS
    AtMostOnce
    LedgerIsExact
    AtRiskIsReserved
    SentIsClaimed
    ResultsAreTrue
PROPERTIES
    HaltHoldsBack
    ImplementsOncePlacement
