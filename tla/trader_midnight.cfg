SPECIFICATION Spec
CONSTANTS
    p1 = p1
    p2 = p2
    p3 = p3
    NoProposal = NoProposal
    Proposals = {p1, p2}
    Buys = {p1, p2}
    Size <- OneEach
    ExecutionMode = "auto"
    CeilingUSD = 0
    MaxPerTrade = 1
    MaxPerDay = 1
    MaxOpenExposure = 3
    MaxDay = 2
    Faults = {"refuse"}
INVARIANTS
    DayCap
