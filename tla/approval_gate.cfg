SPECIFICATION Spec
SYMMETRY Symmetry
CONSTANTS
    p1 = p1
    a1 = a1
    a2 = a2
    t1 = t1
    t2 = t2
    c1 = c1
    c2 = c2
    NoProposal = NoProposal
    NoArrival = NoArrival
    NoEntry = NoEntry
    Proposals = {p1}
    Arrivals = {a1, a2}
    ProposalOf <- AllOfOne
    Taps = {t1, t2}
    Commands = {c1, c2}
    MaxRestarts = 1
    Conditions = {"send", "reply", "publish", "edit", "control", "crash", "hasty"}
INVARIANTS
    Inv
    StaysDecidable
    ShownVerdictIsTrue
    LastCommandStands
CHECK_DEADLOCK FALSE
