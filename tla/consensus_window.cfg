SPECIFICATION Spec
SYMMETRY Symmetry
CONSTANTS
    Keys = {k1, k2}
    Wallets = {w1, w2, w3}
    MinWallets = 2
    Window = 1
    MaxTime = 3
    MaxFailures = 1
    Conditions = {"record", "publish", "crash"}
INVARIANTS
    Inv
    SignalIsReal
    CohortIsSignalled
PROPERTIES
    NeverRepeats
CHECK_DEADLOCK FALSE
