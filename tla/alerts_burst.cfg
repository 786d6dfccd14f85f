SPECIFICATION Spec
SYMMETRY Symmetry
CONSTANTS
    f1 = f1
    f2 = f2
    f3 = f3
    v1 = v1
    v2 = v2
    NoFill = NoFill
    Fills = {f1, f2}
    Group <- GroupOf
    Workers = {v1, v2}
    QueueSize = 1
    DedupTTL = 4
    Cooldown = 2
    MaxTime = 5
    MaxDeliveries = 2
    MaxFailures = 1
    Conditions = {"reply", "ended", "positions", "drain"}
INVARIANTS
    OneAlertPerBurst
    Inv
    PositionIsAlerted
    CooldownIsEarned
CHECK_DEADLOCK FALSE
