CONSTANTS
    Hosts = {h1, h2}
    FGs = {f}
    Movers = {h1}
    multNum = 1
    multDen = 1
    min_demand_bps = 0
    window = 1
    MaxTime = 2
    MaxRounds = 2
SPECIFICATION Spec
INVARIANT ChecksHold
CHECK_DEADLOCK FALSE
