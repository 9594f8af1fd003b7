CONSTANTS
    f1 = f1
    f2 = f2
    Flows = {f1, f2}
    WanFlows = {f1}
    Limits = {0, 2}
    kMaxBandwidthBps = 4
    min_rate_limit_bps = 1
    limit_hipri = TRUE
    limit_lopri = TRUE
    MaxCalls = 3
    MaxTcFailures = 1
    MaxIptFailures = 1
SPECIFICATION MCSpec
INVARIANTS
    RulesHaveClasses NeverBelowBoth RatesEnforced SnapshotCurrent
    
    SetUpRight
    ProcessInv
    
    StatsInv
PROPERTIES
    OkIsTrue
CHECK_DEADLOCK FALSE
