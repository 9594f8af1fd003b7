CONSTANTS
    Flows = {f1, f2}
    WanFlows = {f1}
    Limits = {0, 2}
    kMaxBandwidthBps = 4
    min_rate_limit_bps = 1
    limit_hipri = TRUE
    limit_lopri = TRUE
    MaxCalls = 4
    MaxTcFailures = 0
    MaxIptFailures = 1
SPECIFICATION Spec
INVARIANT RolledBack
CHECK_DEADLOCK FALSE
