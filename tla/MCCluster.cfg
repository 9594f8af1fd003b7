CONSTANTS
    Reactors = {r1, r2}
    MaxInfos = 1
    MaxBroadcasts = 2
    Workers = {"w1", "w2"}
    Groups = {"g1", "g2"}
    MaxTasks = 2
    Keys = {"k1", "k2", "k3"}
    Users = {"u1", "u2"}
    kSpanSize = 2
    kNumSpans = 3
    MaxOps = 2
    NumHosts = 2
    NumSteps = 2
    MaxSends = 1
SPECIFICATION MCSpec
INVARIANTS
    ReactorInv ThreadsInv
    PeriodInv
PROPERTIES
    WrittenInOrder
    PoolSpec
    MapSpec
CHECK_DEADLOCK FALSE
