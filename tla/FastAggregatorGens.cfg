SPECIFICATION Spec
CONSTANTS
    u1 = u1
    u2 = u2
    u3 = u3
    fa = fa
    fb = fb
    fz = fz
    Updaters <- TwoShardUpdaters
    HostId <- TwoShardHostId
    NumShards = 2
    Flows <- OneAndUnknown
    AggFlows <- OneAgg
    MaxUpdates <- OneEach
INVARIANT SnapshotHasGens
