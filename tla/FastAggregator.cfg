SPECIFICATION Spec
CONSTANTS
    u1 = u1
    u2 = u2
    u3 = u3
    fa = fa
    fb = fb
    fz = fz
    Updaters <- OneShardUpdaters
    HostId <- OneShardHostId
    NumShards = 1
    Flows <- TwoAggs
    AggFlows <- TwoAggs
    MaxUpdates <- TwoEach
INVARIANTS RaceFree ExactlyOnce
SYMMETRY Symmetry
