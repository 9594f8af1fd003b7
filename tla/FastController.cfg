SPECIFICATION Spec
CONSTANTS
    kNumChunks = 2
    kChunkSize = 2
    kFracsPerChunk = 1
    NumAggs = 2
    NumWorkers = 2
    l1 = l1
    l2 = l2
    l3 = l3
    Listeners = {l1, l2, l3}
    HostOf <- ThreeHostOf
    MaxGen = 1
    MaxRounds = 2
INVARIANTS ChildrenTrackRings ListenersCurrent ControllerInv
PROPERTY GenOfThisRound
CHECK_DEADLOCK FALSE
SYMMETRY Symmetry
