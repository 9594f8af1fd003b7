CONSTANTS
    kNumChunks = 4
    kChunkSize = 2
    kFracsPerChunk = 1
    Children = {0, 3, 6}
SPECIFICATION MCSpec
INVARIANTS
     SyncedTracksRing 
    SolversExact   RecordsComplete
    DemandInv
    
    SamplerInv
    

    
CHECK_DEADLOCK FALSE
