CONSTANTS
    MaxBreaks = 2
    MaxAllocs = 1
SPECIFICATION FairMCSpec
INVARIANTS
    ConnectionsInv
PROPERTIES
    Reconnects HostsServed  WorkEnds
CHECK_DEADLOCK FALSE
