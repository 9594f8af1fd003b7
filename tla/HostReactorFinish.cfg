SPECIFICATION Spec
CONSTANTS
    Reactors = {r1}
    MaxInfos = 2
    MaxBroadcasts = 3
INVARIANT SingleFinish
CHECK_DEADLOCK FALSE
