SPECIFICATION Spec
CONSTANTS
    MaxBreaks = 1
    MaxAllocs = 1
INVARIANT EnforcedWasReceived
CHECK_DEADLOCK FALSE
