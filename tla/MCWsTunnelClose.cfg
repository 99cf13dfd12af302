SPECIFICATION Spec
CONSTANTS
    Cap = 1
    MaxClient = 1
    MaxUp = 1
INVARIANT
    CloseReachesUpstream
CHECK_DEADLOCK FALSE
