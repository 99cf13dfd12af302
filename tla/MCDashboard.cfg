\* Two other providers, with two announcements and with one; two requests, one at a time between
\* its counts.
CONSTANTS
    Peer = {p, q}
    Lists <- MCLists
    Join <- MCJoin
    Names <- MCNames
    MaxUndecided = 1
    MaxRequests = 2
SPECIFICATION DashFairSpec
INVARIANT DashTypeOK
INVARIANT StoreIsGenuine
INVARIANT GaugeNotAhead
INVARIANT SnapshotLag
PROPERTY GaugeCatchesUp
