\* Two connections, three streams, one permit each: two streams wait at a
\* semaphore while their connection is lost.
CONSTANTS
    Conn = {c1, c2}
    Stream = {s1, s2, s3}
    MaxStreams = 1
    NoConn = NoConn
SPECIFICATION FairSpec
INVARIANT TypeOK
INVARIANT PermitsConserved
INVARIANT RequestsAccounted
PROPERTY CountersAreLedger
PROPERTY LostConnDrains
CHECK_DEADLOCK FALSE
