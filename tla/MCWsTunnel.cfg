\* Two frames of the client and two messages of the upstream, of every kind, through a
\* channel of one place.
CONSTANTS
    Cap = 1
    MaxClient = 2
    MaxUp = 2
SPECIFICATION FairSpec
INVARIANT TypeOK
INVARIANT FifoToUpstream
INVARIANT ClientView
INVARIANT CloseIsFinal
PROPERTY TunnelIsPipe
PROPERTY LostSideEndsSession
PROPERTY SessionStopsTasks
PROPERTY DataSendBounded
CHECK_DEADLOCK FALSE
