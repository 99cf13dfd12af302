\* Two frames of every kind and size around limits of three bytes.
CONSTANTS
    MAX_FRAME = 3
    MAX_WS_FRAME = 3
    Body <- MCBody
    CloseCode = {1001, 1006}
    OtherKind = {0, 3}
    MaxFrames = 2
SPECIFICATION FairSpec
INVARIANT TypeOK
INVARIANT VerdictIsRight
INVARIANT CloseCodesKept
PROPERTY CodecIsPipe
PROPERTY EndIsNoticed
CHECK_DEADLOCK FALSE
