SPECIFICATION FairSpec
CONSTANTS
    Cap = 1
    MaxClient = 1
    MaxUp = 1
PROPERTY
    HardCapStopsTasks
CHECK_DEADLOCK FALSE
