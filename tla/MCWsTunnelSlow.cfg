SPECIFICATION FairSpec
CONSTANTS
    Cap = 1
    MaxClient = 2
    MaxUp = 1
PROPERTY
    SlowConsumerDisconnected
CHECK_DEADLOCK FALSE
