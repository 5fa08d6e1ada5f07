CONSTANTS
    MaxDials = 2
    MaxEvents = 2
    MaxRuns = 1
SPECIFICATION FairSpec
PROPERTY
    HandshakeEnds
CHECK_DEADLOCK FALSE
