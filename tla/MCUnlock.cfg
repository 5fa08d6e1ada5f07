CONSTANTS
    MaxDials = 2
    MaxEvents = 4
    MaxRuns = 2
SPECIFICATION FairSpec
INVARIANTS
    TypeOK
    OneSessionPerConnection
    AtMostOneChange
    SuccessTellsTheTruth
PROPERTY
    InvocationEnds
CHECK_DEADLOCK FALSE
