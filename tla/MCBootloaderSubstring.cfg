CONSTANTS
    Nets <- TwoNets
    Lookalikes <- Gossip
    Plain <- OnePlain
    Entries <- TwoEntries
    InterruptUpdate = FALSE
    EditsFail = FALSE
    MaxRuns = 1
    MaxLine = 2
SPECIFICATION Spec
INVARIANT
    CompleteBootsWithIP
CHECK_DEADLOCK FALSE
