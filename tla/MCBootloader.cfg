CONSTANTS
    Nets <- TwoNets
    Lookalikes <- Gossip
    Plain <- OnePlain
    Entries <- TwoEntries
    InterruptUpdate = TRUE
    EditsFail = TRUE
    MaxRuns = 3
    MaxLine = 2
SPECIFICATION Spec
INVARIANTS
    TypeOK
    AtMostOneIP
    OnlyCutEditsBootWithoutIP
PROPERTY
    OtherParamsKept
CHECK_DEADLOCK FALSE
