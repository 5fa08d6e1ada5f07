CONSTANTS
    MaxDraws = 4
    PartialWrites = FALSE
    LosableFiles <- OnlyThePub
SPECIFICATION Spec
INVARIANTS
    TypeOK
    KeysMatch
    PubCommits
PROPERTIES
    CompleteSetIsKept
    AtomicKeySpec
