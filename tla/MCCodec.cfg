CONSTANTS
    Configs <- Varied
    Letters <- Free
    Atoi <- Numerals
    NetOf <- Addresses
    IPv6 <- SixAddresses
SPECIFICATION Spec
INVARIANTS
    TypeOK
    TunnelLeadsToServer
    ValidatedComesUp
PROPERTY
    SavedIsLoaded
