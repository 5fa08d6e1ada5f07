CONSTANTS
    c1 = c1
    c2 = c2
    k1 = k1
    k2 = k2
    NoCfg = NoCfg
    Configs = {c1, c2}
    Kernels = {k1}
    Servers <- AllServers
    MaxRuns = 3
    MaxFaults = 2
    MaxOps = 1
    Orphans = FALSE
SPECIFICATION FairSpec
PROPERTIES
    RetriesGetThrough
    OnlyFaultsFailARun
CHECK_DEADLOCK FALSE
