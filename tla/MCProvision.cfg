CONSTANTS
    c1 = c1
    c2 = c2
    k1 = k1
    k2 = k2
    NoCfg = NoCfg
    Configs = {c1, c2}
    Kernels = {k1, k2}
    Servers <- PlainServer
    MaxRuns = 3
    MaxFaults = 1
    MaxOps = 2
    Orphans = TRUE
SPECIFICATION Spec
SYMMETRY Symmetry
INVARIANTS
    TypeOK
    CompleteMeansUnlockable
    RerunKeepsDeployedKeys
    CompleteMeansPrivate
PROPERTIES
    OnlyANewImageLocksOut
    PinIsInEveryImage
CHECK_DEADLOCK FALSE
