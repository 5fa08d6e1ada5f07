SPECIFICATION Spec
CONSTANTS
    p1 = p1
    p2 = p2
    Procs = {p1, p2}
    Hosts <- MCHosts
    OwnDirs <- MCOwnDirs
    Rest <- MCRest
    DefaultRest = "a"
    MaxEdits = 2
    MaxRuns = 2
SYMMETRY Symmetry
INVARIANTS
    TypeOK
    DirectoryAgrees
    CompletedRunIsFound
PROPERTY
    UnlockReachesTheHost
CHECK_DEADLOCK FALSE
