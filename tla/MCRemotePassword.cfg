CONSTANTS
    Machines = {m1, m2}
    MaxRuns = 3
    MaxMoves = 2
SPECIFICATION Spec
INVARIANT
    WriteFileWritesContent
CHECK_DEADLOCK FALSE
