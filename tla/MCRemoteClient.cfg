CONSTANTS
    Machines = {m1, m2}
    MaxRuns = 3
    MaxMoves = 2
SPECIFICATION Spec
INVARIANTS
    TypeOK
    RunsItsOwnScript
    OneMachinePerFile
CHECK_DEADLOCK FALSE
