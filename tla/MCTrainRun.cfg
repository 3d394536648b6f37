SPECIFICATION Spec
CONSTANTS
    Procs = {p1, p2}
    Libs = {a, b}
    Targets = {2, 3}
    StateEvery = 3
    Options <- MCOptions
    Invocations <- MCInvocations
    Older = TRUE
    MaxLaunches = 3
    MaxFaults = 1
    Rewind = FALSE
    None = None
INVARIANTS OneTrajectory OneLineage HistoryContiguous MadeAlike Recoverable
SYMMETRY MCSymmetry
CHECK_DEADLOCK FALSE
