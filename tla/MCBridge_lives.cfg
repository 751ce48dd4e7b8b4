CONSTANTS
    Process = {p1, p2}
    Run = {r1, r2}
    None = None
SPECIFICATION Spec
SYMMETRY Symmetry
INVARIANTS SweepExact RefusedLeavesNothing CleanExit
\* Processes are started once: all have stopped in the end.
CHECK_DEADLOCK FALSE
