CONSTANTS
    RunId = {r1,r2}
    Question = {}
    None = None
    Handler = {h1}
    Await = {a1}
    Operator = {o1}
SPECIFICATION Spec
SYMMETRY Symmetry
INVARIANTS LiveKeepsWorkspace WorktreesReachable
\* Run ids are a finite set here: the system stops when they are used up.
CHECK_DEADLOCK FALSE
