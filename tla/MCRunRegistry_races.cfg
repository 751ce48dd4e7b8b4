CONSTANTS
    RunId = {r1,r2,r3}
    Question = {q1}
    None = None
    Handler = {h1,h2}
    MaxLive = 2
    MaxContinuations = 1
SPECIFICATION Spec
SYMMETRY Symmetry
INVARIANTS OneSuccessor RecordNotLost SettledIsStopped ChainBound NoStrandedWaiter OnlyRestLeavesAChild
PROPERTIES IsSlotPool FirstSettledStateWins
\* Run ids and questions are finite sets here: the system stops when they are used up.
CHECK_DEADLOCK FALSE
