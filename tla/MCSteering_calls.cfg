CONSTANTS
    RunId = {r1}
    Question = {q1}
    None = None
    AgentCall = {a1, a2}
    OperatorCall = {o1}
    MaxAgentSteers = 1
    PipeSize = 1
SPECIFICATION FairSpec
INVARIANTS AgentBudget NoSilentSteer
PROPERTIES BlockedSteerEndsRun
\* A run that has been reported and calls that have returned are the end.
CHECK_DEADLOCK FALSE
