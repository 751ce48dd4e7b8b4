CONSTANTS
    MaxItems = 2
    PipeSize = 2
    Keep = 1
    Limit = 1
SPECIFICATION FairSpec
INVARIANTS KillsOwnGroup LeavesNobody WholeOutput
PROPERTIES TurnEnds DrainEnds
\* A run that has been reported is the end.
CHECK_DEADLOCK FALSE
