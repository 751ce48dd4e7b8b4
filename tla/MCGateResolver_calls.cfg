CONSTANTS
    RunId = {r1}
    Question = {c1, c2}
    None = None
    Operator = {o1}
    Await = {a1}
    MaxInFlight = 2
    MaxOpen = 1
    Impatient = TRUE
SPECIFICATION FairSpec
INVARIANTS AnswerDelivered GiveUpStopsRun RestAudited
PROPERTIES IsQuestionBox CallsEnd
\* The child makes one call per question name and the run does not come back: the system stops.
CHECK_DEADLOCK FALSE
