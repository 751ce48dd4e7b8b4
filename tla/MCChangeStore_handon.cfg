CONSTANTS
    RunId = {r1,r2}
    Question = {}
    None = None
    Handler = {h1}
    Await = {}
    Operator = {}
SPECIFICATION Spec
PROPERTY WorkHandedOn
\* Run ids are a finite set here: the system stops when they are used up.
CHECK_DEADLOCK FALSE
