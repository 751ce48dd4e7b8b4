CONSTANTS
    Watch = {w1}
    Cli = {c1, c2}
    MaxQuestions = 2
    MaxEvents = 2
SPECIFICATION PanelFairSpec
INVARIANTS AnswersWhatWasRead FeedComplete
PROPERTY PanelFollows
\* A pruned run that nobody watches is the end.
CHECK_DEADLOCK FALSE
