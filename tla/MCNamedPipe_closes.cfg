\* A reader, a writer, deadlines that move, the other end, and Close.
\* CHECK_DEADLOCK FALSE: a closed connection has nothing left to do.
SPECIFICATION PipeSpec
CONSTANTS
    MaxMoves = 2
    DeadlineDirs = {"read"}
INVARIANTS
    HandleSafe
    DeadlineExact
PROPERTY
    NothingHangs
CHECK_DEADLOCK FALSE
