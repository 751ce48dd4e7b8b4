CONSTANTS
    b1 = b1
    Bridge = {b1, b2}
    Client = {c1, c2}
    RunId = {r1, r2}
    Owner <- OneOwner
    None = None
SPECIFICATION ControlSpec
SYMMETRY Symmetry
INVARIANTS WatchersExact CommandArrives
\* Servers that are gone and commands that have returned are the end.
CHECK_DEADLOCK FALSE
