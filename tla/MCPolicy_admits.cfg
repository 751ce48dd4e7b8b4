CONSTANTS
    host = host
    coder = coder
    interactive = interactive
    Call = {c1, c2, c3}
    AgentId = {host, coder}
    Host = host
    Parsed = {coder}
    Model = {}
    Dir = {root, outside}
    Inside = {root}
    FirstRoot = root
    Feature = {interactive}
    Interactive = interactive
    None = None
    File <- MCFile
    Minute = 2
    MaxTime = 3
SPECIFICATION Spec
SYMMETRY Symmetry
INVARIANTS RateBound NarrowsOnly
PROPERTY RefusedOnlyWhenFull
\* Every call is made at most once and the clock is bounded: the system stops.
CHECK_DEADLOCK FALSE
