\* Two servers share the log; a file holds one line, and two rotated files stay.
SPECIFICATION AuditSpec
CONSTANTS
    p1 = p1
    p2 = p2
    Process = {p1, p2}
    Template <- MCTemplate
    RotateLines = 1
    RetainFiles = 2
    MaxEntry = 2
    MaxSecond = 2
SYMMETRY Symmetry
INVARIANTS
    AckedKept
    AuditsOn
    DigestsSound
