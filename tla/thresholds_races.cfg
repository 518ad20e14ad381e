\* Taps, sheets and an administrator's save, two requests at a time.
SPECIFICATION Spec
CONSTANTS
    Workers = {w1, w2}
    Sessions = {s1, s2}
    Notes = {n1, n2, n3, n4}
    Default <- MCDefault
    Offered <- MCOffered
    Editors = 1
    Marks = {"absent", "present"}
    Ops = {"tap", "sheet", "get", "put"}
    Free = Free
    Gone = Gone
    NULL = NULL
    Idle = Idle
INVARIANTS
    TypeOK
PROPERTIES
    DefaultNeverOverwrites
    RecordedIsAbsent
SYMMETRY Interchangeable
CHECK_DEADLOCK FALSE
