\* Two requests at a time with a store that obeys: what one does by itself.
SPECIFICATION Spec
CONSTANTS
    Sessions = {s1, s2}
    Students = {m1}
    Days = {1, 2, 3}
    Day <- MCDay
    InGroup <- MCInGroup
    Free = Free
    Gone = Gone
    NULL = NULL
    Idle = Idle
    s1 = s1
    s2 = s2
    Workers = {w1, w2}
    Items = {j1, j2}
    Files = {f1, f2, f3}
    Ops = {"submit", "edit", "delete", "decide", "decide-all", "record", "strike"}
    Reliable = TRUE
PROPERTIES
    AloneMeetsNothing
    AloneLeavesNoOrphan
    AloneJustifiesByApproval
SYMMETRY Interchangeable
CHECK_DEADLOCK FALSE
