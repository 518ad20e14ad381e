\* Pages are served while teachers record absences of two students.
SPECIFICATION Spec
CONSTANTS
    Readers = {r1, r2}
    Scenarios <- MCScenarios
    Sessions = {s1, s2, s3}
    Students = {m1, m2}
    Class <- MCClass
    Person <- MCPerson
    Folded <- MCFolded
    Warning = 1
    Maximum = 2
    Rows = 3
    Additions = 1
    Shared = {s2}
    Summarised = {s2}
    NULL = NULL
    Idle = Idle
    m1 = m1
    m2 = m2
    r1 = r1
    r2 = r2
    s1 = s1
    s2 = s2
    s3 = s3
    t1 = t1
    t2 = t2
INVARIANTS
    TypeOK
    ListMatchesHistory
    FiguresReconcile
SYMMETRY Interchangeable
CHECK_DEADLOCK FALSE
