\* Administrators and imports write the same accounts, two requests at a time.
SPECIFICATION Spec
CONSTANTS
    Workers = {w1, w2}
    Ids = {1, 2, 3}
    Emails = {e1, e2, e3}
    Keys = {k1, k2}
    Groups = {g1, g2}
    e1 = e1
    e2 = e2
    e3 = e3
    k1 = k1
    k2 = k2
    g1 = g1
    g2 = g2
    Existing <- MCExisting
    Students <- MCStudents
    Staff <- MCStaff
    StudentFiles <- MCStudentFiles
    TeacherFiles <- MCTeacherFiles
    NULL = NULL
    Free = Free
    Idle = Idle
INVARIANTS
    TypeOK
    StudentsAreAcademic
PROPERTIES
    ImportKeepsIdentity
    AloneAgrees
    AdminRemains
SYMMETRY Symmetry
CHECK_DEADLOCK FALSE
