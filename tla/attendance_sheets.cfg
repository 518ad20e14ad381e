\* Two requests at a time mark one class of two students in one session.
SPECIFICATION Spec
CONSTANTS
    Workers = {w1, w2}
    Sessions = {s1}
    Students = {m1, m2}
    Teachers = {t1}
    Owner <- MCOwner
    InGroup <- MCInGroup
    AbsenceIds = {a1, a2, a3, a4}
    CorrectionIds = {}
    RequestIds = {r1}
    Ops = {"tap", "bulk", "scan"}
    InitialAbsences <- NoAbsence
    InitialRequests <- NoRequest
    r1 = r1
    Free = Free
    Gone = Gone
    NULL = NULL
    Idle = Idle
    NoAnswer = NoAnswer
    m1 = m1
    t1 = t1
    s1 = s1
    s2 = s2
    a1 = a1
INVARIANTS
    TypeOK
    UniqueAbsence
PROPERTY
    EveryRequestAnswered
CHECK_DEADLOCK FALSE
