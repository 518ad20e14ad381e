\* Corrections of an absence that is being made up for in another session.
SPECIFICATION Spec
CONSTANTS
    Workers = {w1, w2}
    Sessions = {s1, s2}
    Students = {m1}
    Teachers = {t1}
    Owner <- MCOwner
    InGroup <- MCInGroup
    AbsenceIds = {a1, a2, a3}
    CorrectionIds = {c1}
    RequestIds = {r1}
    Ops = {"tap", "scan", "correct", "review"}
    InitialAbsences <- OneAbsence
    InitialRequests <- ApprovedRequest
    r1 = r1
    Free = Free
    Gone = Gone
    NULL = NULL
    Idle = Idle
    NoAnswer = NoAnswer
    m1 = m1
    t1 = t1
    s1 = s1
    s2 = s2
    a1 = a1
INVARIANTS
    CorrectionsHaveRows
    TapAnswerIsStored
PROPERTIES
    NoResurrection
    ImplementsLedger
SYMMETRY Interchangeable
CHECK_DEADLOCK FALSE
