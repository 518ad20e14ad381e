\* Two requests at a time: students ask, teachers approve and link, students scan.
SPECIFICATION CompensationSpec
CONSTANTS
    Workers = {w1, w2}
    Sessions = {s1, s2}
    Students = {m1}
    Teachers = {t1}
    Owner <- MCOwner
    InGroup <- MCInGroup
    AbsenceIds = {a1, a2, a3}
    CorrectionIds = {}
    RequestIds = {r1, r2}
    Ops = {"tap", "scan", "request", "approve", "reject", "link"}
    InitialAbsences <- OneAbsence
    InitialRequests <- NoRequest
    Offers <- Elsewhere
    Free = Free
    Gone = Gone
    NULL = NULL
    Idle = Idle
    NoAnswer = NoAnswer
    m1 = m1
    t1 = t1
    s1 = s1
    s2 = s2
    a1 = a1
INVARIANTS
    CompensationTypeOK
    ApprovedIsOnRoster
PROPERTIES
    TradedForApproval
SYMMETRY Interchangeable
CHECK_DEADLOCK FALSE
