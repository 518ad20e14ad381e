SPECIFICATION Spec
CONSTANTS
    w1 = w1
    w2 = w2
    Workers = {w1, w2}
    t1 = t1
    t2 = t2
    Teachers = {t1, t2}
    lecture = lecture
    tutorial = tutorial
    Courses = {lecture, tutorial}
    Legacy <- MCLegacy
    DayOf <- MCDayOf
    SubjectOf <- MCSubjectOf
    GroupOf <- MCGroupOf
    Partial = {lecture}
    g1 = g1
    g2 = g2
    r1 = r1
    Rooms = {r1}
    Files <- MCFiles
    NULL = NULL
    Starts = {NULL, 10}
    Weeks = 1
    MockToday = 7
    Todays = {8}
    PlanIds = {1, 2, 3}
    SessionIds = {1, 2}
    Free = Free
    Idle = Idle
SYMMETRY Symmetry
INVARIANTS
    TypeOK
    OnPlannedDay
PROPERTIES
    ImportsAreWhole
    ImplementsCalendar
CHECK_DEADLOCK FALSE
