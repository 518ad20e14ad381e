\* Two tabs renew the code of one session while a student scans.
SPECIFICATION Spec
CONSTANTS
    Tabs = {b1, b2}
    Phones = {p1}
    Codes = {c1, c2, c3, c4, c5, c6}
    TTL = 6
    Poll = 5
    NULL = NULL
INVARIANTS
    TypeOK
    RefusedForGood
    DarkUnderTwoPeriods
SYMMETRY Interchangeable
