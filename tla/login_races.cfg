\* A user with two tabs, the reset links, an administrator and the clock.
SPECIFICATION Spec
CONSTANTS
    Workers = {w1, w2}
    Passwords = {p1, p2}
    Links = {l1}
    Idleness = 2
    AccessLife = 1
    RefreshLife = 4
    LinkLife = 2
    Refusals = 1
    Free = Free
    NULL = NULL
    Idle = Idle
INVARIANTS
    TypeOK
    StoredWasSent
PROPERTIES
    OnlyLoginReturns
    NothingUndone
    ResetOnce
SYMMETRY Symmetry
