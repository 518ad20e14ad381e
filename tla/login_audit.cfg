\* One request at a time, and a wrong password.
SPECIFICATION Spec
CONSTANTS
    Workers = {w1}
    Passwords = {p1, p2}
    Links = {l1}
    Idleness = 2
    AccessLife = 1
    RefreshLife = 4
    LinkLife = 2
    Refusals = 1
    Free = Free
    NULL = NULL
    Idle = Idle
PROPERTY
    RefusalIsLogged
