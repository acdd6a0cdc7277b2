\* A token that is presented again after it was rotated: its successor stays.
SPECIFICATION Spec
CONSTANTS
    u1 = u1  r1 = r1  r2 = r2  r3 = r3  r4 = r4  r5 = r5
    User = {u1}
    Request = {r1, r2, r3}
    Earlier = {r1}
    None = None
    Managed = TRUE
INVARIANTS ReuseRevokesFamily
CHECK_DEADLOCK FALSE
