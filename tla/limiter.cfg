\* Four requests of one caller in two windows, with one loss of memory.
SPECIFICATION Spec
CONSTANTS
    r1 = r1  r2 = r2  r3 = r3  r4 = r4  k1 = k1
    Request = {r1, r2, r3, r4}
    Key = {k1}
    Kind = {"auth", "general"}
    Limit <- LimitTwoOne
    Window = 2
    FailOpen = TRUE
    MaxNow = 3
    MaxLosses = 1
INVARIANTS WithinLimit ExpiresUnlessBroken RefusedIsFull
SYMMETRY Symmetry
CHECK_DEADLOCK FALSE
