\* Two schedulers and no request: the lock keeps three runs apart, although
\* three faults happen.
CONSTANTS
    s1 = s1
    u1 = u1
    r1 = r1
    r2 = r2
    r3 = r3
    w1 = w1
    w2 = w2
    Source = {s1}
    User = {u1}
    Owner <- OwnerU1
    Due = {s1}
    Run = {r1, r2, r3}
    SourceOf <- RunsOfS1
    Api = {}
    Scheduler = {p1, p2}
    Worker = {w1, w2}
    NoSource = NoSource
    NoRun = NoRun
    MaxRetries = 1
    MaxFaults = 3
    SlowRuns = FALSE
SPECIFICATION LockedSpec
SYMMETRY Interchangeable
INVARIANTS SingleFlight
PROPERTIES ImplementsSourceRuns
CHECK_DEADLOCK FALSE
