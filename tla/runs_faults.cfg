\* One run under a request, a scheduler, two workers and three faults.
CONSTANTS
    s1 = s1
    u1 = u1
    r1 = r1
    r2 = r2
    r3 = r3
    w1 = w1
    w2 = w2
    Source = {s1}
    User = {u1}
    Owner <- OwnerU1
    Due = {s1}
    Run = {r1}
    SourceOf <- RunsOfS1
    Api = {a1}
    Scheduler = {p1}
    Worker = {w1, w2}
    NoSource = NoSource
    NoRun = NoRun
    MaxRetries = 1
    MaxFaults = 3
    SlowRuns = TRUE
SPECIFICATION FairSpec
INVARIANTS TypeOK NothingLost CommittedBeforeDispatch
PROPERTIES FinishedOnce FlightEnds
CHECK_DEADLOCK FALSE
