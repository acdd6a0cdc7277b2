\* A request and a worker, and no fault: an exception that execute_run does not
\* handle leaves the run "running".
CONSTANTS
    s1 = s1
    u1 = u1
    r1 = r1
    r2 = r2
    r3 = r3
    w1 = w1
    w2 = w2
    Source = {s1}
    User = {u1}
    Owner <- OwnerU1
    Due = {}
    Run = {r1}
    SourceOf <- RunsOfS1
    Api = {a1}
    Scheduler = {}
    Worker = {w1}
    NoSource = NoSource
    NoRun = NoRun
    MaxRetries = 1
    MaxFaults = 0
    SlowRuns = TRUE
SPECIFICATION FairSpec
PROPERTIES EveryRunEnds
CHECK_DEADLOCK FALSE
