\* Two overlapping executions of sources of one company, with retries.
CONSTANTS
    s1 = s1
    s2 = s2
    x1 = x1
    x2 = x2
    j1 = j1
    j2 = j2
    Source = {s1, s2}
    CompanyOf <- OneCompany
    Execution = {x1, x2}
    SourceOf <- SourceOfExecution
    Posting <- Postings
    PageOf <- PagesOfEdits
    MaxPages = 2
    Attempts = 2
    JobId = {j1, j2}
    NoId = NoId
    NoJob = NoJob
SPECIFICATION FairSpec
INVARIANTS OneJobPerUrl TextIsLatest OneJobPerIdentity FinishedIsStored
PROPERTIES ProvenanceKept ExecutionEnds
CHECK_DEADLOCK FALSE
