----------------------------- MODULE JobCatalog -----------------------------
(***************************************************************************)
(* What an ingestion run stores: an adapter fetches the pages of a         *)
(* provider (with_retries repeats all of them), every record is normalized *)
(* and upserted into the catalog of jobs, which all users share.  Each     *)
(* upsert is a transaction at READ COMMITTED: two SELECTs look for the     *)
(* job, one flush writes, one refresh reads it back.                       *)
(*                                                                         *)
(* An execution is one call of execute_run.  Any of them may overlap: the  *)
(* runs of several sources do, those of one source as IngestionRuns tells. *)
(***************************************************************************)
EXTENDS Integers, Sequences

CONSTANTS
    Source,      \* rows of "sources", by primary key
    CompanyOf,   \* CompanyOf[s]: normalize_company of the source's name
    Execution,   \* calls of execute_run
    SourceOf,    \* SourceOf[x]: the source that execution x ingests
    Posting,     \* raw records: external id, URL, title, description
    PageOf,      \* PageOf[s]: what a page of the provider of s may contain
    MaxPages,    \* config["max_pages"]
    Attempts,    \* attempts of with_retries (3 in the code)
    JobId,       \* primary keys of "jobs"
    NoId,        \* no job
    NoJob        \* no row

Company == {CompanyOf[s] : s \in Source}

Url == {p.url : p \in Posting}

Title == {p.title : p \in Posting}

Text == {p.text : p \in Posting}

\* A page: the records it yields and how many entries are malformed.
Page == [records : Seq(Posting), malformed : Nat]

EmptyPage == [records |-> <<>>, malformed |-> 0]

Job == [company : Company, url : Url, title : Title, text : Text]

ASSUME CatalogAssumption ==
    /\ SourceOf \in [Execution -> Source]
    /\ PageOf \in [Source -> SUBSET Page]
    /\ MaxPages \in Nat
    /\ Attempts \in Nat \ {0}
    /\ NoId \notin JobId
    /\ NoJob \notin Job

VARIABLES
    sources,    \* rows of "sources"
    jobs,       \* jobs[j]: the row with primary key j
    records,    \* rows of "job_source_records", equal ones counted once
    exec,       \* exec[x]: where execution x is
    fetched,    \* fetched[x]: the list that its adapter has filled
    latest,     \* history: the posting of the last upsert of each job
    raced       \* history: what two executions have had in hand at once

vars == <<sources, jobs, records, exec, fetched, latest, raced>>

-----------------------------------------------------------------------------
Stored == {"succeeded", "partial"}

Ended == Stored \cup {"failed", "skipped", "dead"}

Pc == {"idle", "fetch", "find", "url", "write", "refresh"} \cup Ended

Record == [job : JobId, source : Source, ext : {p.ext : p \in Posting}]

Exec == [pc        : Pc,
         attempt   : 1..Attempts,          \* of with_retries
         page      : 1..MaxPages + 1,      \* page to be read next
         malformed : Nat,                  \* adapter.malformed_count
         next      : Nat \ {0},            \* record to be upserted
         seen      : JobId \cup {NoId},    \* job object held by the session ...
         loaded    : Job \cup {NoJob}]     \* ... and its attributes

\* What an execution may have in hand: an identity of its source, a URL of its
\* company, a job.
Claim ==
    [what : {"id"}, source : Source, ext : {p.ext : p \in Posting}]
      \cup [what : {"url"}, company : Company, url : Url]
      \cup [what : {"job"}, job : JobId]

TypeOK ==
    /\ sources \subseteq Source
    /\ jobs \in [JobId -> Job \cup {NoJob}]
    /\ records \subseteq Record
    /\ exec \in [Execution -> Exec]
    /\ fetched \in [Execution -> Seq(Posting)]
    /\ latest \in [JobId -> Posting \cup {NoJob}]
    /\ raced \subseteq Claim
    /\ \A x \in Execution :
         exec[x].pc \in {"url", "write", "refresh"} => exec[x].next <= Len(fetched[x])

IdleExec == [pc |-> "idle", attempt |-> 1, page |-> 1, malformed |-> 0, next |-> 1,
             seen |-> NoId, loaded |-> NoJob]

Init ==
    /\ sources = Source
    /\ jobs = [j \in JobId |-> NoJob]
    /\ records = {}
    /\ exec = [x \in Execution |-> IdleExec]
    /\ fetched = [x \in Execution |-> <<>>]
    /\ latest = [j \in JobId |-> NoJob]
    /\ raced = {}

-----------------------------------------------------------------------------
(* Helpers.                                                                *)

Active(x) == exec[x].pc \notin {"idle"} \cup Ended

\* The record being upserted by x, and the company of its source.
Candidate(x) == fetched[x][exec[x].next]

CompanyFor(x) == CompanyOf[SourceOf[x]]

IdClaim(x) == [what |-> "id", source |-> SourceOf[x], ext |-> Candidate(x).ext]

UrlClaim(x) == [what |-> "url", company |-> CompanyFor(x), url |-> Candidate(x).url]

JobClaim(j) == [what |-> "job", job |-> j]

\* What x has in hand: from the first SELECT to the commit the identity it
\* looks for, from the second one the URL of a job that it will insert, and
\* always the job object held by its session.
InHand(x) ==
    (IF exec[x].pc \in {"url", "write"} THEN {IdClaim(x)} ELSE {})
      \cup (IF exec[x].pc = "write" /\ exec[x].seen = NoId THEN {UrlClaim(x)} ELSE {})
      \cup (IF Active(x) /\ exec[x].seen # NoId THEN {JobClaim(exec[x].seen)} ELSE {})

\* The history after a SELECT of x.
Race(x) ==
    raced' = raced \cup {c \in InHand(x)' : \E y \in Execution \ {x} : c \in InHand(y)}

-----------------------------------------------------------------------------
(* Defective variants of definitions below, each with one plausible        *)
(* mistake.  They are no part of the specification.                        *)

\* SourceMatches that wants the URL to be the same as well.
SourceMatchesSameUrl(x) ==
    {r.job : r \in {q \in records : q.source = SourceOf[x] /\ q.ext = Candidate(x).ext
                                      /\ jobs[q.job].url = Candidate(x).url}}

\* UrlMatches among the jobs of the same source only.
UrlMatchesOwn(x) ==
    {j \in JobId : /\ jobs[j] # NoJob
                   /\ jobs[j].url = Candidate(x).url
                   /\ \E r \in records : r.source = SourceOf[x] /\ r.job = j}

\* Merge that tells a changed posting by its title.
MergeByTitle(x) ==
    LET old == jobs[exec[x].seen]
    IN  IF exec[x].loaded.title = Candidate(x).title THEN old
        ELSE [old EXCEPT !.text = Candidate(x).text, !.title = Candidate(x).title]

-----------------------------------------------------------------------------
(* Matching and merging.                                                   *)

\* Jobs found through a record with the candidate's external id, and jobs
\* with its URL and company.
SourceMatches(x) ==
    {r.job : r \in {q \in records : q.source = SourceOf[x] /\ q.ext = Candidate(x).ext}}

UrlMatches(x) ==
    {j \in JobId : jobs[j] # NoJob /\ jobs[j].url = Candidate(x).url
                                   /\ jobs[j].company = CompanyFor(x)}

\* A SELECT returns job j: the identity map answers with the object that the
\* session still holds, the last one upserted, and else the row is loaded.
Load(x, j, where) ==
    exec' = [exec EXCEPT ![x].pc = where, ![x].seen = j,
                         ![x].loaded = IF j = exec[x].seen THEN @ ELSE jobs[j]]

\* The row that is inserted for a candidate without match.
NewJob(x) == [company |-> CompanyFor(x), url |-> Candidate(x).url,
              title |-> Candidate(x).title, text |-> Candidate(x).text]

\* A different description hash makes the title and the description be
\* assigned; the UPDATE contains the columns that differ from what is loaded.
Merge(x) ==
    LET old == jobs[exec[x].seen]
    IN  IF exec[x].loaded.text = Candidate(x).text THEN old
        ELSE [old EXCEPT !.text = Candidate(x).text,
                         !.title = IF exec[x].loaded.title = Candidate(x).title
                                   THEN @ ELSE Candidate(x).title]

Provenance(x, j) == [job |-> j, source |-> SourceOf[x], ext |-> Candidate(x).ext]

-----------------------------------------------------------------------------
(* Defective variants of definitions below, each with one plausible        *)
(* mistake.  They are no part of the specification.                        *)

\* RefuseWrite that tries the same record again.
RefuseWriteAgain(x) ==
    /\ exec[x].pc = "write"
    /\ SourceOf[x] \notin sources
    /\ exec' = [exec EXCEPT ![x].pc = "find"]
    /\ UNCHANGED <<sources, jobs, records, fetched, latest, raced>>

\* Store that moves a job to the source that has offered it last.
StoreReplaces(x, j, row) ==
    /\ SourceOf[x] \in sources
    /\ jobs' = [jobs EXCEPT ![j] = row]
    /\ records' = {r \in records : r.job # j} \cup {Provenance(x, j)}
    /\ latest' = [latest EXCEPT ![j] = Candidate(x)]
    /\ UNCHANGED raced

\* Store that records the source of new jobs only.
StoreNewOnly(x, j, row) ==
    /\ SourceOf[x] \in sources
    /\ jobs' = [jobs EXCEPT ![j] = row]
    /\ records' = IF jobs[j] = NoJob THEN records \cup {Provenance(x, j)} ELSE records
    /\ latest' = [latest EXCEPT ![j] = Candidate(x)]
    /\ UNCHANGED raced

-----------------------------------------------------------------------------
(* Actions.                                                                *)

\* _run_ingestion finds the source and calls execute_run.
Start(x) ==
    /\ exec[x].pc = "idle"
    /\ SourceOf[x] \in sources
    /\ exec' = [exec EXCEPT ![x].pc = "fetch"]
    /\ UNCHANGED <<sources, jobs, records, fetched, latest, raced>>

\* The provider answers: its records are yielded one by one, an empty page is
\* the last one.
ReadPage(x) ==
    /\ exec[x].pc = "fetch"
    /\ exec[x].page <= MaxPages
    /\ \E p \in PageOf[SourceOf[x]] :
         /\ fetched' = [fetched EXCEPT ![x] = @ \o p.records]
         /\ exec' = [exec EXCEPT ![x].malformed = @ + p.malformed,
                                 ![x].page = IF p = EmptyPage THEN MaxPages + 1 ELSE @ + 1]
    /\ UNCHANGED <<sources, jobs, records, latest, raced>>

\* A retryable AdapterError: fetch starts again with page 1 and resets the
\* count of malformed entries; the records collected so far stay.
RetryFetch(x) ==
    /\ exec[x].pc = "fetch"
    /\ exec[x].page <= MaxPages
    /\ exec[x].attempt < Attempts
    /\ exec' = [exec EXCEPT ![x].attempt = @ + 1, ![x].page = 1, ![x].malformed = 0]
    /\ UNCHANGED <<sources, jobs, records, fetched, latest, raced>>

\* An AdapterError that is not retryable or the last one: finish_run stores
\* "failed", if the run has not been deleted with its source.
FailFetch(x) ==
    /\ exec[x].pc = "fetch"
    /\ exec[x].page <= MaxPages
    /\ exec' = [exec EXCEPT ![x].pc = "failed"]
    /\ UNCHANGED <<sources, jobs, records, fetched, latest, raced>>

\* get_run: nothing is stored for a run that has been deleted.
EndFetch(x) ==
    /\ exec[x].pc = "fetch"
    /\ exec[x].page > MaxPages
    /\ exec' = [exec EXCEPT ![x].pc = IF SourceOf[x] \in sources THEN "find" ELSE "skipped"]
    /\ UNCHANGED <<sources, jobs, records, fetched, latest, raced>>

\* find_existing, by the identity of the record in its source ...
FindBySource(x) ==
    /\ exec[x].pc = "find"
    /\ exec[x].next <= Len(fetched[x])
    /\ \/ \E j \in SourceMatches(x) : Load(x, j, "write")
       \/ /\ SourceMatches(x) = {}
          /\ exec' = [exec EXCEPT ![x].pc = "url"]
    /\ UNCHANGED <<sources, jobs, records, fetched, latest>>
    /\ Race(x)

\* ... or else by URL and company.
FindByUrl(x) ==
    /\ exec[x].pc = "url"
    /\ \/ \E j \in UrlMatches(x) : Load(x, j, "write")
       \/ /\ UrlMatches(x) = {}
          /\ exec' = [exec EXCEPT ![x].pc = "write", ![x].seen = NoId, ![x].loaded = NoJob]
    /\ UNCHANGED <<sources, jobs, records, fetched, latest>>
    /\ Race(x)

\* What the transaction of an upsert commits: a new or a merged job and the
\* record, which the foreign key ties to an existing source.
Store(x, j, row) ==
    /\ SourceOf[x] \in sources
    /\ jobs' = [jobs EXCEPT ![j] = row]
    /\ records' = records \cup {Provenance(x, j)}
    /\ latest' = [latest EXCEPT ![j] = Candidate(x)]
    /\ UNCHANGED raced

Upsert(x, where) ==
    /\ exec[x].pc = "write"
    /\ \/ \E j \in JobId :
            /\ exec[x].seen = NoId
            /\ jobs[j] = NoJob
            /\ Store(x, j, NewJob(x))
            /\ exec' = [exec EXCEPT ![x].pc = where, ![x].seen = j]
       \/ /\ exec[x].seen # NoId
          /\ Store(x, exec[x].seen, Merge(x))
          /\ exec' = [exec EXCEPT ![x].pc = where]
    /\ UNCHANGED <<sources, fetched>>

\* The flush and the commit of upsert.
Write(x) == Upsert(x, "refresh")

\* refresh_session loads the row as it is committed now.
Refresh(x) ==
    /\ exec[x].pc = "refresh"
    /\ exec' = [exec EXCEPT ![x].pc = "find", ![x].next = @ + 1,
                            ![x].loaded = jobs[exec[x].seen]]
    /\ UNCHANGED <<sources, jobs, records, fetched, latest, raced>>

\* finish_run stores "succeeded" or "partial"; the UPDATE of a run that has
\* been deleted raises.
Finish(x) ==
    /\ exec[x].pc = "find"
    /\ exec[x].next > Len(fetched[x])
    /\ exec' = [exec EXCEPT ![x].pc = IF SourceOf[x] \notin sources THEN "dead"
                                        ELSE IF exec[x].malformed > 0 THEN "partial" ELSE "succeeded"]
    /\ UNCHANGED <<sources, jobs, records, fetched, latest, raced>>

\* The foreign key refuses the record of a source that is gone.
RefuseWrite(x) ==
    /\ exec[x].pc = "write"
    /\ SourceOf[x] \notin sources
    /\ exec' = [exec EXCEPT ![x].pc = "dead"]
    /\ UNCHANGED <<sources, jobs, records, fetched, latest, raced>>

\* Any other exception, or the worker dies: an open transaction is rolled
\* back.
Break(x) ==
    /\ Active(x)
    /\ exec' = [exec EXCEPT ![x].pc = "dead"]
    /\ UNCHANGED <<sources, jobs, records, fetched, latest, raced>>

\* The same, when the transaction has been committed.
BreakAfterCommit(x) == Upsert(x, "dead")

\* A user is deleted, and with it its sources, their runs and their records.
DeleteSource(s) ==
    /\ s \in sources
    /\ sources' = sources \ {s}
    /\ records' = {r \in records : r.source # s}
    /\ UNCHANGED <<jobs, exec, fetched, latest, raced>>

Step(x) ==
    \/ ReadPage(x) \/ RetryFetch(x) \/ FailFetch(x) \/ EndFetch(x)
    \/ FindBySource(x) \/ FindByUrl(x) \/ Write(x) \/ RefuseWrite(x)
    \/ Refresh(x) \/ Finish(x)

Next ==
    \/ \E x \in Execution : Start(x) \/ Step(x) \/ Break(x) \/ BreakAfterCommit(x)
    \/ \E s \in Source : DeleteSource(s)

Spec == Init /\ [][Next]_vars

\* A worker that lives goes on: a provider that does not answer is a timeout,
\* which is a retryable AdapterError.
FairSpec == Spec /\ \A x \in Execution : WF_vars(Step(x))

-----------------------------------------------------------------------------
(* Properties.                                                             *)

\* A source's external id leads to one and the same job, however often the
\* record comes again and whatever breaks or overlaps (find_existing looks
\* before upsert inserts), unless two executions have been between the SELECT
\* and the commit with this identity at the same time.
OneJobPerIdentity ==
    \A q, r \in records :
        /\ q.source = r.source /\ q.ext = r.ext
        /\ [what |-> "id", source |-> r.source, ext |-> r.ext] \notin raced
        => q.job = r.job

\* URL and company identify a job, although no constraint of the database says
\* so, unless two executions have been about to insert a job with both at the
\* same time: overlapping runs of a company do no other harm.
OneJobPerUrl ==
    \A j, k \in JobId :
        /\ jobs[j] # NoJob /\ jobs[k] # NoJob
        /\ jobs[j].url = jobs[k].url /\ jobs[j].company = jobs[k].company
        /\ [what |-> "url", company |-> jobs[j].company, url |-> jobs[j].url] \notin raced
        => j = k

\* A job shows the description that was upserted last, whichever session held
\* which version of the row, unless two sessions have held it at the same time.
TextIsLatest ==
    \A j \in JobId : jobs[j] # NoJob /\ JobClaim(j) \notin raced => jobs[j].text = latest[j].text

\* A run that ends as succeeded or partial has stored every record of its
\* provider: each is found in the catalog, with a job of its company.
FinishedIsStored ==
    \A x \in Execution : exec[x].pc \in Stored /\ SourceOf[x] \in sources =>
        \A i \in 1..Len(fetched[x]) :
            \E r \in records : /\ r.source = SourceOf[x]
                               /\ r.ext = fetched[x][i].ext
                               /\ jobs[r.job] # NoJob
                               /\ jobs[r.job].company = CompanyFor(x)

\* A merge keeps the records of all sources, and no job disappears or becomes
\* one of another company or URL: only the deletion of a source takes records.
ProvenanceKept ==
    [][/\ \A r \in records : r.source \in sources' => r \in records'
       /\ \A j \in JobId : jobs[j] # NoJob =>
            /\ jobs'[j] # NoJob
            /\ jobs'[j].company = jobs[j].company
            /\ jobs'[j].url = jobs[j].url]_vars

\* Pages, retries and records are bounded: an execution that has started ends.
ExecutionEnds == \A x \in Execution : Active(x) ~> exec[x].pc \in Ended
=============================================================================
