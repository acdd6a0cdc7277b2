-------------------------- MODULE JobCatalog_proofs --------------------------
(***************************************************************************)
(* Theorems about JobCatalog, for any sources, postings, executions, pages *)
(* and attempts.                                                           *)
(***************************************************************************)
EXTENDS JobCatalog, TLAPS

-----------------------------------------------------------------------------
(* The inductive invariants.                                               *)

\* Rows that are referred to exist: by records, and by the job object of a
\* session that has found or stored one.
RowsExist ==
    /\ \A r \in records : jobs[r.job] # NoJob
    /\ \A x \in Execution :
         /\ exec[x].seen # NoId => jobs[exec[x].seen] # NoJob
         /\ exec[x].pc = "refresh" => exec[x].seen # NoId

TypeInv == TypeOK /\ RowsExist

-----------------------------------------------------------------------------
(* Type correctness.                                                       *)

\* The record being upserted is one that the provider has sent.
LEMMA CandidateType ==
    ASSUME TypeOK, NEW x \in Execution, exec[x].next <= Len(fetched[x])
    PROVE  /\ Candidate(x) \in Posting
           /\ Candidate(x).url \in Url
           /\ Candidate(x).title \in Title
           /\ Candidate(x).text \in Text
<1>1. exec[x].next \in Nat \ {0}
  BY DEF TypeOK, Exec
<1>2. exec[x].next \in 1..Len(fetched[x])
  BY <1>1 DEF TypeOK
<1>3. Candidate(x) \in Posting
  BY <1>2 DEF TypeOK, Candidate
<1> QED BY <1>3 DEF Url, Title, Text

\* The rows that an upsert writes are jobs of the source's company and of a
\* URL that does not change.
LEMMA RowType ==
    ASSUME TypeInv, NEW x \in Execution, exec[x].pc = "write"
    PROVE  /\ NewJob(x) \in Job
           /\ NewJob(x).company = CompanyFor(x)
           /\ exec[x].seen # NoId =>
                /\ exec[x].seen \in JobId
                /\ jobs[exec[x].seen] \in Job
                /\ Merge(x) \in Job
                /\ Merge(x).company = jobs[exec[x].seen].company
                /\ Merge(x).url = jobs[exec[x].seen].url
<1>1. /\ Candidate(x).url \in Url
      /\ Candidate(x).title \in Title
      /\ Candidate(x).text \in Text
  BY CandidateType DEF TypeInv, TypeOK
<1>2. CompanyFor(x) \in Company
  BY CatalogAssumption DEF CompanyFor, Company
<1>3. NewJob(x) \in Job /\ NewJob(x).company = CompanyFor(x)
  BY <1>1, <1>2 DEF NewJob, Job
<1>4. ASSUME exec[x].seen # NoId
      PROVE  exec[x].seen \in JobId /\ jobs[exec[x].seen] \in Job
  BY <1>4 DEF TypeInv, TypeOK, RowsExist, Exec
<1>5. ASSUME exec[x].seen # NoId
      PROVE  /\ Merge(x) \in Job
             /\ Merge(x).company = jobs[exec[x].seen].company
             /\ Merge(x).url = jobs[exec[x].seen].url
  BY <1>1, <1>4, <1>5 DEF Merge, Job
<1> QED BY <1>3, <1>4, <1>5

\* What an execution has in hand has the type of a claim.
LEMMA InHandType ==
    ASSUME TypeInv, NEW x \in Execution
    PROVE  InHand(x) \subseteq Claim
<1>1. exec[x] \in Exec /\ SourceOf[x] \in Source /\ CompanyFor(x) \in Company
  BY CatalogAssumption DEF TypeInv, TypeOK, CompanyFor, Company
<1>2. exec[x].pc \in {"url", "write"} => Candidate(x) \in Posting /\ Candidate(x).url \in Url
  BY CandidateType DEF TypeInv, TypeOK
<1>3. exec[x].pc \in {"url", "write"} => IdClaim(x) \in Claim /\ UrlClaim(x) \in Claim
  BY <1>1, <1>2 DEF IdClaim, UrlClaim, Claim
<1>4. exec[x].seen # NoId => JobClaim(exec[x].seen) \in Claim
  BY <1>1 DEF JobClaim, Claim, Exec
<1> QED BY <1>3, <1>4 DEF InHand

\* The history is one of claims.
LEMMA RacedType ==
    ASSUME TypeInv, [Next]_vars
    PROVE  raced' \subseteq Claim
<1>1. ASSUME NEW x \in Execution, Race(x) PROVE raced' \subseteq Claim
  BY <1>1, InHandType DEF Race, TypeInv, TypeOK
<1>2. CASE UNCHANGED raced
  BY <1>2 DEF TypeInv, TypeOK
<1>3. ASSUME NEW x \in Execution, Write(x) \/ BreakAfterCommit(x) PROVE UNCHANGED raced
  BY <1>3 DEF Write, BreakAfterCommit, Upsert, Store
<1>4. ASSUME NEW x \in Execution, FindBySource(x) \/ FindByUrl(x) PROVE Race(x)
  BY <1>4 DEF FindBySource, FindByUrl
<1>5. ASSUME NEW x \in Execution,
             \/ Start(x) \/ ReadPage(x) \/ RetryFetch(x) \/ FailFetch(x) \/ EndFetch(x)
             \/ RefuseWrite(x) \/ Refresh(x) \/ Finish(x) \/ Break(x)
      PROVE  UNCHANGED raced
  BY <1>5 DEF Start, ReadPage, RetryFetch, FailFetch, EndFetch, RefuseWrite, Refresh, Finish, Break
<1>6. CASE (\E s \in Source : DeleteSource(s)) \/ UNCHANGED vars
  BY <1>2, <1>6 DEF DeleteSource, vars
<1> QED BY <1>1, <1>2, <1>3, <1>4, <1>5, <1>6 DEF Next, Step

\* Every step of an execution that leaves the rows alone.
LEMMA QuietStep ==
    ASSUME TypeInv, NEW x \in Execution,
           UNCHANGED <<sources, jobs, records, latest>>, raced' \subseteq Claim,
           NEW e \in Exec,
           exec' = [exec EXCEPT ![x] = e],
           fetched' = fetched,
           e.pc \in {"url", "write", "refresh"} => e.next <= Len(fetched[x]),
           e.seen # NoId => jobs[e.seen] # NoJob,
           e.pc = "refresh" => e.seen # NoId
    PROVE  TypeInv'
<1>1. exec' \in [Execution -> Exec]
  BY DEF TypeInv, TypeOK
<1>2. exec'[x] = e /\ \A y \in Execution : y # x => exec'[y] = exec[y]
  BY DEF TypeInv, TypeOK
<1>3. TypeOK'
  BY <1>1, <1>2 DEF TypeInv, TypeOK
<1>4. RowsExist'
  BY <1>2 DEF TypeInv, RowsExist
<1> QED BY <1>3, <1>4 DEF TypeInv

\* A SELECT that finds a job loads one that exists.
LEMMA LoadStep ==
    ASSUME TypeInv, NEW x \in Execution, NEW j \in JobId, jobs[j] # NoJob,
           Load(x, j, "write"), exec[x].next <= Len(fetched[x]),
           UNCHANGED <<sources, jobs, records, fetched, latest>>, raced' \subseteq Claim
    PROVE  TypeInv'
<1> DEFINE e == [exec[x] EXCEPT !.pc = "write", !.seen = j,
                   !.loaded = IF j = exec[x].seen THEN exec[x].loaded ELSE jobs[j]]
<1>1. exec[x] \in Exec /\ jobs[j] \in Job \cup {NoJob}
  BY DEF TypeInv, TypeOK
<1>2. e \in Exec
  BY <1>1 DEF Exec, Pc
<1>3. e.pc = "write" /\ e.seen = j /\ e.next = exec[x].next
  BY <1>1 DEF Exec
<1>4. exec' = [exec EXCEPT ![x] = e]
  BY <1>1 DEF Load, TypeInv, TypeOK, Exec
<1> QED BY <1>2, <1>3, <1>4, QuietStep

\* A SELECT by source returns a job of a record.
LEMMA SourceMatchExists ==
    ASSUME TypeInv, NEW x \in Execution, NEW j \in SourceMatches(x)
    PROVE  j \in JobId /\ jobs[j] # NoJob
BY DEF SourceMatches, TypeInv, TypeOK, RowsExist, Record

\* The transaction of an upsert.
LEMMA UpsertStep ==
    ASSUME TypeInv, NEW x \in Execution, NEW where \in {"refresh", "dead"}, Upsert(x, where)
    PROVE  /\ TypeInv'
           /\ \A k \in JobId : jobs[k] # NoJob =>
                /\ jobs'[k] # NoJob
                /\ jobs'[k].company = jobs[k].company
                /\ jobs'[k].url = jobs[k].url
<1>1. exec[x].pc = "write" /\ exec[x] \in Exec /\ exec \in [Execution -> Exec]
  BY DEF Upsert, TypeInv, TypeOK
<1>2. exec[x].next <= Len(fetched[x]) /\ Candidate(x) \in Posting
  BY <1>1, CandidateType DEF TypeInv, TypeOK
<1>3. PICK j \in JobId, row \in Job :
        /\ Store(x, j, row)
        /\ exec' = [exec EXCEPT ![x].pc = where, ![x].seen = j]
        /\ jobs[j] # NoJob => row.company = jobs[j].company /\ row.url = jobs[j].url
  <2>1. CASE exec[x].seen = NoId
    <3>1. PICK j \in JobId :
            /\ jobs[j] = NoJob
            /\ Store(x, j, NewJob(x))
            /\ exec' = [exec EXCEPT ![x].pc = where, ![x].seen = j]
      BY <2>1 DEF Upsert
    <3> QED BY <1>1, <3>1, RowType
  <2>2. CASE exec[x].seen # NoId
    <3>1. /\ Store(x, exec[x].seen, Merge(x))
          /\ exec' = [exec EXCEPT ![x].pc = where]
      BY <2>2 DEF Upsert
    <3>2. exec' = [exec EXCEPT ![x].pc = where, ![x].seen = exec[x].seen]
      BY <1>1, <3>1 DEF Exec
    <3> QED BY <1>1, <2>2, <3>1, <3>2, RowType
  <2> QED BY <2>1, <2>2
<1> DEFINE e == [exec[x] EXCEPT !.pc = where, !.seen = j]
<1>4. e \in Exec /\ e.pc = where /\ e.seen = j /\ e.next = exec[x].next
  BY <1>1 DEF Exec, Pc, Ended
<1>5. exec' = [exec EXCEPT ![x] = e]
  BY <1>1, <1>3 DEF Exec
<1>6. exec' \in [Execution -> Exec] /\ exec'[x] = e
      /\ \A y \in Execution : y # x => exec'[y] = exec[y]
  BY <1>1, <1>4, <1>5
<1>7. jobs \in [JobId -> Job \cup {NoJob}] /\ jobs' = [jobs EXCEPT ![j] = row]
  BY <1>3 DEF Store, TypeInv, TypeOK
<1>8. jobs' \in [JobId -> Job \cup {NoJob}]
      /\ \A k \in JobId : jobs[k] # NoJob =>
           /\ jobs'[k] # NoJob
           /\ jobs'[k].company = jobs[k].company
           /\ jobs'[k].url = jobs[k].url
  BY <1>3, <1>7, CatalogAssumption
<1>9. jobs'[j] # NoJob
  BY <1>3, <1>7, CatalogAssumption
<1>10. Provenance(x, j) \in Record
  BY <1>2, CatalogAssumption DEF Provenance, Record
<1>11. records' \subseteq Record /\ records' = records \cup {Provenance(x, j)}
  BY <1>3, <1>10 DEF Store, TypeInv, TypeOK
<1>12. latest' \in [JobId -> Posting \cup {NoJob}] /\ raced' \subseteq Claim
  BY <1>2, <1>3 DEF Store, TypeInv, TypeOK
<1>13. UNCHANGED <<sources, fetched>>
  BY DEF Upsert
<1>14. TypeOK'
  BY <1>2, <1>4, <1>6, <1>8, <1>11, <1>12, <1>13 DEF TypeInv, TypeOK
<1>15. RowsExist'
  <2>1. \A r \in records' : jobs'[r.job] # NoJob
    BY <1>8, <1>9, <1>11 DEF TypeInv, TypeOK, RowsExist, Record, Provenance
  <2>2. ASSUME NEW y \in Execution
        PROVE  /\ exec'[y].seen # NoId => jobs'[exec'[y].seen] # NoJob
               /\ exec'[y].pc = "refresh" => exec'[y].seen # NoId
    <3>1. CASE y = x
      BY <1>4, <1>6, <1>9, <3>1, CatalogAssumption
    <3>2. CASE y # x
      <4>1. exec'[y] = exec[y] /\ exec[y].seen \in JobId \cup {NoId}
        BY <1>1, <1>6, <3>2 DEF Exec
      <4> QED BY <1>8, <4>1 DEF TypeInv, RowsExist
    <3> QED BY <3>1, <3>2
  <2> QED BY <2>1, <2>2 DEF RowsExist
<1> QED BY <1>8, <1>14, <1>15 DEF TypeInv

\* Every step preserves the types and the existence of rows.
LEMMA TypeStep == TypeInv /\ [Next]_vars => TypeInv'
<1> SUFFICES ASSUME TypeInv, [Next]_vars
             PROVE  TypeInv'
  OBVIOUS
<1>0. exec \in [Execution -> Exec] /\ \A x \in Execution : exec[x] \in Exec
  BY DEF TypeInv, TypeOK
<1>r. raced' \subseteq Claim
  BY RacedType
<1>1. ASSUME NEW x \in Execution, Start(x)
      PROVE  TypeInv'
  <2> DEFINE e == [exec[x] EXCEPT !.pc = "fetch"]
  <2>1. e \in Exec /\ e.pc = "fetch" /\ e.seen = exec[x].seen
    BY <1>0 DEF Exec, Pc
  <2>2. exec' = [exec EXCEPT ![x] = e]
    BY <1>0, <1>1 DEF Start
  <2>5. e.seen # NoId => jobs[e.seen] # NoJob
    BY <2>1 DEF TypeInv, RowsExist
  <2>6. UNCHANGED <<sources, jobs, records, fetched, latest>>
    BY <1>1 DEF Start
  <2> HIDE DEF e
  <2> QED BY <2>1, <2>2, <2>5, <2>6, <1>r, QuietStep
<1>2. ASSUME NEW x \in Execution, ReadPage(x)
      PROVE  TypeInv'
  <2>1. PICK p \in PageOf[SourceOf[x]] :
          /\ fetched' = [fetched EXCEPT ![x] = @ \o p.records]
          /\ exec' = [exec EXCEPT ![x].malformed = @ + p.malformed,
                                  ![x].page = IF p = EmptyPage THEN MaxPages + 1 ELSE @ + 1]
    BY <1>2 DEF ReadPage
  <2> DEFINE last == IF p = EmptyPage THEN MaxPages + 1 ELSE exec[x].page + 1
             e == [exec[x] EXCEPT !.malformed = exec[x].malformed + p.malformed,
                                  !.page = last]
  <2>2. p.records \in Seq(Posting) /\ p.malformed \in Nat
    BY CatalogAssumption DEF Page
  <2>3. last \in 1..MaxPages + 1 /\ exec[x].malformed + p.malformed \in Nat
    BY <1>0, <1>2, <2>2, CatalogAssumption DEF ReadPage, Exec
  <2>4. e \in Exec /\ e.pc = "fetch" /\ e.seen = exec[x].seen
    <3> DEFINE m == exec[x].malformed + p.malformed
    <3>1. exec[x] \in Exec /\ exec[x].pc = "fetch" /\ last \in 1..MaxPages + 1 /\ m \in Nat
      BY <1>0, <1>2, <2>3 DEF ReadPage
    <3> HIDE DEF last, m
    <3>2. [exec[x] EXCEPT !.malformed = m, !.page = last] \in Exec
      BY <3>1 DEF Exec
    <3> QED BY <3>1, <3>2 DEF m, Exec
  <2>5. exec' = [exec EXCEPT ![x] = e]
    BY <1>0, <2>1
  <2>6. /\ exec' \in [Execution -> Exec] /\ exec'[x] = e
        /\ \A y \in Execution : y # x => exec'[y] = exec[y]
    BY <1>0, <2>4, <2>5
  <2>7. /\ fetched' \in [Execution -> Seq(Posting)]
        /\ \A y \in Execution : y # x => fetched'[y] = fetched[y]
    BY <2>1, <2>2 DEF TypeInv, TypeOK
  <2> HIDE DEF e
  <2>8. TypeOK'
    BY <1>2, <1>r, <2>4, <2>6, <2>7 DEF ReadPage, TypeInv, TypeOK
  <2>9. RowsExist'
    BY <1>2, <2>4, <2>6 DEF ReadPage, TypeInv, RowsExist
  <2> QED BY <2>8, <2>9 DEF TypeInv
<1>3. ASSUME NEW x \in Execution, RetryFetch(x)
      PROVE  TypeInv'
  <2> DEFINE e == [exec[x] EXCEPT !.attempt = exec[x].attempt + 1, !.page = 1,
                                  !.malformed = 0]
  <2>1. exec[x].attempt + 1 \in 1..Attempts /\ 1 \in 1..MaxPages + 1
    BY <1>0, <1>3, CatalogAssumption DEF RetryFetch, Exec
  <2>2. Len(fetched[x]) \in Nat
    BY DEF TypeInv, TypeOK
  <2>3. e \in Exec /\ e.pc = "fetch" /\ e.seen = exec[x].seen
    BY <1>0, <1>3, <2>1, <2>2 DEF RetryFetch, Exec
  <2>4. exec' = [exec EXCEPT ![x] = e]
    BY <1>0, <1>3 DEF RetryFetch
  <2>5. e.seen # NoId => jobs[e.seen] # NoJob
    BY <2>3 DEF TypeInv, RowsExist
  <2>6. UNCHANGED <<sources, jobs, records, fetched, latest>>
    BY <1>3 DEF RetryFetch
  <2> HIDE DEF e
  <2> QED BY <2>3, <2>4, <2>5, <2>6, <1>r, QuietStep
<1>4. ASSUME NEW x \in Execution, NEW pc \in {"find", "url"} \cup Ended,
             exec' = [exec EXCEPT ![x].pc = pc],
             pc = "url" => exec[x].next <= Len(fetched[x]),
             UNCHANGED <<sources, jobs, records, fetched, latest>>
      PROVE  TypeInv'
  <2> DEFINE e == [exec[x] EXCEPT !.pc = pc]
  <2>1. e \in Exec /\ e.pc = pc /\ e.seen = exec[x].seen /\ e.next = exec[x].next
    BY <1>0 DEF Exec, Pc
  <2>2. pc \notin {"write", "refresh"}
    BY DEF Ended, Stored
  <2>3. exec' = [exec EXCEPT ![x] = e]
    BY <1>0, <1>4
  <2>4. e.seen # NoId => jobs[e.seen] # NoJob
    BY <2>1 DEF TypeInv, RowsExist
  <2> HIDE DEF e
  <2> QED BY <1>4, <2>1, <2>2, <2>3, <2>4, <1>r, QuietStep
<1>5. ASSUME NEW x \in Execution, FindBySource(x)
      PROVE  TypeInv'
  <2>1. CASE \E j \in SourceMatches(x) : Load(x, j, "write")
    BY <1>5, <2>1, <1>r, LoadStep, SourceMatchExists DEF FindBySource
  <2>2. CASE exec' = [exec EXCEPT ![x].pc = "url"]
    BY <1>4, <1>5, <2>2 DEF FindBySource
  <2> QED BY <1>5, <2>1, <2>2 DEF FindBySource
<1>6. ASSUME NEW x \in Execution, FindByUrl(x)
      PROVE  TypeInv'
  <2>0. exec[x].next <= Len(fetched[x])
    BY <1>6 DEF FindByUrl, TypeInv, TypeOK
  <2>1. CASE \E j \in UrlMatches(x) : Load(x, j, "write")
    BY <1>6, <2>0, <2>1, <1>r, LoadStep DEF FindByUrl, UrlMatches
  <2>2. CASE exec' = [exec EXCEPT ![x].pc = "write", ![x].seen = NoId, ![x].loaded = NoJob]
    <3> DEFINE e == [exec[x] EXCEPT !.pc = "write", !.seen = NoId, !.loaded = NoJob]
    <3>1. e \in Exec /\ e.pc = "write" /\ e.seen = NoId /\ e.next = exec[x].next
      BY <1>0 DEF Exec, Pc
    <3>2. exec' = [exec EXCEPT ![x] = e]
      BY <1>0, <2>2
    <3> QED BY <1>6, <2>0, <3>1, <3>2, <1>r, QuietStep DEF FindByUrl
  <2> QED BY <1>6, <2>1, <2>2 DEF FindByUrl
<1>7. ASSUME NEW x \in Execution, Refresh(x)
      PROVE  TypeInv'
  <2> DEFINE e == [exec[x] EXCEPT !.pc = "find", !.next = exec[x].next + 1,
                                  !.loaded = jobs[exec[x].seen]]
  <2>1. exec[x].seen \in JobId /\ exec[x].seen # NoId
    BY <1>0, <1>7 DEF Refresh, TypeInv, RowsExist, Exec
  <2>2. jobs[exec[x].seen] \in Job \cup {NoJob} /\ exec[x].next + 1 \in Nat \ {0}
    BY <1>0, <2>1 DEF TypeInv, TypeOK, Exec
  <2>3. e \in Exec /\ e.pc = "find" /\ e.seen = exec[x].seen
    BY <1>0, <2>2 DEF Exec, Pc
  <2>4. exec' = [exec EXCEPT ![x] = e]
    BY <1>0, <1>7 DEF Refresh
  <2>5. e.seen # NoId => jobs[e.seen] # NoJob
    BY <2>3 DEF TypeInv, RowsExist
  <2>6. UNCHANGED <<sources, jobs, records, fetched, latest>>
    BY <1>7 DEF Refresh
  <2> HIDE DEF e
  <2> QED BY <2>3, <2>4, <2>5, <2>6, <1>r, QuietStep
<1>8. ASSUME NEW s \in Source, DeleteSource(s)
      PROVE  TypeInv'
  BY <1>8 DEF DeleteSource, TypeInv, TypeOK, RowsExist
<1>9. ASSUME NEW x \in Execution,
             FailFetch(x) \/ EndFetch(x) \/ RefuseWrite(x) \/ Finish(x) \/ Break(x)
      PROVE  TypeInv'
  BY <1>4, <1>9 DEF FailFetch, EndFetch, RefuseWrite, Finish, Break, Ended, Stored
<1>10. ASSUME NEW x \in Execution, Write(x) \/ BreakAfterCommit(x)
       PROVE  TypeInv'
  BY <1>10, UpsertStep DEF Write, BreakAfterCommit
<1>11. CASE UNCHANGED vars
  BY <1>11 DEF vars, TypeInv, TypeOK, RowsExist
<1> QED BY <1>1, <1>2, <1>3, <1>5, <1>6, <1>7, <1>8, <1>9, <1>10, <1>11 DEF Next, Step

LEMMA TypeInit == Init => TypeInv
<1> SUFFICES ASSUME Init PROVE TypeInv
  OBVIOUS
<1>1. IdleExec \in Exec /\ IdleExec.pc = "idle" /\ IdleExec.seen = NoId
  BY CatalogAssumption DEF IdleExec, Exec, Pc
<1> QED BY <1>1 DEF Init, TypeInv, TypeOK, RowsExist

\* The types, whatever providers send and whatever breaks.
THEOREM CatalogTypeCorrect == Spec => []TypeOK
<1>1. Spec => []TypeInv
  BY TypeInit, TypeStep, PTL DEF Spec
<1> QED BY <1>1, PTL DEF TypeInv

-----------------------------------------------------------------------------
(* Provenance.                                                             *)

\* Jobs stay what they are, and records stay unless their source goes.
LEMMA StepKeeps ==
    ASSUME TypeInv, [Next]_vars
    PROVE  /\ \A r \in records : r.source \in sources' => r \in records'
           /\ \A j \in JobId : jobs[j] # NoJob =>
                /\ jobs'[j] # NoJob
                /\ jobs'[j].company = jobs[j].company
                /\ jobs'[j].url = jobs[j].url
<1>1. ASSUME NEW x \in Execution, Write(x) \/ BreakAfterCommit(x)
      PROVE  /\ records \subseteq records'
             /\ \A j \in JobId : jobs[j] # NoJob =>
                  /\ jobs'[j] # NoJob
                  /\ jobs'[j].company = jobs[j].company
                  /\ jobs'[j].url = jobs[j].url
  <2>1. PICK where \in {"refresh", "dead"} : Upsert(x, where)
    BY <1>1 DEF Write, BreakAfterCommit
  <2>2. records \subseteq records'
    BY <2>1 DEF Upsert, Store
  <2> QED BY <2>1, <2>2, UpsertStep
<1>2. ASSUME NEW s \in Source, DeleteSource(s)
      PROVE  /\ \A r \in records : r.source \in sources' => r \in records'
             /\ jobs' = jobs
  BY <1>2 DEF DeleteSource
<1>3. ASSUME NEW x \in Execution,
             \/ Start(x) \/ ReadPage(x) \/ RetryFetch(x) \/ FailFetch(x) \/ EndFetch(x)
             \/ FindBySource(x) \/ FindByUrl(x) \/ RefuseWrite(x) \/ Refresh(x)
             \/ Finish(x) \/ Break(x)
      PROVE  records' = records /\ jobs' = jobs
  BY <1>3 DEF Start, ReadPage, RetryFetch, FailFetch, EndFetch, FindBySource, FindByUrl,
              RefuseWrite, Refresh, Finish, Break
<1>4. CASE UNCHANGED vars
  BY <1>4 DEF vars
<1>5. CASE \E x \in Execution : Write(x) \/ BreakAfterCommit(x)
  BY <1>1, <1>5
<1>6. CASE \E s \in Source : DeleteSource(s)
  BY <1>2, <1>6
<1> QED BY <1>3, <1>4, <1>5, <1>6 DEF Next, Step

\* Merging never takes a record from another source, and never turns a job
\* into one of another company or URL.
THEOREM MergesKeepProvenance == Spec => ProvenanceKept
<1>1. TypeInv /\ [Next]_vars =>
        [/\ \A r \in records : r.source \in sources' => r \in records'
         /\ \A j \in JobId : jobs[j] # NoJob =>
              /\ jobs'[j] # NoJob
              /\ jobs'[j].company = jobs[j].company
              /\ jobs'[j].url = jobs[j].url]_vars
  BY StepKeeps
<1> QED BY <1>1, TypeInit, TypeStep, PTL DEF Spec, ProvenanceKept

-----------------------------------------------------------------------------
(* A finished run has stored what it has fetched.                          *)

IsRecorded(x, i) ==
    \E r \in records : r.source = SourceOf[x] /\ r.ext = fetched[x][i].ext

\* The source of a record is one of the job's company.
CompanyAgrees == \A r \in records : jobs[r.job].company = CompanyOf[r.source]

\* A job that has been found is one of the company.
FoundFits ==
    \A x \in Execution : exec[x].pc = "write" /\ exec[x].seen # NoId =>
        jobs[exec[x].seen].company = CompanyFor(x)

\* How far an execution has come.
Progress(x) ==
    /\ exec[x].pc \in {"idle", "fetch"} => exec[x].next = 1
    /\ exec[x].pc \in Stored => exec[x].next > Len(fetched[x])
    /\ exec[x].pc \in {"find", "url", "write", "refresh"} \cup Stored /\ SourceOf[x] \in sources =>
         \A i \in 1..exec[x].next - 1 : IsRecorded(x, i)
    /\ exec[x].pc = "refresh" /\ SourceOf[x] \in sources => IsRecorded(x, exec[x].next)

StoreInv == TypeInv /\ CompanyAgrees /\ FoundFits /\ \A x \in Execution : Progress(x)

\* Whoever steps, the others are where they were and keep what they stored.
LEMMA OtherProgress ==
    ASSUME StoreInv, [Next]_vars, NEW y \in Execution,
           exec'[y] = exec[y], fetched'[y] = fetched[y], sources' \subseteq sources
    PROVE  Progress(y)'
<1>1. ASSUME SourceOf[y] \in sources', NEW i \in Nat, IsRecorded(y, i)
      PROVE  IsRecorded(y, i)'
  BY <1>1, StepKeeps DEF IsRecorded, StoreInv
<1>2. exec[y].next \in Nat
  BY DEF StoreInv, TypeInv, TypeOK, Exec
<1>3. SourceOf[y] \in sources' => SourceOf[y] \in sources
  OBVIOUS
<1>4. \A i \in 1..exec[y].next - 1 : i \in Nat
  BY <1>2
<1> QED BY <1>1, <1>2, <1>3, <1>4 DEF Progress, StoreInv

\* What a step of x that is not an upsert has to establish.
LEMMA QuietProgress ==
    ASSUME StoreInv, [Next]_vars, NEW x \in Execution,
           UNCHANGED <<sources, jobs, records>>,
           \A y \in Execution : y # x => exec'[y] = exec[y] /\ fetched'[y] = fetched[y],
           exec'[x].pc = "write" /\ exec'[x].seen # NoId =>
             jobs[exec'[x].seen].company = CompanyFor(x),
           Progress(x)'
    PROVE  StoreInv'
<1>1. TypeInv'
  BY TypeStep DEF StoreInv
<1>2. \A y \in Execution : y # x => Progress(y)'
  BY OtherProgress
<1>3. CompanyAgrees' /\ FoundFits'
  BY DEF StoreInv, CompanyAgrees, FoundFits, CompanyFor
<1> QED BY <1>1, <1>2, <1>3 DEF StoreInv

LEMMA StoreStep == StoreInv /\ [Next]_vars => StoreInv'
<1> SUFFICES ASSUME StoreInv, [Next]_vars
             PROVE  StoreInv'
  OBVIOUS
<1>0. /\ exec \in [Execution -> Exec] /\ \A x \in Execution : exec[x] \in Exec
      /\ fetched \in [Execution -> Seq(Posting)]
  BY DEF StoreInv, TypeInv, TypeOK
<1>1. ASSUME NEW x \in Execution, Start(x) \/ FailFetch(x) \/ RefuseWrite(x) \/ Break(x)
      PROVE  StoreInv'
  <2>1. PICK pc \in {"fetch", "failed", "dead"} : exec' = [exec EXCEPT ![x].pc = pc]
    BY <1>1 DEF Start, FailFetch, RefuseWrite, Break
  <2>2. UNCHANGED <<sources, jobs, records, fetched>>
    BY <1>1 DEF Start, FailFetch, RefuseWrite, Break
  <2>3. pc = "fetch" => exec[x].pc = "idle"
    BY <1>0, <1>1, <2>1 DEF Start, FailFetch, RefuseWrite, Break, Exec
  <2>4. /\ exec'[x].pc = pc /\ exec'[x].next = exec[x].next
        /\ \A y \in Execution : y # x => exec'[y] = exec[y]
    BY <1>0, <2>1 DEF Exec
  <2>5. Progress(x)'
    BY <2>2, <2>3, <2>4 DEF Progress, StoreInv, Stored
  <2> QED BY <2>2, <2>4, <2>5, QuietProgress
<1>2. ASSUME NEW x \in Execution, ReadPage(x) \/ RetryFetch(x)
      PROVE  StoreInv'
  <2>1. /\ exec[x].pc = "fetch" /\ exec'[x].pc = "fetch" /\ exec'[x].next = exec[x].next
        /\ \A y \in Execution : y # x => exec'[y] = exec[y]
    <3>1. CASE ReadPage(x)
      <4>1. PICK m, p : exec' = [exec EXCEPT ![x].malformed = m, ![x].page = p]
        BY <3>1 DEF ReadPage
      <4> QED BY <1>0, <3>1, <4>1 DEF ReadPage, Exec
    <3>2. CASE RetryFetch(x)
      BY <1>0, <3>2 DEF RetryFetch, Exec
    <3> QED BY <1>2, <3>1, <3>2
  <2>2. /\ UNCHANGED <<sources, jobs, records>>
        /\ \A y \in Execution : y # x => fetched'[y] = fetched[y]
    BY <1>0, <1>2 DEF ReadPage, RetryFetch
  <2>3. Progress(x)'
    BY <2>1 DEF Progress, StoreInv, Stored
  <2> QED BY <2>1, <2>2, <2>3, QuietProgress
<1>3. ASSUME NEW x \in Execution, EndFetch(x)
      PROVE  StoreInv'
  <2>1. PICK pc \in {"find", "skipped"} : exec' = [exec EXCEPT ![x].pc = pc]
    BY <1>3 DEF EndFetch
  <2>2. UNCHANGED <<sources, jobs, records, fetched>> /\ exec[x].pc = "fetch"
    BY <1>3 DEF EndFetch
  <2>3. /\ exec'[x].pc = pc /\ exec'[x].next = exec[x].next
        /\ \A y \in Execution : y # x => exec'[y] = exec[y]
    BY <1>0, <2>1 DEF Exec
  <2>4. exec'[x].next = 1
    BY <2>2, <2>3 DEF Progress, StoreInv
  <2>5. Progress(x)'
    BY <2>3, <2>4 DEF Progress, Stored
  <2> QED BY <2>2, <2>3, <2>5, QuietProgress
<1>9. ASSUME NEW x \in Execution, Finish(x)
      PROVE  StoreInv'
  <2>1. PICK pc \in {"dead"} \cup Stored : exec' = [exec EXCEPT ![x].pc = pc]
    BY <1>9 DEF Finish, Stored
  <2>2. /\ UNCHANGED <<sources, jobs, records, fetched>>
        /\ exec[x].pc = "find" /\ exec[x].next > Len(fetched[x])
    BY <1>9 DEF Finish
  <2>3. /\ exec'[x].pc = pc /\ exec'[x].next = exec[x].next
        /\ \A y \in Execution : y # x => exec'[y] = exec[y]
    BY <1>0, <2>1 DEF Exec
  <2>4. Progress(x)'
    BY <2>2, <2>3 DEF Progress, StoreInv, Stored, IsRecorded
  <2> QED BY <2>2, <2>3, <2>4, QuietProgress DEF Stored
<1>4. ASSUME NEW x \in Execution, FindBySource(x) \/ FindByUrl(x)
      PROVE  StoreInv'
  <2>1. UNCHANGED <<sources, jobs, records, fetched>> /\ exec[x].pc \in {"find", "url"}
    BY <1>4 DEF FindBySource, FindByUrl
  <2>2. \/ exec' = [exec EXCEPT ![x].pc = "url"]
        \/ exec' = [exec EXCEPT ![x].pc = "write", ![x].seen = NoId, ![x].loaded = NoJob]
        \/ \E j \in SourceMatches(x) \cup UrlMatches(x) : Load(x, j, "write")
    BY <1>4 DEF FindBySource, FindByUrl
  <2>3. ASSUME NEW j \in SourceMatches(x) \cup UrlMatches(x)
        PROVE  jobs[j].company = CompanyFor(x)
    BY DEF SourceMatches, UrlMatches, StoreInv, CompanyAgrees, CompanyFor
  <2>4. /\ exec'[x].pc \in {"url", "write"} /\ exec'[x].next = exec[x].next
        /\ \A y \in Execution : y # x => exec'[y] = exec[y]
        /\ exec'[x].pc = "write" /\ exec'[x].seen # NoId =>
             jobs[exec'[x].seen].company = CompanyFor(x)
    <3>1. CASE exec' = [exec EXCEPT ![x].pc = "url"]
      BY <1>0, <3>1 DEF Exec
    <3>2. CASE exec' = [exec EXCEPT ![x].pc = "write", ![x].seen = NoId, ![x].loaded = NoJob]
      BY <1>0, <3>2 DEF Exec
    <3>3. CASE \E j \in SourceMatches(x) \cup UrlMatches(x) : Load(x, j, "write")
      <4>1. PICK j \in SourceMatches(x) \cup UrlMatches(x) : Load(x, j, "write")
        BY <3>3
      <4>2. PICK l : exec' = [exec EXCEPT ![x].pc = "write", ![x].seen = j, ![x].loaded = l]
        BY <4>1 DEF Load
      <4> QED BY <1>0, <2>3, <4>2 DEF Exec
    <3> QED BY <2>2, <3>1, <3>2, <3>3
  <2>5. Progress(x)'
    BY <2>1, <2>4 DEF Progress, StoreInv, Stored, IsRecorded
  <2> QED BY <2>1, <2>4, <2>5, QuietProgress
<1>5. ASSUME NEW x \in Execution, Refresh(x)
      PROVE  StoreInv'
  <2>1. /\ exec[x].pc = "refresh" /\ exec'[x].pc = "find" /\ exec'[x].next = exec[x].next + 1
        /\ \A y \in Execution : y # x => exec'[y] = exec[y]
    BY <1>0, <1>5 DEF Refresh, Exec
  <2>2. UNCHANGED <<sources, jobs, records, fetched>>
    BY <1>5 DEF Refresh
  <2>3. exec[x].next \in Nat
    BY <1>0 DEF Exec
  <2>4. SourceOf[x] \in sources => \A i \in 1..exec[x].next : IsRecorded(x, i)
    BY <2>1, <2>3 DEF Progress, StoreInv
  <2>5. Progress(x)'
    BY <2>1, <2>2, <2>3, <2>4 DEF Progress, StoreInv, Stored, IsRecorded
  <2> QED BY <2>1, <2>2, <2>5, QuietProgress
<1>6. ASSUME NEW x \in Execution, NEW where \in {"refresh", "dead"}, Upsert(x, where)
      PROVE  StoreInv'
  <2>1. /\ exec[x].pc = "write" /\ exec'[x].pc = where /\ exec'[x].next = exec[x].next
        /\ \A y \in Execution : y # x => exec'[y] = exec[y]
    BY <1>0, <1>6 DEF Upsert, Exec
  <2>2. UNCHANGED <<sources, fetched>>
    BY <1>6 DEF Upsert
  <2>3. PICK j \in JobId :
          /\ jobs'[j].company = CompanyFor(x)
          /\ records' = records \cup {Provenance(x, j)}
    <3>1. CASE exec[x].seen = NoId
      <4>1. PICK j \in JobId : Store(x, j, NewJob(x))
        BY <1>6, <3>1 DEF Upsert
      <4> QED BY <2>1, <4>1, RowType DEF Store, StoreInv, TypeInv, TypeOK
    <3>2. CASE exec[x].seen # NoId
      <4>1. Store(x, exec[x].seen, Merge(x))
        BY <1>6, <3>2 DEF Upsert
      <4> QED BY <2>1, <3>2, <4>1, RowType DEF Store, StoreInv, FoundFits, TypeInv, TypeOK
    <3> QED BY <3>1, <3>2
  <2>4. \A k \in JobId : jobs[k] # NoJob =>
          jobs'[k] # NoJob /\ jobs'[k].company = jobs[k].company
    BY <1>6, UpsertStep DEF StoreInv
  <2>5. TypeInv'
    BY TypeStep DEF StoreInv
  <2>6. CompanyAgrees'
    BY <2>3, <2>4 DEF CompanyAgrees, StoreInv, TypeInv, TypeOK, RowsExist, Record, Provenance,
                      CompanyFor
  <2>7. FoundFits'
    <3> SUFFICES ASSUME NEW y \in Execution, exec'[y].pc = "write", exec'[y].seen # NoId
                 PROVE  jobs'[exec'[y].seen].company = CompanyFor(y)
      BY DEF FoundFits, CompanyFor
    <3>1. y # x /\ exec'[y] = exec[y]
      BY <2>1
    <3>2. exec[y].seen \in JobId /\ jobs[exec[y].seen] # NoJob
      BY <1>0, <3>1 DEF Exec, StoreInv, TypeInv, RowsExist
    <3> QED BY <2>4, <3>1, <3>2 DEF StoreInv, FoundFits
  <2>8. exec[x].next \in Nat /\ IsRecorded(x, exec[x].next)'
    <3>1. Provenance(x, j) \in records'
      BY <2>3
    <3>2. /\ Provenance(x, j).source = SourceOf[x]
          /\ Provenance(x, j).ext = fetched'[x][exec'[x].next].ext
      BY <2>1, <2>2 DEF Provenance, Candidate
    <3>3. exec[x].next \in Nat
      BY <1>0 DEF Exec
    <3> QED BY <2>1, <3>1, <3>2, <3>3 DEF IsRecorded
  <2>9. Progress(x)'
    <3>1. \A i \in 1..exec[x].next - 1 : IsRecorded(x, i) => IsRecorded(x, i)'
      BY <2>2, <2>3 DEF IsRecorded
    <3> QED BY <2>1, <2>2, <2>8, <3>1 DEF Progress, StoreInv, Stored
  <2>10. \A y \in Execution : y # x => Progress(y)'
    BY <2>1, <2>2, OtherProgress
  <2> QED BY <2>5, <2>6, <2>7, <2>9, <2>10 DEF StoreInv
<1>7. ASSUME NEW s \in Source, DeleteSource(s)
      PROVE  StoreInv'
  <2>1. UNCHANGED <<jobs, exec, fetched>> /\ sources' \subseteq sources /\ records' \subseteq records
    BY <1>7 DEF DeleteSource
  <2>2. \A y \in Execution : Progress(y)'
    BY <2>1, OtherProgress
  <2>3. CompanyAgrees' /\ FoundFits'
    BY <2>1 DEF CompanyAgrees, FoundFits, StoreInv, CompanyFor
  <2> QED BY <2>2, <2>3, TypeStep DEF StoreInv
<1>8. CASE UNCHANGED vars
  <2>1. \A y \in Execution : Progress(y)'
    BY <1>8, OtherProgress DEF vars
  <2>2. CompanyAgrees' /\ FoundFits'
    BY <1>8 DEF vars, CompanyAgrees, FoundFits, StoreInv, CompanyFor
  <2> QED BY <2>1, <2>2, TypeStep DEF StoreInv
<1> QED BY <1>1, <1>2, <1>3, <1>4, <1>5, <1>6, <1>7, <1>8, <1>9 DEF Next, Step, Write, BreakAfterCommit

LEMMA StoreInit == Init => StoreInv
<1> SUFFICES ASSUME Init PROVE StoreInv
  OBVIOUS
<1>1. \A x \in Execution : exec[x].pc = "idle" /\ exec[x].next = 1
  BY DEF Init, IdleExec
<1>2. \A x \in Execution : Progress(x)
  BY <1>1 DEF Progress, Stored
<1>3. CompanyAgrees /\ FoundFits
  BY <1>1 DEF Init, CompanyAgrees, FoundFits
<1> QED BY <1>2, <1>3, TypeInit DEF StoreInv

\* A run that ends as succeeded or partial has stored all that it fetched,
\* whatever other executions and deletions have done meanwhile.
THEOREM FinishedRunsAreStored == Spec => []FinishedIsStored
<1>1. StoreInv => FinishedIsStored
  <2> SUFFICES ASSUME StoreInv, NEW x \in Execution, exec[x].pc \in Stored,
                      SourceOf[x] \in sources, NEW i \in 1..Len(fetched[x])
               PROVE  \E r \in records : /\ r.source = SourceOf[x]
                                         /\ r.ext = fetched[x][i].ext
                                         /\ jobs[r.job] # NoJob
                                         /\ jobs[r.job].company = CompanyFor(x)
    BY DEF FinishedIsStored
  <2>1. exec[x].next \in Nat /\ Len(fetched[x]) \in Nat
    BY DEF StoreInv, TypeInv, TypeOK, Exec
  <2>2. i \in 1..exec[x].next - 1
    BY <2>1 DEF StoreInv, Progress
  <2>3. IsRecorded(x, i)
    BY <2>2 DEF StoreInv, Progress
  <2> QED BY <2>3 DEF IsRecorded, StoreInv, CompanyAgrees, TypeInv, RowsExist, CompanyFor
<1> QED BY <1>1, StoreInit, StoreStep, PTL DEF Spec

-----------------------------------------------------------------------------
(* What overlapping executions may do to each other.  Three statements are *)
(* true as long as nobody else has the same thing in hand: what the first  *)
(* SELECT has told of an identity, what the second has told of a URL, and  *)
(* what the session holds of a job.                                        *)

Matches(x, r) == r.source = SourceOf[x] /\ r.ext = Candidate(x).ext

\* Between SELECT and commit a record with the identity leads to the job that
\* x has found.
IdentityKnown ==
    \A x \in Execution :
        exec[x].pc \in {"url", "write"} /\ IdClaim(x) \notin raced =>
          \A r \in records : Matches(x, r) => exec[x].pc = "write" /\ r.job = exec[x].seen

\* There is no job with the URL of one that x is about to insert.
UrlIsFree ==
    \A x \in Execution :
        exec[x].pc = "write" /\ exec[x].seen = NoId /\ UrlClaim(x) \notin raced
          => UrlMatches(x) = {}

\* The session of x holds its job as the database has it.
SessionIsFresh ==
    \A x \in Execution :
        Active(x) /\ exec[x].seen # NoId /\ exec[x].pc # "refresh"
                  /\ JobClaim(exec[x].seen) \notin raced
          => exec[x].loaded = jobs[exec[x].seen]

\* No two executions have the same in hand unnoticed.
RacesNoticed ==
    /\ \A x \in Execution : exec[x].pc = "idle" => exec[x].seen = NoId
    /\ \A x, y \in Execution : x # y => InHand(x) \cap InHand(y) \subseteq raced

RaceInv ==
    /\ StoreInv /\ RacesNoticed /\ IdentityKnown /\ UrlIsFree /\ SessionIsFresh
    /\ OneJobPerIdentity /\ OneJobPerUrl /\ TextIsLatest

\* The kinds of steps that an execution x takes: those that look at no row, ...
Quiet(x) ==
    /\ UNCHANGED <<jobs, records, latest, raced>>
    /\ \A y \in Execution : y # x => exec'[y] = exec[y] /\ fetched'[y] = fetched[y]
    /\ exec'[x].pc \in {"fetch", "find"} \cup Ended
    /\ exec'[x].seen = exec[x].seen
    /\ Active(x) \/ exec[x].pc = "idle"
    /\ \/ exec'[x].loaded = exec[x].loaded /\ (exec[x].pc # "refresh" \/ exec'[x].pc \in Ended)
       \/ exec'[x].loaded = jobs[exec[x].seen]

\* ... the SELECTs, ...
Finds(x) ==
    /\ UNCHANGED <<jobs, records, latest, fetched>>
    /\ Race(x)
    /\ \A y \in Execution : y # x => exec'[y] = exec[y]
    /\ exec'[x].next = exec[x].next
    /\ Active(x) /\ exec[x].pc \in {"find", "url"}
    /\ \/ /\ exec'[x].pc = "url" /\ SourceMatches(x) = {}
          /\ exec'[x].seen = exec[x].seen /\ exec'[x].loaded = exec[x].loaded
       \/ /\ exec'[x].pc = "write" /\ exec[x].pc = "url"
          /\ exec'[x].seen = NoId /\ UrlMatches(x) = {}
       \/ /\ exec'[x].pc = "write" /\ exec'[x].seen \in JobId
          /\ exec'[x].loaded = IF exec'[x].seen = exec[x].seen THEN exec[x].loaded
                                                               ELSE jobs[exec'[x].seen]
          /\ exec[x].pc = "url" \/ exec'[x].seen \in SourceMatches(x)

\* ... and the transaction that writes row of job j.
Writes(x, j, row) ==
    /\ UNCHANGED <<raced, fetched>>
    /\ \A y \in Execution : y # x => exec'[y] = exec[y]
    /\ exec[x].pc = "write" /\ exec'[x].pc \in {"refresh", "dead"} /\ exec'[x].seen = j
    /\ records' = records \cup {Provenance(x, j)}
    /\ jobs'[j] = row /\ \A k \in JobId : k # j => jobs'[k] = jobs[k]
    /\ latest'[j] = Candidate(x) /\ \A k \in JobId : k # j => latest'[k] = latest[k]
    /\ \/ exec[x].seen = NoId /\ jobs[j] = NoJob /\ row = NewJob(x)
       \/ exec[x].seen = j /\ jobs[j] # NoJob /\ row = Merge(x)

LEMMA WriteKind ==
    ASSUME TypeInv, NEW x \in Execution, NEW where \in {"refresh", "dead"}, Upsert(x, where)
    PROVE  \E j \in JobId, row \in Job : Writes(x, j, row)
<1>1. /\ exec[x].pc = "write" /\ exec[x] \in Exec /\ exec \in [Execution -> Exec]
      /\ jobs \in [JobId -> Job \cup {NoJob}] /\ latest \in [JobId -> Posting \cup {NoJob}]
      /\ UNCHANGED fetched
  BY DEF Upsert, TypeInv, TypeOK
<1>2. PICK j \in JobId, row \in Job :
        /\ Store(x, j, row)
        /\ exec' = [exec EXCEPT ![x].pc = where, ![x].seen = j]
        /\ \/ exec[x].seen = NoId /\ jobs[j] = NoJob /\ row = NewJob(x)
           \/ exec[x].seen = j /\ jobs[j] # NoJob /\ row = Merge(x)
  <2>1. CASE exec[x].seen = NoId
    <3>1. PICK j \in JobId :
            /\ jobs[j] = NoJob
            /\ Store(x, j, NewJob(x))
            /\ exec' = [exec EXCEPT ![x].pc = where, ![x].seen = j]
      BY <2>1 DEF Upsert
    <3> QED BY <1>1, <2>1, <3>1, RowType
  <2>2. CASE exec[x].seen # NoId
    <3>1. Store(x, exec[x].seen, Merge(x)) /\ exec' = [exec EXCEPT ![x].pc = where]
      BY <2>2 DEF Upsert
    <3>2. exec' = [exec EXCEPT ![x].pc = where, ![x].seen = exec[x].seen]
      BY <1>1, <3>1 DEF Exec
    <3>3. jobs[exec[x].seen] # NoJob
      BY <2>2 DEF TypeInv, RowsExist
    <3> QED BY <1>1, <2>2, <3>1, <3>2, <3>3, RowType
  <2> QED BY <2>1, <2>2
<1>3. /\ exec'[x].pc = where /\ exec'[x].seen = j
      /\ \A y \in Execution : y # x => exec'[y] = exec[y]
  BY <1>1, <1>2 DEF Exec
<1> QED BY <1>1, <1>2, <1>3 DEF Writes, Store

\* Every step is of one of these kinds, or only records go with their source.
LEMMA StepKinds ==
    ASSUME TypeInv, [Next]_vars
    PROVE  \/ \E x \in Execution : Quiet(x) \/ Finds(x)
           \/ \E x \in Execution, j \in JobId, row \in Job : Writes(x, j, row)
           \/ UNCHANGED <<jobs, exec, fetched, latest, raced>> /\ records' \subseteq records
<1>0. exec \in [Execution -> Exec] /\ \A x \in Execution : exec[x] \in Exec
  BY DEF TypeInv, TypeOK
<1>1. ASSUME NEW x \in Execution, NEW pc \in {"fetch", "find"} \cup Ended,
             exec' = [exec EXCEPT ![x].pc = pc],
             Active(x) \/ exec[x].pc = "idle", exec[x].pc # "refresh" \/ pc \in Ended,
             UNCHANGED <<jobs, records, fetched, latest, raced>>
      PROVE  Quiet(x)
  <2>1. /\ exec'[x].pc = pc /\ exec'[x].seen = exec[x].seen /\ exec'[x].loaded = exec[x].loaded
        /\ \A y \in Execution : y # x => exec'[y] = exec[y]
    BY <1>0, <1>1 DEF Exec
  <2> QED BY <1>1, <2>1 DEF Quiet
<1>2. ASSUME NEW x \in Execution,
             \/ Start(x) \/ EndFetch(x) \/ FailFetch(x) \/ RefuseWrite(x) \/ Finish(x)
             \/ Break(x)
      PROVE  Quiet(x)
  BY <1>1, <1>2 DEF Start, EndFetch, FailFetch, RefuseWrite, Finish, Break, Active, Ended, Stored
<1>3. ASSUME NEW x \in Execution, ReadPage(x) \/ RetryFetch(x)
      PROVE  Quiet(x)
  <2>1. UNCHANGED <<jobs, records, latest, raced>> /\ exec[x].pc = "fetch" /\ Active(x)
    BY <1>3 DEF ReadPage, RetryFetch, Active, Ended, Stored
  <2>2. \A y \in Execution : y # x => fetched'[y] = fetched[y]
    BY <1>3 DEF ReadPage, RetryFetch, TypeInv, TypeOK
  <2>3. PICK a, m, p : exec' = [exec EXCEPT ![x].attempt = a, ![x].malformed = m, ![x].page = p]
    <3>1. CASE ReadPage(x)
      <4>1. PICK m, p : exec' = [exec EXCEPT ![x].malformed = m, ![x].page = p]
        BY <3>1 DEF ReadPage
      <4>2. exec' = [exec EXCEPT ![x].attempt = exec[x].attempt, ![x].malformed = m, ![x].page = p]
        BY <1>0, <4>1 DEF Exec
      <4> QED BY <4>2
    <3>2. CASE RetryFetch(x)
      <4>1. exec' = [exec EXCEPT ![x].attempt = exec[x].attempt + 1, ![x].malformed = 0,
                                 ![x].page = 1]
        BY <1>0, <3>2 DEF RetryFetch, Exec
      <4> QED BY <4>1
    <3> QED BY <1>3, <3>1, <3>2
  <2>4. /\ exec'[x].pc = "fetch" /\ exec'[x].seen = exec[x].seen
        /\ exec'[x].loaded = exec[x].loaded
        /\ \A y \in Execution : y # x => exec'[y] = exec[y]
    BY <1>0, <2>1, <2>3 DEF Exec
  <2> QED BY <2>1, <2>2, <2>4 DEF Quiet
<1>4. ASSUME NEW x \in Execution, Refresh(x)
      PROVE  Quiet(x)
  <2>1. UNCHANGED <<jobs, records, latest, fetched, raced>> /\ Active(x)
    BY <1>4 DEF Refresh, Active, Ended, Stored
  <2>2. /\ exec'[x].pc = "find" /\ exec'[x].seen = exec[x].seen
        /\ exec'[x].loaded = jobs[exec[x].seen]
        /\ \A y \in Execution : y # x => exec'[y] = exec[y]
    BY <1>0, <1>4 DEF Refresh, Exec
  <2> QED BY <2>1, <2>2 DEF Quiet
<1>5. ASSUME NEW x \in Execution, FindBySource(x) \/ FindByUrl(x)
      PROVE  Finds(x)
  <2>1. /\ UNCHANGED <<jobs, records, latest, fetched>> /\ Race(x) /\ Active(x)
        /\ exec[x].pc \in {"find", "url"}
    BY <1>5 DEF FindBySource, FindByUrl, Active, Ended, Stored
  <2>2. ASSUME NEW j \in JobId, Load(x, j, "write"),
               exec[x].pc = "url" \/ j \in SourceMatches(x)
        PROVE  Finds(x)
    <3>1. PICK l : /\ l = IF j = exec[x].seen THEN exec[x].loaded ELSE jobs[j]
                   /\ exec' = [exec EXCEPT ![x].pc = "write", ![x].seen = j, ![x].loaded = l]
      BY <1>0, <2>2 DEF Load
    <3>2. /\ exec'[x].pc = "write" /\ exec'[x].seen = j /\ exec'[x].loaded = l
          /\ exec'[x].next = exec[x].next /\ \A y \in Execution : y # x => exec'[y] = exec[y]
      BY <1>0, <3>1 DEF Exec
    <3> QED BY <2>1, <2>2, <3>1, <3>2 DEF Finds
  <2>3. CASE SourceMatches(x) = {} /\ exec' = [exec EXCEPT ![x].pc = "url"]
    <3>1. /\ exec'[x].pc = "url" /\ exec'[x].seen = exec[x].seen
          /\ exec'[x].loaded = exec[x].loaded /\ exec'[x].next = exec[x].next
          /\ \A y \in Execution : y # x => exec'[y] = exec[y]
      BY <1>0, <2>3 DEF Exec
    <3> QED BY <2>1, <2>3, <3>1 DEF Finds
  <2>4. CASE /\ exec[x].pc = "url" /\ UrlMatches(x) = {}
             /\ exec' = [exec EXCEPT ![x].pc = "write", ![x].seen = NoId, ![x].loaded = NoJob]
    <3>1. /\ exec'[x].pc = "write" /\ exec'[x].seen = NoId /\ exec'[x].next = exec[x].next
          /\ \A y \in Execution : y # x => exec'[y] = exec[y]
      BY <1>0, <2>4 DEF Exec
    <3> QED BY <2>1, <2>4, <3>1 DEF Finds
  <2>5. CASE FindBySource(x)
    BY <2>2, <2>3, <2>5, SourceMatchExists DEF FindBySource
  <2>6. CASE FindByUrl(x)
    BY <2>2, <2>4, <2>6 DEF FindByUrl, UrlMatches
  <2> QED BY <1>5, <2>5, <2>6
<1>6. ASSUME NEW x \in Execution, Write(x) \/ BreakAfterCommit(x)
      PROVE  \E j \in JobId, row \in Job : Writes(x, j, row)
  BY <1>6, WriteKind DEF Write, BreakAfterCommit
<1>7. ASSUME NEW s \in Source, DeleteSource(s)
      PROVE  UNCHANGED <<jobs, exec, fetched, latest, raced>> /\ records' \subseteq records
  BY <1>7 DEF DeleteSource
<1>8. CASE UNCHANGED vars
  BY <1>8 DEF vars
<1> QED BY <1>2, <1>3, <1>4, <1>5, <1>6, <1>7, <1>8 DEF Next, Step

\* What is in the hand of an execution that did not step.
LEMMA SameHand ==
    ASSUME NEW y \in Execution, exec'[y] = exec[y], fetched'[y] = fetched[y]
    PROVE  /\ InHand(y)' = InHand(y) /\ (Active(y)' <=> Active(y))
           /\ Candidate(y)' = Candidate(y) /\ IdClaim(y)' = IdClaim(y)
           /\ UrlClaim(y)' = UrlClaim(y)
BY DEF InHand, Active, Candidate, IdClaim, UrlClaim, JobClaim, CompanyFor

\* Claims of different kinds differ, and name what they are about.
LEMMA ClaimsDiffer ==
    ASSUME NEW x, NEW j, NEW k
    PROVE  /\ JobClaim(j) # IdClaim(x) /\ JobClaim(j) # UrlClaim(x)
           /\ JobClaim(j) = JobClaim(k) => j = k
<1>1. JobClaim(j).what = "job" /\ JobClaim(j).job = j /\ JobClaim(k).job = k
  BY DEF JobClaim
<1>2. IdClaim(x).what = "id" /\ UrlClaim(x).what = "url"
  BY DEF IdClaim, UrlClaim
<1> QED BY <1>1, <1>2

\* A step that looks at no row.
LEMMA QuietRace ==
    ASSUME RaceInv, StoreInv', NEW x \in Execution, Quiet(x)
    PROVE  RaceInv'
<1>1. \A y \in Execution : y # x =>
        /\ exec'[y] = exec[y] /\ InHand(y)' = InHand(y) /\ (Active(y)' <=> Active(y))
        /\ Candidate(y)' = Candidate(y) /\ IdClaim(y)' = IdClaim(y) /\ UrlClaim(y)' = UrlClaim(y)
  BY SameHand DEF Quiet
<1>2. exec'[x].pc \notin {"idle", "url", "write", "refresh"}
  BY DEF Quiet, Ended, Stored
<1>3. InHand(x)' \subseteq InHand(x)
  <2>1. ASSUME Active(x)', exec'[x].seen # NoId
        PROVE  Active(x) /\ JobClaim(exec'[x].seen) = JobClaim(exec[x].seen)
    BY <2>1 DEF Quiet, RaceInv, RacesNoticed
  <2> QED BY <1>2, <2>1 DEF InHand, JobClaim
<1>4. RacesNoticed'
  BY <1>1, <1>2, <1>3 DEF Quiet, RaceInv, RacesNoticed
<1>5. IdentityKnown' /\ OneJobPerIdentity'
  BY <1>1, <1>2 DEF Quiet, RaceInv, IdentityKnown, OneJobPerIdentity, Matches
<1>6. UrlIsFree' /\ OneJobPerUrl'
  BY <1>1, <1>2 DEF Quiet, RaceInv, UrlIsFree, OneJobPerUrl, UrlMatches, CompanyFor
<1>7. SessionIsFresh'
  <2> SUFFICES ASSUME NEW y \in Execution, Active(y)', exec'[y].seen # NoId,
                      exec'[y].pc # "refresh", JobClaim(exec'[y].seen) \notin raced
               PROVE  exec'[y].loaded = jobs[exec'[y].seen]
    BY DEF SessionIsFresh, Quiet, JobClaim
  <2>1. CASE y # x
    BY <1>1, <2>1 DEF RaceInv, SessionIsFresh
  <2>2. CASE y = x
    <3>1. Active(x) /\ exec[x].seen # NoId /\ exec'[x].seen = exec[x].seen
      BY <2>2 DEF Quiet, RaceInv, RacesNoticed
    <3>2. exec'[x].pc \notin Ended
      BY <2>2 DEF Active
    <3> QED BY <2>2, <3>1, <3>2 DEF Quiet, RaceInv, SessionIsFresh
  <2> QED BY <2>1, <2>2
<1>8. TextIsLatest'
  BY DEF Quiet, RaceInv, TextIsLatest, JobClaim
<1> QED BY <1>4, <1>5, <1>6, <1>7, <1>8 DEF RaceInv

\* A SELECT takes something in hand, and what it tells is true.
LEMMA FindRace ==
    ASSUME RaceInv, StoreInv', NEW x \in Execution, Finds(x)
    PROVE  RaceInv'
<1>1. \A y \in Execution : y # x =>
        /\ exec'[y] = exec[y] /\ InHand(y)' = InHand(y) /\ (Active(y)' <=> Active(y))
        /\ Candidate(y)' = Candidate(y) /\ IdClaim(y)' = IdClaim(y) /\ UrlClaim(y)' = UrlClaim(y)
  BY SameHand DEF Finds
<1>2. /\ UNCHANGED <<jobs, records, latest>> /\ Active(x)
      /\ exec'[x].pc \in {"url", "write"} /\ Candidate(x)' = Candidate(x)
      /\ raced \subseteq raced'
  BY DEF Finds, Candidate, Race
<1>3. RacesNoticed'
  <2>1. \A y \in Execution : y # x => InHand(x)' \cap InHand(y) \subseteq raced'
    BY DEF Finds, Race
  <2> QED BY <1>1, <1>2, <2>1 DEF RaceInv, RacesNoticed
<1>4. OneJobPerIdentity' /\ OneJobPerUrl' /\ TextIsLatest'
  BY <1>2 DEF RaceInv, OneJobPerIdentity, OneJobPerUrl, TextIsLatest, JobClaim
<1>5. IdentityKnown'
  <2> SUFFICES ASSUME NEW y \in Execution, exec'[y].pc \in {"url", "write"},
                      IdClaim(y)' \notin raced', NEW r \in records, Matches(y, r)'
               PROVE  exec'[y].pc = "write" /\ r.job = exec'[y].seen
    BY <1>2 DEF IdentityKnown
  <2>1. CASE y # x
    BY <1>1, <1>2, <2>1 DEF RaceInv, IdentityKnown, Matches
  <2>2. CASE y = x
    <3>1. IdClaim(x) \notin raced /\ Matches(x, r)
      BY <1>2, <2>2 DEF IdClaim, Matches
    <3>2. CASE exec[x].pc = "url"
      BY <3>1, <3>2 DEF RaceInv, IdentityKnown
    <3>3. CASE exec[x].pc # "url"
      <4>1. r.job \in SourceMatches(x)
        BY <3>1 DEF SourceMatches, Matches
      <4>2. exec'[x].pc = "write" /\ exec'[x].seen \in SourceMatches(x)
        BY <3>3, <4>1 DEF Finds
      <4>3. \A q \in records : Matches(x, q) => q.job = r.job
        BY <3>1 DEF RaceInv, OneJobPerIdentity, Matches, IdClaim
      <4> QED BY <2>2, <4>2, <4>3 DEF SourceMatches, Matches
    <3> QED BY <3>2, <3>3
  <2> QED BY <2>1, <2>2
<1>6. UrlIsFree'
  <2> SUFFICES ASSUME NEW y \in Execution, exec'[y].pc = "write", exec'[y].seen = NoId,
                      UrlClaim(y)' \notin raced'
               PROVE  UrlMatches(y)' = {}
    BY DEF UrlIsFree
  <2>1. CASE y # x
    BY <1>1, <1>2, <2>1 DEF RaceInv, UrlIsFree, UrlMatches, CompanyFor
  <2>2. CASE y = x
    BY <1>2, <2>2, CatalogAssumption DEF Finds, UrlMatches, CompanyFor
  <2> QED BY <2>1, <2>2
<1>7. SessionIsFresh'
  <2> SUFFICES ASSUME NEW y \in Execution, Active(y)', exec'[y].seen # NoId,
                      exec'[y].pc # "refresh", JobClaim(exec'[y].seen) \notin raced'
               PROVE  exec'[y].loaded = jobs[exec'[y].seen]
    BY <1>2 DEF SessionIsFresh, JobClaim
  <2>1. CASE y # x
    BY <1>1, <1>2, <2>1 DEF RaceInv, SessionIsFresh
  <2>2. CASE y = x
    <3>1. exec[x].pc # "refresh" /\ JobClaim(exec'[x].seen) \notin raced
      BY <1>2, <2>2 DEF Finds
    <3>2. exec'[x].seen = exec[x].seen => exec[x].loaded = jobs[exec[x].seen]
      BY <1>2, <2>2, <3>1 DEF RaceInv, SessionIsFresh
    <3> QED BY <2>2, <3>2 DEF Finds
  <2> QED BY <2>1, <2>2
<1> QED BY <1>3, <1>4, <1>5, <1>6, <1>7 DEF RaceInv

\* A commit takes nothing in hand but the job that it inserts, and disturbs
\* only those who have in hand what it has.
LEMMA WriteRace ==
    ASSUME RaceInv, StoreInv', NEW x \in Execution, NEW j \in JobId, NEW row \in Job,
           Writes(x, j, row)
    PROVE  RaceInv'
<1>0. /\ TypeInv /\ \A y \in Execution : exec[y] \in Exec
      /\ \A k \in JobId : jobs[k] \in Job \cup {NoJob}
      /\ UNCHANGED <<raced, fetched>> /\ Active(x)
  BY DEF RaceInv, StoreInv, TypeInv, TypeOK, Writes, Active, Ended, Stored
<1>1. \A y \in Execution : y # x =>
        /\ exec'[y] = exec[y] /\ InHand(y)' = InHand(y) /\ (Active(y)' <=> Active(y))
        /\ Candidate(y)' = Candidate(y) /\ IdClaim(y)' = IdClaim(y) /\ UrlClaim(y)' = UrlClaim(y)
  BY SameHand DEF Writes
<1>2. exec'[x].pc \in {"refresh", "dead"} /\ exec'[x].seen = j /\ exec[x].pc = "write"
  BY DEF Writes
<1>3. \A y \in Execution : \A c : y # x /\ c \in InHand(x) /\ c \in InHand(y) => c \in raced
  BY DEF RaceInv, RacesNoticed
<1>4. /\ IdClaim(x) \in InHand(x)
      /\ exec[x].seen = NoId => UrlClaim(x) \in InHand(x)
      /\ exec[x].seen = j => JobClaim(j) \in InHand(x)
  BY <1>0, <1>2, CatalogAssumption DEF InHand
\* Nobody else holds a job that is inserted.
<1>5. ASSUME NEW y \in Execution, y # x, JobClaim(j) \in InHand(y)
      PROVE  JobClaim(j) \in raced
  <2>1. CASE exec[x].seen = j
    BY <1>3, <1>4, <1>5, <2>1
  <2>2. CASE jobs[j] = NoJob
    <3>1. exec[y].seen = j /\ j # NoId
      BY <1>5, ClaimsDiffer, CatalogAssumption DEF InHand
    <3> QED BY <1>0, <2>2, <3>1 DEF TypeInv, RowsExist
  <2> QED BY <2>1, <2>2 DEF Writes
<1>6. RacesNoticed'
  <2>1. InHand(x)' \subseteq {JobClaim(j)}
    BY <1>2 DEF InHand, JobClaim
  <2> QED BY <1>0, <1>1, <1>2, <1>5, <2>1 DEF RaceInv, RacesNoticed
<1>7. /\ row.company = CompanyFor(x)
      /\ jobs[j] # NoJob => /\ exec[x].seen = j /\ jobs[j].company = CompanyFor(x)
                            /\ row.url = jobs[j].url
      /\ jobs[j] = NoJob => exec[x].seen = NoId /\ row.url = Candidate(x).url
  <2>1. CASE exec[x].seen = NoId /\ jobs[j] = NoJob /\ row = NewJob(x)
    BY <2>1 DEF NewJob
  <2>2. CASE exec[x].seen = j /\ jobs[j] # NoJob /\ row = Merge(x)
    <3>1. Merge(x).company = jobs[j].company /\ Merge(x).url = jobs[j].url /\ j # NoId
      BY <1>0, <1>2, <2>2, RowType, CatalogAssumption
    <3>2. jobs[j].company = CompanyFor(x)
      BY <1>2, <2>2, <3>1 DEF RaceInv, StoreInv, FoundFits
    <3> QED BY <2>2, <3>1, <3>2
  <2> QED BY <2>1, <2>2 DEF Writes
<1>8. IdentityKnown' /\ OneJobPerIdentity'
  <2> DEFINE new == Provenance(x, j)
  <2>1. /\ new.source = SourceOf[x] /\ new.ext = Candidate(x).ext /\ new.job = j
        /\ records' = records \cup {new}
        /\ IdClaim(x) = [what |-> "id", source |-> new.source, ext |-> new.ext]
    BY DEF Provenance, Writes, IdClaim
  <2> HIDE DEF new
  <2>2. ASSUME NEW y \in Execution, exec'[y].pc \in {"url", "write"}, IdClaim(y) \notin raced,
               NEW r \in records', Matches(y, r), y # x
        PROVE  exec'[y].pc = "write" /\ r.job = exec'[y].seen
    <3>1. r # new
      <4> SUFFICES ASSUME r = new PROVE FALSE
        OBVIOUS
      <4>1. IdClaim(y) = IdClaim(x)
        BY <2>1, <2>2 DEF Matches, IdClaim
      <4>2. IdClaim(y) \in InHand(y)
        BY <1>1, <2>2 DEF InHand
      <4> QED BY <1>3, <1>4, <2>2, <4>1, <4>2
    <3> QED BY <1>1, <2>1, <2>2, <3>1 DEF RaceInv, IdentityKnown
  <2>3. IdentityKnown'
    BY <1>0, <1>1, <1>2, <2>2 DEF IdentityKnown, Matches
  <2>4. ASSUME NEW r \in records, r.source = new.source, r.ext = new.ext, IdClaim(x) \notin raced
        PROVE  r.job = j
    <3>1. r.job = exec[x].seen
      BY <1>2, <2>1, <2>4 DEF RaceInv, IdentityKnown, Matches
    <3>2. r.job \in JobId
      BY <1>0 DEF TypeInv, TypeOK, Record
    <3> QED BY <3>1, <3>2, CatalogAssumption DEF Writes
  <2>5. OneJobPerIdentity'
    <3> SUFFICES ASSUME NEW q \in records', NEW r \in records',
                        q.source = r.source, q.ext = r.ext,
                        [what |-> "id", source |-> r.source, ext |-> r.ext] \notin raced
                 PROVE  q.job = r.job
      BY <1>0 DEF OneJobPerIdentity
    <3>1. CASE q \in records /\ r \in records
      BY <3>1 DEF RaceInv, OneJobPerIdentity
    <3>2. CASE q = new \/ r = new
      <4>1. r.source = new.source /\ r.ext = new.ext /\ IdClaim(x) \notin raced
        BY <2>1, <3>2
      <4> QED BY <2>1, <2>4, <4>1
    <3> QED BY <2>1, <3>1, <3>2
  <2> QED BY <2>3, <2>5
<1>9. UrlIsFree' /\ OneJobPerUrl'
  <2>1. ASSUME NEW y \in Execution, exec'[y].pc = "write", exec'[y].seen = NoId,
               UrlClaim(y) \notin raced, NEW k \in UrlMatches(y)'
        PROVE  FALSE
    <3>1. /\ y # x /\ exec[y].pc = "write" /\ exec[y].seen = NoId
          /\ k \in JobId /\ jobs'[k] # NoJob
          /\ jobs'[k].url = Candidate(y).url /\ jobs'[k].company = CompanyFor(y)
      BY <1>1, <1>2, <2>1 DEF UrlMatches, CompanyFor
    <3>2. UrlMatches(y) = {}
      BY <2>1, <3>1 DEF RaceInv, UrlIsFree
    <3>3. k = j /\ jobs'[k] = row
      BY <3>1, <3>2 DEF UrlMatches, Writes
    <3>4. jobs[j] = NoJob
      BY <1>7, <3>1, <3>2, <3>3 DEF UrlMatches
    <3>5. UrlClaim(y) = UrlClaim(x)
      BY <1>7, <3>1, <3>3, <3>4 DEF UrlClaim
    <3>6. UrlClaim(y) \in InHand(y)
      BY <3>1 DEF InHand
    <3> QED BY <1>3, <1>4, <1>7, <2>1, <3>1, <3>4, <3>5, <3>6
  <2>2. UrlIsFree'
    BY <1>0, <1>1, <1>2, <2>1 DEF UrlIsFree
  <2>3. ASSUME NEW k \in JobId, k # j, jobs[k] # NoJob, jobs[k].url = row.url,
               jobs[k].company = row.company,
               [what |-> "url", company |-> row.company, url |-> row.url] \notin raced
        PROVE  FALSE
    <3>1. CASE jobs[j] = NoJob
      <4>1. k \in UrlMatches(x) /\ UrlClaim(x) \notin raced
        BY <1>7, <2>3, <3>1 DEF UrlMatches, UrlClaim
      <4> QED BY <1>2, <1>7, <3>1, <4>1 DEF RaceInv, UrlIsFree
    <3>2. CASE jobs[j] # NoJob
      BY <1>7, <2>3, <3>2 DEF RaceInv, OneJobPerUrl
    <3> QED BY <3>1, <3>2
  <2>4. OneJobPerUrl'
    <3> SUFFICES ASSUME NEW k \in JobId, NEW l \in JobId, jobs'[k] # NoJob, jobs'[l] # NoJob,
                        jobs'[k].url = jobs'[l].url, jobs'[k].company = jobs'[l].company,
                        [what |-> "url", company |-> jobs'[k].company, url |-> jobs'[k].url] \notin raced
                 PROVE  k = l
      BY <1>0 DEF OneJobPerUrl
    <3>1. CASE k # j /\ l # j
      BY <3>1 DEF Writes, RaceInv, OneJobPerUrl
    <3>2. CASE k = j \/ l = j
      BY <2>3, <3>2 DEF Writes
    <3> QED BY <3>1, <3>2
  <2> QED BY <2>2, <2>4
<1>10. SessionIsFresh'
  <2> SUFFICES ASSUME NEW y \in Execution, Active(y)', exec'[y].seen # NoId,
                      exec'[y].pc # "refresh", JobClaim(exec'[y].seen) \notin raced
               PROVE  exec'[y].loaded = jobs'[exec'[y].seen]
    BY <1>0 DEF SessionIsFresh, JobClaim
  <2>1. y # x
    BY <1>2 DEF Active, Ended
  <2>2. JobClaim(exec[y].seen) \in InHand(y)
    BY <1>1, <2>1 DEF InHand
  <2>3. exec[y].seen # j /\ exec[y].seen \in JobId
    BY <1>0, <1>1, <1>5, <2>1, <2>2 DEF Exec
  <2> QED BY <1>1, <2>1, <2>3 DEF Writes, RaceInv, SessionIsFresh
<1>11. TextIsLatest'
  <2>1. JobClaim(j) \notin raced => row.text = Candidate(x).text
    <3>1. CASE row = NewJob(x)
      BY <3>1 DEF NewJob
    <3>2. CASE exec[x].seen = j /\ jobs[j] # NoJob /\ row = Merge(x)
      <4>1. j # NoId /\ jobs[j] \in Job
        BY <1>0, <3>2, CatalogAssumption
      <4>2. JobClaim(j) \notin raced => exec[x].loaded = jobs[j]
        BY <1>0, <1>2, <3>2, <4>1 DEF RaceInv, SessionIsFresh
      <4> QED BY <3>2, <4>1, <4>2 DEF Merge, Job
    <3> QED BY <3>1, <3>2 DEF Writes
  <2> QED BY <1>0, <2>1 DEF Writes, TextIsLatest, RaceInv, JobClaim
<1> QED BY <1>6, <1>8, <1>9, <1>10, <1>11 DEF RaceInv

LEMMA RaceStep == RaceInv /\ [Next]_vars => RaceInv'
<1> SUFFICES ASSUME RaceInv, [Next]_vars PROVE RaceInv'
  OBVIOUS
<1>1. StoreInv' /\ TypeInv
  BY StoreStep DEF RaceInv, StoreInv
<1>2. CASE UNCHANGED <<jobs, exec, fetched, latest, raced>> /\ records' \subseteq records
  BY <1>1, <1>2 DEF RaceInv, RacesNoticed, IdentityKnown, UrlIsFree, SessionIsFresh,
     OneJobPerIdentity, OneJobPerUrl, TextIsLatest, InHand, Active, Candidate, IdClaim, UrlClaim,
     JobClaim, CompanyFor, UrlMatches, Matches
<1> QED BY <1>1, <1>2, StepKinds, QuietRace, FindRace, WriteRace

LEMMA RaceInit == Init => RaceInv
<1> SUFFICES ASSUME Init PROVE RaceInv
  OBVIOUS
<1>1. \A x \in Execution : exec[x].pc = "idle" /\ exec[x].seen = NoId
  BY DEF Init, IdleExec
<1>2. \A x \in Execution : InHand(x) = {} /\ ~Active(x)
  BY <1>1 DEF InHand, Active
<1> QED BY <1>1, <1>2, StoreInit DEF Init, RaceInv, RacesNoticed, IdentityKnown, UrlIsFree,
           SessionIsFresh, OneJobPerIdentity, OneJobPerUrl, TextIsLatest

\* An external id of a source leads to two jobs only if two executions were
\* between SELECT and commit with it at once: no constraint of the database
\* says so, only the order of find_existing and upsert.
THEOREM IdentityHasOneJob == Spec => []OneJobPerIdentity
BY RaceInit, RaceStep, PTL DEF Spec, RaceInv

\* A company has two jobs with one URL only if two executions were about to
\* insert them at once; executions that overlap otherwise, retry, break or
\* find the job by another identity make no second one.
THEOREM UrlHasOneJob == Spec => []OneJobPerUrl
BY RaceInit, RaceStep, PTL DEF Spec, RaceInv

\* A job shows another description than the last one upserted only if two
\* sessions have held it at once, though a session compares with the row that
\* it holds and not with the one stored.
THEOREM LatestTextIsShown == Spec => []TextIsLatest
BY RaceInit, RaceStep, PTL DEF Spec, RaceInv
=============================================================================
