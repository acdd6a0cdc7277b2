--------------------------- MODULE IngestionRuns ---------------------------
(***************************************************************************)
(* The life of an ingestion run: POST /sources/{id}/run and the scheduler  *)
(* start runs (start_run, create_run, delay), Celery carries one message   *)
(* per run to the workers (acks late, autoretry, redelivery), a worker     *)
(* executes the run (execute_run) and finishes it (finish_run), and the    *)
(* deletion of a user cascades to its sources and their runs.              *)
(*                                                                         *)
(* PostgreSQL statements, Redis commands and broker calls are the atomic   *)
(* steps.  What a run stores in the job catalog is left to JobCatalog.     *)
(***************************************************************************)
EXTENDS Naturals

CONSTANTS
    Source,      \* rows of "sources", by primary key
    User,        \* owners of sources
    Owner,       \* Owner[s]: the user_id column of source s
    Due,         \* sources with enabled = true and a valid interval schedule
    Run,         \* rows of "ingestion_runs", by primary key (a uuid4)
    SourceOf,    \* SourceOf[r]: the source_id column of run r
    Api,         \* concurrent POST /sources/{id}/run requests
    Scheduler,   \* scheduler processes
    Worker,      \* Celery worker children
    NoSource,    \* the source of a caller that handles none
    NoRun,       \* the run of a process that handles none
    MaxRetries,  \* max_retries of the task (3 in the code)
    MaxFaults,   \* bound: how many external faults a behaviour may contain
    SlowRuns     \* whether the lock's 900 seconds may elapse while in use

ASSUME ConstantsAssumption ==
    /\ Owner \in [Source -> User]
    /\ SourceOf \in [Run -> Source]
    /\ Due \subseteq Source
    /\ Api \cap Scheduler = {}
    /\ NoSource \notin Source
    /\ NoRun \notin Run
    /\ MaxRetries \in Nat
    /\ MaxFaults \in Nat
    /\ SlowRuns \in BOOLEAN

VARIABLES
    source,     \* source[s]: whether the row exists
    status,     \* status[r]: the run's status column, or that it has no row
    lock,       \* lock[s]: the Redis key ingestion:source:{s} exists
    caller,     \* what each request or scheduler is about to do
    todo,       \* todo[p]: due sources the scheduler has still to look at
    queue,      \* queue[r][k]: messages for r, k-th retry, ready in Redis
    worker,     \* what each worker child is about to do
    abandoned,  \* history: runs that some process gave up on
    faults      \* history: number of external faults so far

vars == <<source, status, lock, caller, todo, queue, worker, abandoned, faults>>

database == <<source, status>>

-----------------------------------------------------------------------------
Caller == Api \cup Scheduler

Terminal == {"succeeded", "partial", "failed"}

RunStatus == {"absent", "running", "deleted"} \cup Terminal

CallerPc == {"idle", "lock", "create", "dispatch", "stopped"}

WorkerPc == {"idle", "load", "fetch", "store", "release", "done"}

CallerState == [pc : CallerPc, src : Source \cup {NoSource}, run : Run \cup {NoRun}]

WorkerState == [pc      : WorkerPc,
                run     : Run \cup {NoRun},
                tries   : 0..MaxRetries,            \* request.retries
                outcome : Terminal \cup {"none"},   \* status to be stored
                retry   : BOOLEAN,   \* the exception is in autoretry_for
                owned   : BOOLEAN]   \* the broker waits for this child's ack

IdleCaller == [pc |-> "idle", src |-> NoSource, run |-> NoRun]

StoppedCaller == [pc |-> "stopped", src |-> NoSource, run |-> NoRun]

IdleWorker == [pc |-> "idle", run |-> NoRun, tries |-> 0, outcome |-> "none",
               retry |-> FALSE, owned |-> FALSE]

TypeOK ==
    /\ source \in [Source -> {"absent", "live", "deleted"}]
    /\ status \in [Run -> RunStatus]
    /\ lock \in [Source -> BOOLEAN]
    /\ caller \in [Caller -> CallerState]
    /\ todo \in [Scheduler -> SUBSET Source]
    /\ queue \in [Run -> [0..MaxRetries -> Nat]]
    /\ worker \in [Worker -> WorkerState]
    /\ abandoned \subseteq Run
    /\ faults \in 0..MaxFaults

Init ==
    /\ source = [s \in Source |-> "absent"]
    /\ status = [r \in Run |-> "absent"]
    /\ lock = [s \in Source |-> FALSE]
    /\ caller = [c \in Caller |-> IdleCaller]
    /\ todo = [p \in Scheduler |-> {}]
    /\ queue = [r \in Run |-> [k \in 0..MaxRetries |-> 0]]
    /\ worker = [w \in Worker |-> IdleWorker]
    /\ abandoned = {}
    /\ faults = 0

-----------------------------------------------------------------------------
(* Helpers.                                                                *)

\* get_active_run finds a row of the source with status "running".
HasActiveRun(s) == \E r \in Run : SourceOf[r] = s /\ status[r] = "running"

\* A fresh primary key for a run of s.
Fresh(s) == {r \in Run : SourceOf[r] = s /\ status[r] = "absent"}

Goto(c, where, s, r) ==
    caller' = [caller EXCEPT ![c] = [pc |-> where, src |-> s, run |-> r]]

Publish(r, k) == queue' = [queue EXCEPT ![r][k] = @ + 1]

\* An external fault happens: the process dies, or PostgreSQL, Redis or the
\* broker does not answer.
Fault == faults < MaxFaults /\ faults' = faults + 1

\* An exception that start_run's caller does not handle: the request answers
\* an error, the scheduler's loop and with it the process end.
Raise(c) ==
    /\ caller' = [caller EXCEPT ![c] =
                    IF c \in Scheduler THEN StoppedCaller ELSE IdleCaller]
    /\ todo' = [p \in Scheduler |-> IF p = c THEN {} ELSE todo[p]]

GiveUp(r) == abandoned' = abandoned \cup {r}

-----------------------------------------------------------------------------
(* Defective variants of actions below, each with one plausible mistake.   *)
(* They are no part of the specification: each is substituted for its      *)
(* action to see that a property of this module notices the mistake.       *)

\* TakeLock without NX: an existing key is set again.
TakeLockNoNX(p) ==
    /\ caller[p].pc = "lock"
    /\ Goto(p, "create", caller[p].src, NoRun)
    /\ lock' = [lock EXCEPT ![caller[p].src] = TRUE]
    /\ UNCHANGED <<database, todo, queue, worker, abandoned, faults>>

\* CreateRun that flushes instead of committing.
CreateRunNoCommit(c) ==
    /\ caller[c].pc = "create"
    /\ source[caller[c].src] = "live"
    /\ \E r \in Fresh(caller[c].src) : Goto(c, "dispatch", caller[c].src, r)
    /\ UNCHANGED <<database, lock, todo, queue, worker, abandoned, faults>>

\* Load that takes a retried task to have fetched already.
LoadSkipsFetch(w) ==
    /\ worker[w].pc = "load"
    /\ worker' = [worker EXCEPT ![w].pc =
                    IF worker[w].tries > 0 THEN "store"
                    ELSE IF source[SourceOf[worker[w].run]] = "live" THEN "fetch" ELSE "done"]
    /\ UNCHANGED <<database, lock, caller, todo, queue, abandoned, faults>>

\* Fetch that deletes the lock once the provider has answered.
FetchUnlocks(w) ==
    /\ worker[w].pc = "fetch"
    /\ \E o \in Terminal :
         worker' = [worker EXCEPT ![w].pc = "store", ![w].outcome = o]
    /\ lock' = [lock EXCEPT ![SourceOf[worker[w].run]] = FALSE]
    /\ UNCHANGED <<database, caller, todo, queue, abandoned, faults>>

\* Store with AdapterError among the exceptions retried by Celery.
StoreRetriesFailed(w) ==
    /\ worker[w].pc = "store"
    /\ status' = [status EXCEPT ![worker[w].run] =
                    IF @ = "deleted" THEN @ ELSE worker[w].outcome]
    /\ worker' = [worker EXCEPT ![w].pc = "release",
                                ![w].retry = worker[w].outcome = "failed"]
    /\ UNCHANGED <<source, lock, caller, todo, queue, abandoned, faults>>

\* WorkerLost without task_acks_late and task_reject_on_worker_lost.
WorkerLostAcked(w) ==
    /\ worker[w].pc # "idle"
    /\ worker' = [worker EXCEPT ![w] = IdleWorker]
    /\ Fault
    /\ UNCHANGED <<database, lock, caller, todo, queue, abandoned>>

-----------------------------------------------------------------------------
(* Sources and users.                                                      *)

CreateSource(s) ==
    /\ source[s] = "absent"
    /\ source' = [source EXCEPT ![s] = "live"]
    /\ UNCHANGED <<status, lock, caller, todo, queue, worker, abandoned, faults>>

\* DELETE /users/me: one transaction whose cascade removes the user's
\* sources and the runs of these sources.  Redis is not touched.
DeleteUser(u) ==
    /\ \E s \in Source : Owner[s] = u /\ source[s] = "live"
    /\ source' = [s \in Source |->
                    IF Owner[s] = u /\ source[s] = "live" THEN "deleted" ELSE source[s]]
    /\ status' = [r \in Run |->
                    IF Owner[SourceOf[r]] = u /\ status[r] # "absent"
                    THEN "deleted" ELSE status[r]]
    /\ UNCHANGED <<lock, caller, todo, queue, worker, abandoned, faults>>

-----------------------------------------------------------------------------
(* Starting a run.                                                         *)

\* start_run up to get_active_run, for a request: the service was built
\* without Redis, so no lock follows.  (With a source that does not exist or
\* with an active run, the request answers and changes nothing.)
Request(a, s) ==
    /\ caller[a].pc = "idle"
    /\ source[s] = "live"
    /\ ~HasActiveRun(s)
    /\ Goto(a, "create", s, NoRun)
    /\ UNCHANGED <<database, lock, todo, queue, worker, abandoned, faults>>

\* schedule_due_sources lists the sources once per poll.
Poll(p) ==
    /\ caller[p].pc = "idle"
    /\ todo[p] = {}
    /\ \E s \in Due : source[s] = "live"
    /\ todo' = [todo EXCEPT ![p] = {s \in Due : source[s] = "live"}]
    /\ UNCHANGED <<database, lock, caller, queue, worker, abandoned, faults>>

\* start_run up to get_active_run, for the next source of the scheduler.
Look(p, s) ==
    /\ caller[p].pc = "idle"
    /\ s \in todo[p]
    /\ todo' = [todo EXCEPT ![p] = @ \ {s}]
    /\ IF source[s] = "live" /\ ~HasActiveRun(s)
       THEN Goto(p, "lock", s, NoRun)
       ELSE UNCHANGED caller
    /\ UNCHANGED <<database, lock, queue, worker, abandoned, faults>>

\* SET ingestion:source:{s} NX EX 900.  Without it IngestionAlreadyRunning
\* is raised, which the scheduler skips.
TakeLock(p) ==
    /\ caller[p].pc = "lock"
    /\ LET s == caller[p].src IN
         IF lock[s]
         THEN caller' = [caller EXCEPT ![p] = IdleCaller] /\ UNCHANGED lock
         ELSE Goto(p, "create", s, NoRun) /\ lock' = [lock EXCEPT ![s] = TRUE]
    /\ UNCHANGED <<database, todo, queue, worker, abandoned, faults>>

CreateRun(c) ==
    /\ caller[c].pc = "create"
    /\ source[caller[c].src] = "live"
    /\ \E r \in Fresh(caller[c].src) :
         /\ status' = [status EXCEPT ![r] = "running"]
         /\ Goto(c, "dispatch", caller[c].src, r)
    /\ UNCHANGED <<source, lock, todo, queue, worker, abandoned, faults>>

\* The source was deleted since start_run read it: the foreign key makes the
\* commit fail with PersistenceFailure.
CreateRunOrphan(c) ==
    /\ caller[c].pc = "create"
    /\ source[caller[c].src] # "live"
    /\ Raise(c)
    /\ UNCHANGED <<database, lock, queue, worker, abandoned, faults>>

\* run_ingestion.delay, after the run's transaction has committed.
Dispatch(c) ==
    /\ caller[c].pc = "dispatch"
    /\ Publish(caller[c].run, 0)
    /\ caller' = [caller EXCEPT ![c] = IdleCaller]
    /\ UNCHANGED <<database, lock, todo, worker, abandoned, faults>>

\* The process dies or a call fails at each of the four steps.  The command
\* may have been executed although no answer came back.
LookFails(p) ==
    /\ caller[p].pc = "idle"
    /\ Raise(p)
    /\ Fault
    /\ UNCHANGED <<database, lock, queue, worker, abandoned>>

LockFails(p) ==
    /\ caller[p].pc = "lock"
    /\ \E set \in BOOLEAN : lock' = [lock EXCEPT ![caller[p].src] = @ \/ set]
    /\ Raise(p)
    /\ Fault
    /\ UNCHANGED <<database, queue, worker, abandoned>>

CreateRunFails(c) ==
    /\ caller[c].pc = "create"
    /\ \/ UNCHANGED <<status, abandoned>>
       \/ /\ source[caller[c].src] = "live"
          /\ \E r \in Fresh(caller[c].src) :
               /\ status' = [status EXCEPT ![r] = "running"]
               /\ GiveUp(r)
    /\ Raise(c)
    /\ Fault
    /\ UNCHANGED <<source, lock, queue, worker>>

DispatchFails(c) ==
    /\ caller[c].pc = "dispatch"
    /\ \/ GiveUp(caller[c].run) /\ UNCHANGED queue
       \/ Publish(caller[c].run, 0) /\ UNCHANGED abandoned
    /\ Raise(c)
    /\ Fault
    /\ UNCHANGED <<database, lock, worker>>

\* The operator starts an ended scheduler again (compose has no restart
\* policy for it).
RestartScheduler(p) ==
    /\ caller[p].pc = "stopped"
    /\ caller' = [caller EXCEPT ![p] = IdleCaller]
    /\ UNCHANGED <<database, lock, todo, queue, worker, abandoned, faults>>

\* A user of the lock: a scheduler that took it and has not dispatched, a
\* run that is being carried, a worker child at work.
InUse(s) ==
    \/ \E p \in Scheduler : caller[p].pc \in {"create", "dispatch"} /\ caller[p].src = s
    \/ \E r \in Run \ abandoned : SourceOf[r] = s /\ status[r] = "running"
    \/ \E w \in Worker : worker[w].pc # "idle" /\ SourceOf[worker[w].run] = s

\* The key's 900 seconds are over.
LockExpires(s) ==
    /\ lock[s]
    /\ SlowRuns \/ ~InUse(s)
    /\ lock' = [lock EXCEPT ![s] = FALSE]
    /\ UNCHANGED <<database, caller, todo, queue, worker, abandoned, faults>>

-----------------------------------------------------------------------------
(* Executing a run.                                                        *)

Deliver(w) ==
    /\ worker[w].pc = "idle"
    /\ \E r \in Run, k \in 0..MaxRetries :
         /\ queue[r][k] > 0
         /\ queue' = [queue EXCEPT ![r][k] = @ - 1]
         /\ worker' = [worker EXCEPT ![w] =
              [IdleWorker EXCEPT !.pc = "load", !.run = r, !.tries = k, !.owned = TRUE]]
    /\ UNCHANGED <<database, lock, caller, todo, abandoned, faults>>

\* repository.get(source): without the source the task answers "skipped",
\* outside execute_run and therefore without its finally.
Load(w) ==
    /\ worker[w].pc = "load"
    /\ worker' = [worker EXCEPT ![w].pc =
                    IF source[SourceOf[worker[w].run]] = "live" THEN "fetch" ELSE "done"]
    /\ UNCHANGED <<database, lock, caller, todo, queue, abandoned, faults>>

\* with_retries(collect): all records, some malformed, or an AdapterError.
Fetch(w) ==
    /\ worker[w].pc = "fetch"
    /\ \E o \in Terminal :
         worker' = [worker EXCEPT ![w].pc = "store", ![w].outcome = o]
    /\ UNCHANGED <<database, lock, caller, todo, queue, abandoned, faults>>

\* get_run and finish_run; after an AdapterError the error is raised again
\* and, not being in autoretry_for, fails the task.  A run without a row is
\* left alone.
Store(w) ==
    /\ worker[w].pc = "store"
    /\ status' = [status EXCEPT ![worker[w].run] =
                    IF @ = "deleted" THEN @ ELSE worker[w].outcome]
    /\ worker' = [worker EXCEPT ![w].pc = "release"]
    /\ UNCHANGED <<source, lock, caller, todo, queue, abandoned, faults>>

\* Any other exception in the try block of execute_run (a payload of another
\* shape, a null title, a value the database refuses): only the finally is
\* executed, the run's row keeps its status.
Unexpected(w) ==
    /\ worker[w].pc \in {"fetch", "store"}
    /\ worker' = [worker EXCEPT ![w].pc = "release"]
    /\ GiveUp(worker[w].run)
    /\ UNCHANGED <<database, lock, caller, todo, queue, faults>>

\* redis.delete in the finally, whoever set the key.
ReleaseLock(w) ==
    /\ worker[w].pc = "release"
    /\ lock' = [lock EXCEPT ![SourceOf[worker[w].run]] = FALSE]
    /\ worker' = [worker EXCEPT ![w].pc = "done"]
    /\ UNCHANGED <<database, caller, todo, queue, abandoned, faults>>

\* The task has returned or failed for good: late acknowledgement.
Ack(w) ==
    /\ worker[w].pc = "done"
    /\ ~worker[w].retry
    /\ worker' = [worker EXCEPT ![w] = IdleWorker]
    /\ UNCHANGED <<database, lock, caller, todo, queue, abandoned, faults>>

\* autoretry_for publishes the message of the next try before this one is
\* acknowledged.
Retry(w) ==
    /\ worker[w].pc = "done"
    /\ worker[w].retry
    /\ worker[w].tries < MaxRetries
    /\ Publish(worker[w].run, worker[w].tries + 1)
    /\ worker' = [worker EXCEPT ![w].retry = FALSE]
    /\ UNCHANGED <<database, lock, caller, todo, abandoned, faults>>

RetriesExhausted(w) ==
    /\ worker[w].pc = "done"
    /\ worker[w].retry
    /\ worker[w].tries = MaxRetries
    /\ GiveUp(worker[w].run)
    /\ worker' = [worker EXCEPT ![w].retry = FALSE]
    /\ UNCHANGED <<database, lock, caller, todo, queue, faults>>

\* A database error while the source is loaded, before the try block.
\* DatabaseUnavailable, TimeoutError and ConnectionError are in autoretry_for;
\* with any other (PersistenceFailure) the task fails for good, and the run's
\* row keeps its status ...
LoadFails(w) ==
    /\ worker[w].pc = "load"
    /\ \E retried \in BOOLEAN :
         /\ worker' = [worker EXCEPT ![w].pc = "done", ![w].retry = retried]
         /\ IF retried THEN UNCHANGED abandoned ELSE GiveUp(worker[w].run)
    /\ Fault
    /\ UNCHANGED <<database, lock, caller, todo, queue>>

\* ... and one that is retried while the run is stored.  refresh_session comes
\* after the commit, so the result may be stored all the same.  (Without the
\* retry this is Unexpected, or what Store does.)
StoreFails(w) ==
    /\ worker[w].pc = "store"
    /\ \/ UNCHANGED status
       \/ status' = [status EXCEPT ![worker[w].run] =
                       IF @ = "deleted" THEN @ ELSE worker[w].outcome]
    /\ worker' = [worker EXCEPT ![w].pc = "release", ![w].retry = TRUE]
    /\ Fault
    /\ UNCHANGED <<source, lock, caller, todo, queue, abandoned>>

\* redis.delete fails: the Redis error, which is not in autoretry_for, takes
\* the place of the exception under way.
ReleaseFails(w) ==
    /\ worker[w].pc = "release"
    /\ \E gone \in BOOLEAN :
         lock' = [lock EXCEPT ![SourceOf[worker[w].run]] = @ /\ ~gone]
    /\ worker' = [worker EXCEPT ![w].pc = "done", ![w].retry = FALSE]
    /\ GiveUp(worker[w].run)
    /\ Fault
    /\ UNCHANGED <<database, caller, todo, queue>>

\* The child is killed: task_reject_on_worker_lost puts the message back.
WorkerLost(w) ==
    /\ worker[w].pc # "idle"
    /\ IF worker[w].owned
       THEN Publish(worker[w].run, worker[w].tries)
       ELSE UNCHANGED queue
    /\ worker' = [worker EXCEPT ![w] = IdleWorker]
    /\ Fault
    /\ UNCHANGED <<database, lock, caller, todo, abandoned>>

\* Redis as a broker redelivers what is not acknowledged within its
\* visibility timeout, while the child is still at work.
Redeliver(w) ==
    /\ worker[w].pc # "idle"
    /\ worker[w].owned
    /\ Publish(worker[w].run, worker[w].tries)
    /\ worker' = [worker EXCEPT ![w].owned = FALSE]
    /\ Fault
    /\ UNCHANGED <<database, lock, caller, todo, abandoned>>

-----------------------------------------------------------------------------
CallerStep(c) == CreateRun(c) \/ CreateRunOrphan(c) \/ Dispatch(c)

SchedulerStep(p) ==
    Poll(p) \/ (\E s \in Source : Look(p, s)) \/ TakeLock(p) \/ CallerStep(p)

WorkerStep(w) ==
    \/ Deliver(w) \/ Load(w) \/ Fetch(w) \/ Store(w) \/ Unexpected(w)
    \/ ReleaseLock(w) \/ Ack(w) \/ Retry(w) \/ RetriesExhausted(w)

CallerFault(c) == LockFails(c) \/ CreateRunFails(c) \/ DispatchFails(c)

WorkerFault(w) ==
    LoadFails(w) \/ StoreFails(w) \/ ReleaseFails(w) \/ WorkerLost(w) \/ Redeliver(w)

Next ==
    \/ \E s \in Source : CreateSource(s) \/ LockExpires(s)
    \/ \E u \in User : DeleteUser(u)
    \/ \E a \in Api : (\E s \in Source : Request(a, s)) \/ CallerStep(a)
    \/ \E p \in Scheduler : SchedulerStep(p) \/ LookFails(p) \/ RestartScheduler(p)
    \/ \E c \in Caller : CallerFault(c)
    \/ \E w \in Worker : WorkerStep(w) \/ WorkerFault(w)

Spec == Init /\ [][Next]_vars

\* Requests and worker children that can go on do go on: neither waits for
\* another process.  Nobody has to send a request, create a source, delete a
\* user, restart a scheduler, and no fault has to happen.
Fairness ==
    /\ \A c \in Caller : WF_vars(CallerStep(c))
    /\ \A p \in Scheduler : WF_vars(SchedulerStep(p))
    /\ \A w \in Worker : WF_vars(WorkerStep(w))

FairSpec == Spec /\ Fairness

\* A worker on whose death its message has to come back.
Busy(w) == worker[w].pc \in {"load", "fetch", "store"} \/ worker[w].retry

\* The faults by which a run is executed again although its lock has been
\* given up for it: the finally of execute_run deletes the key before the
\* retry, or before the message comes back, or another child deletes it.
UnlockedRepeat(w) == StoreFails(w) \/ Redeliver(w) \/ (WorkerLost(w) /\ ~Busy(w))

\* The specification without these faults, and with all others.
LockedSpec == Init /\ [][Next /\ \A w \in Worker : ~UnlockedRepeat(w)]_vars

-----------------------------------------------------------------------------
(* Properties.                                                             *)

\* A run that is still to be finished and that nobody gave up on.
InFlight(r) == status[r] = "running" /\ r \notin abandoned

\* Somebody will go on with r: the caller that created it, a message, or a
\* worker whose death would bring the message back.
Carried(r) ==
    \/ \E c \in Caller : caller[c].pc = "dispatch" /\ caller[c].run = r
    \/ \E k \in 0..MaxRetries : queue[r][k] > 0
    \/ \E w \in Worker :
         /\ worker[w].run = r
         /\ worker[w].owned
         /\ worker[w].pc \in {"load", "fetch", "store"} \/ worker[w].retry

\* No run in flight is lost: with the row committed before the message is
\* sent, the message acknowledged after the work and put back when its
\* worker is lost, and a retry published before the acknowledgement, every
\* "running" row has a process or a message that will finish it, unless one
\* of the steps with GiveUp gave it up: a start that broke after the row was
\* committed, an error that is not retried, retries without success.  Nobody
\* finishes the row of such a run any more; see EveryRunEnds.
NothingLost == \A r \in Run : InFlight(r) => Carried(r)

\* A message or a worker is about a run whose row has been committed (and
\* possibly deleted since): create_run commits before delay, so that get_run
\* in the worker cannot miss the row.
CommittedBeforeDispatch ==
    \A r \in Run : status[r] = "absent" =>
        /\ \A k \in 0..MaxRetries : queue[r][k] = 0
        /\ \A w \in Worker : worker[w].run # r
        /\ \A c \in Caller : caller[c].run # r

\* As long as no message was duplicated by a fault, a finished run is never
\* executed a second time over its stored result, whatever the interleaving
\* of requests, schedulers, workers, expiring locks and deletions.
FinishedOnce ==
    [][\A r \in Run :
         status[r] \in Terminal /\ status'[r] # status[r] /\ status'[r] # "deleted"
           => faults > 0]_vars

\* At most one run of a source is in flight.  (Promised by the lock and
\* get_active_run; true when every starter takes the lock, no run outlives
\* the lock, and none is executed again without it.)
SingleFlight ==
    \A r1, r2 \in Run :
        SourceOf[r1] = SourceOf[r2] /\ InFlight(r1) /\ InFlight(r2) => r1 = r2

\* A run in flight leaves that state, through whatever retries, redeliveries
\* and lost workers: it is finished, deleted, or given up, its row "running".
FlightEnds == \A r \in Run : InFlight(r) ~> ~InFlight(r)

\* specs/003: "Every run ends as succeeded, partial, or failed" (or is deleted
\* with its user).  It does not: the row of a run that is given up stays.
EveryRunEnds == \A r \in Run : status[r] = "running" ~> status[r] # "running"

\* The abstract specification, and this one's view of it.
Phase == [r \in Run |->
            IF status[r] = "absent" THEN "new"
            ELSE IF InFlight(r) THEN "active"
            ELSE IF status[r] = "running" THEN "dropped"
            ELSE status[r]]

SourceRuns == INSTANCE SourceRuns WITH phase <- Phase

\* The runs of a source follow one another, each with one outcome.
ImplementsSourceRuns == SourceRuns!Spec
=============================================================================
