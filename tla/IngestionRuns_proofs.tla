------------------------ MODULE IngestionRuns_proofs ------------------------
(***************************************************************************)
(* Proofs about IngestionRuns for all values of its constants: types, runs *)
(* and their carriers, exclusion by the lock, and the refinement of        *)
(* SourceRuns.                                                             *)
(***************************************************************************)
EXTENDS IngestionRuns, TLAPS

-----------------------------------------------------------------------------
(* What the helpers do to the types of the variables they change.          *)

\* Goto keeps callers well-typed.
LEMMA GotoType ==
    ASSUME TypeOK, NEW c \in Caller, NEW where \in CallerPc,
           NEW s \in Source \cup {NoSource}, NEW r \in Run \cup {NoRun},
           Goto(c, where, s, r)
    PROVE  caller' \in [Caller -> CallerState]
<1>1. [pc |-> where, src |-> s, run |-> r] \in CallerState
  BY DEF CallerState
<1> QED BY <1>1 DEF Goto, TypeOK

\* Raise keeps callers and the schedulers' lists well-typed.
LEMMA RaiseType ==
    ASSUME TypeOK, NEW c \in Caller, Raise(c)
    PROVE  /\ caller' \in [Caller -> CallerState]
           /\ todo' \in [Scheduler -> SUBSET Source]
<1>1. IdleCaller \in CallerState /\ StoppedCaller \in CallerState
  BY DEF IdleCaller, StoppedCaller, CallerState, CallerPc
<1> QED BY <1>1 DEF Raise, TypeOK

\* Publishing a message keeps the queue a function to numbers.
LEMMA PublishType ==
    ASSUME TypeOK, NEW r \in Run, NEW k \in 0..MaxRetries, Publish(r, k)
    PROVE  queue' \in [Run -> [0..MaxRetries -> Nat]]
<1>1. queue[r] \in [0..MaxRetries -> Nat]
  BY DEF TypeOK
<1>2. queue[r][k] \in Nat
  BY <1>1
<1>3. queue[r][k] + 1 \in Nat
  BY <1>2
<1>4. [queue[r] EXCEPT ![k] = queue[r][k] + 1] \in [0..MaxRetries -> Nat]
  BY <1>1, <1>3
<1>5. queue' = [queue EXCEPT ![r] = [queue[r] EXCEPT ![k] = queue[r][k] + 1]]
  BY DEF Publish
<1> QED BY <1>4, <1>5 DEF TypeOK

\* A fault increases a counter that stays within its bound.
LEMMA FaultType ==
    ASSUME TypeOK, Fault
    PROVE  faults' \in 0..MaxFaults
BY ConstantsAssumption DEF Fault, TypeOK

\* A worker that is not idle works on a run; replacing the fields that its
\* steps change keeps it well-typed.
LEMMA WorkerType ==
    ASSUME TypeOK, NEW w \in Worker
    PROVE  /\ \A p \in WorkerPc : [worker EXCEPT ![w].pc = p] \in [Worker -> WorkerState]
           /\ \A p \in WorkerPc, o \in Terminal :
                [worker EXCEPT ![w].pc = p, ![w].outcome = o] \in [Worker -> WorkerState]
           /\ \A p \in WorkerPc, b \in BOOLEAN :
                [worker EXCEPT ![w].pc = p, ![w].retry = b] \in [Worker -> WorkerState]
           /\ [worker EXCEPT ![w].retry = FALSE] \in [Worker -> WorkerState]
           /\ [worker EXCEPT ![w].owned = FALSE] \in [Worker -> WorkerState]
           /\ [worker EXCEPT ![w] = IdleWorker] \in [Worker -> WorkerState]
<1>1. worker[w] \in WorkerState
  BY DEF TypeOK
<1>2. IdleWorker \in WorkerState
  BY ConstantsAssumption DEF IdleWorker, WorkerState, WorkerPc
<1> QED BY <1>1, <1>2 DEF TypeOK, WorkerState

-----------------------------------------------------------------------------
(* Type correctness.                                                       *)

\* What the program counters say about the other fields.
ProcessesOK ==
    /\ \A c \in Caller :
         /\ caller[c].pc \in {"lock", "create", "dispatch"} => caller[c].src \in Source
         /\ IF caller[c].pc = "dispatch" THEN caller[c].run \in Run
                                         ELSE caller[c].run = NoRun
    /\ \A w \in Worker :
         /\ IF worker[w].pc = "idle" THEN worker[w] = IdleWorker
                                     ELSE worker[w].run \in Run
         /\ worker[w].pc = "store" => worker[w].outcome \in Terminal

TypeInv == TypeOK /\ ProcessesOK

\* The initial state is well-typed.
LEMMA TypeInit == Init => TypeInv
<1> SUFFICES ASSUME Init PROVE TypeInv
  OBVIOUS
<1>1. IdleCaller \in CallerState /\ IdleWorker \in WorkerState
  BY ConstantsAssumption DEF IdleCaller, CallerState, CallerPc, IdleWorker, WorkerState, WorkerPc
<1>2. TypeOK
  BY <1>1, ConstantsAssumption DEF Init, TypeOK, RunStatus
<1>3. ProcessesOK
  BY DEF Init, ProcessesOK, IdleCaller, IdleWorker
<1> QED BY <1>2, <1>3 DEF TypeInv

\* The steps on sources and users preserve type correctness.
LEMMA TypeSourceStep ==
    ASSUME TypeInv,
           \/ \E s \in Source : CreateSource(s) \/ LockExpires(s)
           \/ \E u \in User : DeleteUser(u)
    PROVE  TypeInv'
<1> USE DEF TypeInv
<1>1. ASSUME NEW s \in Source, CreateSource(s) PROVE TypeInv'
  BY <1>1 DEF CreateSource, TypeOK, ProcessesOK
<1>2. ASSUME NEW s \in Source, LockExpires(s) PROVE TypeInv'
  BY <1>2 DEF LockExpires, TypeOK, ProcessesOK, database
<1>3. ASSUME NEW u \in User, DeleteUser(u) PROVE TypeInv'
  BY <1>3 DEF DeleteUser, TypeOK, ProcessesOK, RunStatus
<1> QED BY <1>1, <1>2, <1>3

\* The steps of requests and schedulers preserve type correctness.
LEMMA TypeCallerStep ==
    ASSUME TypeInv, NEW c \in Caller,
           \/ \E s \in Source : Request(c, s)
           \/ CallerStep(c)
           \/ CallerFault(c)
    PROVE  TypeInv'
<1> USE DEF TypeInv
<1>1. ASSUME NEW s \in Source, Request(c, s) PROVE TypeInv'
  <2>1. caller' \in [Caller -> CallerState]
    BY <1>1, GotoType DEF Request, CallerPc
  <2>2. TypeOK'
    BY <1>1, <2>1 DEF Request, TypeOK, database
  <2>3. ProcessesOK'
    BY <1>1 DEF Request, TypeOK, ProcessesOK, Goto
  <2> QED BY <2>2, <2>3
<1>2. CASE CreateRun(c)
  <2>1. PICK r \in Fresh(caller[c].src) :
          /\ status' = [status EXCEPT ![r] = "running"]
          /\ Goto(c, "dispatch", caller[c].src, r)
    BY <1>2 DEF CreateRun
  <2>2. caller[c].src \in Source /\ r \in Run
    BY <1>2, <2>1 DEF CreateRun, ProcessesOK, Fresh
  <2>3. caller' \in [Caller -> CallerState]
    BY <2>1, <2>2, GotoType DEF CallerPc
  <2>4. TypeOK'
    BY <1>2, <2>1, <2>2, <2>3 DEF CreateRun, TypeOK, RunStatus
  <2>5. ProcessesOK'
    BY <1>2, <2>1, <2>2 DEF CreateRun, TypeOK, ProcessesOK, Goto
  <2> QED BY <2>4, <2>5
<1>3. CASE CreateRunOrphan(c)
  <2>1. TypeOK'
    BY <1>3, RaiseType DEF CreateRunOrphan, TypeOK, database
  <2>2. ProcessesOK'
    BY <1>3 DEF CreateRunOrphan, TypeOK, ProcessesOK, Raise, IdleCaller, StoppedCaller
  <2> QED BY <2>1, <2>2
<1>4. CASE Dispatch(c)
  <2>1. caller[c].run \in Run /\ 0 \in 0..MaxRetries
    BY <1>4, ConstantsAssumption DEF Dispatch, ProcessesOK
  <2>2. queue' \in [Run -> [0..MaxRetries -> Nat]]
    BY <1>4, <2>1, PublishType DEF Dispatch
  <2>3. IdleCaller \in CallerState
    BY DEF IdleCaller, CallerState, CallerPc
  <2>4. TypeOK'
    BY <1>4, <2>2, <2>3 DEF Dispatch, TypeOK, database
  <2>5. ProcessesOK'
    BY <1>4 DEF Dispatch, TypeOK, ProcessesOK, IdleCaller
  <2> QED BY <2>4, <2>5
<1>5. CASE LockFails(c)
  <2>1. PICK set \in BOOLEAN : lock' = [lock EXCEPT ![caller[c].src] = @ \/ set]
    BY <1>5 DEF LockFails
  <2>2. lock' \in [Source -> BOOLEAN]
    BY <2>1 DEF TypeOK
  <2>3. TypeOK'
    BY <1>5, <2>2, RaiseType, FaultType DEF LockFails, TypeOK, database
  <2>4. ProcessesOK'
    BY <1>5 DEF LockFails, TypeOK, ProcessesOK, Raise, IdleCaller, StoppedCaller
  <2> QED BY <2>3, <2>4
<1>6. CASE CreateRunFails(c)
  <2>1. status' \in [Run -> RunStatus] /\ abandoned' \subseteq Run
    BY <1>6 DEF CreateRunFails, TypeOK, RunStatus, Fresh, GiveUp
  <2>2. TypeOK'
    BY <1>6, <2>1, RaiseType, FaultType DEF CreateRunFails, TypeOK
  <2>3. ProcessesOK'
    BY <1>6 DEF CreateRunFails, TypeOK, ProcessesOK, Raise, IdleCaller, StoppedCaller
  <2> QED BY <2>2, <2>3
<1>7. CASE DispatchFails(c)
  <2>1. caller[c].run \in Run /\ 0 \in 0..MaxRetries
    BY <1>7, ConstantsAssumption DEF DispatchFails, ProcessesOK
  <2>2. queue' \in [Run -> [0..MaxRetries -> Nat]] /\ abandoned' \subseteq Run
    BY <1>7, <2>1, PublishType DEF DispatchFails, TypeOK, GiveUp
  <2>3. TypeOK'
    BY <1>7, <2>2, RaiseType, FaultType DEF DispatchFails, TypeOK, database
  <2>4. ProcessesOK'
    BY <1>7 DEF DispatchFails, TypeOK, ProcessesOK, Raise, IdleCaller, StoppedCaller
  <2> QED BY <2>3, <2>4
<1> QED BY <1>1, <1>2, <1>3, <1>4, <1>5, <1>6, <1>7 DEF CallerStep, CallerFault

\* The remaining steps of the schedulers preserve type correctness.
LEMMA TypeSchedulerStep ==
    ASSUME TypeInv, NEW p \in Scheduler,
           \/ Poll(p) \/ TakeLock(p) \/ LookFails(p) \/ RestartScheduler(p)
           \/ \E s \in Source : Look(p, s)
    PROVE  TypeInv'
<1> USE DEF TypeInv
<1>0. p \in Caller /\ IdleCaller \in CallerState
  BY DEF Caller, IdleCaller, CallerState, CallerPc
<1>1. CASE Poll(p)
  BY <1>1, ConstantsAssumption DEF Poll, TypeOK, ProcessesOK, database
<1>2. CASE TakeLock(p)
  <2>1. caller[p].src \in Source
    BY <1>0, <1>2 DEF TakeLock, ProcessesOK
  <2>2. CASE lock[caller[p].src]
    <3>1. TypeOK'
      BY <1>0, <1>2, <2>2 DEF TakeLock, TypeOK, database
    <3>2. ProcessesOK'
      BY <1>0, <1>2, <2>2 DEF TakeLock, TypeOK, ProcessesOK, IdleCaller
    <3> QED BY <3>1, <3>2
  <2>3. CASE ~lock[caller[p].src]
    <3>1. caller' \in [Caller -> CallerState]
      BY <1>0, <1>2, <2>1, <2>3, GotoType DEF TakeLock, CallerPc
    <3>2. TypeOK'
      BY <1>2, <2>3, <3>1 DEF TakeLock, TypeOK, database
    <3>3. ProcessesOK'
      BY <1>0, <1>2, <2>1, <2>3 DEF TakeLock, TypeOK, ProcessesOK, Goto
    <3> QED BY <3>2, <3>3
  <2> QED BY <2>2, <2>3
<1>3. CASE LookFails(p)
  <2>1. TypeOK'
    BY <1>0, <1>3, RaiseType, FaultType DEF LookFails, TypeOK, database
  <2>2. ProcessesOK'
    BY <1>3 DEF LookFails, TypeOK, ProcessesOK, Raise, IdleCaller, StoppedCaller
  <2> QED BY <2>1, <2>2
<1>4. CASE RestartScheduler(p)
  <2>1. TypeOK'
    BY <1>0, <1>4 DEF RestartScheduler, TypeOK, database
  <2>2. ProcessesOK'
    BY <1>0, <1>4 DEF RestartScheduler, TypeOK, ProcessesOK, IdleCaller
  <2> QED BY <2>1, <2>2
<1>5. ASSUME NEW s \in Source, Look(p, s) PROVE TypeInv'
  <2>1. caller' \in [Caller -> CallerState]
    BY <1>0, <1>5, GotoType DEF Look, CallerPc, TypeOK
  <2>2. TypeOK'
    BY <1>5, <2>1 DEF Look, TypeOK, database
  <2>3. ProcessesOK'
    BY <1>0, <1>5 DEF Look, TypeOK, ProcessesOK, Goto
  <2> QED BY <2>2, <2>3
<1> QED BY <1>1, <1>2, <1>3, <1>4, <1>5

\* The steps of workers preserve type correctness.
LEMMA TypeWorkerStep ==
    ASSUME TypeInv, NEW w \in Worker, WorkerStep(w)
    PROVE  TypeInv'
<1> USE DEF TypeInv
<1>0. worker[w].pc # "idle" => worker[w].run \in Run
  BY DEF ProcessesOK
<1>1. CASE Deliver(w)
  <2>1. PICK r \in Run, k \in 0..MaxRetries :
          /\ queue[r][k] > 0
          /\ queue' = [queue EXCEPT ![r][k] = @ - 1]
          /\ worker' = [worker EXCEPT ![w] =
               [IdleWorker EXCEPT !.pc = "load", !.run = r, !.tries = k, !.owned = TRUE]]
    BY <1>1 DEF Deliver
  <2>2. queue[r][k] \in Nat /\ queue[r] \in [0..MaxRetries -> Nat]
    BY DEF TypeOK
  <2>3. queue[r][k] - 1 \in Nat
    BY <2>1, <2>2
  <2>4. [queue[r] EXCEPT ![k] = queue[r][k] - 1] \in [0..MaxRetries -> Nat]
    BY <2>2, <2>3
  <2>5. queue' = [queue EXCEPT ![r] = [queue[r] EXCEPT ![k] = queue[r][k] - 1]]
    BY <2>1
  <2>6. queue' \in [Run -> [0..MaxRetries -> Nat]]
    BY <2>4, <2>5 DEF TypeOK
  <2>7. [IdleWorker EXCEPT !.pc = "load", !.run = r, !.tries = k, !.owned = TRUE]
          \in WorkerState
    BY DEF IdleWorker, WorkerState, WorkerPc
  <2>8. TypeOK'
    BY <1>1, <2>1, <2>6, <2>7 DEF Deliver, TypeOK, database
  <2>9. ProcessesOK'
    BY <1>1, <2>1 DEF Deliver, TypeOK, ProcessesOK, IdleWorker
  <2> QED BY <2>8, <2>9
<1>2. CASE Load(w)
  <2>1. worker' \in [Worker -> WorkerState]
    BY <1>2, WorkerType DEF Load, WorkerPc
  <2>2. TypeOK'
    BY <1>2, <2>1 DEF Load, TypeOK, database
  <2>3. ProcessesOK'
    BY <1>2 DEF Load, TypeOK, ProcessesOK, WorkerState
  <2> QED BY <2>2, <2>3
<1>3. CASE Fetch(w)
  <2>1. PICK o \in Terminal : worker' = [worker EXCEPT ![w].pc = "store", ![w].outcome = o]
    BY <1>3 DEF Fetch
  <2>2. worker' \in [Worker -> WorkerState]
    BY <2>1, WorkerType DEF WorkerPc
  <2>3. TypeOK'
    BY <1>3, <2>2 DEF Fetch, TypeOK, database
  <2>4. ProcessesOK'
    BY <1>3, <2>1 DEF Fetch, TypeOK, ProcessesOK, WorkerState
  <2> QED BY <2>3, <2>4
<1>4. CASE Store(w)
  <2>1. worker' \in [Worker -> WorkerState]
    BY <1>4, WorkerType DEF Store, WorkerPc
  <2>2. worker[w].run \in Run /\ worker[w].outcome \in RunStatus
    BY <1>4, <1>0 DEF Store, ProcessesOK, RunStatus
  <2>3. TypeOK'
    BY <1>4, <2>1, <2>2 DEF Store, TypeOK
  <2>4. ProcessesOK'
    BY <1>4 DEF Store, TypeOK, ProcessesOK, WorkerState
  <2> QED BY <2>3, <2>4
<1>5. CASE Unexpected(w)
  <2>1. worker' \in [Worker -> WorkerState]
    BY <1>5, WorkerType DEF Unexpected, WorkerPc
  <2>2. TypeOK'
    BY <1>5, <1>0, <2>1 DEF Unexpected, TypeOK, database, GiveUp
  <2>3. ProcessesOK'
    BY <1>5 DEF Unexpected, TypeOK, ProcessesOK, WorkerState
  <2> QED BY <2>2, <2>3
<1>6. CASE ReleaseLock(w)
  <2>1. worker' \in [Worker -> WorkerState]
    BY <1>6, WorkerType DEF ReleaseLock, WorkerPc
  <2>2. TypeOK'
    BY <1>6, <2>1 DEF ReleaseLock, TypeOK, database
  <2>3. ProcessesOK'
    BY <1>6 DEF ReleaseLock, TypeOK, ProcessesOK, WorkerState
  <2> QED BY <2>2, <2>3
<1>7. CASE Ack(w)
  <2>1. worker' \in [Worker -> WorkerState]
    BY <1>7, WorkerType DEF Ack
  <2>2. TypeOK'
    BY <1>7, <2>1 DEF Ack, TypeOK, database
  <2>3. ProcessesOK'
    BY <1>7 DEF Ack, TypeOK, ProcessesOK, IdleWorker
  <2> QED BY <2>2, <2>3
<1>8. CASE Retry(w)
  <2>1. worker' \in [Worker -> WorkerState]
    BY <1>8, WorkerType DEF Retry
  <2>2. worker[w].tries \in 0..MaxRetries
    BY DEF TypeOK, WorkerState
  <2>3. worker[w].tries + 1 \in 0..MaxRetries
    BY <1>8, <2>2, ConstantsAssumption DEF Retry
  <2>4. queue' \in [Run -> [0..MaxRetries -> Nat]]
    BY <1>8, <1>0, <2>3, PublishType DEF Retry
  <2>5. TypeOK'
    BY <1>8, <2>1, <2>4 DEF Retry, TypeOK, database
  <2>6. ProcessesOK'
    BY <1>8 DEF Retry, TypeOK, ProcessesOK, WorkerState
  <2> QED BY <2>5, <2>6
<1>9. CASE RetriesExhausted(w)
  <2>1. worker' \in [Worker -> WorkerState]
    BY <1>9, WorkerType DEF RetriesExhausted
  <2>2. TypeOK'
    BY <1>9, <1>0, <2>1 DEF RetriesExhausted, TypeOK, database, GiveUp
  <2>3. ProcessesOK'
    BY <1>9 DEF RetriesExhausted, TypeOK, ProcessesOK, WorkerState
  <2> QED BY <2>2, <2>3
<1> QED BY <1>1, <1>2, <1>3, <1>4, <1>5, <1>6, <1>7, <1>8, <1>9 DEF WorkerStep

\* The faults of workers preserve type correctness.
LEMMA TypeWorkerFault ==
    ASSUME TypeInv, NEW w \in Worker, WorkerFault(w)
    PROVE  TypeInv'
<1> USE DEF TypeInv
<1>0. /\ worker[w].pc # "idle" => worker[w].run \in Run
      /\ worker[w].tries \in 0..MaxRetries
  BY DEF ProcessesOK, TypeOK, WorkerState
<1>1. CASE LoadFails(w)
  <2>1. PICK retried \in BOOLEAN :
          /\ worker' = [worker EXCEPT ![w].pc = "done", ![w].retry = retried]
          /\ retried \/ GiveUp(worker[w].run)
          /\ retried => UNCHANGED abandoned
    BY <1>1 DEF LoadFails
  <2>2. worker' \in [Worker -> WorkerState]
    BY <2>1, WorkerType DEF WorkerPc
  <2>3. abandoned' \subseteq Run
    BY <1>0, <1>1, <2>1 DEF LoadFails, GiveUp, TypeOK
  <2>4. TypeOK'
    BY <1>1, <2>2, <2>3, FaultType DEF LoadFails, TypeOK, database
  <2>5. ProcessesOK'
    BY <1>1, <2>1 DEF LoadFails, TypeOK, ProcessesOK, WorkerState
  <2> QED BY <2>4, <2>5
<1>2. CASE StoreFails(w)
  <2>1. worker' \in [Worker -> WorkerState]
    BY <1>2, WorkerType DEF StoreFails, WorkerPc
  <2>2. worker[w].run \in Run /\ worker[w].outcome \in RunStatus
    BY <1>2, <1>0 DEF StoreFails, ProcessesOK, RunStatus
  <2>3. status' \in [Run -> RunStatus]
    BY <1>2, <2>2 DEF StoreFails, TypeOK
  <2>4. TypeOK'
    BY <1>2, <2>1, <2>3, FaultType DEF StoreFails, TypeOK
  <2>5. ProcessesOK'
    BY <1>2 DEF StoreFails, TypeOK, ProcessesOK, WorkerState
  <2> QED BY <2>4, <2>5
<1>3. CASE ReleaseFails(w)
  <2>1. worker' \in [Worker -> WorkerState]
    BY <1>3, WorkerType DEF ReleaseFails, WorkerPc
  <2>2. lock' \in [Source -> BOOLEAN] /\ abandoned' \subseteq Run
    BY <1>3, <1>0 DEF ReleaseFails, TypeOK, GiveUp
  <2>3. TypeOK'
    BY <1>3, <2>1, <2>2, FaultType DEF ReleaseFails, TypeOK, database
  <2>4. ProcessesOK'
    BY <1>3 DEF ReleaseFails, TypeOK, ProcessesOK, WorkerState
  <2> QED BY <2>3, <2>4
<1>4. CASE WorkerLost(w)
  <2>1. worker' \in [Worker -> WorkerState]
    BY <1>4, WorkerType DEF WorkerLost
  <2>2. queue' \in [Run -> [0..MaxRetries -> Nat]]
    BY <1>4, <1>0, PublishType DEF WorkerLost, TypeOK
  <2>3. TypeOK'
    BY <1>4, <2>1, <2>2, FaultType DEF WorkerLost, TypeOK, database
  <2>4. ProcessesOK'
    BY <1>4 DEF WorkerLost, TypeOK, ProcessesOK, IdleWorker
  <2> QED BY <2>3, <2>4
<1>5. CASE Redeliver(w)
  <2>1. worker' \in [Worker -> WorkerState]
    BY <1>5, WorkerType DEF Redeliver
  <2>2. queue' \in [Run -> [0..MaxRetries -> Nat]]
    BY <1>5, <1>0, PublishType DEF Redeliver
  <2>3. TypeOK'
    BY <1>5, <2>1, <2>2, FaultType DEF Redeliver, TypeOK, database
  <2>4. ProcessesOK'
    BY <1>5 DEF Redeliver, TypeOK, ProcessesOK, WorkerState
  <2> QED BY <2>3, <2>4
<1> QED BY <1>1, <1>2, <1>3, <1>4, <1>5 DEF WorkerFault

\* Every step preserves type correctness.
LEMMA TypeStep == TypeInv /\ [Next]_vars => TypeInv'
<1> SUFFICES ASSUME TypeInv, [Next]_vars PROVE TypeInv'
  OBVIOUS
<1>1. CASE Next
  BY <1>1, TypeSourceStep, TypeCallerStep, TypeSchedulerStep, TypeWorkerStep, TypeWorkerFault
     DEF Next, SchedulerStep, Caller
<1>2. CASE UNCHANGED vars
  BY <1>2 DEF vars, TypeInv, TypeOK, ProcessesOK
<1> QED BY <1>1, <1>2

\* The program counters of start_run, execute_run and the Celery task agree
\* with the source, run and outcome they work on.
LEMMA TypeInvariant == Spec => []TypeInv
BY TypeInit, TypeStep, PTL DEF Spec

\* Type correctness: in every reachable state every variable has its type; in
\* particular a status column never holds a value outside its enumeration
\* and no message carries more retries than max_retries.
THEOREM TypeCorrect == Spec => []TypeOK
<1>1. TypeInv => TypeOK
  BY DEF TypeInv
<1> QED BY <1>1, TypeInvariant, PTL

-----------------------------------------------------------------------------
(* No run is lost.                                                         *)

\* The foreign key of ingestion_runs: a row's source exists.
RowsHaveSource ==
    \A r \in Run : status[r] \in {"running"} \cup Terminal => source[SourceOf[r]] = "live"

RunInv == TypeInv /\ RowsHaveSource /\ CommittedBeforeDispatch /\ NothingLost

\* The steps on sources and users preserve the invariant: a deletion takes
\* the runs together with their source.
LEMMA RunSourceStep ==
    ASSUME RunInv,
           \/ \E s \in Source : CreateSource(s) \/ LockExpires(s)
           \/ \E u \in User : DeleteUser(u)
    PROVE  /\ RowsHaveSource'
           /\ CommittedBeforeDispatch'
           /\ NothingLost'
<1> USE DEF RunInv, TypeInv
<1>1. ASSUME NEW s \in Source, CreateSource(s)
      PROVE  RowsHaveSource' /\ CommittedBeforeDispatch' /\ NothingLost'
  <2>1. RowsHaveSource'
    BY <1>1, ConstantsAssumption DEF CreateSource, RowsHaveSource, TypeOK
  <2>2. CommittedBeforeDispatch' /\ NothingLost'
    BY <1>1 DEF CreateSource, CommittedBeforeDispatch, NothingLost, InFlight, Carried
  <2> QED BY <2>1, <2>2
<1>2. ASSUME NEW s \in Source, LockExpires(s)
      PROVE  RowsHaveSource' /\ CommittedBeforeDispatch' /\ NothingLost'
  BY <1>2 DEF LockExpires, database, RowsHaveSource, CommittedBeforeDispatch, NothingLost,
              InFlight, Carried
<1>3. ASSUME NEW u \in User, DeleteUser(u)
      PROVE  RowsHaveSource' /\ CommittedBeforeDispatch' /\ NothingLost'
  <2>1. \A r \in Run : status'[r] = status[r] \/ (status[r] # "absent" /\ status'[r] = "deleted")
    BY <1>3 DEF DeleteUser, TypeOK
  <2>2. RowsHaveSource'
    BY <1>3, ConstantsAssumption DEF DeleteUser, RowsHaveSource, TypeOK, Terminal
  <2>3. CommittedBeforeDispatch'
    BY <1>3, <2>1 DEF DeleteUser, CommittedBeforeDispatch
  <2>4. NothingLost'
    BY <1>3, <2>1 DEF DeleteUser, NothingLost, InFlight, Carried
  <2> QED BY <2>2, <2>3, <2>4
<1> QED BY <1>1, <1>2, <1>3

\* The steps of requests and schedulers preserve the invariant: between
\* create_run and delay the caller itself carries the run.
LEMMA RunCallerStep ==
    ASSUME RunInv, NEW c \in Caller,
           \/ \E s \in Source : Request(c, s)
           \/ CallerStep(c)
           \/ CallerFault(c)
    PROVE  /\ RowsHaveSource'
           /\ CommittedBeforeDispatch'
           /\ NothingLost'
<1> USE DEF RunInv, TypeInv
<1>0. /\ NoRun \notin Run
      /\ caller[c].pc # "dispatch" => caller[c].run = NoRun
      /\ caller \in [Caller -> CallerState]
  BY ConstantsAssumption DEF ProcessesOK, TypeOK
<1>1. ASSUME NEW s \in Source, Request(c, s)
      PROVE  RowsHaveSource' /\ CommittedBeforeDispatch' /\ NothingLost'
  <2>1. RowsHaveSource'
    BY <1>1 DEF Request, RowsHaveSource, database
  <2>2. CommittedBeforeDispatch'
    BY <1>0, <1>1 DEF Request, CommittedBeforeDispatch, database, Goto
  <2>3. NothingLost'
    BY <1>0, <1>1 DEF Request, NothingLost, InFlight, Carried, database, Goto
  <2> QED BY <2>1, <2>2, <2>3
<1>2. CASE CreateRun(c)
  <2>1. PICK r \in Fresh(caller[c].src) :
          /\ status' = [status EXCEPT ![r] = "running"]
          /\ Goto(c, "dispatch", caller[c].src, r)
    BY <1>2 DEF CreateRun
  <2>2. r \in Run /\ SourceOf[r] = caller[c].src
    BY <2>1 DEF Fresh
  <2>3. RowsHaveSource'
    BY <1>2, <2>1, <2>2 DEF CreateRun, RowsHaveSource, TypeOK
  <2>4. CommittedBeforeDispatch'
    BY <1>0, <1>2, <2>1, <2>2 DEF CreateRun, CommittedBeforeDispatch, TypeOK, Goto
  <2>5. NothingLost'
    BY <1>0, <1>2, <2>1, <2>2 DEF CreateRun, NothingLost, InFlight, Carried, TypeOK, Goto
  <2> QED BY <2>3, <2>4, <2>5
<1>3. CASE CreateRunOrphan(c) \/ LockFails(c)
  <2>1. caller[c].pc # "dispatch" /\ Raise(c) /\ UNCHANGED <<database, queue, worker, abandoned>>
    BY <1>3 DEF CreateRunOrphan, LockFails
  <2>2. RowsHaveSource'
    BY <2>1 DEF RowsHaveSource, database
  <2>3. CommittedBeforeDispatch'
    BY <1>0, <2>1 DEF CommittedBeforeDispatch, database, Raise, IdleCaller, StoppedCaller
  <2>4. NothingLost'
    BY <1>0, <2>1 DEF NothingLost, InFlight, Carried, database, Raise
  <2> QED BY <2>2, <2>3, <2>4
<1>4. CASE Dispatch(c)
  <2>1. /\ caller[c].run \in Run
        /\ 0 \in 0..MaxRetries
        /\ Publish(caller[c].run, 0)
    BY <1>4, ConstantsAssumption DEF Dispatch, ProcessesOK
  <2>2. \A r \in Run, k \in 0..MaxRetries :
          queue'[r][k] = IF r = caller[c].run /\ k = 0 THEN queue[r][k] + 1 ELSE queue[r][k]
    BY <2>1 DEF Publish, TypeOK
  <2>3. status[caller[c].run] # "absent"
    BY <2>1 DEF CommittedBeforeDispatch
  <2>4. \A r \in Run, k \in 0..MaxRetries : queue[r][k] \in Nat
    BY DEF TypeOK
  <2>5. RowsHaveSource'
    BY <1>4 DEF Dispatch, RowsHaveSource, database
  <2>6. CommittedBeforeDispatch'
    BY <1>0, <1>4, <2>1, <2>2, <2>3 DEF Dispatch, CommittedBeforeDispatch, database, IdleCaller
  <2>7. NothingLost'
    <3> SUFFICES ASSUME NEW r \in Run, InFlight(r), Carried(r) PROVE Carried(r)'
      BY <1>4 DEF Dispatch, NothingLost, InFlight, database
    <3>1. CASE r = caller[c].run
      BY <2>1, <2>2, <2>4, <3>1 DEF Carried
    <3>2. CASE r # caller[c].run
      BY <1>0, <1>4, <2>2, <3>2 DEF Dispatch, Carried
    <3> QED BY <3>1, <3>2
  <2> QED BY <2>5, <2>6, <2>7
<1>5. CASE CreateRunFails(c)
  <2>1. caller[c].pc = "create" /\ Raise(c) /\ UNCHANGED <<source, queue, worker>>
    BY <1>5 DEF CreateRunFails
  <2>2. CASE UNCHANGED <<status, abandoned>>
    <3>1. RowsHaveSource'
      BY <2>1, <2>2 DEF RowsHaveSource
    <3>2. CommittedBeforeDispatch'
      BY <1>0, <2>1, <2>2 DEF CommittedBeforeDispatch, Raise, IdleCaller, StoppedCaller
    <3>3. NothingLost'
      BY <1>0, <2>1, <2>2 DEF NothingLost, InFlight, Carried, Raise
    <3> QED BY <3>1, <3>2, <3>3
  <2>3. CASE /\ source[caller[c].src] = "live"
             /\ \E r \in Fresh(caller[c].src) :
                  /\ status' = [status EXCEPT ![r] = "running"]
                  /\ GiveUp(r)
    <3>1. PICK r \in Fresh(caller[c].src) :
            /\ status' = [status EXCEPT ![r] = "running"]
            /\ GiveUp(r)
      BY <2>3
    <3>2. r \in Run /\ SourceOf[r] = caller[c].src
      BY <3>1 DEF Fresh
    <3>3. RowsHaveSource'
      BY <2>1, <2>3, <3>1, <3>2 DEF RowsHaveSource, TypeOK
    <3>4. CommittedBeforeDispatch'
      BY <1>0, <2>1, <3>1, <3>2
         DEF CommittedBeforeDispatch, TypeOK, Raise, IdleCaller, StoppedCaller
    <3>5. NothingLost'
      BY <1>0, <2>1, <3>1, <3>2 DEF NothingLost, InFlight, Carried, TypeOK, Raise, GiveUp
    <3> QED BY <3>3, <3>4, <3>5
  <2> QED BY <1>5, <2>2, <2>3 DEF CreateRunFails
<1>6. CASE DispatchFails(c)
  <2>1. /\ caller[c].pc = "dispatch"
        /\ caller[c].run \in Run
        /\ 0 \in 0..MaxRetries
        /\ Raise(c)
        /\ UNCHANGED <<database, worker>>
    BY <1>6, ConstantsAssumption DEF DispatchFails, ProcessesOK
  <2>2. RowsHaveSource'
    BY <2>1 DEF RowsHaveSource, database
  <2>3. CASE GiveUp(caller[c].run) /\ UNCHANGED queue
    <3>1. CommittedBeforeDispatch'
      BY <1>0, <2>1, <2>3
         DEF CommittedBeforeDispatch, database, Raise, IdleCaller, StoppedCaller
    <3>2. NothingLost'
      BY <1>0, <2>1, <2>3 DEF NothingLost, InFlight, Carried, database, Raise, GiveUp
    <3> QED BY <2>2, <3>1, <3>2
  <2>4. CASE Publish(caller[c].run, 0) /\ UNCHANGED abandoned
    <3>1. \A r \in Run, k \in 0..MaxRetries :
            queue'[r][k] = IF r = caller[c].run /\ k = 0 THEN queue[r][k] + 1 ELSE queue[r][k]
      BY <2>1, <2>4 DEF Publish, TypeOK
    <3>2. status[caller[c].run] # "absent"
      BY <2>1 DEF CommittedBeforeDispatch
    <3>3. \A r \in Run, k \in 0..MaxRetries : queue[r][k] \in Nat
      BY DEF TypeOK
    <3>4. CommittedBeforeDispatch'
      BY <1>0, <2>1, <3>1, <3>2
         DEF CommittedBeforeDispatch, database, Raise, IdleCaller, StoppedCaller
    <3>5. NothingLost'
      <4> SUFFICES ASSUME NEW r \in Run, InFlight(r), Carried(r) PROVE Carried(r)'
        BY <2>1, <2>4 DEF NothingLost, InFlight, database
      <4>1. CASE r = caller[c].run
        BY <2>1, <3>1, <3>3, <4>1 DEF Carried
      <4>2. CASE r # caller[c].run
        BY <1>0, <2>1, <3>1, <4>2 DEF Carried, Raise
      <4> QED BY <4>1, <4>2
    <3> QED BY <2>2, <3>4, <3>5
  <2> QED BY <1>6, <2>3, <2>4 DEF DispatchFails
<1> QED BY <1>1, <1>2, <1>3, <1>4, <1>5, <1>6 DEF CallerStep, CallerFault

\* The remaining steps of the schedulers preserve the invariant: they touch
\* no run.
LEMMA RunSchedulerStep ==
    ASSUME RunInv, NEW p \in Scheduler,
           \/ Poll(p) \/ TakeLock(p) \/ LookFails(p) \/ RestartScheduler(p)
           \/ \E s \in Source : Look(p, s)
    PROVE  /\ RowsHaveSource'
           /\ CommittedBeforeDispatch'
           /\ NothingLost'
<1> USE DEF RunInv, TypeInv
<1>1. /\ UNCHANGED <<database, queue, worker, abandoned>>
      /\ \A c \in Caller : caller'[c] = caller[c]
                           \/ (caller[c].pc # "dispatch" /\ caller'[c].run = NoRun)
  <2>1. p \in Caller
    BY DEF Caller
  <2>2. CASE Poll(p)
    BY <2>2 DEF Poll
  <2>3. CASE TakeLock(p)
    BY <2>1, <2>3 DEF TakeLock, TypeOK, Goto, IdleCaller
  <2>4. CASE LookFails(p)
    BY <2>1, <2>4 DEF LookFails, TypeOK, Raise, IdleCaller, StoppedCaller
  <2>5. CASE RestartScheduler(p)
    BY <2>1, <2>5 DEF RestartScheduler, TypeOK, IdleCaller
  <2>6. ASSUME NEW s \in Source, Look(p, s)
        PROVE  /\ UNCHANGED <<database, queue, worker, abandoned>>
               /\ \A c \in Caller : caller'[c] = caller[c]
                    \/ (caller[c].pc # "dispatch" /\ caller'[c].run = NoRun)
    BY <2>1, <2>6 DEF Look, TypeOK, Goto
  <2> QED BY <2>2, <2>3, <2>4, <2>5, <2>6
<1>2. RowsHaveSource'
  BY <1>1 DEF RowsHaveSource, database
<1>3. CommittedBeforeDispatch'
  BY <1>1, ConstantsAssumption DEF CommittedBeforeDispatch, database
<1>4. NothingLost'
  BY <1>1 DEF NothingLost, InFlight, Carried, database
<1> QED BY <1>2, <1>3, <1>4

\* A step of a worker that goes on with its run, or gives it up or ends it,
\* and leaves the messages alone.
LEMMA RunWorkerGoesOn ==
    ASSUME RunInv, NEW w \in Worker,
           worker[w].pc # "idle",
           worker' \in [Worker -> WorkerState],
           \A v \in Worker \ {w} : worker'[v] = worker[v],
           worker'[w].run = worker[w].run,
           \/ worker'[w].owned /\ (worker'[w].pc \in {"load", "fetch", "store"} \/ worker'[w].retry)
           \/ ~worker[w].owned
           \/ worker[w].pc \in {"release", "done"} /\ ~worker[w].retry
           \/ ~InFlight(worker[w].run)'
           \/ status[worker[w].run] # "running",
           \A r \in Run : status'[r] = status[r]
                          \/ (status[r] # "absent" /\ status'[r] \in Terminal),
           abandoned \subseteq abandoned',
           UNCHANGED <<caller, queue>>
    PROVE  /\ CommittedBeforeDispatch'
           /\ NothingLost'
<1> USE DEF RunInv, TypeInv
<1>1. CommittedBeforeDispatch'
  BY DEF CommittedBeforeDispatch, Terminal
<1>2. NothingLost'
  <2> SUFFICES ASSUME NEW r \in Run, InFlight(r)' PROVE Carried(r)'
    BY DEF NothingLost
  <2>1. InFlight(r) /\ Carried(r)
    BY DEF NothingLost, InFlight, Terminal
  <2>2. CASE /\ worker[w].run = r
             /\ worker[w].owned
             /\ worker[w].pc \in {"load", "fetch", "store"} \/ worker[w].retry
    BY <2>1, <2>2 DEF Carried, InFlight
  <2>3. CASE ~(/\ worker[w].run = r
               /\ worker[w].owned
               /\ worker[w].pc \in {"load", "fetch", "store"} \/ worker[w].retry)
    BY <2>1, <2>3 DEF Carried
  <2> QED BY <2>2, <2>3
<1> QED BY <1>1, <1>2

\* The steps of a worker between delivery and acknowledgement preserve the
\* invariant.
LEMMA RunWorkerStep ==
    ASSUME RunInv, NEW w \in Worker,
           \/ Load(w) \/ Fetch(w) \/ Store(w) \/ Unexpected(w) \/ ReleaseLock(w)
           \/ RetriesExhausted(w) \/ LoadFails(w) \/ StoreFails(w) \/ ReleaseFails(w)
    PROVE  /\ RowsHaveSource'
           /\ CommittedBeforeDispatch'
           /\ NothingLost'
<1> USE DEF RunInv, TypeInv
<1>0. TypeInv' /\ worker' \in [Worker -> WorkerState]
  BY TypeWorkerStep, TypeWorkerFault DEF WorkerStep, WorkerFault, TypeOK
<1>1. /\ worker[w] \in WorkerState
      /\ worker[w].pc # "idle"
      /\ worker[w].run \in Run
      /\ status[worker[w].run] # "absent"
      /\ worker[w].pc = "store" => worker[w].outcome \in Terminal
  <2>1. worker[w].pc # "idle"
    BY DEF Load, Fetch, Store, Unexpected, ReleaseLock, RetriesExhausted, LoadFails,
           StoreFails, ReleaseFails
  <2>2. worker[w] \in WorkerState /\ worker[w].run \in Run
    BY <2>1 DEF TypeOK, ProcessesOK
  <2> QED BY <2>1, <2>2 DEF ProcessesOK, CommittedBeforeDispatch
<1> DEFINE Kept == /\ \A v \in Worker \ {w} : worker'[v] = worker[v]
                   /\ worker'[w].run = worker[w].run
                   /\ worker'[w].owned = worker[w].owned
                   /\ UNCHANGED <<caller, queue>>
<1>2. CASE Load(w)
  <2>1. Kept /\ worker'[w].retry = worker[w].retry /\ UNCHANGED <<source, status, abandoned>>
    BY <1>1, <1>2 DEF Load, TypeOK, WorkerState, database
  <2>2. worker'[w].pc = "fetch" \/ status[worker[w].run] # "running"
    BY <1>1, <1>2 DEF Load, TypeOK, WorkerState, RowsHaveSource
  <2>3. CommittedBeforeDispatch' /\ NothingLost'
    BY <1>0, <1>1, <2>1, <2>2, RunWorkerGoesOn
  <2> QED BY <2>1, <2>3 DEF RowsHaveSource
<1>3. CASE Fetch(w)
  <2>1. PICK o \in Terminal : worker' = [worker EXCEPT ![w].pc = "store", ![w].outcome = o]
    BY <1>3 DEF Fetch
  <2>2. Kept /\ worker'[w].pc = "store"
    BY <1>1, <1>3, <2>1 DEF Fetch, TypeOK, WorkerState
  <2>3. UNCHANGED <<source, status, abandoned>>
    BY <1>3 DEF Fetch, database
  <2>4. CommittedBeforeDispatch' /\ NothingLost'
    BY <1>0, <1>1, <2>2, <2>3, RunWorkerGoesOn
  <2> QED BY <2>3, <2>4 DEF RowsHaveSource
<1>4. CASE Store(w) \/ StoreFails(w)
  <2>1. Kept /\ UNCHANGED <<source, abandoned>> /\ worker[w].pc = "store"
    BY <1>1, <1>4 DEF Store, StoreFails, TypeOK, WorkerState, database
  <2>2. \/ UNCHANGED status
        \/ status' = [status EXCEPT ![worker[w].run] =
                        IF @ = "deleted" THEN @ ELSE worker[w].outcome]
    BY <1>4 DEF Store, StoreFails
  <2>3. /\ \A r \in Run : status'[r] = status[r]
                          \/ (status[r] \notin {"absent", "deleted"} /\ status'[r] \in Terminal)
        /\ ~UNCHANGED status => ~InFlight(worker[w].run)'
    BY <1>1, <2>1, <2>2 DEF TypeOK, InFlight, Terminal
  <2>4. (worker'[w].retry /\ StoreFails(w)) \/ ~InFlight(worker[w].run)'
    BY <1>1, <1>4, <2>1 DEF Store, StoreFails, TypeOK, WorkerState, InFlight, Terminal
  <2>5. CommittedBeforeDispatch' /\ NothingLost'
    BY <1>0, <1>1, <2>1, <2>3, <2>4, RunWorkerGoesOn
  <2>6. RowsHaveSource'
    BY <2>1, <2>3 DEF RowsHaveSource, TypeOK, RunStatus, Terminal
  <2> QED BY <2>5, <2>6
<1>5. CASE Unexpected(w) \/ RetriesExhausted(w) \/ ReleaseFails(w)
  <2>1. Kept /\ UNCHANGED <<source, status>>
    BY <1>1, <1>5 DEF Unexpected, RetriesExhausted, ReleaseFails, TypeOK, WorkerState, database
  <2>2. GiveUp(worker[w].run)
    BY <1>5 DEF Unexpected, RetriesExhausted, ReleaseFails
  <2>3. abandoned \subseteq abandoned' /\ worker'[w].run \in abandoned'
    BY <2>1, <2>2 DEF GiveUp
  <2>4. ~InFlight(worker[w].run)'
    BY <2>1, <2>3 DEF InFlight
  <2>5. CommittedBeforeDispatch' /\ NothingLost'
    BY <1>0, <1>1, <2>1, <2>3, <2>4, RunWorkerGoesOn
  <2> QED BY <2>1, <2>5 DEF RowsHaveSource
<1>6. CASE ReleaseLock(w)
  <2>1. /\ Kept
        /\ worker'[w].retry = worker[w].retry
        /\ worker[w].pc = "release"
        /\ UNCHANGED <<source, status, abandoned>>
    BY <1>1, <1>6 DEF ReleaseLock, TypeOK, WorkerState, database
  <2>2. CommittedBeforeDispatch' /\ NothingLost'
    BY <1>0, <1>1, <2>1, RunWorkerGoesOn
  <2> QED BY <2>1, <2>2 DEF RowsHaveSource
<1>7. CASE LoadFails(w)
  <2>0. PICK retried \in BOOLEAN :
          /\ worker' = [worker EXCEPT ![w].pc = "done", ![w].retry = retried]
          /\ IF retried THEN UNCHANGED abandoned ELSE GiveUp(worker[w].run)
    BY <1>7 DEF LoadFails
  <2>1. Kept /\ UNCHANGED <<source, status>>
    BY <1>1, <1>7, <2>0 DEF LoadFails, TypeOK, WorkerState, database
  <2>2. \/ worker'[w].retry /\ UNCHANGED abandoned
        \/ GiveUp(worker[w].run)
    BY <1>1, <2>0 DEF TypeOK, WorkerState
  <2>3. /\ abandoned \subseteq abandoned'
        /\ worker'[w].retry \/ ~InFlight(worker[w].run)'
    BY <2>1, <2>2 DEF GiveUp, InFlight
  <2>4. CASE UNCHANGED abandoned /\ worker'[w].retry
    <3>1. CommittedBeforeDispatch' /\ NothingLost'
      BY <1>0, <1>1, <2>1, <2>4, RunWorkerGoesOn
    <3> QED BY <2>1, <3>1 DEF RowsHaveSource
  <2>5. CASE GiveUp(worker[w].run)
    <3>1. ~InFlight(worker[w].run)'
      BY <2>1, <2>5 DEF GiveUp, InFlight
    <3>2. CommittedBeforeDispatch' /\ NothingLost'
      BY <1>0, <1>1, <2>1, <2>3, <3>1, RunWorkerGoesOn
    <3> QED BY <2>1, <3>2 DEF RowsHaveSource
  <2> QED BY <2>2, <2>4, <2>5
<1> QED BY <1>2, <1>3, <1>4, <1>5, <1>6, <1>7

\* A message more for a run: where the numbers change.
LEMMA PublishEffect ==
    ASSUME TypeOK, NEW m \in Run, NEW j \in 0..MaxRetries, Publish(m, j)
    PROVE  /\ \A r \in Run, k \in 0..MaxRetries :
                queue'[r][k] = IF r = m /\ k = j THEN queue[r][k] + 1 ELSE queue[r][k]
           /\ \A r \in Run, k \in 0..MaxRetries : queue[r][k] > 0 => queue'[r][k] > 0
           /\ queue'[m][j] > 0
<1>1. \A r \in Run, k \in 0..MaxRetries :
        queue'[r][k] = IF r = m /\ k = j THEN queue[r][k] + 1 ELSE queue[r][k]
  BY DEF Publish, TypeOK
<1>2. \A r \in Run, k \in 0..MaxRetries : queue[r][k] \in Nat
  BY DEF TypeOK
<1> QED BY <1>1, <1>2

\* A worker that puts a message for its run into the queue (as a retry or
\* because the broker takes its delivery back) preserves the invariant,
\* whatever becomes of the worker: the message carries the run.
LEMMA RunWorkerPublishes ==
    ASSUME RunInv, NEW w \in Worker, worker[w].pc # "idle",
           NEW k \in 0..MaxRetries, Publish(worker[w].run, k),
           \A v \in Worker \ {w} : worker'[v] = worker[v],
           worker'[w].run \in {worker[w].run, NoRun},
           UNCHANGED <<source, status, caller, abandoned>>
    PROVE  /\ RowsHaveSource'
           /\ CommittedBeforeDispatch'
           /\ NothingLost'
<1> USE DEF RunInv, TypeInv
<1> DEFINE m == worker[w].run
<1>1. m \in Run /\ NoRun \notin Run /\ status[m] # "absent"
  BY ConstantsAssumption DEF ProcessesOK, CommittedBeforeDispatch
<1>2. /\ \A r \in Run, j \in 0..MaxRetries :
           queue'[r][j] = IF r = m /\ j = k THEN queue[r][j] + 1 ELSE queue[r][j]
      /\ queue'[m][k] > 0
      /\ \A r \in Run, j \in 0..MaxRetries : queue[r][j] > 0 => queue'[r][j] > 0
  BY <1>1, PublishEffect
<1>3. RowsHaveSource'
  BY DEF RowsHaveSource
<1>4. CommittedBeforeDispatch'
  BY <1>1, <1>2 DEF CommittedBeforeDispatch
<1>5. NothingLost'
  <2> SUFFICES ASSUME NEW r \in Run, Carried(r) PROVE Carried(r)'
    BY DEF NothingLost, InFlight
  <2>1. CASE r = m
    BY <1>2, <2>1 DEF Carried
  <2>2. CASE r # m
    BY <1>1, <1>2, <2>2 DEF Carried
  <2> QED BY <2>1, <2>2
<1> QED BY <1>3, <1>4, <1>5

\* Delivery and acknowledgement, and the steps that publish, preserve the
\* invariant.
LEMMA RunMessageStep ==
    ASSUME RunInv, NEW w \in Worker,
           Deliver(w) \/ Ack(w) \/ Retry(w) \/ WorkerLost(w) \/ Redeliver(w)
    PROVE  /\ RowsHaveSource'
           /\ CommittedBeforeDispatch'
           /\ NothingLost'
<1> USE DEF RunInv, TypeInv
<1>0. /\ worker[w] \in WorkerState
      /\ worker[w].tries \in 0..MaxRetries
      /\ NoRun \notin Run
      /\ IdleWorker.run = NoRun
  BY ConstantsAssumption DEF TypeOK, WorkerState, IdleWorker
<1>1. CASE Deliver(w)
  <2>1. PICK m \in Run, j \in 0..MaxRetries :
          /\ queue[m][j] > 0
          /\ queue' = [queue EXCEPT ![m][j] = @ - 1]
          /\ worker' = [worker EXCEPT ![w] =
               [IdleWorker EXCEPT !.pc = "load", !.run = m, !.tries = j, !.owned = TRUE]]
    BY <1>1 DEF Deliver
  <2>2. worker[w] = IdleWorker /\ UNCHANGED <<source, status, caller, abandoned>>
    BY <1>1 DEF Deliver, ProcessesOK, database
  <2>3. /\ worker'[w].run = m /\ worker'[w].owned /\ worker'[w].pc = "load"
        /\ \A v \in Worker \ {w} : worker'[v] = worker[v]
    BY <2>1 DEF TypeOK, IdleWorker
  <2>4. \A r \in Run, k \in 0..MaxRetries :
          queue'[r][k] = IF r = m /\ k = j THEN queue[r][k] - 1 ELSE queue[r][k]
    BY <2>1 DEF TypeOK
  <2>5. RowsHaveSource'
    BY <2>2 DEF RowsHaveSource
  <2>6. status[m] # "absent"
    BY <2>1 DEF CommittedBeforeDispatch
  <2>7. CommittedBeforeDispatch'
    BY <2>2, <2>3, <2>4, <2>6 DEF CommittedBeforeDispatch
  <2>8. NothingLost'
    <3> SUFFICES ASSUME NEW r \in Run, Carried(r) PROVE Carried(r)'
      BY <2>2 DEF NothingLost, InFlight
    <3>1. CASE r = m
      BY <2>3, <3>1 DEF Carried
    <3>2. CASE r # m
      BY <1>0, <2>2, <2>3, <2>4, <3>2 DEF Carried
    <3> QED BY <3>1, <3>2
  <2> QED BY <2>5, <2>7, <2>8
<1>2. CASE Ack(w)
  <2>1. /\ UNCHANGED <<source, status, caller, queue, abandoned>>
        /\ worker[w].pc = "done"
        /\ ~worker[w].retry
        /\ worker'[w].run = NoRun
        /\ \A v \in Worker \ {w} : worker'[v] = worker[v]
    BY <1>0, <1>2 DEF Ack, TypeOK, database
  <2>2. RowsHaveSource' /\ CommittedBeforeDispatch'
    BY <1>0, <2>1 DEF RowsHaveSource, CommittedBeforeDispatch
  <2>3. NothingLost'
    BY <2>1 DEF NothingLost, InFlight, Carried
  <2> QED BY <2>2, <2>3
<1>3. CASE Retry(w)
  <2>1. worker[w].tries + 1 \in 0..MaxRetries
    BY <1>0, <1>3, ConstantsAssumption DEF Retry
  <2>2. /\ worker[w].pc # "idle"
        /\ Publish(worker[w].run, worker[w].tries + 1)
        /\ UNCHANGED <<source, status, caller, abandoned>>
    BY <1>3 DEF Retry, database
  <2>3. worker'[w].run = worker[w].run /\ \A v \in Worker \ {w} : worker'[v] = worker[v]
    BY <1>0, <1>3 DEF Retry, TypeOK, WorkerState
  <2> QED BY <2>1, <2>2, <2>3, RunWorkerPublishes
<1>4. CASE WorkerLost(w)
  <2>1. /\ worker[w].pc # "idle"
        /\ UNCHANGED <<source, status, caller, abandoned>>
        /\ worker'[w].run = NoRun
        /\ \A v \in Worker \ {w} : worker'[v] = worker[v]
    BY <1>0, <1>4 DEF WorkerLost, TypeOK, database
  <2>2. CASE worker[w].owned
    <3>1. Publish(worker[w].run, worker[w].tries)
      BY <1>4, <2>2 DEF WorkerLost
    <3> QED BY <1>0, <2>1, <3>1, RunWorkerPublishes
  <2>3. CASE ~worker[w].owned
    <3>1. UNCHANGED queue
      BY <1>4, <2>3 DEF WorkerLost
    <3>2. RowsHaveSource' /\ CommittedBeforeDispatch'
      BY <1>0, <2>1, <3>1 DEF RowsHaveSource, CommittedBeforeDispatch
    <3>3. NothingLost'
      BY <2>1, <2>3, <3>1 DEF NothingLost, InFlight, Carried
    <3> QED BY <3>2, <3>3
  <2> QED BY <2>2, <2>3
<1>5. CASE Redeliver(w)
  <2>1. /\ worker[w].pc # "idle"
        /\ Publish(worker[w].run, worker[w].tries)
        /\ UNCHANGED <<source, status, caller, abandoned>>
    BY <1>5 DEF Redeliver, database
  <2>2. worker'[w].run = worker[w].run /\ \A v \in Worker \ {w} : worker'[v] = worker[v]
    BY <1>0, <1>5 DEF Redeliver, TypeOK, WorkerState
  <2> QED BY <1>0, <2>1, <2>2, RunWorkerPublishes
<1> QED BY <1>1, <1>2, <1>3, <1>4, <1>5

\* The invariant holds initially.
LEMMA RunInit == Init => RunInv
<1> SUFFICES ASSUME Init PROVE RunInv
  OBVIOUS
<1>1. NoRun \notin Run
  BY ConstantsAssumption
<1>2. RowsHaveSource
  BY DEF Init, RowsHaveSource, Terminal
<1>3. CommittedBeforeDispatch
  BY <1>1 DEF Init, CommittedBeforeDispatch, IdleCaller, IdleWorker
<1>4. NothingLost
  BY DEF Init, NothingLost, InFlight
<1> QED BY <1>2, <1>3, <1>4, TypeInit DEF RunInv

\* Every step preserves the invariant.
LEMMA RunStep == RunInv /\ [Next]_vars => RunInv'
<1> SUFFICES ASSUME RunInv, [Next]_vars PROVE RunInv'
  OBVIOUS
<1>1. TypeInv'
  BY TypeStep DEF RunInv
<1>2. CASE Next
  <2>1. RowsHaveSource' /\ CommittedBeforeDispatch' /\ NothingLost'
    BY <1>2, RunSourceStep, RunCallerStep, RunSchedulerStep, RunWorkerStep, RunMessageStep
       DEF Next, SchedulerStep, Caller, WorkerStep, WorkerFault
  <2> QED BY <1>1, <2>1 DEF RunInv
<1>3. CASE UNCHANGED vars
  <2>1. RowsHaveSource' /\ CommittedBeforeDispatch' /\ NothingLost'
    BY <1>3 DEF vars, RunInv, RowsHaveSource, CommittedBeforeDispatch, NothingLost,
                InFlight, Carried
  <2> QED BY <1>1, <2>1 DEF RunInv
<1> QED BY <1>2, <1>3

\* The inductive invariant holds in every reachable state.
LEMMA RunInvariant == Spec => []RunInv
BY RunInit, RunStep, PTL DEF Spec

\* For every number of sources, requests, schedulers, workers and faults: a
\* run with status "running" that no process gave up on has a caller about to
\* dispatch it, a message, or a worker whose death would bring the message
\* back.
THEOREM NoRunIsLost == Spec => []NothingLost
<1>1. RunInv => NothingLost
  BY DEF RunInv
<1> QED BY <1>1, RunInvariant, PTL

\* For all constants: the row of a run is committed before anything that
\* refers to it reaches the queue or a worker.
THEOREM RowsPrecedeMessages == Spec => []CommittedBeforeDispatch
<1>1. RunInv => CommittedBeforeDispatch
  BY DEF RunInv
<1> QED BY <1>1, RunInvariant, PTL

-----------------------------------------------------------------------------
(* The hands a run is in: while no fault repeats a run without its lock,   *)
(* one process or message at most is going to execute it.                  *)

\* The caller that has created r and not dispatched it yet.
Dispatching(c, r) == caller[c].pc = "dispatch" /\ caller[c].run = r

Queued(k, r) == queue[r][k] > 0

\* A worker that has not come to r's release, or will publish r again.
Working(w, r) == worker[w].run = r /\ Busy(w)

InHand(r) ==
    \/ \E c \in Caller : Dispatching(c, r)
    \/ \E k \in 0..MaxRetries : Queued(k, r)
    \/ \E w \in Worker : Working(w, r)

\* r is unfinished, nobody gave it up, and nobody is about to delete its key.
Unfinished(r) ==
    /\ status[r] \notin Terminal
    /\ r \notin abandoned
    /\ \A w \in Worker : ~(worker[w].run = r /\ worker[w].pc = "release")

\* First the caller has r, then its message, then its worker, and none of
\* them once r is finished, given up or about to be released.
OneHand(r) ==
    /\ \A c, d \in Caller : Dispatching(c, r) /\ Dispatching(d, r) => c = d
    /\ \A v, w \in Worker : Working(v, r) /\ Working(w, r) => v = w
    /\ \A j, k \in 0..MaxRetries : Queued(j, r) /\ Queued(k, r) => j = k
    /\ \A k \in 0..MaxRetries : queue[r][k] \in {0, 1}
    /\ \A c \in Caller, k \in 0..MaxRetries : ~(Dispatching(c, r) /\ Queued(k, r))
    /\ \A c \in Caller, w \in Worker : ~(Dispatching(c, r) /\ Working(w, r))
    /\ \A k \in 0..MaxRetries, w \in Worker : ~(Queued(k, r) /\ Working(w, r))
    /\ InHand(r) => Unfinished(r)

Hands ==
    /\ \A r \in Run : OneHand(r)
    /\ \A r \in Run : status[r] = "absent" => r \notin abandoned
    /\ \A w \in Worker : worker[w].retry => worker[w].pc = "done"

\* A step by which the hands of r only let go of it.
LEMMA HandFrame ==
    ASSUME NEW r \in Run, OneHand(r),
           \A c \in Caller : Dispatching(c, r)' => Dispatching(c, r),
           \A k \in 0..MaxRetries : queue'[r][k] \in {0, queue[r][k]},
           \A w \in Worker : Working(w, r)' => Working(w, r),
           InHand(r)' => Unfinished(r)'
    PROVE  OneHand(r)'
<1>1. \A k \in 0..MaxRetries : Queued(k, r)' => Queued(k, r)
  BY DEF Queued
<1>2. \A k \in 0..MaxRetries : queue'[r][k] \in {0, 1}
  BY DEF OneHand
<1>3. /\ \A c, d \in Caller : Dispatching(c, r)' /\ Dispatching(d, r)' => c = d
      /\ \A v, w \in Worker : Working(v, r)' /\ Working(w, r)' => v = w
      /\ \A j, k \in 0..MaxRetries : Queued(j, r)' /\ Queued(k, r)' => j = k
  BY <1>1 DEF OneHand
<1>4. /\ \A c \in Caller, k \in 0..MaxRetries : ~(Dispatching(c, r)' /\ Queued(k, r)')
      /\ \A c \in Caller, w \in Worker : ~(Dispatching(c, r)' /\ Working(w, r)')
      /\ \A k \in 0..MaxRetries, w \in Worker : ~(Queued(k, r)' /\ Working(w, r)')
  BY <1>1 DEF OneHand
<1> QED BY <1>2, <1>3, <1>4 DEF OneHand

\* A step by which the only one that has r publishes a message for it.
LEMMA HandPublishes ==
    ASSUME TypeOK, NEW r \in Run, OneHand(r), InHand(r),
           NEW k \in 0..MaxRetries, Publish(r, k),
           \A j \in 0..MaxRetries : ~Queued(j, r),
           \A c \in Caller : ~Dispatching(c, r)',
           \A w \in Worker : ~Working(w, r)',
           Unfinished(r)'
    PROVE  OneHand(r)'
<1>1. \A j \in 0..MaxRetries : queue[r][j] = 0
  BY DEF OneHand, Queued
<1>2. \A j \in 0..MaxRetries : queue'[r][j] = IF j = k THEN 1 ELSE 0
  BY <1>1, PublishEffect
<1>3. \A j \in 0..MaxRetries : Queued(j, r)' <=> j = k
  BY <1>2 DEF Queued
<1> QED BY <1>2, <1>3 DEF OneHand

\* A step that leaves messages and workers alone and gives no run to another
\* caller.
LEMMA HandsFrame ==
    ASSUME Hands, UNCHANGED <<queue, worker>>,
           \A c \in Caller, r \in Run : Dispatching(c, r)' => Dispatching(c, r),
           \A r \in Run : InHand(r)' =>
             /\ status'[r] \in Terminal => status[r] \in Terminal
             /\ r \in abandoned' => r \in abandoned,
           \A r \in Run : status'[r] = "absent" => r \notin abandoned'
    PROVE  Hands'
<1>1. ASSUME NEW r \in Run PROVE OneHand(r)'
  <2>1. /\ \A k \in 0..MaxRetries : Queued(k, r)' <=> Queued(k, r)
        /\ \A w \in Worker : Working(w, r)' <=> Working(w, r)
    BY DEF Queued, Working, Busy
  <2>2. InHand(r)' => InHand(r)
    BY <2>1 DEF InHand
  <2>3. InHand(r)' => Unfinished(r)'
    BY <2>2 DEF Hands, OneHand, Unfinished
  <2>4. OneHand(r)
    BY DEF Hands
  <2> QED BY <2>1, <2>3, <2>4, HandFrame DEF OneHand
<1> QED BY <1>1 DEF Hands

\* The caller of r hands it to the queue.
LEMMA HandsDispatch ==
    ASSUME RunInv, Hands, NEW c \in Caller, caller[c].pc = "dispatch",
           Publish(caller[c].run, 0),
           caller'[c].pc # "dispatch",
           \A d \in Caller \ {c} : caller'[d] = caller[d],
           UNCHANGED <<status, worker, abandoned>>
    PROVE  Hands'
<1>0. PICK m \in Run : m = caller[c].run
  BY DEF RunInv, TypeInv, ProcessesOK
<1>1. Dispatching(c, m) /\ Publish(m, 0) /\ 0 \in 0..MaxRetries /\ TypeOK
  BY <1>0, ConstantsAssumption DEF RunInv, TypeInv, Dispatching
<1>2. \A d \in Caller, r \in Run : Dispatching(d, r)' => Dispatching(d, r) /\ d # c
  BY DEF Dispatching
<1>3. \A w \in Worker, r \in Run : Working(w, r)' <=> Working(w, r)
  BY DEF Working, Busy
<1>4. \A r \in Run : Unfinished(r)' <=> Unfinished(r)
  BY DEF Unfinished
<1>5. OneHand(m) /\ InHand(m)
  BY <1>1 DEF Hands, InHand
<1>6. OneHand(m)'
  <2>1. \A k \in 0..MaxRetries : ~Queued(k, m)
    BY <1>1, <1>5 DEF OneHand
  <2>2. \A w \in Worker : ~Working(w, m)'
    BY <1>1, <1>3, <1>5 DEF OneHand
  <2>3. \A d \in Caller : ~Dispatching(d, m)'
    BY <1>1, <1>2, <1>5 DEF OneHand
  <2>4. Unfinished(m)'
    BY <1>4, <1>5 DEF OneHand
  <2> QED BY <1>1, <1>5, <2>1, <2>2, <2>3, <2>4, HandPublishes
<1>7. ASSUME NEW r \in Run, r # m PROVE OneHand(r)'
  <2>1. \A k \in 0..MaxRetries : queue'[r][k] = queue[r][k]
    BY <1>1, <1>7, PublishEffect
  <2>2. \A k \in 0..MaxRetries : Queued(k, r)' <=> Queued(k, r)
    BY <2>1 DEF Queued
  <2>3. InHand(r)' => InHand(r)
    BY <1>2, <1>3, <2>2 DEF InHand
  <2>4. OneHand(r)
    BY DEF Hands
  <2>5. InHand(r)' => Unfinished(r)'
    BY <1>4, <2>3, <2>4 DEF OneHand
  <2> QED BY <1>2, <1>3, <2>1, <2>4, <2>5, HandFrame
<1> QED BY <1>6, <1>7 DEF Hands

\* The caller that creates a run is the first to have it.
LEMMA HandsCreate ==
    ASSUME RunInv, Hands, NEW c \in Caller, CreateRun(c)
    PROVE  Hands'
<1>1. PICK n \in Fresh(caller[c].src) :
        /\ status' = [status EXCEPT ![n] = "running"]
        /\ Goto(c, "dispatch", caller[c].src, n)
  BY DEF CreateRun
<1>2. /\ n \in Run /\ status[n] = "absent" /\ n \notin abandoned
      /\ UNCHANGED <<queue, worker, abandoned>>
  BY <1>1 DEF CreateRun, Fresh, Hands
<1>3. /\ \A k \in 0..MaxRetries : queue[n][k] = 0
      /\ \A w \in Worker : worker[w].run # n
      /\ \A d \in Caller : caller[d].run # n
  BY <1>2 DEF RunInv, CommittedBeforeDispatch
<1>4. /\ status'[n] = "running"
      /\ \A r \in Run : r # n => status'[r] = status[r]
  BY <1>1, <1>2 DEF RunInv, TypeInv, TypeOK
<1>5. \A d \in Caller, r \in Run :
        Dispatching(d, r)' => IF r = n THEN d = c ELSE Dispatching(d, r)
  BY <1>1, <1>3 DEF Dispatching, Goto, RunInv, TypeInv, TypeOK
<1>6. \A r \in Run, w \in Worker : Working(w, r)' <=> Working(w, r)
  BY <1>2 DEF Working, Busy
<1>7. OneHand(n)'
  <2>1. (\A k \in 0..MaxRetries : queue'[n][k] = 0 /\ ~Queued(k, n)')
        /\ (\A w \in Worker : ~Working(w, n)')
    BY <1>2, <1>3 DEF Queued, Working
  <2>2. Unfinished(n)'
    BY <1>2, <1>3, <1>4 DEF Unfinished, Terminal
  <2>3. \A d \in Caller : Dispatching(d, n)' => d = c
    BY <1>2, <1>5
  <2> QED BY <2>1, <2>2, <2>3 DEF OneHand
<1>8. ASSUME NEW r \in Run, r # n PROVE OneHand(r)'
  <2>1. OneHand(r) /\ status'[r] = status[r] /\ queue' = queue /\ worker' = worker
    BY <1>2, <1>4, <1>8 DEF Hands
  <2>2. \A k \in 0..MaxRetries : Queued(k, r)' <=> Queued(k, r)
    BY <2>1 DEF Queued
  <2>3. InHand(r)' => InHand(r)
    BY <1>5, <1>6, <1>8, <2>2 DEF InHand
  <2>4. InHand(r)' => Unfinished(r)'
    BY <1>2, <2>1, <2>3 DEF OneHand, Unfinished
  <2> QED BY <1>5, <1>6, <1>8, <2>1, <2>4, HandFrame
<1> QED BY <1>2, <1>4, <1>7, <1>8 DEF Hands

\* The steps on sources and of callers, failed ones included, keep each run
\* in one hand.
LEMMA HandsCallerStep ==
    ASSUME RunInv, Hands,
           \/ \E s \in Source : CreateSource(s) \/ LockExpires(s)
           \/ \E u \in User : DeleteUser(u)
           \/ \E c \in Caller : \/ \E s \in Source : Request(c, s)
                                \/ CallerStep(c) \/ CallerFault(c)
           \/ \E p \in Scheduler : \/ Poll(p) \/ TakeLock(p)
                                   \/ LookFails(p) \/ RestartScheduler(p)
                                   \/ \E s \in Source : Look(p, s)
    PROVE  Hands'
<1> USE DEF RunInv, TypeInv
<1>0. NoRun \notin Run /\ Scheduler \subseteq Caller /\ caller \in [Caller -> CallerState]
  BY ConstantsAssumption DEF Caller, TypeOK
<1>1. ASSUME UNCHANGED <<queue, worker, status, abandoned>>,
             \A c \in Caller, r \in Run : Dispatching(c, r)' => Dispatching(c, r)
      PROVE  Hands'
  BY <1>1, HandsFrame DEF Hands
<1>2. ASSUME NEW s \in Source, CreateSource(s) \/ LockExpires(s) PROVE Hands'
  BY <1>1, <1>2 DEF CreateSource, LockExpires, Dispatching, database
<1>3. ASSUME NEW u \in User, DeleteUser(u) PROVE Hands'
  <2>1. /\ UNCHANGED <<caller, queue, worker, abandoned>>
        /\ \A r \in Run : status'[r] = status[r] \/ status'[r] = "deleted"
    BY <1>3 DEF DeleteUser
  <2>2. \A c \in Caller, r \in Run : Dispatching(c, r)' => Dispatching(c, r)
    BY <2>1 DEF Dispatching
  <2>3. \A r \in Run : /\ status'[r] \in Terminal => status[r] \in Terminal
                       /\ status'[r] = "absent" => r \notin abandoned'
    BY <2>1 DEF Terminal, Hands
  <2> QED BY <2>1, <2>2, <2>3, HandsFrame
<1>4. ASSUME NEW c \in Caller, NEW s \in Source, Request(c, s) PROVE Hands'
  BY <1>0, <1>1, <1>4 DEF Request, Goto, Dispatching, database
<1>5. ASSUME NEW p \in Scheduler, Poll(p) PROVE Hands'
  BY <1>1, <1>5 DEF Poll, Dispatching, database
<1>6. ASSUME NEW p \in Scheduler, TakeLock(p) \/ RestartScheduler(p) PROVE Hands'
  BY <1>0, <1>1, <1>6 DEF TakeLock, RestartScheduler, Goto, Dispatching, IdleCaller, database
<1>7. ASSUME NEW p \in Scheduler, NEW s \in Source, Look(p, s) PROVE Hands'
  BY <1>0, <1>1, <1>7 DEF Look, Goto, Dispatching, database
\* A caller that raises lets go of its run.
<1>8. ASSUME NEW c \in Caller, Raise(c)
      PROVE  /\ caller'[c].pc # "dispatch"
             /\ \A d \in Caller \ {c} : caller'[d] = caller[d]
             /\ \A d \in Caller, r \in Run :
                  Dispatching(d, r)' => Dispatching(d, r) /\ d # c
  BY <1>0, <1>8 DEF Raise, IdleCaller, StoppedCaller, Dispatching
<1>9. ASSUME NEW c \in Caller, CreateRunOrphan(c) \/ LockFails(c) PROVE Hands'
  BY <1>1, <1>8, <1>9 DEF CreateRunOrphan, LockFails, database
<1>10. ASSUME NEW p \in Scheduler, LookFails(p) PROVE Hands'
  BY <1>0, <1>1, <1>8, <1>10 DEF LookFails, database
<1>11. ASSUME NEW c \in Caller, Dispatch(c) PROVE Hands'
  <2>1. caller'[c].pc # "dispatch" /\ \A d \in Caller \ {c} : caller'[d] = caller[d]
    BY <1>0, <1>11 DEF Dispatch, IdleCaller
  <2> QED BY <1>11, <2>1, HandsDispatch DEF Dispatch, database
<1>12. ASSUME NEW c \in Caller, DispatchFails(c) PROVE Hands'
  <2>1. caller[c].pc = "dispatch" /\ Raise(c) /\ UNCHANGED <<status, worker>>
    BY <1>12 DEF DispatchFails, database
  <2>2. CASE Publish(caller[c].run, 0) /\ UNCHANGED abandoned
    BY <1>8, <2>1, <2>2, HandsDispatch
  <2>3. CASE GiveUp(caller[c].run) /\ UNCHANGED queue
    <3>0. PICK m \in Run : m = caller[c].run
      BY <2>1 DEF ProcessesOK
    <3>1. Dispatching(c, m) /\ status[m] # "absent" /\ OneHand(m)
      BY <2>1, <3>0 DEF Dispatching, CommittedBeforeDispatch, Hands
    <3>2. ~InHand(m)'
      <4>1. \A d \in Caller : ~Dispatching(d, m)'
        BY <1>8, <2>1, <3>1 DEF OneHand
      <4>2. \A k \in 0..MaxRetries : ~Queued(k, m)'
        BY <2>3, <3>1 DEF OneHand, Queued
      <4>3. \A w \in Worker : ~Working(w, m)'
        BY <2>1, <3>1 DEF OneHand, Working, Busy
      <4> QED BY <4>1, <4>2, <4>3 DEF InHand
    <3>3. \A r \in Run : r \in abandoned' => r \in abandoned \/ r = m
      BY <2>3, <3>0 DEF GiveUp
    <3>4. \A r \in Run : status'[r] = "absent" => r \notin abandoned'
      BY <2>1, <3>1, <3>3 DEF Hands
    <3>5. \A r \in Run : InHand(r)' => /\ status'[r] \in Terminal => status[r] \in Terminal
                                       /\ r \in abandoned' => r \in abandoned
      BY <2>1, <3>2, <3>3
    <3>6. \A d \in Caller, r \in Run : Dispatching(d, r)' => Dispatching(d, r)
      BY <1>8, <2>1
    <3> QED BY <2>1, <2>3, <3>4, <3>5, <3>6, HandsFrame
  <2> QED BY <1>12, <2>2, <2>3 DEF DispatchFails
<1>13. ASSUME NEW c \in Caller, CreateRunFails(c) PROVE Hands'
  <2>1. Raise(c) /\ UNCHANGED <<queue, worker>>
    BY <1>13 DEF CreateRunFails
  <2>2. CASE UNCHANGED <<status, abandoned>>
    BY <1>1, <1>8, <2>1, <2>2
  <2>3. CASE \E n \in Fresh(caller[c].src) :
               status' = [status EXCEPT ![n] = "running"] /\ GiveUp(n)
    <3>1. PICK n \in Run : /\ status[n] = "absent"
                           /\ status' = [status EXCEPT ![n] = "running"]
                           /\ abandoned' = abandoned \cup {n}
      BY <2>3 DEF Fresh, GiveUp
    <3>2. ~InHand(n)'
      <4>1. /\ \A k \in 0..MaxRetries : queue[n][k] = 0
            /\ \A w \in Worker : worker[w].run # n
            /\ \A d \in Caller : ~Dispatching(d, n)
        BY <3>1 DEF CommittedBeforeDispatch, Dispatching
      <4>2. \A d \in Caller : ~Dispatching(d, n)'
        BY <1>8, <2>1, <4>1
      <4>3. (\A k \in 0..MaxRetries : ~Queued(k, n)') /\ (\A w \in Worker : ~Working(w, n)')
        BY <2>1, <4>1 DEF Queued, Working
      <4> QED BY <4>2, <4>3 DEF InHand
    <3>3. /\ status'[n] = "running"
          /\ \A r \in Run : r # n => status'[r] = status[r] /\ (r \in abandoned' <=> r \in abandoned)
      BY <3>1 DEF TypeOK
    <3>4. \A r \in Run : InHand(r)' => /\ status'[r] \in Terminal => status[r] \in Terminal
                                       /\ r \in abandoned' => r \in abandoned
      BY <3>2, <3>3
    <3>5. \A r \in Run : status'[r] = "absent" => r \notin abandoned'
      BY <3>3 DEF Hands
    <3>6. \A d \in Caller, r \in Run : Dispatching(d, r)' => Dispatching(d, r)
      BY <1>8, <2>1
    <3> QED BY <2>1, <3>4, <3>5, <3>6, HandsFrame
  <2> QED BY <1>13, <2>2, <2>3 DEF CreateRunFails
<1> QED BY <1>2, <1>3, <1>4, <1>5, <1>6, <1>7, <1>9, <1>10, <1>11, <1>12, <1>13, HandsCreate
        DEF CallerStep, CallerFault

\* A step of a worker that publishes nothing and gives the worker no run.
LEMMA HandsWorkerFrame ==
    ASSUME RunInv, Hands, NEW w \in Worker, UNCHANGED <<caller, queue>>,
           \A v \in Worker \ {w} : worker'[v] = worker[v],
           \A r \in Run : Working(w, r)' => Working(w, r),
           worker'[w].retry => worker'[w].pc = "done",
           \A r \in Run : InHand(r)' =>
             /\ status'[r] \in Terminal => status[r] \in Terminal
             /\ r \in abandoned' => r \in abandoned
             /\ worker'[w].run = r => worker'[w].pc # "release",
           \A r \in Run : status'[r] = "absent" => r \notin abandoned'
    PROVE  Hands'
<1>1. ASSUME NEW r \in Run PROVE OneHand(r)'
  <2>0. OneHand(r)
    BY DEF Hands
  <2>1. /\ \A c \in Caller : Dispatching(c, r)' <=> Dispatching(c, r)
        /\ \A k \in 0..MaxRetries : Queued(k, r)' <=> Queued(k, r)
        /\ \A v \in Worker : Working(v, r)' => Working(v, r)
    BY DEF Dispatching, Queued, Working, Busy
  <2>2. InHand(r)' => InHand(r)
    BY <2>1 DEF InHand
  <2>3. InHand(r)' => Unfinished(r)'
    BY <2>0, <2>2 DEF OneHand, Unfinished
  <2> QED BY <2>0, <2>1, <2>3, HandFrame
<1> QED BY <1>1 DEF Hands

\* A worker whose run is in no other hand.
LEMMA OnlyWorker ==
    ASSUME Hands, NEW w \in Worker, NEW m \in Run, Working(w, m)
    PROVE  /\ \A c \in Caller : ~Dispatching(c, m)
           /\ \A k \in 0..MaxRetries : ~Queued(k, m) /\ queue[m][k] = 0
           /\ \A v \in Worker : Working(v, m) => v = w
           /\ Unfinished(m)
<1>1. OneHand(m) /\ InHand(m)
  BY DEF Hands, InHand
<1>2. \A k \in 0..MaxRetries : ~Queued(k, m)
  BY <1>1 DEF OneHand
<1>3. \A k \in 0..MaxRetries : queue[m][k] = 0
  BY <1>1, <1>2 DEF OneHand, Queued
<1> QED BY <1>1, <1>2, <1>3 DEF OneHand

\* A worker lets go of its run, having finished or given it up.
LEMMA HandsDrop ==
    ASSUME RunInv, Hands, NEW w \in Worker, NEW m \in Run, Working(w, m),
           UNCHANGED <<caller, queue>>,
           \A v \in Worker \ {w} : worker'[v] = worker[v],
           ~Busy(w)', worker'[w].run \in {m, NoRun},
           \A r \in Run : r # m => status'[r] = status[r],
           status'[m] # "absent",
           abandoned' \subseteq abandoned \cup {m}
    PROVE  Hands'
<1>1. \A r \in Run : Working(w, r)' => Working(w, r)
  BY DEF Working
<1>2. ~InHand(m)'
  <2>1. \A c \in Caller : ~Dispatching(c, m)'
    BY OnlyWorker DEF Dispatching
  <2>2. \A k \in 0..MaxRetries : ~Queued(k, m)'
    BY OnlyWorker DEF Queued
  <2>3. \A v \in Worker : v # w => (Working(v, m)' <=> Working(v, m))
    BY DEF Working, Busy
  <2>4. \A v \in Worker : ~Working(v, m)'
    BY <2>3, OnlyWorker DEF Working
  <2> QED BY <2>1, <2>2, <2>4 DEF InHand
<1>3. \A r \in Run : InHand(r)' =>
        /\ status'[r] \in Terminal => status[r] \in Terminal
        /\ r \in abandoned' => r \in abandoned
        /\ worker'[w].run = r => worker'[w].pc # "release"
  BY <1>2, ConstantsAssumption
<1>4. \A r \in Run : status'[r] = "absent" => r \notin abandoned'
  BY DEF Hands
<1> QED BY <1>1, <1>3, <1>4, HandsWorkerFrame DEF Busy

\* A worker that has a run publishes a message for it and lets go of it.
LEMMA HandsPublish ==
    ASSUME RunInv, Hands, NEW w \in Worker, NEW m \in Run, Working(w, m),
           NEW k \in 0..MaxRetries, Publish(m, k),
           \A v \in Worker \ {w} : worker'[v] = worker[v],
           ~Busy(w)', worker'[w].pc # "release",
           UNCHANGED <<caller, status, abandoned>>
    PROVE  Hands'
<1>1. \A c \in Caller, r \in Run : Dispatching(c, r)' <=> Dispatching(c, r)
  BY DEF Dispatching
<1>2. \A v \in Worker, r \in Run : Working(v, r)' => Working(v, r) /\ v # w
  BY DEF Working, Busy
<1>3. \A r \in Run : Unfinished(r) => Unfinished(r)'
  BY DEF Unfinished
<1>4. TypeOK /\ OneHand(m) /\ InHand(m)
  BY DEF RunInv, TypeInv, Hands, InHand
<1>5. OneHand(m)'
  <2>1. \A c \in Caller : ~Dispatching(c, m)'
    BY <1>1, OnlyWorker
  <2>2. \A v \in Worker : ~Working(v, m)'
    BY <1>2, OnlyWorker
  <2>3. (\A j \in 0..MaxRetries : ~Queued(j, m)) /\ Unfinished(m)'
    BY <1>3, OnlyWorker
  <2> QED BY <1>4, <2>1, <2>2, <2>3, HandPublishes
<1>6. ASSUME NEW r \in Run, r # m PROVE OneHand(r)'
  <2>1. \A j \in 0..MaxRetries : queue'[r][j] = queue[r][j]
    BY <1>4, <1>6, PublishEffect
  <2>2. \A j \in 0..MaxRetries : Queued(j, r)' <=> Queued(j, r)
    BY <2>1 DEF Queued
  <2>3. OneHand(r)
    BY DEF Hands
  <2>4. InHand(r)' => InHand(r)
    BY <1>1, <1>2, <2>2 DEF InHand
  <2>5. InHand(r)' => Unfinished(r)'
    BY <1>3, <2>3, <2>4 DEF OneHand
  <2> QED BY <1>1, <1>2, <2>1, <2>3, <2>5, HandFrame
<1> QED BY <1>5, <1>6 DEF Hands, Busy

\* A worker takes the message of a run.
LEMMA HandsDeliver ==
    ASSUME RunInv, Hands, NEW w \in Worker, Deliver(w)
    PROVE  Hands'
<1>1. PICK m \in Run, j \in 0..MaxRetries :
        /\ queue[m][j] > 0
        /\ queue' = [queue EXCEPT ![m][j] = @ - 1]
        /\ worker' = [worker EXCEPT ![w] =
             [IdleWorker EXCEPT !.pc = "load", !.run = m, !.tries = j, !.owned = TRUE]]
  BY DEF Deliver
<1>2. UNCHANGED <<status, caller, abandoned>>
  BY DEF Deliver, database
<1>3. /\ worker'[w].run = m /\ worker'[w].pc = "load" /\ ~worker'[w].retry
      /\ \A v \in Worker \ {w} : worker'[v] = worker[v]
  BY <1>1 DEF RunInv, TypeInv, TypeOK, IdleWorker
<1>4. \A r \in Run, k \in 0..MaxRetries :
        queue'[r][k] = IF r = m /\ k = j THEN queue[r][k] - 1 ELSE queue[r][k]
  BY <1>1 DEF RunInv, TypeInv, TypeOK
<1>5. OneHand(m) /\ InHand(m) /\ Queued(j, m)
  BY <1>1 DEF Hands, InHand, Queued
<1>6. OneHand(m)'
  <2>1. \A c \in Caller : ~Dispatching(c, m)'
    BY <1>2, <1>5 DEF OneHand, Dispatching
  <2>2. \A k \in 0..MaxRetries : queue'[m][k] = 0
    BY <1>4, <1>5 DEF OneHand, Queued
  <2>3. \A k \in 0..MaxRetries : ~Queued(k, m)' /\ queue'[m][k] \in {0, 1}
    BY <2>2 DEF Queued
  <2>4. \A v \in Worker : Working(v, m)' => v = w
    BY <1>3, <1>5 DEF OneHand, Working, Busy
  <2>5. Unfinished(m)'
    BY <1>2, <1>3, <1>5 DEF OneHand, Unfinished
  <2> QED BY <2>1, <2>3, <2>4, <2>5 DEF OneHand
<1>7. ASSUME NEW r \in Run, r # m PROVE OneHand(r)'
  <2>1. \A k \in 0..MaxRetries : queue'[r][k] = queue[r][k]
    BY <1>4, <1>7
  <2>2. /\ \A c \in Caller : Dispatching(c, r)' <=> Dispatching(c, r)
        /\ \A k \in 0..MaxRetries : Queued(k, r)' <=> Queued(k, r)
        /\ \A v \in Worker : Working(v, r)' => Working(v, r)
    BY <1>2, <1>3, <1>7, <2>1 DEF Dispatching, Queued, Working, Busy
  <2>3. OneHand(r)
    BY DEF Hands
  <2>4. InHand(r)' => InHand(r)
    BY <2>2 DEF InHand
  <2>5. Unfinished(r) => Unfinished(r)'
    BY <1>2, <1>3 DEF Unfinished
  <2>6. InHand(r)' => Unfinished(r)'
    BY <2>3, <2>4, <2>5 DEF OneHand
  <2> QED BY <2>1, <2>2, <2>3, <2>6, HandFrame
<1> QED BY <1>2, <1>3, <1>6, <1>7 DEF Hands

\* The steps of workers, and those of their faults that repeat no released
\* run, keep each run in one hand.
LEMMA HandsWorkerStep ==
    ASSUME RunInv, Hands, NEW w \in Worker,
           WorkerStep(w) \/ WorkerFault(w),
           ~UnlockedRepeat(w)
    PROVE  Hands'
<1> USE DEF RunInv, TypeInv
<1>0. /\ worker[w] \in WorkerState /\ worker \in [Worker -> WorkerState]
      /\ worker[w].pc # "idle" => worker[w].run \in Run
      /\ worker[w].retry => worker[w].pc = "done"
      /\ NoRun \notin Run
      /\ \A r \in Run : status[r] = "absent" => r \notin abandoned
  BY ConstantsAssumption DEF TypeOK, ProcessesOK, Hands
\* The worker goes on with its run or leaves one it does not have.
<1>1. ASSUME UNCHANGED <<status, abandoned, caller, queue>>,
             \A v \in Worker \ {w} : worker'[v] = worker[v],
             Busy(w)' => Busy(w) /\ worker'[w].run = worker[w].run,
             worker'[w].retry => worker'[w].pc = "done",
             worker'[w].pc # "release"
      PROVE  Hands'
  <2>1. \A r \in Run : Working(w, r)' => Working(w, r)
    BY <1>1 DEF Working
  <2> QED BY <1>0, <1>1, <2>1, HandsWorkerFrame
<1>2. CASE Load(w) \/ ReleaseLock(w)
  <2>1. UNCHANGED <<status, abandoned, caller, queue>>
    BY <1>2 DEF Load, ReleaseLock, database
  <2>2. /\ \A v \in Worker \ {w} : worker'[v] = worker[v]
        /\ worker'[w].run = worker[w].run
        /\ \/ /\ worker[w].pc = "load" /\ worker'[w].pc \in {"fetch", "done"}
              /\ worker'[w].retry = worker[w].retry
           \/ /\ worker[w].pc = "release" /\ worker'[w].pc = "done"
              /\ worker'[w].retry = worker[w].retry
    BY <1>0, <1>2 DEF Load, ReleaseLock, WorkerState
  <2> QED BY <1>0, <1>1, <2>1, <2>2 DEF Busy
<1>3. CASE Fetch(w)
  <2>1. PICK o \in Terminal : worker' = [worker EXCEPT ![w].pc = "store", ![w].outcome = o]
    BY <1>3 DEF Fetch
  <2>2. UNCHANGED <<status, abandoned, caller, queue>> /\ worker[w].pc = "fetch"
    BY <1>3 DEF Fetch, database
  <2>3. /\ \A v \in Worker \ {w} : worker'[v] = worker[v]
        /\ worker'[w].run = worker[w].run
        /\ worker'[w].pc = "store" /\ worker'[w].retry = worker[w].retry
    BY <1>0, <2>1 DEF WorkerState
  <2> QED BY <1>0, <1>1, <2>2, <2>3 DEF Busy
<1>4. CASE Ack(w)
  BY <1>0, <1>1, <1>4 DEF Ack, Busy, IdleWorker, database
<1>5. CASE Deliver(w)
  BY <1>5, HandsDeliver
<1>6. CASE Store(w) \/ Unexpected(w) \/ RetriesExhausted(w)
  <2>1. PICK m \in Run : m = worker[w].run
    BY <1>0, <1>6 DEF Store, Unexpected, RetriesExhausted
  <2>2. Working(w, m) /\ status[m] # "absent"
    BY <1>6, <2>1
       DEF Store, Unexpected, RetriesExhausted, Working, Busy, CommittedBeforeDispatch
  <2>3. /\ \A v \in Worker \ {w} : worker'[v] = worker[v]
        /\ worker'[w].run = m
        /\ \/ worker'[w].pc = "release" /\ worker'[w].retry = worker[w].retry
              /\ worker[w].pc \in {"fetch", "store"}
           \/ worker'[w].pc = "done" /\ ~worker'[w].retry
    BY <1>0, <1>6, <2>1 DEF Store, Unexpected, RetriesExhausted, WorkerState
  <2>4. ~Busy(w)'
    BY <1>0, <2>3 DEF Busy
  <2>5. UNCHANGED <<caller, queue>>
    BY <1>6 DEF Store, Unexpected, RetriesExhausted
  <2>6. /\ \A r \in Run : r # m => status'[r] = status[r]
        /\ status'[m] # "absent"
        /\ abandoned' \subseteq abandoned \cup {m}
    <3>1. CASE Store(w)
      <4>1. worker[w].outcome \in Terminal
        BY <3>1 DEF Store, ProcessesOK
      <4> QED BY <2>1, <2>2, <3>1, <4>1 DEF Store, TypeOK, Terminal
    <3>2. CASE Unexpected(w) \/ RetriesExhausted(w)
      BY <2>1, <2>2, <3>2 DEF Unexpected, RetriesExhausted, GiveUp, database
    <3> QED BY <1>6, <3>1, <3>2
  <2> QED BY <2>2, <2>3, <2>4, <2>5, <2>6, HandsDrop
<1>7. CASE Retry(w)
  <2>1. PICK m \in Run : m = worker[w].run
    BY <1>0, <1>7 DEF Retry
  <2>2. Working(w, m)
    BY <1>7, <2>1 DEF Retry, Working, Busy
  <2>3. PICK k \in 0..MaxRetries : Publish(m, k)
    BY <1>0, <1>7, <2>1, ConstantsAssumption DEF Retry, WorkerState
  <2>4. /\ \A v \in Worker \ {w} : worker'[v] = worker[v]
        /\ worker'[w].pc = "done" /\ ~worker'[w].retry
    BY <1>0, <1>7 DEF Retry, WorkerState
  <2>5. UNCHANGED <<caller, status, abandoned>>
    BY <1>7 DEF Retry, database
  <2> QED BY <2>2, <2>3, <2>4, <2>5, HandsPublish DEF Busy
<1>8. CASE ReleaseFails(w)
  <2>1. PICK m \in Run : m = worker[w].run
    BY <1>0, <1>8 DEF ReleaseFails
  <2>2. /\ \A v \in Worker \ {w} : worker'[v] = worker[v]
        /\ worker[w].pc = "release" /\ worker'[w].pc = "done" /\ ~worker'[w].retry
        /\ abandoned' = abandoned \cup {m}
        /\ UNCHANGED <<caller, queue, status>>
    BY <1>0, <1>8, <2>1 DEF ReleaseFails, GiveUp, database, WorkerState
  <2>3. ~InHand(m) /\ status[m] # "absent"
    BY <2>1, <2>2 DEF Hands, OneHand, Unfinished, CommittedBeforeDispatch
  <2>4. \A r \in Run, v \in Worker : Working(v, r)' => Working(v, r)
    BY <2>2 DEF Working, Busy
  <2>5. \A r \in Run : InHand(r)' => InHand(r)
    BY <2>2, <2>4 DEF InHand, Dispatching, Queued
  <2>6. \A r \in Run : InHand(r)' => (r \in abandoned' => r \in abandoned)
    BY <2>2, <2>3, <2>5
  <2>7. \A r \in Run : status'[r] = "absent" => r \notin abandoned'
    BY <1>0, <2>2, <2>3
  <2> QED BY <2>2, <2>4, <2>6, <2>7, HandsWorkerFrame
<1>9. CASE LoadFails(w)
  <2>1. PICK m \in Run : m = worker[w].run
    BY <1>0, <1>9 DEF LoadFails
  <2>2. /\ \A v \in Worker \ {w} : worker'[v] = worker[v]
        /\ worker[w].pc = "load" /\ worker'[w].pc = "done" /\ worker'[w].run = m
        /\ UNCHANGED <<caller, queue, status>>
    BY <1>0, <1>9, <2>1 DEF LoadFails, database, WorkerState
  <2>3. Working(w, m) /\ status[m] # "absent"
    BY <2>1, <2>2 DEF Working, Busy, CommittedBeforeDispatch
  <2>4. \/ worker'[w].retry /\ UNCHANGED abandoned
        \/ ~worker'[w].retry /\ abandoned' = abandoned \cup {m}
    BY <1>0, <1>9, <2>1 DEF LoadFails, GiveUp, WorkerState
  <2>5. CASE worker'[w].retry /\ UNCHANGED abandoned
    BY <1>0, <1>1, <2>1, <2>2, <2>5 DEF Busy
  <2>6. CASE ~worker'[w].retry /\ abandoned' = abandoned \cup {m}
    BY <2>2, <2>3, <2>6, HandsDrop DEF Busy
  <2> QED BY <2>4, <2>5, <2>6
<1>10. CASE WorkerLost(w)
  <2>1. PICK m \in Run : m = worker[w].run
    BY <1>0, <1>10 DEF WorkerLost
  <2>2. Working(w, m)
    BY <1>10, <2>1 DEF UnlockedRepeat, Working
  <2>3. /\ \A v \in Worker \ {w} : worker'[v] = worker[v]
        /\ worker'[w].pc = "idle" /\ ~worker'[w].retry /\ worker'[w].run = NoRun
        /\ UNCHANGED <<caller, status, abandoned>>
    BY <1>0, <1>10 DEF WorkerLost, IdleWorker, database
  <2>4. worker[w].tries \in 0..MaxRetries
    BY <1>0 DEF WorkerState
  <2>5. CASE worker[w].owned
    <3>1. Publish(m, worker[w].tries)
      BY <1>10, <2>1, <2>5 DEF WorkerLost
    <3>2. PICK k \in 0..MaxRetries : k = worker[w].tries
      BY <2>4
    <3> QED BY <2>2, <2>3, <3>1, <3>2, HandsPublish DEF Busy
  <2>6. CASE ~worker[w].owned
    <3>1. UNCHANGED queue
      BY <1>10, <2>6 DEF WorkerLost
    <3>2. worker'[w].pc # "release" /\ ~Busy(w)'
      BY <2>3 DEF Busy
    <3> QED BY <1>1, <2>3, <3>1, <3>2
  <2> QED BY <2>5, <2>6
<1> QED BY <1>2, <1>3, <1>4, <1>5, <1>6, <1>7, <1>8, <1>9, <1>10
        DEF WorkerStep, WorkerFault, UnlockedRepeat

\* No run is in any hand initially.
LEMMA HandsInit == Init => Hands
<1> SUFFICES ASSUME Init, NEW r \in Run PROVE OneHand(r)
  BY DEF Hands, Init, IdleWorker
<1>1. /\ \A c \in Caller : ~Dispatching(c, r)
      /\ \A k \in 0..MaxRetries : queue[r][k] = 0
      /\ \A w \in Worker : ~Working(w, r)
  BY DEF Init, Dispatching, Working, Busy, IdleCaller, IdleWorker
<1>2. \A k \in 0..MaxRetries : ~Queued(k, r)
  BY <1>1 DEF Queued
<1> QED BY <1>1, <1>2 DEF OneHand, InHand

\* Every step but the faults that repeat a run without its lock keeps each
\* run in one hand.
LEMMA HandsStep ==
    ASSUME RunInv, Hands, Next, \A w \in Worker : ~UnlockedRepeat(w)
    PROVE  Hands'
BY HandsCallerStep, HandsWorkerStep DEF Next, SchedulerStep, CallerStep, Caller

\* So does a stuttering step.
LEMMA HandsStutter ==
    ASSUME Hands, UNCHANGED vars
    PROVE  Hands'
BY DEF vars, Hands, OneHand, InHand, Unfinished, Dispatching, Queued, Working, Busy

-----------------------------------------------------------------------------
(* A stored result is not computed again.                                  *)

\* With each run in one hand, a step changes a stored result only by
\* deleting the run.
LEMMA ResultStep ==
    ASSUME RunInv, Hands, [Next]_vars, NEW r \in Run,
           status[r] \in Terminal, status'[r] # status[r]
    PROVE  status'[r] = "deleted"
<1>1. TypeOK
  BY DEF RunInv, TypeInv
<1>2. ASSUME NEW w \in Worker, Store(w) \/ StoreFails(w) PROVE FALSE
  <2>1. Working(w, r)
    BY <1>1, <1>2 DEF Store, StoreFails, TypeOK, Working, Busy
  <2> QED BY <2>1, OnlyWorker DEF Unfinished
<1>3. ASSUME NEW c \in Caller, CreateRun(c) \/ CreateRunFails(c) PROVE FALSE
  BY <1>1, <1>3 DEF CreateRun, CreateRunFails, Fresh, TypeOK, Terminal
<1>4. ASSUME NEW u \in User, DeleteUser(u) PROVE status'[r] = "deleted"
  BY <1>4 DEF DeleteUser
<1>5. ~UNCHANGED status
  OBVIOUS
<1> QED
  BY <1>2, <1>3, <1>4, <1>5
     DEF vars, Next, CreateSource, LockExpires, Request, CallerStep, CreateRunOrphan, Dispatch,
         SchedulerStep, Poll, Look, TakeLock, LookFails, RestartScheduler, CallerFault,
         LockFails, DispatchFails, Caller, WorkerStep, Deliver, Load, Fetch, Unexpected,
         ReleaseLock, Ack, Retry, RetriesExhausted, WorkerFault, LoadFails, ReleaseFails,
         WorkerLost, Redeliver, database

\* Under the specification without unlocked repeats each run is in one hand.
LEMMA LockedHands == LockedSpec => [](RunInv /\ Hands)
<1>1. Init => RunInv /\ Hands
  BY RunInit, HandsInit
<1>2. RunInv /\ Hands /\ [Next /\ \A w \in Worker : ~UnlockedRepeat(w)]_vars
        => (RunInv /\ Hands)'
  BY RunStep, HandsStep, HandsStutter
<1> QED BY <1>1, <1>2, PTL DEF LockedSpec

\* For all constants, with requests that take no lock, locks that lapse and
\* any number of the other faults: as long as no fault repeats a run after
\* its lock was released, a stored result is final until the run is deleted.
THEOREM ResultsAreFinal ==
    LockedSpec =>
      [][\A r \in Run : status[r] \in Terminal /\ status'[r] # status[r]
                          => status'[r] = "deleted"]_vars
<1>1. RunInv /\ Hands /\ [Next /\ \A w \in Worker : ~UnlockedRepeat(w)]_vars
        => [\A r \in Run : status[r] \in Terminal /\ status'[r] # status[r]
                             => status'[r] = "deleted"]_vars
  BY ResultStep
<1> QED BY <1>1, LockedHands, PTL DEF LockedSpec

\* Before the first fault each run is in one hand, and no fault is a repeat.
CarrierInv == RunInv /\ (faults = 0 => Hands)

\* Every step preserves it; a fault ends the period it speaks of.
LEMMA CarrierStep == CarrierInv /\ [Next]_vars => CarrierInv'
<1> SUFFICES ASSUME CarrierInv, [Next]_vars, faults' = 0 PROVE Hands'
  BY RunStep DEF CarrierInv
<1>0. RunInv /\ faults \in Nat
  BY ConstantsAssumption DEF CarrierInv, RunInv, TypeInv, TypeOK
<1>1. ~Fault
  BY <1>0 DEF Fault
<1>2. \A w \in Worker : ~UnlockedRepeat(w)
  BY <1>1 DEF UnlockedRepeat, StoreFails, Redeliver, WorkerLost
<1>3. faults = 0
  <2>1. UNCHANGED faults
    BY <1>1
       DEF vars, Next, CreateSource, LockExpires, DeleteUser, Request, CallerStep, CreateRun,
           CreateRunOrphan, Dispatch, SchedulerStep, Poll, TakeLock, RestartScheduler, Look,
           LookFails, CallerFault, LockFails, CreateRunFails, DispatchFails, WorkerStep,
           Deliver, Load, Fetch, Store, Unexpected, ReleaseLock, Ack, Retry, RetriesExhausted,
           WorkerFault, LoadFails, StoreFails, ReleaseFails, WorkerLost, Redeliver
  <2> QED BY <2>1
<1> QED BY <1>0, <1>2, <1>3, HandsStep, HandsStutter DEF CarrierInv

\* For all constants, with requests that take no lock and locks that lapse:
\* before the first fault (a lost worker, a redelivery, a failed call) no
\* task executes a finished run again over its stored result.
THEOREM ResultsStoredOnce == Spec => FinishedOnce
<1>1. Init => CarrierInv
  BY RunInit, HandsInit DEF CarrierInv
<1>2. ASSUME CarrierInv, [Next]_vars, NEW r \in Run,
             status[r] \in Terminal, status'[r] # status[r], status'[r] # "deleted"
      PROVE  faults > 0
  <2>1. faults \in Nat /\ RunInv
    BY <1>2, ConstantsAssumption DEF CarrierInv, RunInv, TypeInv, TypeOK
  <2>2. faults # 0
    BY <1>2, <2>1, ResultStep DEF CarrierInv
  <2> QED BY <2>1, <2>2
<1>3. CarrierInv /\ [Next]_vars =>
        [\A r \in Run :
           status[r] \in Terminal /\ status'[r] # status[r] /\ status'[r] # "deleted"
             => faults > 0]_vars
  BY <1>2
<1> QED BY <1>1, <1>3, CarrierStep, PTL DEF Spec, FinishedOnce

-----------------------------------------------------------------------------
(* Mutual exclusion: the Redis lock of start_run keeps the runs of a source  *)
(* apart when every starter takes it, no run outlives it and no fault        *)
(* repeats a run after its release.                                          *)

\* What the lock needs to be a lock, beside LockedSpec: no requests (they are
\* served without Redis and never take it), no key that lapses while in use.
LockOnly == Api = {} /\ SlowRuns = FALSE

\* The users of a source's lock: a scheduler that took it and has no run yet,
\* a run in flight, a worker that has not deleted the key yet.
Creating(p, s) == caller[p].pc = "create" /\ caller[p].src = s

Flying(r, s) == SourceOf[r] = s /\ InFlight(r)

Releasing(w, s) == worker[w].pc = "release" /\ SourceOf[worker[w].run] = s

\* Nobody uses the lock of s.
Unused(s) ==
    /\ \A p \in Scheduler : ~Creating(p, s)
    /\ \A r \in Run : ~Flying(r, s)
    /\ \A w \in Worker : ~Releasing(w, s)

\* The lock of s has at most one user, and none when the key is absent.
Exclusive(s) ==
    /\ \A p, q \in Scheduler : Creating(p, s) /\ Creating(q, s) => p = q
    /\ \A q, r \in Run : Flying(q, s) /\ Flying(r, s) => q = r
    /\ \A v, w \in Worker : Releasing(v, s) /\ Releasing(w, s) => v = w
    /\ \A p \in Scheduler, r \in Run : ~(Creating(p, s) /\ Flying(r, s))
    /\ \A p \in Scheduler, w \in Worker : ~(Creating(p, s) /\ Releasing(w, s))
    /\ \A r \in Run, w \in Worker : ~(Flying(r, s) /\ Releasing(w, s))
    /\ ~lock[s] => Unused(s)

\* Runs and callers exist only for sources that existed before them.
SourcesFirst ==
    /\ \A r \in Run : status[r] = "deleted" => source[SourceOf[r]] = "deleted"
    /\ \A c \in Caller : caller[c].src \in Source => source[caller[c].src] # "absent"

LiveExclusive == \A s \in Source : source[s] = "live" => Exclusive(s)

LockedInv == RunInv /\ Hands /\ SourcesFirst /\ LiveExclusive

\* What LockedInv and the assumptions are made of.
LEMMA LockedFacts ==
    ASSUME LockOnly, LockedInv
    PROVE  /\ Caller = Scheduler /\ TypeOK /\ ProcessesOK
           /\ RowsHaveSource /\ CommittedBeforeDispatch
           /\ NoRun \notin Run /\ NoSource \notin Source /\ SourceOf \in [Run -> Source]
BY ConstantsAssumption DEF LockOnly, LockedInv, RunInv, TypeInv, Caller

\* A step that changes no source and gives no run to a source.
LEMMA SourcesFirstFrame ==
    ASSUME SourcesFirst, UNCHANGED source,
           \A r \in Run : status'[r] = "deleted" => status[r] = "deleted",
           \A c \in Caller : \/ caller'[c].src \in {caller[c].src, NoSource}
                             \/ source[caller'[c].src] = "live"
    PROVE  SourcesFirst'
BY ConstantsAssumption DEF SourcesFirst

\* Sources, runs and callers: every step preserves their order.
LEMMA SourcesFirstStep ==
    ASSUME RunInv, SourcesFirst, [Next]_vars
    PROVE  SourcesFirst'
<1> USE DEF RunInv, TypeInv
<1>0. /\ NoSource \notin Source /\ SourceOf \in [Run -> Source] /\ Scheduler \subseteq Caller
      /\ caller \in [Caller -> CallerState]
      /\ IdleCaller.src = NoSource /\ StoppedCaller.src = NoSource
  BY ConstantsAssumption DEF Caller, TypeOK, IdleCaller, StoppedCaller
<1>1. ASSUME UNCHANGED <<source, status>>,
             \A c \in Caller : \/ caller'[c].src \in {caller[c].src, NoSource}
                               \/ source[caller'[c].src] = "live"
      PROVE  SourcesFirst'
  BY <1>1, SourcesFirstFrame
<1>2. CASE UNCHANGED vars
  BY <1>1, <1>2 DEF vars
<1>3. ASSUME NEW s \in Source, CreateSource(s) PROVE SourcesFirst'
  BY <1>0, <1>3 DEF CreateSource, SourcesFirst, TypeOK
<1>4. ASSUME NEW s \in Source, LockExpires(s) PROVE SourcesFirst'
  BY <1>1, <1>4 DEF LockExpires, database
<1>5. ASSUME NEW u \in User, DeleteUser(u) PROVE SourcesFirst'
  <2>1. UNCHANGED caller
    BY <1>5 DEF DeleteUser
  <2>2. \A s \in Source : source'[s] = source[s] \/ (source[s] = "live" /\ source'[s] = "deleted")
    BY <1>5 DEF DeleteUser
  <2>3. \A r \in Run : status'[r] = "deleted" => source'[SourceOf[r]] = "deleted"
    BY <1>0, <1>5 DEF DeleteUser, SourcesFirst, TypeOK, RunStatus, Terminal, RowsHaveSource
  <2> QED BY <2>1, <2>2, <2>3 DEF SourcesFirst
\* Where a caller goes.
<1>6. ASSUME NEW c \in Caller, Raise(c)
      PROVE  \A d \in Caller : caller'[d].src \in {caller[d].src, NoSource}
  BY <1>0, <1>6 DEF Raise
<1>7. ASSUME NEW c \in Caller, NEW s \in Source, Request(c, s) PROVE SourcesFirst'
  BY <1>0, <1>1, <1>7 DEF Request, Goto, database
<1>8. ASSUME NEW c \in Caller, NEW r \in Run, status[r] = "absent", UNCHANGED source,
             status' = [status EXCEPT ![r] = "running"],
             \A d \in Caller : caller'[d].src \in {caller[d].src, NoSource}
      PROVE  SourcesFirst'
  BY <1>8, SourcesFirstFrame DEF TypeOK
<1>9. ASSUME NEW c \in Caller, CreateRun(c) PROVE SourcesFirst'
  <2>1. PICK n \in Fresh(caller[c].src) : /\ status' = [status EXCEPT ![n] = "running"]
                                          /\ Goto(c, "dispatch", caller[c].src, n)
    BY <1>9 DEF CreateRun
  <2>2. n \in Run /\ status[n] = "absent" /\ UNCHANGED source
    BY <1>9, <2>1 DEF CreateRun, Fresh
  <2>3. \A d \in Caller : caller'[d].src = caller[d].src
    BY <1>0, <2>1 DEF Goto
  <2> QED BY <1>8, <2>1, <2>2, <2>3
<1>10. ASSUME NEW c \in Caller, CreateRunFails(c) PROVE SourcesFirst'
  BY <1>1, <1>6, <1>8, <1>10 DEF CreateRunFails, Fresh
<1>11. ASSUME NEW c \in Caller,
              CreateRunOrphan(c) \/ LockFails(c) \/ DispatchFails(c) \/ LookFails(c)
       PROVE  SourcesFirst'
  BY <1>1, <1>6, <1>11 DEF CreateRunOrphan, LockFails, DispatchFails, LookFails, database
<1>12. ASSUME NEW c \in Caller, Dispatch(c) \/ RestartScheduler(c) PROVE SourcesFirst'
  BY <1>0, <1>1, <1>12 DEF Dispatch, RestartScheduler, database
<1>13. ASSUME NEW p \in Scheduler, Poll(p) PROVE SourcesFirst'
  BY <1>1, <1>13 DEF Poll, database
<1>14. ASSUME NEW p \in Scheduler, TakeLock(p) PROVE SourcesFirst'
  BY <1>0, <1>1, <1>14 DEF TakeLock, Goto, database
<1>15. ASSUME NEW p \in Scheduler, NEW s \in Source, Look(p, s) PROVE SourcesFirst'
  BY <1>0, <1>1, <1>15 DEF Look, Goto, database
<1>16. ASSUME NEW w \in Worker, WorkerStep(w) \/ WorkerFault(w) PROVE SourcesFirst'
  <2>1. CASE Store(w) \/ StoreFails(w)
    <3>1. \A r \in Run : status'[r] = "deleted" => status[r] = "deleted"
      <4>1. worker[w].outcome # "deleted"
        BY <2>1 DEF Store, StoreFails, ProcessesOK, Terminal
      <4> QED BY <2>1, <4>1 DEF Store, StoreFails, TypeOK
    <3> QED BY <2>1, <3>1, SourcesFirstFrame DEF Store, StoreFails
  <2>2. CASE ~(Store(w) \/ StoreFails(w))
    <3>1. UNCHANGED <<source, status, caller>>
      BY <1>16, <2>2
         DEF WorkerStep, WorkerFault, Deliver, Load, Fetch, Unexpected, ReleaseLock, Ack, Retry,
             RetriesExhausted, LoadFails, ReleaseFails, WorkerLost, Redeliver, database
    <3> QED BY <1>1, <3>1
  <2> QED BY <2>1, <2>2
<1>17. ASSUME NEW c \in Caller, CallerStep(c) \/ CallerFault(c) PROVE SourcesFirst'
  BY <1>9, <1>10, <1>11, <1>12, <1>17 DEF CallerStep, CallerFault
<1>18. ASSUME NEW p \in Scheduler, SchedulerStep(p) \/ LookFails(p) \/ RestartScheduler(p)
       PROVE  SourcesFirst'
  BY <1>0, <1>11, <1>12, <1>13, <1>14, <1>15, <1>17, <1>18 DEF SchedulerStep
<1>19. CASE Next
  BY <1>3, <1>4, <1>5, <1>7, <1>16, <1>17, <1>18, <1>19 DEF Next, Caller
<1> QED BY <1>2, <1>19

\* A step that gives the lock of s no new user, and deletes the key only if
\* it leaves none.
LEMMA ExclusiveFrame ==
    ASSUME NEW s \in Source, Exclusive(s),
           \A p \in Scheduler : Creating(p, s)' => Creating(p, s),
           \A r \in Run : Flying(r, s)' => Flying(r, s),
           \A w \in Worker : Releasing(w, s)' => Releasing(w, s),
           lock[s] => lock'[s] \/ Unused(s)'
    PROVE  Exclusive(s)'
<1>1. /\ \A p, q \in Scheduler : Creating(p, s)' /\ Creating(q, s)' => p = q
      /\ \A q, r \in Run : Flying(q, s)' /\ Flying(r, s)' => q = r
      /\ \A v, w \in Worker : Releasing(v, s)' /\ Releasing(w, s)' => v = w
  BY DEF Exclusive
<1>2. /\ \A p \in Scheduler, r \in Run : ~(Creating(p, s)' /\ Flying(r, s)')
      /\ \A p \in Scheduler, w \in Worker : ~(Creating(p, s)' /\ Releasing(w, s)')
      /\ \A r \in Run, w \in Worker : ~(Flying(r, s)' /\ Releasing(w, s)')
  BY DEF Exclusive
<1>3. ~lock[s] => Unused(s)'
  BY DEF Exclusive, Unused
<1>4. ~lock'[s] => Unused(s)'
  BY <1>3
<1> QED BY <1>1, <1>2, <1>4 DEF Exclusive

\* The steps on sources preserve the exclusion.
LEMMA ExclusionSourceStep ==
    ASSUME LockOnly, LockedInv,
           \/ \E s \in Source : CreateSource(s) \/ LockExpires(s)
           \/ \E u \in User : DeleteUser(u)
    PROVE  LiveExclusive'
<1>0. /\ TypeOK /\ ProcessesOK /\ RowsHaveSource /\ CommittedBeforeDispatch /\ SourcesFirst
      /\ SourceOf \in [Run -> Source]
  BY LockedFacts DEF LockedInv
<1>1. ASSUME NEW x \in Source, CreateSource(x) PROVE LiveExclusive'
  <2>1. /\ UNCHANGED <<status, lock, caller, worker, abandoned>> /\ source[x] = "absent"
        /\ \A s \in Source : s # x => source'[s] = source[s]
    BY <1>1 DEF CreateSource
  <2>2. Unused(x)
    <3>1. \A r \in Run : SourceOf[r] = x => status[r] = "absent"
      BY <1>0, <2>1 DEF SourcesFirst, RowsHaveSource, TypeOK, RunStatus
    <3>2. \A w \in Worker : worker[w].pc = "release" =>
            worker[w].run \in Run /\ status[worker[w].run] # "absent"
      BY <1>0 DEF ProcessesOK, CommittedBeforeDispatch
    <3>3. \A p \in Scheduler : ~Creating(p, x)
      BY <1>0, <2>1 DEF Creating, SourcesFirst, Caller
    <3> QED BY <3>1, <3>2, <3>3 DEF Unused, Flying, InFlight, Releasing
  <2>3. \A s \in Source : source'[s] = "live" => Exclusive(s)
    BY <2>1, <2>2 DEF LockedInv, LiveExclusive, Unused, Exclusive
  <2>4. ASSUME NEW s \in Source, Exclusive(s) PROVE Exclusive(s)'
    BY <2>1, <2>4, ExclusiveFrame DEF Creating, Flying, InFlight, Releasing
  <2> QED BY <2>3, <2>4 DEF LiveExclusive
<1>2. ASSUME NEW x \in Source, LockExpires(x) PROVE LiveExclusive'
  <2>1. UNCHANGED <<source, status, caller, worker, abandoned>> /\ ~InUse(x)
    BY <1>2 DEF LockExpires, database, LockOnly
  <2>2. Unused(x)
    BY <2>1 DEF InUse, Unused, Creating, Flying, InFlight, Releasing
  <2>3. \A s \in Source : s # x => lock'[s] = lock[s]
    BY <1>2 DEF LockExpires
  <2>4. Unused(x)'
    BY <2>1, <2>2 DEF Unused, Creating, Flying, InFlight, Releasing
  <2>5. ASSUME NEW s \in Source, Exclusive(s) PROVE Exclusive(s)'
    BY <2>1, <2>3, <2>4, <2>5, ExclusiveFrame DEF Creating, Flying, InFlight, Releasing
  <2> QED BY <2>1, <2>5 DEF LockedInv, LiveExclusive
<1>3. ASSUME NEW u \in User, DeleteUser(u) PROVE LiveExclusive'
  <2>1. /\ UNCHANGED <<lock, caller, worker, abandoned>>
        /\ \A r \in Run : status'[r] = status[r] \/ status'[r] = "deleted"
        /\ \A s \in Source : source'[s] = "live" => source[s] = "live"
    BY <1>3 DEF DeleteUser
  <2>2. ASSUME NEW s \in Source, Exclusive(s) PROVE Exclusive(s)'
    BY <2>1, <2>2, ExclusiveFrame DEF Creating, Flying, InFlight, Releasing
  <2> QED BY <2>1, <2>2 DEF LockedInv, LiveExclusive
<1> QED BY <1>1, <1>2, <1>3

\* A scheduler becomes a user of a lock only by setting an absent key.
LEMMA ExclusionTakeLock ==
    ASSUME LockOnly, LockedInv, NEW p \in Scheduler, TakeLock(p)
    PROVE  LiveExclusive'
<1>0. /\ TypeOK /\ ProcessesOK /\ Caller = Scheduler
      /\ UNCHANGED <<source, status, worker, abandoned>>
  BY LockedFacts DEF TakeLock, database
<1>1. PICK s \in Source : s = caller[p].src
  BY <1>0 DEF TakeLock, ProcessesOK
<1>2. CASE lock[s]
  <2>1. caller' = [caller EXCEPT ![p] = IdleCaller] /\ UNCHANGED lock
    BY <1>1, <1>2 DEF TakeLock
  <2>2. \A q \in Scheduler, x \in Source : Creating(q, x)' => Creating(q, x)
    BY <1>0, <2>1 DEF Creating, TypeOK, IdleCaller
  <2>3. ASSUME NEW x \in Source, Exclusive(x) PROVE Exclusive(x)'
    BY <1>0, <2>1, <2>2, <2>3, ExclusiveFrame DEF Flying, InFlight, Releasing
  <2> QED BY <1>0, <2>3 DEF LockedInv, LiveExclusive
<1>3. CASE ~lock[s]
  <2>1. Goto(p, "create", s, NoRun) /\ lock' = [lock EXCEPT ![s] = TRUE]
    BY <1>1, <1>3 DEF TakeLock
  <2>2. /\ caller'[p].pc = "create" /\ caller'[p].src = s
        /\ \A q \in Scheduler : q # p => caller'[q] = caller[q]
        /\ lock'[s] /\ \A x \in Source : x # s => lock'[x] = lock[x]
    BY <1>0, <2>1 DEF Goto, TypeOK
  <2>3. /\ \A r \in Run, x \in Source : Flying(r, x)' <=> Flying(r, x)
        /\ \A w \in Worker, x \in Source : Releasing(w, x)' <=> Releasing(w, x)
    BY <1>0 DEF Flying, InFlight, Releasing
  <2>4. ASSUME Exclusive(s) PROVE Exclusive(s)'
    <3>1. Unused(s)
      BY <1>3, <2>4 DEF Exclusive
    <3>2. (\A r \in Run : ~Flying(r, s)') /\ (\A w \in Worker : ~Releasing(w, s)')
      BY <2>3, <3>1 DEF Unused
    <3>3. \A q \in Scheduler : q # p => ~Creating(q, s)'
      BY <2>2, <3>1 DEF Unused, Creating
    <3>4. \A q, r \in Scheduler : Creating(q, s)' /\ Creating(r, s)' => q = r
      BY <3>3
    <3> QED BY <2>2, <3>2, <3>4 DEF Exclusive
  <2>5. ASSUME NEW x \in Source, x # s, Exclusive(x) PROVE Exclusive(x)'
    <3>1. \A q \in Scheduler : Creating(q, x)' => Creating(q, x)
      BY <2>2, <2>5 DEF Creating
    <3> QED BY <2>2, <2>3, <2>5, <3>1, ExclusiveFrame
  <2> QED BY <1>0, <2>4, <2>5 DEF LockedInv, LiveExclusive
<1> QED BY <1>2, <1>3

\* The scheduler hands its lock to the run it creates.
LEMMA ExclusionCreateRun ==
    ASSUME LockOnly, LockedInv, NEW p \in Scheduler, CreateRun(p)
    PROVE  LiveExclusive'
<1>0. TypeOK /\ ProcessesOK /\ Caller = Scheduler /\ UNCHANGED <<source, lock, worker, abandoned>>
  BY LockedFacts DEF CreateRun
<1>1. PICK s \in Source : s = caller[p].src
  BY <1>0 DEF CreateRun, ProcessesOK
<1>2. PICK n \in Fresh(s) : status' = [status EXCEPT ![n] = "running"]
                            /\ Goto(p, "dispatch", s, n)
  BY <1>1 DEF CreateRun
<1>3. /\ source[s] = "live" /\ Creating(p, s)
      /\ n \in Run /\ SourceOf[n] = s /\ status[n] = "absent" /\ n \notin abandoned
  BY <1>1, <1>2 DEF CreateRun, Fresh, Creating, LockedInv, Hands
<1>4. /\ caller'[p].pc = "dispatch"
      /\ \A q \in Scheduler : q # p => caller'[q] = caller[q]
      /\ status'[n] = "running" /\ \A r \in Run : r # n => status'[r] = status[r]
  BY <1>0, <1>2, <1>3 DEF Goto, TypeOK
<1>5. \A q \in Scheduler, x \in Source : Creating(q, x)' => Creating(q, x) /\ q # p
  BY <1>4 DEF Creating
<1>6. \A r \in Run, x \in Source : Flying(r, x)' => Flying(r, x) \/ (r = n /\ x = s)
  BY <1>0, <1>3, <1>4 DEF Flying, InFlight
<1>7. \A w \in Worker, x \in Source : Releasing(w, x)' => Releasing(w, x)
  BY <1>0 DEF Releasing
<1>8. ASSUME Exclusive(s) PROVE Exclusive(s)'
  <2>1. /\ lock[s]
        /\ \A q \in Scheduler : Creating(q, s) => q = p
        /\ \A r \in Run : ~Flying(r, s)
        /\ \A w \in Worker : ~Releasing(w, s)
    BY <1>3, <1>8 DEF Exclusive, Unused
  <2>2. /\ \A q \in Scheduler : ~Creating(q, s)'
        /\ \A r \in Run : Flying(r, s)' => r = n
        /\ \A w \in Worker : ~Releasing(w, s)'
    BY <1>5, <1>6, <1>7, <2>1
  <2> QED BY <1>0, <2>1, <2>2 DEF Exclusive
<1>9. ASSUME NEW x \in Source, x # s, Exclusive(x) PROVE Exclusive(x)'
  BY <1>0, <1>5, <1>6, <1>7, <1>9, ExclusiveFrame
<1> QED BY <1>0, <1>8, <1>9 DEF LockedInv, LiveExclusive

\* The steps of schedulers, failed ones included, preserve the exclusion.
LEMMA ExclusionSchedulerStep ==
    ASSUME LockOnly, LockedInv, NEW p \in Scheduler,
           SchedulerStep(p) \/ CallerFault(p) \/ LookFails(p) \/ RestartScheduler(p)
    PROVE  LiveExclusive'
<1>0. /\ TypeOK /\ ProcessesOK /\ Caller = Scheduler /\ caller \in [Caller -> CallerState]
      /\ IdleCaller.pc = "idle" /\ StoppedCaller.pc = "stopped"
  BY LockedFacts DEF TypeOK, IdleCaller, StoppedCaller
\* The scheduler gets no lock, and a run that it gives up none of its users.
<1>1. ASSUME UNCHANGED <<source, worker>>,
             \A s \in Source : lock[s] => lock'[s],
             \A q \in Scheduler : caller'[q] = caller[q] \/ caller'[q].pc # "create",
             \A r \in Run : InFlight(r)' => InFlight(r)
      PROVE  LiveExclusive'
  <2>1. ASSUME NEW s \in Source, Exclusive(s) PROVE Exclusive(s)'
    BY <1>1, <2>1, ExclusiveFrame DEF Creating, Flying, Releasing
  <2> QED BY <1>1, <2>1 DEF LockedInv, LiveExclusive
<1>2. ASSUME Raise(p)
      PROVE  \A q \in Scheduler : caller'[q] = caller[q] \/ caller'[q].pc # "create"
  BY <1>0, <1>2 DEF Raise
<1>3. CASE Poll(p)
  BY <1>1, <1>3 DEF Poll, database, InFlight
<1>4. ASSUME NEW s \in Source, Look(p, s) PROVE LiveExclusive'
  BY <1>0, <1>1, <1>4 DEF Look, Goto, database, InFlight
<1>5. CASE CreateRunOrphan(p) \/ LookFails(p)
  BY <1>1, <1>2, <1>5 DEF CreateRunOrphan, LookFails, database, InFlight
<1>6. CASE Dispatch(p) \/ RestartScheduler(p)
  BY <1>0, <1>1, <1>6 DEF Dispatch, RestartScheduler, database, InFlight
<1>7. CASE LockFails(p)
  <2>1. \A s \in Source : lock[s] => lock'[s]
    BY <1>0, <1>7 DEF LockFails, TypeOK
  <2> QED BY <1>1, <1>2, <1>7, <2>1 DEF LockFails, database, InFlight
<1>8. CASE CreateRunFails(p)
  <2>1. \A r \in Run : InFlight(r)' => InFlight(r)
    BY <1>0, <1>8 DEF CreateRunFails, Fresh, GiveUp, InFlight, TypeOK
  <2> QED BY <1>1, <1>2, <1>8, <2>1 DEF CreateRunFails
<1>9. CASE DispatchFails(p)
  <2>1. \A r \in Run : InFlight(r)' => InFlight(r)
    BY <1>9 DEF DispatchFails, GiveUp, InFlight, database
  <2> QED BY <1>1, <1>2, <1>9, <2>1 DEF DispatchFails, database
<1> QED BY <1>3, <1>4, <1>5, <1>6, <1>7, <1>8, <1>9, ExclusionTakeLock, ExclusionCreateRun
        DEF SchedulerStep, CallerStep, CallerFault

\* What ends a flight: a worker that has finished its run or given it up
\* becomes the user of the lock in the run's place.
LEMMA ExclusionEndFlight ==
    ASSUME LockOnly, LockedInv, NEW w \in Worker, Store(w) \/ Unexpected(w)
    PROVE  LiveExclusive'
<1>0. /\ TypeOK /\ ProcessesOK /\ CommittedBeforeDispatch /\ SourcesFirst
      /\ UNCHANGED <<source, lock, caller>>
  BY LockedFacts DEF Store, Unexpected, database, LockedInv
<1>1. PICK m \in Run : m = worker[w].run
  BY <1>0 DEF Store, Unexpected, ProcessesOK
<1>2. Working(w, m) /\ Unfinished(m) /\ status[m] # "absent"
  <2>1. Working(w, m) /\ status[m] # "absent"
    BY <1>0, <1>1 DEF Store, Unexpected, Working, Busy, CommittedBeforeDispatch
  <2> QED BY <2>1, OnlyWorker DEF LockedInv
<1>3. /\ \A v \in Worker : v # w => worker'[v] = worker[v]
      /\ worker'[w].pc = "release" /\ worker'[w].run = m
  BY <1>0, <1>1 DEF Store, Unexpected, TypeOK, WorkerState
<1>4. ~InFlight(m)' /\ \A r \in Run : InFlight(r)' => InFlight(r)
  <2>1. CASE Store(w)
    <3>1. /\ \A r \in Run : r # m => status'[r] = status[r]
          /\ status'[m] # "running" /\ abandoned' = abandoned
      BY <1>0, <1>1, <2>1 DEF Store, ProcessesOK, TypeOK, Terminal
    <3> QED BY <3>1 DEF InFlight
  <2>2. CASE Unexpected(w)
    BY <1>1, <2>2 DEF Unexpected, GiveUp, InFlight, database
  <2> QED BY <2>1, <2>2
<1>5. ASSUME NEW s \in Source, source[s] = "live", Exclusive(s) PROVE Exclusive(s)'
  <2>1. /\ \A p \in Scheduler : Creating(p, s)' <=> Creating(p, s)
        /\ \A r \in Run : Flying(r, s)' => Flying(r, s) /\ r # m
        /\ \A v \in Worker : Releasing(v, s)' => Releasing(v, s) \/ (v = w /\ SourceOf[m] = s)
    BY <1>0, <1>3, <1>4 DEF Creating, Flying, Releasing
  <2>2. CASE SourceOf[m] = s
    <3>1. Flying(m, s)
      BY <1>0, <1>2, <1>5, <2>2 DEF Flying, InFlight, Unfinished, SourcesFirst, TypeOK, RunStatus
    <3>2. /\ lock[s]
          /\ \A p \in Scheduler : ~Creating(p, s)
          /\ \A r \in Run : Flying(r, s) => r = m
          /\ \A v \in Worker : ~Releasing(v, s)
      BY <1>5, <3>1 DEF Exclusive, Unused
    <3>3. /\ \A p \in Scheduler : ~Creating(p, s)'
          /\ \A r \in Run : ~Flying(r, s)'
          /\ \A v \in Worker : Releasing(v, s)' => v = w
      BY <2>1, <3>2
    <3> QED BY <1>0, <3>2, <3>3 DEF Exclusive
  <2>3. CASE SourceOf[m] # s
    BY <1>0, <1>5, <2>1, <2>3, ExclusiveFrame
  <2> QED BY <2>2, <2>3
<1> QED BY <1>0, <1>5 DEF LockedInv, LiveExclusive

\* The worker that deletes the key, or fails to, was its only user.
LEMMA ExclusionRelease ==
    ASSUME LockOnly, LockedInv, NEW w \in Worker, ReleaseLock(w) \/ ReleaseFails(w)
    PROVE  LiveExclusive'
<1>0. TypeOK /\ ProcessesOK /\ SourceOf \in [Run -> Source]
  BY LockedFacts
<1>1. PICK x \in Source : x = SourceOf[worker[w].run]
  BY <1>0 DEF ReleaseLock, ReleaseFails, ProcessesOK
<1>2. /\ UNCHANGED <<source, status, caller>>
      /\ \A r \in Run : r \in abandoned => r \in abandoned'
      /\ \A v \in Worker : v # w => worker'[v] = worker[v]
      /\ worker'[w].pc = "done" /\ worker[w].pc = "release"
      /\ \A s \in Source : s # x => lock'[s] = lock[s]
  BY <1>0, <1>1 DEF ReleaseLock, ReleaseFails, GiveUp, TypeOK, WorkerState, database
<1>3. ASSUME NEW s \in Source, Exclusive(s) PROVE Exclusive(s)'
  <2>1. /\ \A p \in Scheduler : Creating(p, s)' => Creating(p, s)
        /\ \A r \in Run : Flying(r, s)' => Flying(r, s)
        /\ \A v \in Worker : Releasing(v, s)' => Releasing(v, s) /\ v # w
    BY <1>2 DEF Creating, Flying, InFlight, Releasing
  <2>2. CASE s = x
    <3>1. Releasing(w, s)
      BY <1>1, <1>2, <2>2 DEF Releasing
    <3>2. /\ \A p \in Scheduler : ~Creating(p, s)
          /\ \A r \in Run : ~Flying(r, s)
          /\ \A v \in Worker : Releasing(v, s) => v = w
      BY <1>3, <3>1 DEF Exclusive
    <3>3. Unused(s)'
      BY <2>1, <3>2 DEF Unused
    <3> QED BY <1>3, <2>1, <3>3, ExclusiveFrame
  <2>3. CASE s # x
    BY <1>2, <1>3, <2>1, <2>3, ExclusiveFrame
  <2> QED BY <2>2, <2>3
<1> QED BY <1>2, <1>3 DEF LockedInv, LiveExclusive

\* The steps of workers, and their faults that repeat no released run,
\* preserve the exclusion.
LEMMA ExclusionWorkerStep ==
    ASSUME LockOnly, LockedInv, NEW w \in Worker,
           WorkerStep(w) \/ WorkerFault(w),
           ~UnlockedRepeat(w)
    PROVE  LiveExclusive'
<1>0. /\ TypeOK /\ worker[w] \in WorkerState /\ IdleWorker.pc = "idle"
  BY LockedFacts DEF TypeOK, IdleWorker
<1>1. ASSUME UNCHANGED <<source, status, lock, caller>>,
             \A r \in Run : r \in abandoned => r \in abandoned',
             \A v \in Worker : v # w => worker'[v] = worker[v],
             worker'[w].pc # "release"
      PROVE  LiveExclusive'
  <2>1. ASSUME NEW s \in Source, Exclusive(s) PROVE Exclusive(s)'
    BY <1>1, <2>1, ExclusiveFrame DEF Creating, Flying, InFlight, Releasing
  <2> QED BY <1>1, <2>1 DEF LockedInv, LiveExclusive
<1>2. CASE Deliver(w)
  <2>1. PICK m \in Run, j \in 0..MaxRetries :
          worker' = [worker EXCEPT ![w] =
            [IdleWorker EXCEPT !.pc = "load", !.run = m, !.tries = j, !.owned = TRUE]]
    BY <1>2 DEF Deliver
  <2>2. worker'[w].pc = "load" /\ \A v \in Worker : v # w => worker'[v] = worker[v]
    BY <1>0, <2>1 DEF TypeOK, IdleWorker
  <2> QED BY <1>1, <1>2, <2>2 DEF Deliver, database
<1>3. CASE Fetch(w)
  <2>1. PICK o \in Terminal : worker' = [worker EXCEPT ![w].pc = "store", ![w].outcome = o]
    BY <1>3 DEF Fetch
  <2>2. worker'[w].pc = "store" /\ \A v \in Worker : v # w => worker'[v] = worker[v]
    BY <1>0, <2>1 DEF TypeOK, WorkerState
  <2> QED BY <1>1, <1>3, <2>2 DEF Fetch, database
<1>4. CASE Load(w) \/ Ack(w) \/ WorkerLost(w)
  <2>1. worker'[w].pc # "release" /\ \A v \in Worker : v # w => worker'[v] = worker[v]
    BY <1>0, <1>4 DEF Load, Ack, WorkerLost, TypeOK, WorkerState
  <2> QED BY <1>1, <1>4, <2>1 DEF Load, Ack, WorkerLost, database
<1>5. CASE Retry(w) \/ RetriesExhausted(w) \/ LoadFails(w)
  <2>1. worker'[w].pc = "done" /\ \A v \in Worker : v # w => worker'[v] = worker[v]
    BY <1>0, <1>5 DEF Retry, RetriesExhausted, LoadFails, TypeOK, WorkerState
  <2> QED BY <1>1, <1>5, <2>1 DEF Retry, RetriesExhausted, LoadFails, GiveUp, database
<1> QED BY <1>2, <1>3, <1>4, <1>5, ExclusionEndFlight, ExclusionRelease
        DEF WorkerStep, WorkerFault, UnlockedRepeat

\* The invariant holds initially.
LEMMA LockedInit == Init => LockedInv
<1> SUFFICES ASSUME Init PROVE LockedInv
  OBVIOUS
<1>1. SourcesFirst
  BY ConstantsAssumption DEF Init, SourcesFirst, IdleCaller
<1>2. LiveExclusive
  BY DEF Init, LiveExclusive
<1> QED BY <1>1, <1>2, RunInit, HandsInit DEF LockedInv

\* Every step preserves the invariant.
LEMMA LockedStep ==
    ASSUME LockOnly, LockedInv, [Next /\ \A w \in Worker : ~UnlockedRepeat(w)]_vars
    PROVE  LockedInv'
<1>0. RunInv' /\ Hands' /\ SourcesFirst'
  BY RunStep, HandsStep, HandsStutter, SourcesFirstStep DEF LockedInv
<1>1. CASE UNCHANGED vars
  <2>1. ASSUME NEW s \in Source, Exclusive(s) PROVE Exclusive(s)'
    BY <1>1, <2>1, ExclusiveFrame DEF vars, Creating, Flying, InFlight, Releasing
  <2>2. LiveExclusive'
    BY <1>1, <2>1 DEF vars, LockedInv, LiveExclusive
  <2> QED BY <1>0, <2>2 DEF LockedInv
<1>2. CASE Next /\ \A w \in Worker : ~UnlockedRepeat(w)
  <2>1. \/ \E s \in Source : CreateSource(s) \/ LockExpires(s)
        \/ \E u \in User : DeleteUser(u)
        \/ \E p \in Scheduler : \/ SchedulerStep(p) \/ CallerFault(p)
                                \/ LookFails(p) \/ RestartScheduler(p)
        \/ \E w \in Worker : WorkerStep(w) \/ WorkerFault(w)
    BY <1>2, LockedFacts DEF Next, LockOnly
  <2>2. LiveExclusive'
    BY <1>2, <2>1, ExclusionSourceStep, ExclusionSchedulerStep, ExclusionWorkerStep
  <2> QED BY <1>0, <2>2 DEF LockedInv
<1> QED BY <1>1, <1>2

\* The inductive invariant excludes a second run in flight: a run in flight
\* has its source's row, and the lock of a source has one user.
LEMMA LockedImplies ==
    ASSUME LockOnly, LockedInv
    PROVE  SingleFlight
<1> SUFFICES ASSUME NEW q \in Run, NEW r \in Run, SourceOf[q] = SourceOf[r],
                    InFlight(q), InFlight(r)
             PROVE  q = r
  BY DEF SingleFlight
<1>1. source[SourceOf[q]] = "live" /\ SourceOf[q] \in Source
  BY LockedFacts DEF InFlight, RowsHaveSource
<1>2. Flying(q, SourceOf[q]) /\ Flying(r, SourceOf[q])
  BY DEF Flying
<1> QED BY <1>1, <1>2 DEF LockedInv, LiveExclusive, Exclusive

\* With any number of sources, schedulers, workers and faults: when every run
\* is started under the lock, no run outlives its lock and no fault repeats a
\* run after its release, a source never has two runs in flight.
THEOREM LockExcludes == LockOnly /\ LockedSpec => []SingleFlight
<1> SUFFICES ASSUME LockOnly PROVE LockedSpec => []SingleFlight
  OBVIOUS
<1>1. LockedInv /\ [Next /\ \A w \in Worker : ~UnlockedRepeat(w)]_vars => LockedInv'
  BY LockedStep
<1>2. LockedInv => SingleFlight
  BY LockedImplies
<1> QED BY <1>1, <1>2, LockedInit, PTL DEF LockedSpec

-----------------------------------------------------------------------------
(* The runs of a source follow one another: Phase is a refinement mapping. *)

\* A step that touches neither a run's row nor the set of abandoned runs is a
\* stutter of the abstract specification.
LEMMA PhaseFrame ==
    ASSUME UNCHANGED <<status, abandoned>>
    PROVE  UNCHANGED Phase
BY DEF Phase, InFlight

\* Deleting a user deletes the runs of the user's sources.
LEMMA PhaseDelete ==
    ASSUME TypeOK, NEW u \in User, DeleteUser(u)
    PROVE  SourceRuns!Delete({s \in Source : Owner[s] = u})
<1> DEFINE gone == {s \in Source : Owner[s] = u}
<1>1. /\ abandoned' = abandoned
      /\ status' = [r \in Run |-> IF Owner[SourceOf[r]] = u /\ status[r] # "absent"
                                  THEN "deleted" ELSE status[r]]
  BY DEF DeleteUser
<1>2. \A r \in Run : SourceOf[r] \in gone <=> Owner[SourceOf[r]] = u
  BY ConstantsAssumption
<1>3. \A r \in Run : Phase[r] # "new" <=> status[r] # "absent"
  BY DEF Phase, InFlight, TypeOK, RunStatus, Terminal
<1>4. Phase' = [r \in Run |-> IF SourceOf[r] \in gone /\ Phase[r] # "new"
                              THEN "deleted" ELSE Phase[r]]
  BY <1>1, <1>2, <1>3 DEF Phase, InFlight
<1> QED BY <1>4 DEF SourceRuns!Delete

\* Giving a run up ends it, unless it was not in flight.
LEMMA PhaseGiveUp ==
    ASSUME NEW m \in Run, GiveUp(m), UNCHANGED status
    PROVE  UNCHANGED Phase \/ SourceRuns!End(m)
<1>1. abandoned' = abandoned \cup {m}
  BY DEF GiveUp
<1>2. CASE InFlight(m)
  <2>1. Phase[m] = "active"
    BY <1>2 DEF Phase, InFlight
  <2>2. Phase' = [Phase EXCEPT ![m] = "dropped"]
    BY <1>1, <1>2 DEF Phase, InFlight
  <2> QED BY <2>1, <2>2 DEF SourceRuns!End
<1>3. CASE ~InFlight(m)
  <2>1. \A r \in Run : InFlight(r)' <=> InFlight(r)
    BY <1>1, <1>3 DEF InFlight
  <2> QED BY <2>1 DEF Phase
<1> QED BY <1>2, <1>3

\* A run that is created, whether its starter goes on with it or fails, finds
\* no other run of its source in flight.
LEMMA PhaseBegin ==
    ASSUME LockOnly, LockedInv, NEW p \in Scheduler,
           CreateRun(p) \/ (CreateRunFails(p) /\ ~UNCHANGED <<status, abandoned>>)
    PROVE  \E r \in Run : SourceRuns!Begin(r)
<1>0. TypeOK /\ ProcessesOK /\ Caller = Scheduler /\ Hands
  BY LockedFacts DEF LockedInv
<1>1. PICK s \in Source : s = caller[p].src
  BY <1>0 DEF CreateRun, CreateRunFails, ProcessesOK
<1>2. PICK r \in Fresh(s) : /\ status' = [status EXCEPT ![r] = "running"]
                            /\ abandoned' \in {abandoned, abandoned \cup {r}}
  BY <1>1 DEF CreateRun, CreateRunFails, GiveUp
<1>3. /\ r \in Run /\ SourceOf[r] = s /\ status[r] = "absent" /\ r \notin abandoned
      /\ Creating(p, s) /\ source[s] = "live"
  BY <1>0, <1>1, <1>2 DEF Fresh, Hands, CreateRun, CreateRunFails, Creating
<1>4. ASSUME NEW o \in Run, SourceOf[o] = SourceOf[r] PROVE Phase[o] # "active"
  <2>1. ~InFlight(o)
    BY <1>3, <1>4 DEF LockedInv, LiveExclusive, Exclusive, Flying
  <2> QED BY <1>0, <2>1 DEF Phase, TypeOK, RunStatus, Terminal
<1>5. Phase[r] = "new"
  BY <1>3 DEF Phase
<1>6. PICK x \in {"active", "dropped"} : Phase' = [Phase EXCEPT ![r] = x]
  <2>1. status'[r] = "running" /\ \A o \in Run : o # r => status'[o] = status[o]
    BY <1>0, <1>2, <1>3 DEF TypeOK
  <2>2. \A o \in Run : o # r => (InFlight(o)' <=> InFlight(o))
    BY <1>2, <2>1 DEF InFlight
  <2>3. Phase' = [Phase EXCEPT ![r] = IF InFlight(r)' THEN "active" ELSE "dropped"]
    BY <2>1, <2>2 DEF Phase
  <2> QED BY <2>3
<1> QED BY <1>3, <1>4, <1>5, <1>6 DEF SourceRuns!Begin

\* A run whose worker stores its outcome gets it, unless it was deleted.
LEMMA PhaseStore ==
    ASSUME LockOnly, LockedInv, NEW w \in Worker, Store(w)
    PROVE  UNCHANGED Phase \/ \E r \in Run : SourceRuns!End(r)
<1>0. TypeOK /\ ProcessesOK /\ CommittedBeforeDispatch
  BY LockedFacts
<1>1. PICK m \in Run : m = worker[w].run
  BY <1>0 DEF Store, ProcessesOK
<1>2. Working(w, m) /\ status[m] # "absent" /\ worker[w].outcome \in Terminal
  BY <1>0, <1>1 DEF Store, Working, Busy, CommittedBeforeDispatch, ProcessesOK
<1>3. status[m] \in {"running", "deleted"} /\ m \notin abandoned
  BY <1>0, <1>2, OnlyWorker DEF LockedInv, Unfinished, TypeOK, RunStatus
<1>4. status' = [status EXCEPT ![m] = IF status[m] = "deleted" THEN status[m]
                                                              ELSE worker[w].outcome]
      /\ abandoned' = abandoned
  BY <1>1 DEF Store
<1>5. CASE status[m] = "deleted"
  <2>1. status' = status
    BY <1>0, <1>4, <1>5 DEF TypeOK
  <2> QED BY <1>4, <2>1, PhaseFrame
<1>6. CASE status[m] = "running"
  <2>1. /\ status'[m] = worker[w].outcome
        /\ \A r \in Run : r # m => status'[r] = status[r]
    BY <1>0, <1>4, <1>6 DEF TypeOK
  <2>2. Phase' = [Phase EXCEPT ![m] = worker[w].outcome]
    BY <1>2, <1>4, <2>1 DEF Phase, InFlight, Terminal
  <2>3. Phase[m] = "active"
    BY <1>3, <1>6 DEF Phase, InFlight
  <2> QED BY <1>2, <2>2, <2>3 DEF SourceRuns!End, SourceRuns!Outcome, Terminal
<1> QED BY <1>3, <1>5, <1>6

\* Every step maps to a step of the abstract specification or to a stutter.
LEMMA PhaseStep ==
    ASSUME LockOnly, LockedInv, [Next /\ \A w \in Worker : ~UnlockedRepeat(w)]_vars
    PROVE  [SourceRuns!Next]_Phase
<1>0. TypeOK /\ ProcessesOK /\ Caller = Scheduler
  BY LockedFacts
<1>1. CASE UNCHANGED vars
  BY <1>1, PhaseFrame DEF vars
<1>2. ASSUME NEW s \in Source, CreateSource(s) \/ LockExpires(s)
      PROVE  UNCHANGED Phase
  BY <1>2, PhaseFrame DEF CreateSource, LockExpires, database
<1>3. ASSUME NEW u \in User, DeleteUser(u)
      PROVE  SourceRuns!Next
  BY <1>0, <1>3, PhaseDelete DEF SourceRuns!Next
<1>4. ASSUME NEW p \in Scheduler,
             SchedulerStep(p) \/ CallerFault(p) \/ LookFails(p) \/ RestartScheduler(p)
      PROVE  SourceRuns!Next \/ UNCHANGED Phase
  <2>1. CASE CreateRun(p) \/ CreateRunFails(p)
    <3>1. CASE UNCHANGED <<status, abandoned>>
      BY <3>1, PhaseFrame
    <3>2. CASE ~UNCHANGED <<status, abandoned>>
      BY <2>1, <3>2, PhaseBegin DEF SourceRuns!Next
    <3> QED BY <3>1, <3>2
  <2>2. CASE DispatchFails(p)
    <3>1. caller[p].run \in Run /\ UNCHANGED status
      BY <1>0, <2>2 DEF DispatchFails, ProcessesOK, database
    <3>2. GiveUp(caller[p].run) \/ UNCHANGED abandoned
      BY <2>2 DEF DispatchFails
    <3> QED BY <3>1, <3>2, PhaseGiveUp, PhaseFrame DEF SourceRuns!Next
  <2>3. CASE ~(CreateRun(p) \/ CreateRunFails(p) \/ DispatchFails(p))
    BY <1>4, <2>3, PhaseFrame
       DEF SchedulerStep, CallerStep, RestartScheduler, Poll, Look, TakeLock, CreateRunOrphan,
           Dispatch, CallerFault, LockFails, LookFails, database
  <2> QED BY <2>1, <2>2, <2>3
<1>5. ASSUME NEW w \in Worker, WorkerStep(w) \/ WorkerFault(w), ~UnlockedRepeat(w)
      PROVE  SourceRuns!Next \/ UNCHANGED Phase
  <2>1. CASE Store(w)
    BY <2>1, PhaseStore DEF SourceRuns!Next
  <2>2. CASE Unexpected(w) \/ RetriesExhausted(w) \/ ReleaseFails(w)
    <3>1. worker[w].run \in Run
      BY <1>0, <2>2 DEF Unexpected, RetriesExhausted, ReleaseFails, ProcessesOK
    <3>2. GiveUp(worker[w].run) /\ UNCHANGED status
      BY <2>2 DEF Unexpected, RetriesExhausted, ReleaseFails, database
    <3> QED BY <3>1, <3>2, PhaseGiveUp DEF SourceRuns!Next
  <2>3. CASE LoadFails(w)
    <3>1. worker[w].run \in Run /\ UNCHANGED status
      BY <1>0, <2>3 DEF LoadFails, ProcessesOK, database
    <3>2. GiveUp(worker[w].run) \/ UNCHANGED abandoned
      BY <2>3 DEF LoadFails
    <3> QED BY <3>1, <3>2, PhaseGiveUp, PhaseFrame DEF SourceRuns!Next
  <2>4. CASE ~(\/ Store(w) \/ Unexpected(w) \/ RetriesExhausted(w)
              \/ ReleaseFails(w) \/ LoadFails(w))
    BY <1>5, <2>4, PhaseFrame
       DEF WorkerStep, Deliver, Load, Fetch, ReleaseLock, Ack, Retry, WorkerFault,
           WorkerLost, UnlockedRepeat, database
  <2> QED BY <2>1, <2>2, <2>3, <2>4
<1>6. CASE Next /\ \A w \in Worker : ~UnlockedRepeat(w)
  <2>1. \/ \E s \in Source : CreateSource(s) \/ LockExpires(s)
        \/ \E u \in User : DeleteUser(u)
        \/ \E p \in Scheduler : \/ SchedulerStep(p) \/ CallerFault(p)
                                \/ LookFails(p) \/ RestartScheduler(p)
        \/ \E w \in Worker : (WorkerStep(w) \/ WorkerFault(w)) /\ ~UnlockedRepeat(w)
    BY <1>0, <1>6 DEF Next, LockOnly
  <2> QED BY <2>1, <1>2, <1>3, <1>4, <1>5
<1> QED BY <1>1, <1>6

\* When every run is started under the lock, no run outlives its lock and no
\* fault repeats a run after its release, the requests, schedulers, messages
\* and workers together implement the plain history of runs: each begins
\* after the one before it has ended, gets one outcome or is given up, and
\* leaves only with its source.
THEOREM RunsFollowOneAnother == LockOnly /\ LockedSpec => ImplementsSourceRuns
<1> SUFFICES ASSUME LockOnly PROVE LockedSpec => SourceRuns!Spec
  BY DEF ImplementsSourceRuns
<1>1. Init => SourceRuns!Init
  BY DEF Init, SourceRuns!Init, Phase
<1>2. LockedInv /\ [Next /\ \A w \in Worker : ~UnlockedRepeat(w)]_vars => LockedInv'
  BY LockedStep
<1>3. LockedInv /\ [Next /\ \A w \in Worker : ~UnlockedRepeat(w)]_vars
        => [SourceRuns!Next]_Phase
  BY PhaseStep
<1> QED BY <1>1, <1>2, <1>3, LockedInit, PTL DEF LockedSpec, SourceRuns!Spec
=============================================================================
