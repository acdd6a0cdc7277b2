-------------------------- MODULE Operations_proofs --------------------------
(***************************************************************************)
(* Theorems about what is done to the system from outside: AuditLog, for   *)
(* any events and retention runs, and Backups and Deployment, for any      *)
(* backup runs, scripts and tags.                                          *)
(***************************************************************************)
EXTENDS AuditLog, Deployment, FiniteSetTheorems, TLAPS

-----------------------------------------------------------------------------
(* The audit log: type correctness.                                        *)

\* The archive of day d ends in the line of a run of that day.
LinesOfTheirDay ==
    \A d \in Day : unfinished[d] \in Sweep => sweep[unfinished[d]].cutoff = d

\* Recording transactions are short, and the cutoff of a retention run is as
\* old as the events it is to keep at most.
OpenIsRecent ==
    \A e \in Event : event[e].pc = "open" => event[e].at <= today /\ today - event[e].at <= MaxOpen

CutoffIsOld == \A w \in Sweep : Under(w) => sweep[w].cutoff <= today - RetentionDays

\* What is left to read was there when the reading began.
DueWasStored ==
    /\ reader.page >= 1
    /\ \A e \in reader.due : event[e].pc \in {"stored", "deleted"}

AuditTypeInv == AuditTypeOK /\ LinesOfTheirDay /\ OpenIsRecent /\ CutoffIsOld /\ DueWasStored

EventRow == [pc : {"none", "open", "stored", "deleted", "failed"}, at : 0 .. MaxDay]

SweepRow == [pc     : {"idle", "select", "write", "delete", "done", "failed"},
             cutoff : Day, todo : SUBSET Event, half : BOOLEAN]

LEMMA AuditTypeInit == AuditInit => AuditTypeInv
<1> SUFFICES ASSUME AuditInit PROVE AuditTypeInv
  OBVIOUS
<1>1. 0 \in Day /\ 0 \in 0 .. MaxDay
  BY AuditLogAssumption DEF Day
<1>2. AuditTypeOK
  BY <1>1, AuditLogAssumption DEF AuditInit, AuditTypeOK
<1>3. LinesOfTheirDay
  BY AuditLogAssumption DEF AuditInit, LinesOfTheirDay
<1> QED BY <1>2, <1>3 DEF AuditInit, AuditTypeInv, OpenIsRecent, CutoffIsOld, Under, DueWasStored

\* A step of one event: it is opened now, or leaves the open ones.
LEMMA AuditEventStep ==
    ASSUME AuditTypeInv, NEW e \in Event, Open(e) \/ Store(e) \/ Lose(e)
    PROVE  /\ AuditTypeInv'
           /\ event[e].pc \in {"none", "open"} /\ event'[e].pc \in {"open", "stored", "failed"}
           /\ event'[e].pc = "stored" => event[e].pc = "open" /\ event'[e].at = event[e].at
           /\ \A f \in Event : f # e => event'[f] = event[f]
<1>1. /\ event \in [Event -> EventRow] /\ today \in 0 .. MaxDay
      /\ UNCHANGED <<today, sweep, copies, unfinished, reader, spoiled, disturbed>>
  BY DEF AuditTypeInv, AuditTypeOK, EventRow, Open, Store, Lose, history
<1>2. /\ event' \in [Event -> EventRow]
      /\ \A f \in Event : f # e => event'[f] = event[f]
      /\ event[e].pc \in {"none", "open"} /\ event'[e].pc \in {"open", "stored", "failed"}
      /\ event'[e].pc = "stored" => event[e].pc = "open" /\ event'[e].at = event[e].at
      /\ event'[e].pc = "open" => event'[e].at = today
  <2>1. CASE Open(e)
    BY <1>1, <2>1 DEF Open, EventRow
  <2>2. CASE Store(e)
    BY <1>1, <2>2 DEF Store, EventRow
  <2>3. CASE Lose(e)
    BY <1>1, <2>3 DEF Lose, EventRow
  <2> QED BY <2>1, <2>2, <2>3
<1>3. AuditTypeOK'
  BY <1>1, <1>2 DEF AuditTypeInv, AuditTypeOK, EventRow
<1>4. LinesOfTheirDay' /\ CutoffIsOld'
  BY <1>1 DEF AuditTypeInv, LinesOfTheirDay, CutoffIsOld, Under
<1>5. OpenIsRecent'
  BY <1>1, <1>2, AuditLogAssumption DEF AuditTypeInv, OpenIsRecent
<1>6. DueWasStored'
  BY <1>1, <1>2 DEF AuditTypeInv, AuditTypeOK, DueWasStored
<1> QED BY <1>2, <1>3, <1>4, <1>5, <1>6 DEF AuditTypeInv

\* A step of the reading.
LEMMA AuditReaderStep ==
    ASSUME AuditTypeInv, BeginReading \/ ReadPage
    PROVE  AuditTypeInv'
<1>1. /\ UNCHANGED <<today, event, sweep, copies, unfinished, spoiled, disturbed>>
      /\ AuditTypeOK /\ Stored \subseteq Event
      /\ reader.pc \in {"idle", "reading", "over"} /\ reader.page \in Nat /\ reader.page >= 1
      /\ reader = [pc |-> reader.pc, page |-> reader.page, due |-> reader.due]
      /\ reader.due \subseteq Event /\ \A e \in reader.due : event[e].pc \in {"stored", "deleted"}
  BY DEF AuditTypeInv, AuditTypeOK, DueWasStored, BeginReading, ReadPage, log, history, Stored
<1>2. /\ reader' \in [pc : {"idle", "reading", "over"}, page : Nat, due : SUBSET Event]
      /\ reader'.page >= 1
      /\ \A e \in reader'.due : event[e].pc \in {"stored", "deleted"}
  <2>1. CASE BeginReading
    BY <1>1, <2>1 DEF BeginReading, AuditTypeInv, AuditTypeOK, DueWasStored, Stored
  <2>2. CASE ReadPage
    <3>1. /\ reader'.pc \in {"reading", "over"} /\ reader'.page \in {1, reader.page + 1}
          /\ reader'.due \subseteq reader.due
          /\ reader' = [pc |-> reader'.pc, page |-> reader'.page, due |-> reader'.due]
      BY <1>1, <2>2 DEF ReadPage
    <3> QED BY <1>1, <3>1
  <2> QED BY <2>1, <2>2
<1>3. AuditTypeOK'
  BY <1>1, <1>2 DEF AuditTypeOK
<1> QED
  BY <1>1, <1>2, <1>3 DEF AuditTypeInv, LinesOfTheirDay, OpenIsRecent, CutoffIsOld, Under,
                          DueWasStored

\* What a step of retention run w changes: w itself, never its cutoff once it
\* has begun, and the line that the archive of its day ends in.
LEMMA AuditSweepStep ==
    ASSUME AuditTypeInv, NEW w \in Sweep,
           BeginSweep(w) \/ Select(w) \/ WriteLine(w) \/ WriteHalf(w) \/ Delete(w) \/ FailSweep(w)
    PROVE  /\ today' = today /\ reader' = reader
           /\ \A v \in Sweep : v # w => sweep'[v] = sweep[v]
           /\ sweep'[w] \in SweepRow
           /\ sweep[w].pc # "idle" => sweep'[w].cutoff = sweep[w].cutoff
           /\ Under(w)' => sweep'[w].cutoff <= today - RetentionDays
           /\ event' = event \/ Delete(w)
           /\ \A d \in Day : unfinished'[d] # unfinished[d] =>
                /\ d = sweep[w].cutoff
                /\ unfinished'[d] \in {NoSweep, Mixed} \/ (unfinished'[d] = w /\ sweep'[w].half)
<1>1. /\ AuditTypeOK /\ sweep \in [Sweep -> SweepRow] /\ sweep[w] \in SweepRow
      /\ unfinished \in [Day -> Sweep \cup {NoSweep, Mixed}] /\ today \in 0 .. MaxDay
      /\ sweep[w].cutoff \in Day
      /\ Under(w) => sweep[w].cutoff <= today - RetentionDays
  BY DEF AuditTypeInv, AuditTypeOK, SweepRow, CutoffIsOld
<1>2. /\ today' = today /\ reader' = reader
      /\ event' = event \/ Delete(w)
  BY DEF BeginSweep, Select, WriteLine, WriteHalf, Delete, FailSweep, log, history
<1>3. /\ \A v \in Sweep : v # w => sweep'[v] = sweep[v]
      /\ sweep'[w] \in SweepRow
      /\ \/ sweep'[w].cutoff = sweep[w].cutoff /\ Under(w)
         \/ sweep[w].pc = "idle" /\ sweep'[w].cutoff = today - RetentionDays
  <2>1. CASE BeginSweep(w)
    <3>1. today - RetentionDays \in Day
      BY <1>1, AuditLogAssumption DEF Day
    <3> QED BY <1>1, <2>1, <3>1 DEF BeginSweep, SweepRow
  <2>2. CASE Select(w)
    <3>1. PICK pc \in {"delete", "write"}, todo \in SUBSET Event :
            sweep' = [sweep EXCEPT ![w].pc = pc, ![w].todo = todo]
      BY <2>2 DEF Select, Before, Stored
    <3>2. sweep[w].pc = "select"
      BY <2>2 DEF Select
    <3> QED BY <1>1, <3>1, <3>2 DEF SweepRow, Under
  <2>3. CASE WriteLine(w)
    <3>1. PICK e \in Event :
            sweep' = [sweep EXCEPT ![w].todo = @ \ {e}, ![w].half = FALSE,
                                   ![w].pc = IF sweep[w].todo = {e} THEN "delete" ELSE @]
      BY <2>3 DEF WriteLine
    <3> QED BY <1>1, <2>3, <3>1 DEF WriteLine, SweepRow, Under
  <2>4. CASE WriteHalf(w)
    BY <1>1, <2>4 DEF WriteHalf, SweepRow, Under
  <2>5. CASE Delete(w)
    BY <1>1, <2>5 DEF Delete, SweepRow, Under
  <2>6. CASE FailSweep(w)
    BY <1>1, <2>6 DEF FailSweep, SweepRow
  <2> QED BY <2>1, <2>2, <2>3, <2>4, <2>5, <2>6
<1>4. /\ sweep[w].pc # "idle" => sweep'[w].cutoff = sweep[w].cutoff
      /\ Under(w)' => sweep'[w].cutoff <= today - RetentionDays
  <2>1. today - RetentionDays <= today - RetentionDays
    BY <1>1, AuditLogAssumption
  <2> QED BY <1>1, <1>3, <2>1
<1>5. \A d \in Day : unfinished'[d] # unfinished[d] =>
        /\ d = sweep[w].cutoff
        /\ unfinished'[d] \in {NoSweep, Mixed} \/ (unfinished'[d] = w /\ sweep'[w].half)
  <2>1. CASE unfinished' = unfinished
    BY <2>1
  <2>2. CASE WriteLine(w)
    <3>1. unfinished' = [unfinished EXCEPT ![sweep[w].cutoff] = NoSweep]
      BY <2>2 DEF WriteLine, EndLine
    <3> QED BY <1>1, <3>1
  <2>3. CASE WriteHalf(w)
    <3>1. PICK end \in {w, Mixed} : unfinished' = [unfinished EXCEPT ![sweep[w].cutoff] = end]
      BY <2>3 DEF WriteHalf
    <3>2. sweep'[w].half
      BY <1>1, <2>3 DEF WriteHalf, SweepRow
    <3> QED BY <1>1, <3>1, <3>2
  <2> QED BY <2>1, <2>2, <2>3 DEF BeginSweep, Select, Delete, FailSweep, log
<1> QED BY <1>2, <1>3, <1>4, <1>5

LEMMA AuditSweepTypes ==
    ASSUME AuditTypeInv, NEW w \in Sweep,
           BeginSweep(w) \/ Select(w) \/ WriteLine(w) \/ WriteHalf(w) \/ Delete(w) \/ FailSweep(w)
    PROVE  AuditTypeInv'
<1>1. /\ AuditTypeOK /\ sweep \in [Sweep -> SweepRow] /\ event \in [Event -> EventRow]
      /\ unfinished \in [Day -> Sweep \cup {NoSweep, Mixed}] /\ sweep[w].cutoff \in Day
  BY DEF AuditTypeInv, AuditTypeOK, SweepRow, EventRow
<1>2. /\ today' = today /\ reader' = reader
      /\ \A v \in Sweep : v # w => sweep'[v] = sweep[v]
      /\ sweep'[w] \in SweepRow
      /\ sweep[w].pc # "idle" => sweep'[w].cutoff = sweep[w].cutoff
      /\ Under(w)' => sweep'[w].cutoff <= today - RetentionDays
      /\ event' = event \/ Delete(w)
      /\ \A d \in Day : unfinished'[d] # unfinished[d] =>
           /\ d = sweep[w].cutoff
           /\ unfinished'[d] \in {NoSweep, Mixed} \/ (unfinished'[d] = w /\ sweep'[w].half)
  BY AuditSweepStep
<1>3. /\ event' \in [Event -> EventRow]
      /\ \A e \in Event : event'[e].at = event[e].at
      /\ \A e \in Event : event'[e].pc # event[e].pc =>
           event[e].pc = "stored" /\ event'[e].pc = "deleted"
  <2>1. CASE event' = event
    BY <1>1, <2>1
  <2>2. CASE Delete(w)
    <3>1. \A e \in Event : event'[e] = IF e \in Before(w) THEN [event[e] EXCEPT !.pc = "deleted"]
                                                            ELSE event[e]
      BY <2>2 DEF Delete
    <3>2. \A e \in Before(w) : event[e].pc = "stored"
      BY DEF Before, Stored
    <3>3. \A e \in Event : event'[e] \in EventRow
      BY <1>1, <3>1 DEF EventRow
    <3>4. event' = [e \in Event |-> event'[e]]
      BY <2>2 DEF Delete
    <3> QED BY <1>1, <3>1, <3>2, <3>3, <3>4 DEF EventRow
  <2> QED BY <1>2, <2>1, <2>2
<1>4. /\ sweep' \in [Sweep -> SweepRow]
      /\ unfinished' \in [Day -> Sweep \cup {NoSweep, Mixed}]
  <2>1. /\ DOMAIN sweep' = Sweep /\ sweep' = [v \in Sweep |-> sweep'[v]]
        /\ DOMAIN unfinished' = Day /\ unfinished' = [d \in Day |-> unfinished'[d]]
    BY <1>1 DEF BeginSweep, Select, WriteLine, EndLine, WriteHalf, Delete, FailSweep, log, history
  <2> QED BY <1>1, <1>2, <2>1
<1>5. /\ copies' \in [Event -> Nat] /\ spoiled' \subseteq Event /\ disturbed' \in BOOLEAN
  <2>1. CASE WriteLine(w)
    <3>1. PICK e \in Event : EndLine(w, e)
      BY <2>1 DEF WriteLine
    <3>2. /\ copies' \in {copies, [copies EXCEPT ![e] = copies[e] + 1]}
          /\ spoiled' \in {spoiled, spoiled \cup {e}} /\ disturbed' = disturbed
      BY <2>1, <3>1 DEF WriteLine, EndLine
    <3> QED BY <1>1, <3>2 DEF AuditTypeOK
  <2> QED BY <1>1, <2>1 DEF AuditTypeOK, BeginSweep, Select, WriteHalf, Delete, FailSweep, log, history
<1>6. sweep'[w].todo # {} \/ sweep'[w].half => sweep'[w].pc = "write"
  <2>1. CASE BeginSweep(w)
    BY <1>1, <2>1 DEF BeginSweep, AuditTypeOK, SweepRow
  <2>2. CASE Select(w)
    <3>1. ~sweep[w].half
      BY <1>1, <2>2 DEF Select, AuditTypeOK
    <3> QED BY <1>1, <2>2, <3>1 DEF Select, SweepRow
  <2>3. CASE WriteLine(w)
    <3>1. PICK e \in Event :
            sweep' = [sweep EXCEPT ![w].todo = @ \ {e}, ![w].half = FALSE,
                                   ![w].pc = IF sweep[w].todo = {e} THEN "delete" ELSE @]
      BY <2>3 DEF WriteLine
    <3>2. sweep[w].pc = "write"
      BY <2>3 DEF WriteLine
    <3> QED BY <1>1, <3>1, <3>2 DEF SweepRow
  <2>4. CASE WriteHalf(w)
    BY <1>1, <2>4 DEF WriteHalf, SweepRow
  <2>5. CASE Delete(w)
    BY <1>1, <2>5 DEF Delete, AuditTypeOK, SweepRow
  <2>6. CASE FailSweep(w)
    BY <1>1, <2>6 DEF FailSweep, SweepRow
  <2> QED BY <2>1, <2>2, <2>3, <2>4, <2>5, <2>6
<1>7. ASSUME NEW d \in Day, unfinished'[d] \in Sweep
      PROVE  /\ sweep'[unfinished'[d]].half \/ sweep'[unfinished'[d]].pc = "failed"
             /\ sweep'[unfinished'[d]].cutoff = d
  <2>1. CASE unfinished'[d] # unfinished[d]
    <3>1. unfinished'[d] = w /\ sweep'[w].half /\ d = sweep[w].cutoff
      BY <1>2, <1>7, <2>1, AuditLogAssumption
    <3>2. sweep[w].pc # "idle"
      <4>1. BeginSweep(w) => sweep'[w].pc = "select"
        BY <1>1 DEF BeginSweep, SweepRow
      <4> QED BY <1>6, <3>1, <4>1 DEF Select, WriteLine, WriteHalf, Delete, FailSweep, Under
    <3> QED BY <1>2, <3>1, <3>2
  <2>2. CASE unfinished'[d] = unfinished[d] /\ unfinished[d] # w
    BY <1>1, <1>2, <1>7, <2>2 DEF AuditTypeOK, AuditTypeInv, LinesOfTheirDay
  <2>3. CASE unfinished'[d] = unfinished[d] /\ unfinished[d] = w
    <3>1. sweep[w].cutoff = d /\ (sweep[w].half \/ sweep[w].pc = "failed")
      BY <2>3 DEF AuditTypeInv, AuditTypeOK, LinesOfTheirDay
    <3>2. sweep[w].half /\ sweep[w].pc = "write"
      BY <1>1, <3>1 DEF AuditTypeOK, BeginSweep, Select, WriteLine, WriteHalf, Delete, FailSweep, Under
    <3>3. ~WriteLine(w)
      <4>1. WriteLine(w) => unfinished'[d] = NoSweep
        BY <1>1, <3>1 DEF WriteLine, EndLine
      <4> QED BY <1>7, <4>1, AuditLogAssumption
    <3>4. FailSweep(w)
      BY <3>2, <3>3 DEF BeginSweep, Select, WriteHalf, Delete
    <3>5. sweep'[w].pc = "failed"
      BY <1>1, <3>4 DEF FailSweep
    <3> QED BY <1>2, <2>3, <3>1, <3>2, <3>5
  <2> QED BY <2>1, <2>2, <2>3
<1>8. AuditTypeOK'
  <2>1. \A v \in Sweep : sweep'[v].todo # {} \/ sweep'[v].half => sweep'[v].pc = "write"
    BY <1>1, <1>2, <1>6 DEF AuditTypeOK
  <2> QED BY <1>1, <1>2, <1>3, <1>4, <1>5, <1>7, <2>1 DEF AuditTypeOK, EventRow, SweepRow
<1>9. OpenIsRecent' /\ DueWasStored'
  BY <1>1, <1>2, <1>3 DEF AuditTypeInv, AuditTypeOK, OpenIsRecent, DueWasStored
<1>10. CutoffIsOld'
  BY <1>1, <1>2 DEF AuditTypeInv, CutoffIsOld, Under
<1> QED BY <1>7, <1>8, <1>9, <1>10 DEF AuditTypeInv, LinesOfTheirDay

\* The clock: an open transaction has less than MaxOpen days behind it, and
\* every cutoff grows older.
LEMMA AuditClockStep ==
    ASSUME AuditTypeInv, NextDay
    PROVE  AuditTypeInv'
<1>1. /\ today' = today + 1 /\ today' \in 0 .. MaxDay /\ today \in 0 .. MaxDay
      /\ UNCHANGED <<event, sweep, copies, unfinished, reader, spoiled, disturbed>>
      /\ event \in [Event -> EventRow] /\ sweep \in [Sweep -> SweepRow]
  BY AuditLogAssumption DEF AuditTypeInv, AuditTypeOK, NextDay, log, history, EventRow, SweepRow
<1>2. AuditTypeOK'
  BY <1>1 DEF AuditTypeInv, AuditTypeOK
<1>3. OpenIsRecent'
  BY <1>1, AuditLogAssumption DEF AuditTypeInv, OpenIsRecent, NextDay, EventRow
<1>4. CutoffIsOld'
  <2>1. \A w \in Sweep : sweep[w].cutoff \in Int
    BY <1>1, AuditLogAssumption DEF SweepRow, Day
  <2> QED BY <1>1, <2>1, AuditLogAssumption DEF AuditTypeInv, CutoffIsOld, Under
<1> QED BY <1>1, <1>2, <1>3, <1>4 DEF AuditTypeInv, LinesOfTheirDay, DueWasStored

LEMMA AuditStutter ==
    ASSUME AuditTypeInv, UNCHANGED auditVars PROVE AuditTypeInv'
BY DEF AuditTypeInv, AuditTypeOK, LinesOfTheirDay, OpenIsRecent, CutoffIsOld, Under, DueWasStored,
       auditVars

LEMMA AuditTypeStep == AuditTypeInv /\ [AuditNext]_auditVars => AuditTypeInv'
BY AuditEventStep, AuditReaderStep, AuditSweepTypes, AuditClockStep, AuditStutter DEF AuditNext

\* The rows of events and the lines of archives stay what they are meant to
\* be, for any number of events, retention runs and days.
THEOREM AuditTypeCorrect == AuditSpec => []AuditTypeOK
<1>1. AuditTypeInv => AuditTypeOK
  BY DEF AuditTypeInv
<1> QED BY <1>1, AuditTypeInit, AuditTypeStep, PTL DEF AuditSpec

-----------------------------------------------------------------------------
(* The audit log: what is deleted has been archived, once.                 *)

Archived(e) == copies[e] > 0 \/ (e \in spoiled /\ disturbed)

\* What a retention run will delete is archived, or it will write it before.
WrittenOrToDo ==
    \A w \in Sweep : \A e \in Before(w) :
        /\ sweep[w].pc = "write" => e \in sweep[w].todo \/ Archived(e)
        /\ sweep[w].pc = "delete" => Archived(e)

\* As long as no retention runs have overlapped and none has failed: there is
\* one at most, ...
OneSweep == ~disturbed => \A v, w \in Sweep : Under(v) /\ Under(w) => v = w

\* ... archives end in a complete line or in the one that it has begun, ...
LinesWhole ==
    ~disturbed =>
        /\ spoiled = {}
        /\ \A d \in Day : unfinished[d] = NoSweep \/ (unfinished[d] \in Sweep /\ sweep[unfinished[d]].half)
        /\ \A w \in Sweep : sweep[w].half => unfinished[sweep[w].cutoff] = w

\* ... it writes what it will delete, and what is archived is gone, or in the
\* part that it has written.
OnceWritten ==
    ~disturbed =>
        /\ \A w \in Sweep : sweep[w].todo \subseteq Before(w)
        /\ \A e \in Event : copies[e] <= 1
        /\ \A e \in Event : copies[e] = 1 =>
             \/ event[e].pc = "deleted"
             \/ \E w \in Sweep : sweep[w].pc \in {"write", "delete"} /\ e \in Before(w) \ sweep[w].todo

ArchiveInv ==
    /\ AuditTypeInv
    /\ WrittenOrToDo /\ OneSweep /\ LinesWhole /\ OnceWritten
    /\ DeletedIsArchived

LEMMA ArchiveInit == AuditInit => ArchiveInv
<1> SUFFICES ASSUME AuditInit PROVE ArchiveInv
  OBVIOUS
<1>1. /\ \A w \in Sweep : sweep[w].pc = "idle" /\ sweep[w].todo = {} /\ sweep[w].half = FALSE
      /\ \A d \in Day : unfinished[d] = NoSweep
      /\ \A e \in Event : copies[e] = 0 /\ event[e].pc = "none"
      /\ spoiled = {}
  BY DEF AuditInit
<1> QED
  BY <1>1, AuditTypeInit DEF ArchiveInv, WrittenOrToDo, OneSweep, LinesWhole, OnceWritten,
                             DeletedIsArchived, Under

\* What is recorded after a retention run began is too young for it.
LEMMA EventFrame ==
    ASSUME AuditTypeInv, NEW e \in Event, Open(e) \/ Store(e) \/ Lose(e)
    PROVE  /\ UNCHANGED <<sweep, copies, unfinished, reader, spoiled, disturbed>>
           /\ \A w \in Sweep : Under(w) => Before(w)' = Before(w)
           /\ \A f \in Event : event'[f].pc = "deleted" <=> event[f].pc = "deleted"
<1>1. /\ UNCHANGED <<today, sweep, copies, unfinished, reader, spoiled, disturbed>>
      /\ event \in [Event -> EventRow] /\ sweep \in [Sweep -> SweepRow] /\ today \in 0 .. MaxDay
  BY DEF AuditTypeInv, AuditTypeOK, EventRow, SweepRow, Open, Store, Lose, history
<1>2. /\ event[e].pc \in {"none", "open"} /\ event'[e].pc \in {"open", "stored", "failed"}
      /\ event'[e].pc = "stored" => event[e].pc = "open" /\ event'[e].at = event[e].at
      /\ \A f \in Event : f # e => event'[f] = event[f]
  BY AuditEventStep
<1>3. ASSUME NEW w \in Sweep, Under(w) PROVE Before(w)' = Before(w)
  <2>1. event'[e].pc = "stored" => ~(event'[e].at < sweep[w].cutoff)
    <3>1. sweep[w].cutoff <= today - RetentionDays /\ sweep[w].cutoff \in Int
      BY <1>1, <1>3, AuditLogAssumption DEF AuditTypeInv, CutoffIsOld, SweepRow, Day
    <3>2. event[e].pc = "open" => event[e].at \in Nat /\ today - event[e].at <= MaxOpen
      BY <1>1 DEF AuditTypeInv, OpenIsRecent, EventRow
    <3> QED BY <1>1, <1>2, <3>1, <3>2, AuditLogAssumption
  <2> QED BY <1>1, <1>2, <2>1 DEF Before, Stored
<1> QED BY <1>1, <1>2, <1>3

LEMMA ArchiveEventStep ==
    ASSUME ArchiveInv, NEW e \in Event, Open(e) \/ Store(e) \/ Lose(e)
    PROVE  ArchiveInv'
<1>1. /\ UNCHANGED <<sweep, copies, unfinished, reader, spoiled, disturbed>>
      /\ \A w \in Sweep : Under(w) => Before(w)' = Before(w)
      /\ \A f \in Event : event'[f].pc = "deleted" <=> event[f].pc = "deleted"
  BY EventFrame DEF ArchiveInv
<1>2. \A w \in Sweep : Under(w) \/ (sweep[w].pc \notin {"write", "delete"} /\ sweep[w].todo = {})
  BY DEF ArchiveInv, AuditTypeInv, AuditTypeOK, Under
<1>3. AuditTypeInv'
  BY AuditEventStep DEF ArchiveInv
<1>4. WrittenOrToDo'
  BY <1>1, <1>2 DEF ArchiveInv, WrittenOrToDo, Archived
<1>5. OneSweep' /\ LinesWhole'
  BY <1>1 DEF ArchiveInv, OneSweep, LinesWhole, Under
<1>6. OnceWritten'
  BY <1>1, <1>2 DEF ArchiveInv, OnceWritten
<1>7. DeletedIsArchived'
  BY <1>1 DEF ArchiveInv, DeletedIsArchived
<1> QED BY <1>3, <1>4, <1>5, <1>6, <1>7 DEF ArchiveInv

\* Reading and the clock change nothing of it.
LEMMA ArchiveFrame ==
    ASSUME ArchiveInv, AuditTypeInv',
           UNCHANGED <<event, sweep, copies, unfinished, spoiled, disturbed>>
    PROVE  ArchiveInv'
BY DEF ArchiveInv, WrittenOrToDo, OneSweep, LinesWhole, OnceWritten, DeletedIsArchived,
       Archived, Under, Before, Stored

\* What is archived stays it, and what a retention run selects from does not
\* grow by the steps of retention runs.
LEMMA SweepFrame ==
    ASSUME AuditTypeInv, NEW w \in Sweep,
           BeginSweep(w) \/ Select(w) \/ WriteLine(w) \/ WriteHalf(w) \/ Delete(w) \/ FailSweep(w)
    PROVE  /\ \A e \in Event : Archived(e) => Archived(e)'
           /\ \A v \in Sweep : v # w => sweep'[v] = sweep[v] /\ Before(v)' \subseteq Before(v)
           /\ sweep[w].pc # "idle" => Before(w)' \subseteq Before(w)
           /\ event' = event => /\ \A v \in Sweep : v # w => Before(v)' = Before(v)
                                /\ sweep[w].pc # "idle" => Before(w)' = Before(w)
           /\ event' = event \/ Delete(w)
<1>1. /\ \A v \in Sweep : v # w => sweep'[v] = sweep[v]
      /\ sweep[w].pc # "idle" => sweep'[w].cutoff = sweep[w].cutoff
      /\ event' = event \/ Delete(w)
  BY AuditSweepStep
<1>2. event \in [Event -> EventRow] /\ copies \in [Event -> Nat]
  BY DEF AuditTypeInv, AuditTypeOK, EventRow
<1>3. \A e \in Event : /\ event'[e].at = event[e].at
                       /\ event'[e].pc = "stored" => event[e].pc = "stored"
  <2>1. CASE event' = event
    BY <2>1
  <2>2. CASE Delete(w)
    <3>1. \A e \in Event : event'[e] = IF e \in Before(w) THEN [event[e] EXCEPT !.pc = "deleted"]
                                                            ELSE event[e]
      BY <2>2 DEF Delete
    <3> QED BY <1>2, <3>1 DEF EventRow
  <2> QED BY <1>1, <2>1, <2>2
<1>4. \A e \in Event : Archived(e) => Archived(e)'
  <2>1. \A e \in Event : copies'[e] >= copies[e]
    <3>1. CASE copies' = copies
      BY <1>2, <3>1
    <3>2. CASE WriteLine(w)
      <4>1. PICK f \in Event : copies' \in {copies, [copies EXCEPT ![f] = copies[f] + 1]}
        BY <3>2 DEF WriteLine, EndLine
      <4> QED BY <1>2, <4>1
    <3> QED BY <3>1, <3>2 DEF BeginSweep, Select, WriteHalf, Delete, FailSweep, log
  <2>2. spoiled \subseteq spoiled' /\ (disturbed => disturbed')
    <3>1. WriteLine(w) => spoiled \subseteq spoiled' /\ disturbed' = disturbed
      BY DEF WriteLine, EndLine
    <3>2. ~WriteLine(w) => spoiled' = spoiled
      BY DEF BeginSweep, Select, WriteHalf, Delete, FailSweep, history
    <3>3. ~WriteLine(w) => (disturbed => disturbed')
      BY DEF BeginSweep, Select, WriteHalf, Delete, FailSweep, history
    <3> QED BY <3>1, <3>2, <3>3
  <2>3. copies' \in [Event -> Nat]
    BY AuditSweepTypes DEF AuditTypeInv, AuditTypeOK
  <2> QED BY <1>2, <2>1, <2>2, <2>3 DEF Archived
<1> QED BY <1>1, <1>3, <1>4 DEF Before, Stored

LEMMA ArchiveBegin ==
    ASSUME ArchiveInv, NEW w \in Sweep, BeginSweep(w)
    PROVE  ArchiveInv'
<1>1. /\ sweep[w].pc = "idle" /\ sweep'[w].pc = "select"
      /\ sweep'[w].todo = {} /\ ~sweep'[w].half /\ sweep[w].todo = {} /\ ~sweep[w].half
      /\ \A v \in Sweep : v # w => sweep'[v] = sweep[v]
      /\ UNCHANGED <<today, event, copies, unfinished, reader, spoiled>>
      /\ ~disturbed' => ~disturbed /\ \A v \in Sweep : ~Under(v)
  BY DEF BeginSweep, log, ArchiveInv, AuditTypeInv, AuditTypeOK
<1>2. \A v \in Sweep : v # w => Before(v)' = Before(v)
  BY <1>1, SweepFrame DEF ArchiveInv
<1>3. \A e \in Event : Archived(e) => Archived(e)'
  BY SweepFrame DEF ArchiveInv
<1>4. WrittenOrToDo'
  BY <1>1, <1>2, <1>3 DEF ArchiveInv, WrittenOrToDo, Before, Stored
<1>5. OneSweep'
  BY <1>1 DEF OneSweep, Under
<1>6. LinesWhole'
  <2>1. ~disturbed' => \A v \in Sweep : ~sweep[v].half
    BY <1>1 DEF ArchiveInv, AuditTypeInv, AuditTypeOK, Under
  <2> QED BY <1>1, <2>1 DEF ArchiveInv, LinesWhole
<1>7. OnceWritten'
  BY <1>1, <1>2 DEF ArchiveInv, OnceWritten
<1>8. DeletedIsArchived' /\ AuditTypeInv'
  BY <1>1, <1>3, AuditSweepTypes DEF ArchiveInv, DeletedIsArchived, Archived
<1> QED BY <1>4, <1>5, <1>6, <1>7, <1>8 DEF ArchiveInv

LEMMA ArchiveSelect ==
    ASSUME ArchiveInv, NEW w \in Sweep, Select(w)
    PROVE  ArchiveInv'
<1>1. /\ sweep[w].pc = "select" /\ sweep'[w].todo = Before(w)
      /\ sweep'[w].pc = IF Before(w) = {} THEN "delete" ELSE "write"
      /\ sweep'[w].half = sweep[w].half /\ sweep'[w].cutoff = sweep[w].cutoff
      /\ \A v \in Sweep : v # w => sweep'[v] = sweep[v]
      /\ UNCHANGED <<today, event, copies, unfinished, reader, spoiled, disturbed>>
  BY DEF Select, log, history, ArchiveInv, AuditTypeInv, AuditTypeOK
<1>2. \A v \in Sweep : Before(v)' = Before(v)
  BY <1>1, SweepFrame DEF ArchiveInv
<1>3. WrittenOrToDo'
  BY <1>1, <1>2 DEF ArchiveInv, WrittenOrToDo, Archived
<1>4. OneSweep' /\ LinesWhole'
  <2>1. \A v \in Sweep : /\ Under(v)' <=> Under(v)
                         /\ sweep'[v].half = sweep[v].half /\ sweep'[v].cutoff = sweep[v].cutoff
    BY <1>1 DEF Under
  <2> QED BY <1>1, <2>1 DEF ArchiveInv, OneSweep, LinesWhole
<1>5. OnceWritten'
  BY <1>1, <1>2 DEF ArchiveInv, OnceWritten
<1>6. DeletedIsArchived' /\ AuditTypeInv'
  BY <1>1, AuditSweepTypes DEF ArchiveInv, DeletedIsArchived
<1> QED BY <1>3, <1>4, <1>5, <1>6 DEF ArchiveInv

\* As long as nothing is disturbed, the archive of a run at work is as it left it.
LEMMA OwnLine ==
    ASSUME ArchiveInv, ~disturbed, NEW w \in Sweep, Under(w)
    PROVE  /\ unfinished[sweep[w].cutoff] = IF sweep[w].half THEN w ELSE NoSweep
           /\ \A d \in Day : unfinished[d] \in {NoSweep, w}
           /\ \A v \in Sweep : v # w => ~sweep[v].half /\ sweep[v].todo = {} /\ ~Under(v)
<1>1. \A v \in Sweep : v # w => ~Under(v) /\ ~sweep[v].half /\ sweep[v].todo = {}
  BY DEF ArchiveInv, OneSweep, AuditTypeInv, AuditTypeOK, Under
<1>2. sweep[w].cutoff \in Day
  BY DEF ArchiveInv, AuditTypeInv, AuditTypeOK
<1>3. \A d \in Day : unfinished[d] = NoSweep \/ (unfinished[d] = w /\ sweep[w].half)
  BY <1>1 DEF ArchiveInv, LinesWhole
<1> QED BY <1>1, <1>2, <1>3 DEF ArchiveInv, LinesWhole

LEMMA ArchiveWriteLine ==
    ASSUME ArchiveInv, NEW w \in Sweep, WriteLine(w)
    PROVE  ArchiveInv'
<1>1. PICK e \in Event :
        /\ e \in sweep[w].todo /\ EndLine(w, e)
        /\ sweep' = [sweep EXCEPT ![w].todo = @ \ {e}, ![w].half = FALSE,
                                  ![w].pc = IF sweep[w].todo = {e} THEN "delete" ELSE @]
  BY DEF WriteLine, IsNext
<1>2. /\ sweep[w].pc = "write" /\ Under(w) /\ sweep'[w].todo = sweep[w].todo \ {e}
      /\ sweep'[w].pc = (IF sweep[w].todo = {e} THEN "delete" ELSE "write")
      /\ ~sweep'[w].half /\ sweep'[w].cutoff = sweep[w].cutoff /\ sweep[w].cutoff \in Day
      /\ \A v \in Sweep : v # w => sweep'[v] = sweep[v]
      /\ UNCHANGED <<today, event, reader, disturbed>>
  BY <1>1 DEF WriteLine, ArchiveInv, AuditTypeInv, AuditTypeOK, Under
<1>3. /\ \A v \in Sweep : Before(v)' = Before(v)
      /\ \A f \in Event : Archived(f) => Archived(f)'
  BY <1>2, SweepFrame DEF ArchiveInv
<1>4. /\ ~disturbed => copies' = [copies EXCEPT ![e] = copies[e] + 1] /\ spoiled' = {}
      /\ \/ copies' = [copies EXCEPT ![e] = copies[e] + 1]
         \/ disturbed /\ e \in spoiled'
      /\ unfinished' = [unfinished EXCEPT ![sweep[w].cutoff] = NoSweep]
  <2>1. ~disturbed => unfinished[sweep[w].cutoff] = IF sweep[w].half THEN w ELSE NoSweep
    BY <1>2, OwnLine
  <2>2. ~disturbed => spoiled = {}
    BY DEF ArchiveInv, LinesWhole
  <2> QED BY <1>1, <2>1, <2>2 DEF EndLine
<1>5. /\ copies \in [Event -> Nat] /\ sweep \in [Sweep -> SweepRow]
      /\ unfinished \in [Day -> Sweep \cup {NoSweep, Mixed}]
  BY DEF ArchiveInv, AuditTypeInv, AuditTypeOK, SweepRow
<1>6. Archived(e)'
  <2>1. copies[e] \in Nat
    BY <1>5
  <2> QED BY <1>2, <1>4, <1>5, <2>1 DEF Archived
<1>7. WrittenOrToDo'
  <2>1. \A f \in Before(w) : f \in sweep[w].todo \/ Archived(f)
    BY <1>2 DEF ArchiveInv, WrittenOrToDo
  <2>2. \A f \in Before(w) : f \in sweep'[w].todo \/ Archived(f)'
    BY <1>2, <1>3, <1>6, <2>1 DEF Before, Stored
  <2>3. sweep'[w].pc = "delete" => sweep'[w].todo = {}
    BY <1>2
  <2>4. ASSUME NEW v \in Sweep, v # w, NEW f \in Before(v)
        PROVE  /\ sweep[v].pc = "write" => f \in sweep[v].todo \/ Archived(f)'
               /\ sweep[v].pc = "delete" => Archived(f)'
    <3>1. f \in Event
      BY <2>4 DEF Before, Stored
    <3> QED BY <1>3, <2>4, <3>1 DEF ArchiveInv, WrittenOrToDo
  <2> QED BY <1>2, <1>3, <2>2, <2>3, <2>4 DEF WrittenOrToDo
<1>8. OneSweep'
  <2>1. \A v \in Sweep : Under(v)' => Under(v)
    BY <1>2 DEF Under
  <2> QED BY <1>2, <2>1 DEF ArchiveInv, OneSweep
<1>9. LinesWhole'
  <2>1. SUFFICES ASSUME ~disturbed
                 PROVE  /\ spoiled' = {}
                        /\ \A d \in Day : unfinished'[d] = NoSweep
                        /\ \A v \in Sweep : ~sweep'[v].half
    BY <1>2 DEF LinesWhole
  <2>2. \A d \in Day : unfinished[d] = w => d = sweep[w].cutoff
    BY DEF ArchiveInv, AuditTypeInv, LinesOfTheirDay
  <2> QED BY <1>2, <1>4, <1>5, <2>1, <2>2, OwnLine
<1>10. OnceWritten'
  <2>1. SUFFICES ASSUME ~disturbed
                 PROVE  /\ \A v \in Sweep : sweep'[v].todo \subseteq Before(v)
                        /\ \A f \in Event : copies'[f] <= 1
                        /\ \A f \in Event : copies'[f] = 1 =>
                             \/ event[f].pc = "deleted"
                             \/ \E v \in Sweep : /\ sweep'[v].pc \in {"write", "delete"}
                                                 /\ f \in Before(v) \ sweep'[v].todo
    BY <1>2, <1>3 DEF OnceWritten
  <2>2. /\ sweep[w].todo \subseteq Before(w) /\ \A v \in Sweep : v # w => ~Under(v)
        /\ \A v \in Sweep : v # w => sweep[v].todo = {}
        /\ \A f \in Event : copies[f] <= 1 /\ copies[f] \in Nat
        /\ \A f \in Event : copies[f] = 1 =>
             \/ event[f].pc = "deleted"
             \/ \E v \in Sweep : sweep[v].pc \in {"write", "delete"} /\ f \in Before(v) \ sweep[v].todo
    BY <1>2, <1>5, <2>1, OwnLine DEF ArchiveInv, OnceWritten
  <2>3. \A f \in Event : copies[f] = 1 => event[f].pc = "deleted" \/ f \in Before(w) \ sweep[w].todo
    BY <2>2 DEF Under
  <2>4. copies[e] = 0 /\ e \in Before(w)
    <3>1. event[e].pc = "stored"
      BY <1>1, <2>2 DEF Before, Stored
    <3> QED BY <1>1, <2>2, <2>3, <3>1
  <2>5. /\ copies'[e] = 1 /\ \A f \in Event : f # e => copies'[f] = copies[f]
        /\ e \notin sweep'[w].todo /\ sweep'[w].pc \in {"write", "delete"}
        /\ sweep'[w].todo \subseteq sweep[w].todo
    BY <1>2, <1>4, <1>5, <2>1, <2>4
  <2> QED BY <1>2, <2>2, <2>3, <2>4, <2>5
<1>11. DeletedIsArchived' /\ AuditTypeInv'
  BY <1>2, <1>3, AuditSweepTypes DEF ArchiveInv, DeletedIsArchived, Archived
<1> QED BY <1>7, <1>8, <1>9, <1>10, <1>11 DEF ArchiveInv

LEMMA ArchiveWriteHalf ==
    ASSUME ArchiveInv, NEW w \in Sweep, WriteHalf(w)
    PROVE  ArchiveInv'
<1>1. /\ sweep[w].pc = "write" /\ Under(w) /\ ~sweep[w].half /\ sweep[w].cutoff \in Day
      /\ sweep' = [sweep EXCEPT ![w].half = TRUE]
      /\ unfinished' = [unfinished EXCEPT ![sweep[w].cutoff] =
                            IF unfinished[sweep[w].cutoff] = NoSweep THEN w ELSE Mixed]
      /\ UNCHANGED <<today, event, copies, reader, spoiled, disturbed>>
  BY DEF WriteHalf, history, Under, ArchiveInv, AuditTypeInv, AuditTypeOK
<1>2. sweep \in [Sweep -> SweepRow] /\ unfinished \in [Day -> Sweep \cup {NoSweep, Mixed}]
  BY DEF ArchiveInv, AuditTypeInv, AuditTypeOK, SweepRow
<1>3. /\ sweep'[w].half /\ \A v \in Sweep : v # w => sweep'[v].half = sweep[v].half
      /\ \A v \in Sweep : /\ sweep'[v].pc = sweep[v].pc /\ sweep'[v].todo = sweep[v].todo
                          /\ sweep'[v].cutoff = sweep[v].cutoff
  BY <1>1, <1>2 DEF SweepRow
<1>4. \A v \in Sweep : Before(v)' = Before(v)
  BY <1>1, <1>3 DEF Before, Stored
<1>5. WrittenOrToDo' /\ OneSweep' /\ OnceWritten' /\ DeletedIsArchived'
  BY <1>1, <1>3, <1>4 DEF ArchiveInv, WrittenOrToDo, OneSweep, OnceWritten, DeletedIsArchived,
                          Archived, Under
<1>6. LinesWhole'
  <2>1. ~disturbed => /\ spoiled = {} /\ unfinished[sweep[w].cutoff] = NoSweep
                      /\ \A d \in Day : unfinished[d] \in {NoSweep, w}
                      /\ \A v \in Sweep : v # w => ~sweep[v].half
    BY <1>1, OwnLine DEF ArchiveInv, LinesWhole
  <2>2. \A d \in Day : unfinished[d] = w => d = sweep[w].cutoff
    BY DEF ArchiveInv, AuditTypeInv, LinesOfTheirDay
  <2> QED BY <1>1, <1>2, <1>3, <2>1, <2>2 DEF LinesWhole
<1> QED BY <1>5, <1>6, AuditSweepTypes DEF ArchiveInv

LEMMA ArchiveDelete ==
    ASSUME ArchiveInv, NEW w \in Sweep, Delete(w)
    PROVE  ArchiveInv'
<1>1. /\ sweep[w].pc = "delete" /\ Under(w) /\ sweep'[w].pc = "done"
      /\ sweep'[w].half = sweep[w].half /\ sweep'[w].todo = sweep[w].todo
      /\ sweep[w].todo = {} /\ ~sweep[w].half
      /\ sweep'[w].cutoff = sweep[w].cutoff
      /\ \A v \in Sweep : v # w => sweep'[v] = sweep[v]
      /\ \A e \in Event : event'[e] = IF e \in Before(w) THEN [event[e] EXCEPT !.pc = "deleted"]
                                                        ELSE event[e]
      /\ event \in [Event -> EventRow]
      /\ UNCHANGED <<today, copies, unfinished, reader, spoiled, disturbed>>
  BY DEF Delete, history, Under, ArchiveInv, AuditTypeInv, AuditTypeOK, EventRow
<1>2. \A v \in Sweep : Before(v)' \subseteq Before(v)
  BY <1>1, SweepFrame DEF ArchiveInv
<1>3. /\ \A e \in Event : event'[e].pc = "deleted" => event[e].pc = "deleted" \/ e \in Before(w)
      /\ \A e \in Event : event[e].pc = "deleted" \/ e \in Before(w) => event'[e].pc = "deleted"
      /\ \A e \in Event : e \notin Before(w) => event'[e] = event[e]
  BY <1>1 DEF EventRow
<1>4. WrittenOrToDo'
  BY <1>1, <1>2 DEF ArchiveInv, WrittenOrToDo, Archived
<1>5. OneSweep' /\ LinesWhole'
  <2>1. \A v \in Sweep : /\ Under(v)' => Under(v)
                         /\ sweep'[v].half = sweep[v].half /\ sweep'[v].cutoff = sweep[v].cutoff
    BY <1>1 DEF Under
  <2> QED BY <1>1, <2>1 DEF ArchiveInv, OneSweep, LinesWhole
<1>6. OnceWritten'
  <2>1. SUFFICES ASSUME ~disturbed
                 PROVE  /\ \A v \in Sweep : sweep'[v].todo = {}
                        /\ \A e \in Event : copies[e] <= 1
                        /\ \A e \in Event : copies[e] = 1 => event'[e].pc = "deleted"
    BY <1>1 DEF OnceWritten
  <2>2. \A v \in Sweep : v # w => sweep[v].todo = {} /\ ~Under(v)
    BY <1>1, <2>1, OwnLine
  <2>3. \A e \in Event : copies[e] = 1 => event[e].pc = "deleted" \/ e \in Before(w)
    BY <2>1, <2>2 DEF ArchiveInv, OnceWritten, Under
  <2> QED BY <1>1, <1>3, <2>1, <2>2, <2>3 DEF ArchiveInv, OnceWritten
<1>7. DeletedIsArchived'
  <2>1. \A e \in Before(w) : Archived(e)
    BY <1>1 DEF ArchiveInv, WrittenOrToDo
  <2> QED BY <1>1, <1>3, <2>1 DEF ArchiveInv, DeletedIsArchived, Archived
<1> QED BY <1>4, <1>5, <1>6, <1>7, AuditSweepTypes DEF ArchiveInv

LEMMA ArchiveFail ==
    ASSUME ArchiveInv, NEW w \in Sweep, FailSweep(w)
    PROVE  ArchiveInv'
<1>1. /\ sweep'[w].pc = "failed" /\ disturbed' = TRUE /\ sweep[w].pc # "idle"
      /\ \A v \in Sweep : v # w => sweep'[v] = sweep[v]
      /\ UNCHANGED <<today, event, copies, unfinished, reader, spoiled>>
  BY DEF FailSweep, Under, log, ArchiveInv, AuditTypeInv, AuditTypeOK
<1>2. /\ \A v \in Sweep : Before(v)' = Before(v)
      /\ \A e \in Event : Archived(e) => Archived(e)'
  BY <1>1, SweepFrame DEF ArchiveInv
<1>3. \A v \in Sweep : Before(v) \subseteq Event
  BY DEF Before, Stored
<1>4. WrittenOrToDo'
  BY <1>1, <1>2, <1>3 DEF ArchiveInv, WrittenOrToDo
<1>5. OneSweep' /\ LinesWhole' /\ OnceWritten'
  BY <1>1 DEF OneSweep, LinesWhole, OnceWritten
<1>6. DeletedIsArchived'
  BY <1>1, <1>2 DEF ArchiveInv, DeletedIsArchived, Archived
<1> QED BY <1>4, <1>5, <1>6, AuditSweepTypes DEF ArchiveInv

LEMMA ArchiveStep == ArchiveInv /\ [AuditNext]_auditVars => ArchiveInv'
<1> SUFFICES ASSUME ArchiveInv, [AuditNext]_auditVars PROVE ArchiveInv'
  OBVIOUS
<1>1. AuditTypeInv'
  BY AuditTypeStep DEF ArchiveInv
<1>2. CASE BeginReading \/ ReadPage \/ NextDay \/ UNCHANGED auditVars
  BY <1>1, <1>2, ArchiveFrame DEF BeginReading, ReadPage, NextDay, auditVars, log, history
<1>3. ASSUME NEW e \in Event, Open(e) \/ Store(e) \/ Lose(e) PROVE ArchiveInv'
  BY <1>3, ArchiveEventStep
<1>4. ASSUME NEW w \in Sweep,
             BeginSweep(w) \/ Select(w) \/ WriteLine(w) \/ WriteHalf(w) \/ Delete(w) \/ FailSweep(w)
      PROVE  ArchiveInv'
  BY <1>4, ArchiveBegin, ArchiveSelect, ArchiveWriteLine, ArchiveWriteHalf, ArchiveDelete, ArchiveFail
<1> QED BY <1>2, <1>3, <1>4 DEF AuditNext

\* An event that is gone is in an archive, on a line that only an overlap or
\* a failure can have spoiled: DELETE selects anew, but nothing that was
\* recorded meanwhile is old enough.
THEOREM DeletedEventsAreArchived == AuditSpec => []DeletedIsArchived
<1>1. ArchiveInv => DeletedIsArchived
  BY DEF ArchiveInv
<1> QED BY <1>1, ArchiveInit, ArchiveStep, PTL DEF AuditSpec

\* A line is written twice only after an overlap or a failure.
THEOREM EventsAreArchivedOnce == AuditSpec => []ArchivedOnce
<1>1. ArchiveInv => ArchivedOnce
  <2>1. ASSUME ArchiveInv, NEW e \in Event, copies[e] > 1 PROVE disturbed
    <3>1. copies[e] \in Nat
      BY <2>1 DEF ArchiveInv, AuditTypeInv, AuditTypeOK
    <3> QED BY <2>1, <3>1 DEF ArchiveInv, OnceWritten
  <2> QED BY <2>1 DEF ArchivedOnce
<1> QED BY <1>1, ArchiveInit, ArchiveStep, PTL DEF AuditSpec

-----------------------------------------------------------------------------
(* The audit log: a reader of all pages misses nothing.                    *)

\* The events listed before e; Offset counts them.
Newer(e) == {f \in Stored : Precedes(f, e)}

LEMMA OffsetType ==
    ASSUME AuditTypeOK, NEW e
    PROVE  IsFiniteSet(Newer(e)) /\ Offset(e) = Cardinality(Newer(e)) /\ Offset(e) \in Nat
<1>1. Newer(e) \subseteq Event
  BY DEF Newer, Stored
<1>2. IsFiniteSet(Newer(e))
  BY <1>1, FS_Subset, AuditLogAssumption
<1> QED BY <1>2, FS_CardinalityType DEF Newer, Offset

\* Stored events are listed in a total order.
LEMMA PrecedesTotal ==
    ASSUME AuditTypeOK, NEW e \in Stored, NEW f \in Stored, NEW g \in Stored
    PROVE  /\ ~Precedes(e, e)
           /\ e # f => Precedes(e, f) \/ Precedes(f, e)
           /\ Precedes(e, f) /\ Precedes(f, g) => Precedes(e, g)
<1>1. /\ e \in Nat /\ f \in Nat /\ g \in Nat
      /\ event[e].at \in Nat /\ event[f].at \in Nat /\ event[g].at \in Nat
  BY AuditLogAssumption DEF AuditTypeOK, Stored
<1> QED BY <1>1 DEF Precedes

LEMMA OffsetStrict ==
    ASSUME AuditTypeOK, NEW e \in Stored, NEW f \in Stored, Precedes(e, f)
    PROVE  Offset(e) < Offset(f)
<1>1. Newer(e) \subseteq Newer(f) /\ e \in Newer(f) /\ e \notin Newer(e)
  BY PrecedesTotal DEF Newer
<1>2. Cardinality(Newer(e)) <= Cardinality(Newer(f)) /\ Cardinality(Newer(e)) # Cardinality(Newer(f))
  BY <1>1, FS_Subset, OffsetType
<1> QED BY <1>2, OffsetType

\* The offsets up to that of a stored event are all taken.
LEMMA OffsetsHaveNoGap ==
    ASSUME AuditTypeOK, NEW e \in Stored, NEW k \in 0 .. Offset(e)
    PROVE  \E f \in Stored : Offset(f) = k
<1> DEFINE S == Newer(e) \cup {e}
           at == [f \in S |-> Offset(f)]
<1>1. /\ S \subseteq Stored /\ IsFiniteSet(S) /\ e \notin Newer(e)
      /\ Cardinality(S) = Offset(e) + 1
  <2>1. e \notin Newer(e) /\ S \subseteq Stored
    BY PrecedesTotal DEF Newer
  <2> QED BY <2>1, OffsetType, FS_AddElement
<1>2. /\ IsFiniteSet(0 .. Offset(e)) /\ Cardinality(0 .. Offset(e)) = Offset(e) + 1
  <2>1. Offset(e) \in Nat
    BY OffsetType
  <2> QED BY <2>1, FS_Interval
<1>3. at \in Injection(S, 0 .. Offset(e))
  <2>1. \A f \in S : Offset(f) \in 0 .. Offset(e)
    <3>1. \A f \in Newer(e) : Offset(f) < Offset(e)
      BY OffsetStrict DEF Newer
    <3> QED BY <3>1, OffsetType
  <2>2. \A f, g \in S : f # g => Offset(f) # Offset(g)
    <3>1. ASSUME NEW f \in S, NEW g \in S, Precedes(f, g) PROVE Offset(f) # Offset(g)
      BY <1>1, <3>1, OffsetStrict, OffsetType
    <3> QED BY <1>1, <3>1, PrecedesTotal
  <2> QED BY <2>1, <2>2 DEF Injection, IsInjective
<1>4. at \in Surjection(S, 0 .. Offset(e))
  BY <1>1, <1>2, <1>3, FS_Injection
<1>5. \E f \in S : at[f] = k
  BY <1>4 DEF Surjection
<1> QED BY <1>1, <1>5

\* A page is not empty while there is an event at its offset or behind.
LEMMA PageNotEmpty ==
    ASSUME AuditTypeOK, NEW n \in Nat \ {0}, NEW e \in Stored, Offset(e) >= (n - 1) * PageSize
    PROVE  Page(n) # {}
<1>1. /\ (n - 1) * PageSize \in Nat /\ (n - 1) * PageSize < n * PageSize /\ Offset(e) \in Nat
  BY AuditLogAssumption, OffsetType
<1>2. PICK f \in Stored : Offset(f) = (n - 1) * PageSize
  BY <1>1, OffsetsHaveNoGap
<1> QED BY <1>1, <1>2 DEF Page

\* Events that are due, and still there, are ahead of the reader.
AheadOfReader ==
    /\ reader.pc = "idle" => reader.page = 1 /\ reader.due = {}
    /\ \A e \in reader.due : event[e].pc = "stored" =>
         reader.pc # "over" /\ Offset(e) >= (reader.page - 1) * PageSize

ReaderInv == AuditTypeInv /\ AheadOfReader

LEMMA ReaderBegins ==
    ASSUME ReaderInv, BeginReading
    PROVE  AheadOfReader'
<1>1. /\ reader'.pc = "reading" /\ reader'.page = 1 /\ reader'.due \subseteq Event
      /\ UNCHANGED event
  BY DEF ReaderInv, AuditTypeInv, AuditTypeOK, AheadOfReader, BeginReading, log, Stored
<1>2. \A e \in Event : Offset(e)' >= (reader'.page - 1) * PageSize
  <2>1. \A e \in Event : Offset(e)' = Offset(e)
    BY <1>1 DEF Offset, Stored, Precedes
  <2> QED BY <1>1, <2>1, OffsetType, AuditLogAssumption DEF ReaderInv, AuditTypeInv
<1> QED BY <1>1, <1>2 DEF AheadOfReader

LEMMA ReaderReads ==
    ASSUME ReaderInv, ReadPage
    PROVE  AheadOfReader'
<1>1. /\ reader.pc = "reading" /\ reader.page \in Nat \ {0} /\ reader.due \subseteq Event
      /\ UNCHANGED event /\ AuditTypeOK
      /\ \A e \in reader.due : event[e].pc = "stored" => Offset(e) >= (reader.page - 1) * PageSize
  BY DEF ReaderInv, AuditTypeInv, AuditTypeOK, DueWasStored, AheadOfReader, ReadPage, log
<1>2. /\ reader' = IF Page(reader.page) = {} THEN [reader EXCEPT !.pc = "over", !.page = 1]
                   ELSE [reader EXCEPT !.page = @ + 1, !.due = @ \ Page(reader.page)]
      /\ reader = [pc |-> reader.pc, page |-> reader.page, due |-> reader.due]
  BY <1>1 DEF ReadPage, AuditTypeOK
<1>3. \A e \in Event : Offset(e)' = Offset(e)
  BY <1>1 DEF Offset, Stored, Precedes
<1>4. \A e \in reader.due : event[e].pc = "stored" => e \in Stored
  BY <1>1 DEF Stored
<1>5. CASE Page(reader.page) = {}
  <2>1. \A e \in reader.due : event[e].pc # "stored"
    BY <1>1, <1>4, <1>5, PageNotEmpty
  <2>2. reader'.pc = "over" /\ reader'.due = reader.due
    BY <1>2, <1>5
  <2> QED BY <1>1, <2>1, <2>2 DEF AheadOfReader
<1>6. CASE Page(reader.page) # {}
  <2>1. /\ reader'.pc = "reading" /\ reader'.page = reader.page + 1
        /\ reader'.due = reader.due \ Page(reader.page)
    BY <1>1, <1>2, <1>6
  <2>2. ASSUME NEW e \in reader'.due, event[e].pc = "stored"
        PROVE  Offset(e) >= (reader'.page - 1) * PageSize
    <3>1. e \in Stored /\ Offset(e) >= (reader.page - 1) * PageSize /\ e \notin Page(reader.page)
      BY <1>1, <1>4, <2>1, <2>2
    <3>2. ~(Offset(e) < reader.page * PageSize)
      BY <3>1 DEF Page
    <3>3. /\ Offset(e) \in Nat /\ reader.page * PageSize \in Nat
          /\ reader.page * PageSize = (reader'.page - 1) * PageSize
      BY <1>1, <2>1, OffsetType, AuditLogAssumption
    <3> QED BY <3>2, <3>3
  <2> QED BY <1>1, <1>3, <2>1, <2>2 DEF AheadOfReader
<1> QED BY <1>5, <1>6

\* Whatever else happens: the events listed before one that stays are not
\* fewer, since what is deleted is older than what stays.
LEMMA OffsetGrows ==
    ASSUME AuditTypeInv, AuditTypeInv', NEW e \in Event, event[e].pc = "stored", event'[e].pc = "stored",
           \/ \E f \in Event : Open(f) \/ Store(f) \/ Lose(f)
           \/ \E w \in Sweep : Delete(w)
    PROVE  Offset(e)' >= Offset(e)
<1>1. event \in [Event -> EventRow] /\ sweep \in [Sweep -> SweepRow]
  BY DEF AuditTypeInv, AuditTypeOK, EventRow, SweepRow
<1>2. Newer(e) \subseteq Newer(e)'
  <2>1. ASSUME NEW f \in Event, Open(f) \/ Store(f) \/ Lose(f)
        PROVE  Newer(e) \subseteq Newer(e)'
    <3>1. /\ event[f].pc \in {"none", "open"}
          /\ \A g \in Event : g # f => event'[g] = event[g]
      BY <2>1, AuditEventStep
    <3>2. \A g \in Stored : event'[g] = event[g] /\ g \in Event
      BY <3>1 DEF Stored
    <3> QED BY <3>2 DEF Newer, Stored, Precedes
  <2>2. ASSUME NEW w \in Sweep, Delete(w)
        PROVE  Newer(e) \subseteq Newer(e)'
    <3>1. \A g \in Event : event'[g] = IF g \in Before(w) THEN [event[g] EXCEPT !.pc = "deleted"]
                                                            ELSE event[g]
      BY <2>2 DEF Delete
    <3>2. e \notin Before(w)
      BY <1>1, <3>1 DEF EventRow
    <3>3. ASSUME NEW g \in Newer(e) PROVE g \notin Before(w)
      <4>1. /\ event[e].at \in Int /\ event[g].at \in Int /\ sweep[w].cutoff \in Int
            /\ event[g].at >= event[e].at
        BY <1>1, <3>3, AuditLogAssumption DEF EventRow, SweepRow, Day, Newer, Stored, Precedes
      <4> QED BY <3>2, <4>1 DEF Before, Stored
    <3>4. \A g \in Newer(e) : event'[g] = event[g] /\ g \in Event
      BY <3>1, <3>3 DEF Newer, Stored
    <3> QED BY <3>1, <3>2, <3>4 DEF Newer, Stored, Precedes
  <2> QED BY <2>1, <2>2
<1>3. /\ Offset(e) = Cardinality(Newer(e)) /\ Offset(e) \in Nat
      /\ Offset(e)' = Cardinality(Newer(e)') /\ Offset(e)' \in Nat /\ IsFiniteSet(Newer(e)')
  <2>1. Newer(e)' \subseteq Event
    BY DEF Newer, Stored
  <2>2. IsFiniteSet(Newer(e)')
    BY <2>1, FS_Subset, AuditLogAssumption
  <2>3. Offset(e)' = Cardinality(Newer(e)')
    BY DEF Newer, Offset
  <2> QED BY <2>2, <2>3, OffsetType, FS_CardinalityType DEF AuditTypeInv
<1> QED BY <1>2, <1>3, FS_Subset

LEMMA ReaderStep == ReaderInv /\ [AuditNext]_auditVars => ReaderInv'
<1> SUFFICES ASSUME ReaderInv, [AuditNext]_auditVars PROVE ReaderInv'
  OBVIOUS
<1>1. AuditTypeInv /\ AuditTypeInv'
  BY AuditTypeStep DEF ReaderInv
<1>2. CASE BeginReading \/ ReadPage
  BY <1>1, <1>2, ReaderBegins, ReaderReads DEF ReaderInv
<1>3. CASE UNCHANGED <<event, reader>>
  <2>1. \A e \in Event : Offset(e)' = Offset(e)
    BY <1>3 DEF Offset, Stored, Precedes
  <2>2. reader.due \subseteq Event
    BY <1>1 DEF AuditTypeInv, AuditTypeOK
  <2> QED BY <1>1, <1>3, <2>1, <2>2 DEF ReaderInv, AheadOfReader
<1>4. CASE \/ \E f \in Event : Open(f) \/ Store(f) \/ Lose(f)
           \/ \E w \in Sweep : Delete(w)
  <2>1. reader' = reader /\ reader.due \subseteq Event
    BY <1>1, <1>4 DEF AuditTypeInv, AuditTypeOK, Open, Store, Lose, Delete, history
  <2>2. \A e \in reader.due : event'[e].pc = "stored" => event[e].pc = "stored"
    <3>1. ASSUME NEW f \in Event, Open(f) \/ Store(f) \/ Lose(f), NEW e \in reader.due
          PROVE  event'[e] = event[e]
      BY <1>1, <2>1, <3>1, AuditEventStep DEF AuditTypeInv, DueWasStored
    <3>2. \A e \in reader.due : event[e].pc \in {"stored", "deleted"}
      BY <1>1 DEF AuditTypeInv, DueWasStored
    <3>3. ASSUME NEW w \in Sweep, Delete(w), NEW e \in reader.due
          PROVE  event'[e].pc = "stored" => event[e].pc = "stored"
      BY <2>1, <3>3 DEF Delete, Before, Stored
    <3> QED BY <1>4, <3>1, <3>3
  <2>3. ASSUME NEW e \in reader.due, event'[e].pc = "stored"
        PROVE  Offset(e)' >= (reader.page - 1) * PageSize /\ reader.pc # "over"
    <3>1. /\ Offset(e) >= (reader.page - 1) * PageSize /\ reader.pc # "over"
          /\ Offset(e)' >= Offset(e)
      BY <1>1, <1>4, <2>1, <2>2, <2>3, OffsetGrows DEF ReaderInv, AheadOfReader
    <3>2. /\ Offset(e) \in Nat /\ Offset(e)' \in Nat /\ (reader.page - 1) * PageSize \in Int
      <4>1. IsFiniteSet(Newer(e)') /\ Offset(e)' = Cardinality(Newer(e)')
        <5>1. Newer(e)' \subseteq Event
          BY DEF Newer, Stored
        <5> QED BY <5>1, FS_Subset, AuditLogAssumption DEF Newer, Offset
      <4>2. reader.page \in Nat
        BY <1>1 DEF AuditTypeInv, AuditTypeOK
      <4> QED BY <1>1, <4>1, <4>2, OffsetType, FS_CardinalityType, AuditLogAssumption DEF AuditTypeInv
    <3> QED BY <3>1, <3>2
  <2>4. reader.pc = "idle" => reader.page = 1 /\ reader.due = {}
    BY DEF ReaderInv, AheadOfReader
  <2> QED BY <1>1, <2>1, <2>3, <2>4 DEF ReaderInv, AheadOfReader
<1>5. ASSUME NEW w \in Sweep, BeginSweep(w) \/ Select(w) \/ WriteLine(w) \/ WriteHalf(w) \/ FailSweep(w)
      PROVE  UNCHANGED <<event, reader>>
  BY <1>5 DEF BeginSweep, Select, WriteLine, WriteHalf, FailSweep, log, history
<1> QED BY <1>2, <1>3, <1>4, <1>5 DEF AuditNext, NextDay, log, auditVars

\* Who reads page after page has read, at the first empty page, every event
\* that was there from the beginning to the end: recording shifts the offsets
\* up, so that events are seen twice, and deletion takes the oldest first.
THEOREM ReadersMissNothing == AuditSpec => []PagesMissNothing
<1>1. AuditInit => ReaderInv
  BY AuditTypeInit DEF AuditInit, ReaderInv, AheadOfReader
<1>2. ReaderInv => PagesMissNothing
  BY DEF ReaderInv, AheadOfReader, PagesMissNothing
<1> QED BY <1>1, <1>2, ReaderStep, PTL DEF AuditSpec

-----------------------------------------------------------------------------
(* Backups: the inductive invariant.                                       *)

Begun(w) == run[w].pc \notin {"idle", "failed"}

Unpublished == {"dump", "list", "publish"}

Published == {"digest", "checksum", "fill", "metadata", "scan", "expire", "sidecars", "done"}

RunRow == [pc : Pc, at : Second, digest : Dump \cup {None}, targets : SUBSET Second, old : Second]

\* Runs that are under way began in seconds that are used; those of one
\* second share it, and in a second nobody began in there is no file.
SecondsAreUsed ==
    /\ used \subseteq 0 .. now
    /\ \A w \in Run : Begun(w) => At(w) \in used
    /\ \A v, w \in Run : v # w /\ Begun(v) /\ Begun(w) /\ At(v) = At(w) => At(w) \in shared
    /\ \A s \in Second \ used : tmp[s] = None /\ dump[s] = None /\ sha[s] = None

\* A dump is not written before its run began.
DumpsAreTimely ==
    \A s \in Second : /\ tmp[s] # None => tmp[s].at >= s
                      /\ dump[s] # None => dump[s].at >= s

\* A dump under its final name is complete, and its checksum its own.
DumpsAreWhole ==
    \A s \in Second \ shared : dump[s] # None =>
        dump[s].whole /\ sha[s] \in {dump[s], None, Empty}

\* The files of a run that has its second for itself.
OwnFiles(w) ==
    Begun(w) /\ At(w) \notin shared =>
        /\ tmp[At(w)] # None => tmp[At(w)].by = {w}
        /\ run[w].pc \in Unpublished => dump[At(w)] = None /\ sha[At(w)] = None
        /\ run[w].pc \in {"list", "publish"} /\ tmp[At(w)] # None => tmp[At(w)].whole
        /\ run[w].pc \in {"digest", "checksum"} => sha[At(w)] = None
        /\ run[w].pc = "checksum" => dump[At(w)] \in {None, run[w].digest}
        /\ run[w].pc = "fill" /\ dump[At(w)] # None =>
             dump[At(w)] = run[w].digest /\ sha[At(w)] = Empty
        /\ run[w].pc \in Checked /\ dump[At(w)] # None => sha[At(w)] = dump[At(w)]

\* Who removes the checksum of an expired dump has removed the dump, and nobody
\* is there who would publish it again.
SidecarsAreLeft ==
    \A v \in Run : run[v].pc = "sidecars" /\ run[v].old \notin shared =>
        /\ run[v].old \in used
        /\ dump[run[v].old] = None
        /\ \A w \in Run : Begun(w) /\ At(w) = run[v].old => run[w].pc \notin Unpublished

\* Since a run has published its dump there is one that is not older.
NewerIsThere ==
    \A w \in Run : run[w].pc \in Published => \E s \in Second : s >= At(w) /\ dump[s] # None

BackupsInv ==
    /\ BackupsTypeOK
    /\ SecondsAreUsed /\ DumpsAreTimely
    /\ \A w \in Run : OwnFiles(w)
    /\ DumpsAreWhole /\ SidecarsAreLeft
    /\ NewerIsThere

LEMMA BackupsInitInv == BackupsInit => BackupsInv
<1> SUFFICES ASSUME BackupsInit PROVE BackupsInv
  OBVIOUS
<1>1. 0 \in Second
  BY BackupsAssumption DEF Second
<1>2. BackupsTypeOK
  BY <1>1 DEF BackupsInit, BackupsTypeOK, Pc
<1>3. /\ \A w \in Run : run[w].pc = "idle"
      /\ \A s \in Second : tmp[s] = None /\ dump[s] = None /\ sha[s] = None
      /\ used = {}
  BY DEF BackupsInit
<1> QED
  BY <1>2, <1>3 DEF BackupsInv, SecondsAreUsed, DumpsAreTimely, OwnFiles, DumpsAreWhole,
                    SidecarsAreLeft, NewerIsThere, Begun, Published

\* A run's second is its own as long as it is not shared.
LEMMA OwnSecond ==
    ASSUME SecondsAreUsed, NEW v \in Run, NEW w \in Run, v # w, Begun(v), Begun(w), At(v) \notin shared
    PROVE  At(v) # At(w)
BY DEF SecondsAreUsed

\* A step of run w that touches no file but the metadata.
LEMMA QuietRun ==
    ASSUME BackupsInv, NEW w \in Run, NEW row \in RunRow,
           run' = [run EXCEPT ![w] = row], Begun(w), row.at = At(w), row.pc # "idle",
           row.pc \in Unpublished => run[w].pc \in Unpublished,
           row.pc \in {"list", "publish"} => run[w].pc \in {"list", "publish"},
           row.pc # "digest",
           row.pc = "checksum" => run[w].pc = "digest" /\ row.digest = dump[At(w)] /\ row.digest # None,
           row.pc \in Published => run[w].pc \in Published,
           row.pc \notin {"fill", "sidecars"}, row.pc \in Checked => run[w].pc \in Checked,
           UNCHANGED <<now, schema, tmp, dump, sha, used, shared>>, meta' \subseteq Second
    PROVE  BackupsInv'
<1>1. /\ run'[w] = row /\ \A v \in Run : v # w => run'[v] = run[v]
      /\ run' \in [Run -> RunRow] /\ run \in [Run -> RunRow]
  BY DEF BackupsInv, BackupsTypeOK, RunRow
<1>2. BackupsTypeOK'
  BY <1>1 DEF BackupsInv, BackupsTypeOK, RunRow
<1>3. \A v \in Run : /\ Begun(v)' => Begun(v)
                     /\ At(v)' = At(v)
  BY <1>1 DEF Begun, At
<1>4. SecondsAreUsed' /\ DumpsAreTimely' /\ DumpsAreWhole'
  BY <1>3 DEF BackupsInv, SecondsAreUsed, DumpsAreTimely, DumpsAreWhole
<1>5. \A v \in Run : OwnFiles(v)'
  <2>1. ASSUME NEW v \in Run, v # w PROVE OwnFiles(v)'
    BY <1>1, <1>3, <2>1 DEF BackupsInv, OwnFiles, Begun
  <2>2. OwnFiles(w)'
    BY <1>1, <1>3 DEF BackupsInv, OwnFiles, Unpublished
  <2> QED BY <2>1, <2>2
<1>6. NewerIsThere'
  BY <1>1, <1>3 DEF BackupsInv, NewerIsThere
<1>7. SidecarsAreLeft'
  BY <1>1, <1>3 DEF BackupsInv, SidecarsAreLeft, Unpublished
<1> QED BY <1>2, <1>4, <1>5, <1>6, <1>7 DEF BackupsInv

\* A run that ends without having finished leaves its files as they are.
LEMMA FailedRun ==
    ASSUME BackupsInv, NEW w \in Run, Fail(w)
    PROVE  BackupsInv'
<1> DEFINE row == [pc |-> "failed", at |-> 0, digest |-> None, targets |-> {}, old |-> 0]
<1>1. /\ run' = [run EXCEPT ![w] = row]
      /\ UNCHANGED <<now, schema, tmp, dump, sha, meta, used, shared>>
  BY DEF Fail, Aside, files
<1>2. row \in RunRow
  BY BackupsAssumption DEF RunRow, Second, Pc
<1>3. /\ run'[w].pc = "failed" /\ \A v \in Run : v # w => run'[v] = run[v]
      /\ run' \in [Run -> RunRow]
  BY <1>1, <1>2 DEF BackupsInv, BackupsTypeOK, RunRow
<1>4. \A v \in Run : /\ Begun(v)' => Begun(v) /\ v # w
                     /\ v # w => At(v)' = At(v)
  BY <1>3 DEF Begun, At
<1>5. BackupsTypeOK'
  BY <1>1, <1>3 DEF BackupsInv, BackupsTypeOK, RunRow
<1>6. SecondsAreUsed' /\ DumpsAreTimely' /\ DumpsAreWhole'
  BY <1>1, <1>4 DEF BackupsInv, SecondsAreUsed, DumpsAreTimely, DumpsAreWhole
<1>7. \A v \in Run : OwnFiles(v)'
  BY <1>1, <1>3, <1>4 DEF BackupsInv, OwnFiles, Begun
<1>8. NewerIsThere'
  BY <1>1, <1>3, <1>4 DEF BackupsInv, NewerIsThere, Published
<1>9. SidecarsAreLeft'
  BY <1>1, <1>3, <1>4 DEF BackupsInv, SidecarsAreLeft
<1> QED BY <1>5, <1>6, <1>7, <1>8, <1>9 DEF BackupsInv

\* Most steps of a run only move it on.
LEMMA QuietSteps ==
    ASSUME BackupsInv, NEW w \in Run,
           List(w) \/ Digest(w) \/ WriteMetadata(w) \/ Scan(w) \/ Finish(w)
    PROVE  BackupsInv'
<1>1. run \in [Run -> RunRow] /\ run[w] \in RunRow
  BY DEF BackupsInv, BackupsTypeOK, RunRow
<1>2. At(w) \in Second /\ dump[At(w)] \in Dump \cup {None} /\ meta \subseteq Second
  BY <1>1 DEF BackupsInv, BackupsTypeOK, RunRow, At
<1>3. CASE List(w)
  <2> DEFINE row == [run[w] EXCEPT !.pc = "publish"]
  <2>1. run' = [run EXCEPT ![w] = row] /\ run[w].pc = "list"
    BY <1>3 DEF List, Goto
  <2>2. row \in RunRow /\ row.at = At(w) /\ row.pc = "publish"
    BY <1>1 DEF RunRow, Pc, At
  <2> HIDE DEF row
  <2> QED BY <1>2, <1>3, <2>1, <2>2, QuietRun DEF List, Aside, files, Begun, Unpublished, Published, Checked
<1>4. CASE Digest(w)
  <2> DEFINE row == [run[w] EXCEPT !.pc = "checksum", !.digest = dump[At(w)]]
  <2>1. run' = [run EXCEPT ![w] = row] /\ run[w].pc = "digest" /\ dump[At(w)] # None
    BY <1>4 DEF Digest
  <2>2. row \in RunRow /\ row.at = At(w) /\ row.pc = "checksum" /\ row.digest = dump[At(w)]
    BY <1>1, <1>2 DEF RunRow, Pc, At
  <2> HIDE DEF row
  <2> QED BY <1>2, <1>4, <2>1, <2>2, QuietRun DEF Digest, Aside, files, Begun, Unpublished, Published, Checked
<1>5. CASE WriteMetadata(w)
  <2> DEFINE row == [run[w] EXCEPT !.pc = "scan"]
  <2>1. run' = [run EXCEPT ![w] = row] /\ run[w].pc = "metadata"
    BY <1>5 DEF WriteMetadata, Goto
  <2>2. row \in RunRow /\ row.at = At(w) /\ row.pc = "scan"
    BY <1>1 DEF RunRow, Pc, At
  <2>3. meta' \subseteq Second
    BY <1>2, <1>5 DEF WriteMetadata
  <2> HIDE DEF row
  <2> QED BY <1>5, <2>1, <2>2, <2>3, QuietRun DEF WriteMetadata, Aside, Begun, Unpublished, Published, Checked
<1>6. CASE Scan(w)
  <2> DEFINE row == [run[w] EXCEPT !.pc = "expire", !.targets = {s \in Second : dump[s] # None}]
  <2>1. run' = [run EXCEPT ![w] = row] /\ run[w].pc = "scan"
    BY <1>6 DEF Scan
  <2>2. row \in RunRow /\ row.at = At(w) /\ row.pc = "expire"
    BY <1>1 DEF RunRow, Pc, At
  <2> HIDE DEF row
  <2> QED BY <1>2, <1>6, <2>1, <2>2, QuietRun DEF Scan, Aside, files, Begun, Unpublished, Published, Checked
<1>7. CASE Finish(w)
  <2> DEFINE row == [run[w] EXCEPT !.pc = "done"]
  <2>1. run' = [run EXCEPT ![w] = row] /\ run[w].pc = "expire"
    BY <1>7 DEF Finish, Goto
  <2>2. row \in RunRow /\ row.at = At(w) /\ row.pc = "done"
    BY <1>1 DEF RunRow, Pc, At
  <2> HIDE DEF row
  <2> QED BY <1>2, <1>7, <2>1, <2>2, QuietRun DEF Finish, Aside, files, Begun, Unpublished, Published, Checked
<1> QED BY <1>3, <1>4, <1>5, <1>6, <1>7

\* A step of the clock or of the schema.
LEMMA BackupsAside ==
    ASSUME BackupsInv, now' \in Second, now' >= now, schema' \in Nat,
           UNCHANGED <<tmp, dump, sha, meta, run, used, shared>>
    PROVE  BackupsInv'
<1>1. now \in Second /\ used \subseteq 0 .. now
  BY DEF BackupsInv, BackupsTypeOK, SecondsAreUsed
<1>2. used' \subseteq 0 .. now'
  BY <1>1, BackupsAssumption DEF Second
<1>3. BackupsTypeOK'
  BY DEF BackupsInv, BackupsTypeOK
<1>4. SecondsAreUsed'
  BY <1>2 DEF BackupsInv, SecondsAreUsed, Begun, At
<1> QED
  BY <1>3, <1>4 DEF BackupsInv, DumpsAreTimely, OwnFiles, DumpsAreWhole, SidecarsAreLeft,
                    NewerIsThere, Begun, At

\* A step of run w that touches only the files of its second, the metadata
\* aside: what it promises of its own files is promised of all.
LEMMA OwnStep ==
    ASSUME BackupsInv, BackupsTypeOK', NEW w \in Run, NEW row \in RunRow,
           run' = [run EXCEPT ![w] = row], Begun(w), row.at = At(w), row.pc # "idle",
           UNCHANGED <<now, used, shared>>,
           \A s \in Second : s # At(w) => tmp'[s] = tmp[s] /\ dump'[s] = dump[s] /\ sha'[s] = sha[s],
           tmp'[At(w)] # None => tmp'[At(w)].at >= At(w),
           dump'[At(w)] # None => dump'[At(w)].at >= At(w),
           dump'[At(w)] # None /\ At(w) \notin shared =>
               dump'[At(w)].whole /\ sha'[At(w)] \in {dump'[At(w)], None, Empty},
           OwnFiles(w)',
           dump[At(w)] # None => dump'[At(w)] # None,
           row.pc # "sidecars", row.pc \in Unpublished => run[w].pc \in Unpublished,
           dump'[At(w)] # None => dump[At(w)] # None \/ run[w].pc \in Unpublished,
           row.pc \in Published => run[w].pc \in Published \/ dump'[At(w)] # None
    PROVE  BackupsInv'
<1>1. /\ run'[w] = row /\ \A v \in Run : v # w => run'[v] = run[v]
      /\ run \in [Run -> RunRow]
  BY DEF BackupsInv, BackupsTypeOK, RunRow
<1>2. \A v \in Run : /\ Begun(v)' => Begun(v)
                     /\ At(v)' = At(v)
                     /\ At(v) \in Second
  BY <1>1 DEF Begun, At, RunRow
<1>3. At(w) \in used
  BY DEF BackupsInv, SecondsAreUsed
<1>4. SecondsAreUsed'
  BY <1>2, <1>3 DEF BackupsInv, SecondsAreUsed
<1>5. DumpsAreTimely'
  BY DEF BackupsInv, DumpsAreTimely
<1>6. DumpsAreWhole'
  BY DEF BackupsInv, DumpsAreWhole
<1>7. ASSUME NEW v \in Run, v # w PROVE OwnFiles(v)'
  <2> SUFFICES ASSUME Begun(v), At(v) \notin shared PROVE OwnFiles(v)'
    BY <1>1, <1>7, <1>2 DEF OwnFiles
  <2>1. At(v) # At(w)
    BY <1>7, OwnSecond DEF BackupsInv
  <2>2. /\ tmp'[At(v)] = tmp[At(v)] /\ dump'[At(v)] = dump[At(v)] /\ sha'[At(v)] = sha[At(v)]
        /\ At(v)' = At(v) /\ run'[v] = run[v]
    BY <1>1, <1>2, <1>7, <2>1
  <2>3. OwnFiles(v)
    BY DEF BackupsInv
  <2> QED BY <2>2, <2>3 DEF OwnFiles, Begun
<1>8. NewerIsThere'
  <2> SUFFICES ASSUME NEW v \in Run, run'[v].pc \in Published
               PROVE  \E s \in Second : s >= At(v) /\ dump'[s] # None
    BY <1>2 DEF NewerIsThere
  <2>1. \A s \in Second : dump[s] # None => dump'[s] # None
    OBVIOUS
  <2>2. run[v].pc \in Published \/ (v = w /\ dump'[At(w)] # None)
    BY <1>1
  <2>3. CASE run[v].pc \in Published
    BY <2>1, <2>3 DEF BackupsInv, NewerIsThere
  <2>4. CASE v = w /\ dump'[At(w)] # None
    <3>1. At(w) \in Second /\ At(w) >= At(w)
      BY <1>2 DEF Second
    <3> QED BY <2>4, <3>1
  <2> QED BY <2>2, <2>3, <2>4
<1>9. SidecarsAreLeft'
  <2> SUFFICES ASSUME NEW v \in Run, run'[v].pc = "sidecars", run'[v].old \notin shared
               PROVE  /\ run'[v].old \in used
                      /\ dump'[run'[v].old] = None
                      /\ \A u \in Run : Begun(u)' /\ At(u)' = run'[v].old => run'[u].pc \notin Unpublished
    BY DEF SidecarsAreLeft
  <2>1. v # w /\ run'[v] = run[v] /\ run[v].old \in Second
    BY <1>1 DEF RunRow
  <2>2. /\ run[v].old \in used /\ dump[run[v].old] = None
        /\ \A u \in Run : Begun(u) /\ At(u) = run[v].old => run[u].pc \notin Unpublished
    BY <2>1 DEF BackupsInv, SidecarsAreLeft
  <2>3. dump'[run[v].old] = None
    BY <2>1, <2>2
  <2> QED BY <1>1, <1>2, <2>1, <2>2, <2>3
<1> QED BY <1>4, <1>5, <1>6, <1>7, <1>8, <1>9 DEF BackupsInv

LEMMA FinishDumpKeeps ==
    ASSUME BackupsInv, NEW w \in Run, FinishDump(w)
    PROVE  BackupsInv'
<1> DEFINE a   == At(w)
           row == [run[w] EXCEPT !.pc = "list"]
           rec == [tmp[a] EXCEPT !.whole = tmp[a].by = {w}, !.at = now]
<1>1. /\ run[w] \in RunRow /\ run \in [Run -> RunRow] /\ a \in Second /\ run[w].pc = "dump"
      /\ tmp \in [Second -> Dump \cup {None}] /\ now \in Second
  BY DEF BackupsInv, BackupsTypeOK, RunRow, FinishDump, At
<1>2. /\ run' = [run EXCEPT ![w] = row]
      /\ tmp' = IF tmp[a] = None THEN tmp ELSE [tmp EXCEPT ![a] = rec]
      /\ UNCHANGED <<now, schema, used, shared, dump, sha, meta>>
  BY DEF FinishDump, Goto, Aside
<1>3. row \in RunRow /\ row.at = a /\ row.pc = "list"
  BY <1>1 DEF RunRow, Pc, At
<1>4. Begun(w) /\ now >= a
  <2>1. Begun(w)
    BY <1>1 DEF Begun
  <2>2. a \in used /\ used \subseteq 0 .. now
    BY <2>1 DEF BackupsInv, SecondsAreUsed
  <2> QED BY <2>1, <2>2, <1>1 DEF Second
<1>5. tmp[a] # None => /\ rec \in Dump /\ rec.by = tmp[a].by /\ rec.at = now
                       /\ rec.whole = (tmp[a].by = {w})
  BY <1>1 DEF Dump
<1> HIDE DEF row, rec
<1>6. /\ tmp[a] = None => tmp'[a] = None
      /\ tmp[a] # None => tmp'[a] = rec
      /\ \A s \in Second : s # a => tmp'[s] = tmp[s]
      /\ tmp' \in [Second -> Dump \cup {None}]
  BY <1>1, <1>2, <1>5
<1>7. run'[w] = row /\ run' \in [Run -> RunRow] /\ \A v \in Run : v # w => run'[v] = run[v]
  BY <1>1, <1>2, <1>3
<1>8. BackupsTypeOK'
  BY <1>2, <1>3, <1>6, <1>7 DEF BackupsInv, BackupsTypeOK, RunRow
<1>9. OwnFiles(w) /\ DumpsAreTimely /\ DumpsAreWhole
  BY DEF BackupsInv
<1>10. OwnFiles(w)'
  <2> SUFFICES ASSUME a \notin shared
               PROVE  /\ tmp'[a] # None => tmp'[a].by = {w} /\ tmp'[a].whole
                      /\ dump[a] = None /\ sha[a] = None
    BY <1>2, <1>3, <1>7 DEF OwnFiles, At, Begun, Unpublished, Checked
  <2>1. /\ tmp[a] # None => tmp[a].by = {w}
        /\ dump[a] = None /\ sha[a] = None
    BY <1>1, <1>4, <1>9 DEF OwnFiles, Unpublished
  <2> QED BY <2>1, <1>5, <1>6
<1>11. /\ tmp'[a] # None => tmp'[a].at >= a
       /\ dump'[a] # None => dump'[a].at >= a
       /\ dump'[a] # None /\ a \notin shared => dump'[a].whole /\ sha'[a] \in {dump'[a], None, Empty}
  BY <1>1, <1>2, <1>4, <1>5, <1>6, <1>9 DEF DumpsAreTimely, DumpsAreWhole
<1> QED
  BY <1>1, <1>2, <1>3, <1>4, <1>6, <1>8, <1>10, <1>11, OwnStep DEF Published, Unpublished

LEMMA PublishKeeps ==
    ASSUME BackupsInv, NEW w \in Run, Publish(w)
    PROVE  BackupsInv'
<1> DEFINE a   == At(w)
           row == [run[w] EXCEPT !.pc = "digest"]
<1>1. /\ run[w] \in RunRow /\ run \in [Run -> RunRow] /\ a \in Second /\ run[w].pc = "publish"
      /\ tmp \in [Second -> Dump \cup {None}] /\ dump \in [Second -> Dump \cup {None}]
      /\ tmp[a] # None
  BY DEF BackupsInv, BackupsTypeOK, RunRow, Publish, At
<1>2. /\ run' = [run EXCEPT ![w] = row]
      /\ dump' = [dump EXCEPT ![a] = tmp[a]] /\ tmp' = [tmp EXCEPT ![a] = None]
      /\ UNCHANGED <<now, schema, used, shared, sha, meta>>
  BY DEF Publish, Goto, Aside
<1>3. row \in RunRow /\ row.at = a /\ row.pc = "digest"
  BY <1>1 DEF RunRow, Pc, At
<1>4. Begun(w)
  BY <1>1 DEF Begun
<1> HIDE DEF row
<1>5. /\ tmp'[a] = None /\ dump'[a] = tmp[a]
      /\ \A s \in Second : s # a => tmp'[s] = tmp[s] /\ dump'[s] = dump[s]
      /\ tmp' \in [Second -> Dump \cup {None}] /\ dump' \in [Second -> Dump \cup {None}]
  BY <1>1, <1>2
<1>6. run'[w] = row /\ run' \in [Run -> RunRow] /\ \A v \in Run : v # w => run'[v] = run[v]
  BY <1>1, <1>2, <1>3
<1>7. BackupsTypeOK'
  BY <1>2, <1>3, <1>5, <1>6 DEF BackupsInv, BackupsTypeOK, RunRow
<1>8. tmp[a].at >= a
  BY <1>1 DEF BackupsInv, DumpsAreTimely
<1>9. a \notin shared => tmp[a].whole /\ sha[a] = None
  BY <1>1, <1>4 DEF BackupsInv, OwnFiles, Unpublished
<1>10. OwnFiles(w)'
  BY <1>2, <1>3, <1>5, <1>6, <1>9 DEF OwnFiles, At, Begun, Unpublished, Checked
<1> QED
  BY <1>1, <1>2, <1>3, <1>4, <1>5, <1>7, <1>8, <1>9, <1>10, OwnStep DEF Unpublished

LEMMA CreateChecksumKeeps ==
    ASSUME BackupsInv, NEW w \in Run, CreateChecksum(w)
    PROVE  BackupsInv'
<1> DEFINE a   == At(w)
           row == [run[w] EXCEPT !.pc = "fill"]
<1>1. /\ run[w] \in RunRow /\ run \in [Run -> RunRow] /\ a \in Second /\ run[w].pc = "checksum"
      /\ sha \in [Second -> Dump \cup {None, Empty}] /\ run[w].digest \in Dump /\ run[w].digest # None
  BY DEF BackupsInv, BackupsTypeOK, RunRow, CreateChecksum, At
<1>2. /\ run' = [run EXCEPT ![w] = row]
      /\ sha' = [sha EXCEPT ![a] = Empty]
      /\ UNCHANGED <<now, schema, used, shared, tmp, dump, meta>>
  BY DEF CreateChecksum, Goto, Aside
<1>3. row \in RunRow /\ row.at = a /\ row.pc = "fill" /\ row.digest = run[w].digest
  BY <1>1 DEF RunRow, Pc, At
<1>4. Begun(w)
  BY <1>1 DEF Begun
<1> HIDE DEF row
<1>5. /\ sha'[a] = Empty
      /\ \A s \in Second : s # a => sha'[s] = sha[s]
      /\ sha' \in [Second -> Dump \cup {None, Empty}]
  BY <1>1, <1>2
<1>6. run'[w] = row /\ run' \in [Run -> RunRow] /\ \A v \in Run : v # w => run'[v] = run[v]
  BY <1>1, <1>2, <1>3
<1>7. BackupsTypeOK'
  BY <1>1, <1>2, <1>3, <1>5, <1>6 DEF BackupsInv, BackupsTypeOK, RunRow
<1>8. OwnFiles(w) /\ DumpsAreTimely /\ DumpsAreWhole
  BY DEF BackupsInv
<1>9. a \notin shared => dump[a] \in {None, run[w].digest} /\ (tmp[a] # None => tmp[a].by = {w})
  BY <1>1, <1>4, <1>8 DEF OwnFiles
<1>10. OwnFiles(w)'
  BY <1>2, <1>3, <1>5, <1>6, <1>9 DEF OwnFiles, At, Begun, Unpublished, Checked
<1>11. /\ tmp'[a] # None => tmp'[a].at >= a
       /\ dump'[a] # None => dump'[a].at >= a
       /\ dump'[a] # None /\ a \notin shared => dump'[a].whole /\ sha'[a] \in {dump'[a], None, Empty}
  BY <1>1, <1>2, <1>5, <1>8, <1>9 DEF DumpsAreTimely, DumpsAreWhole
<1>12. run[w].pc \in Published
  BY <1>1 DEF Published
<1> QED
  BY <1>2, <1>3, <1>4, <1>5, <1>7, <1>10, <1>11, <1>12, OwnStep DEF Unpublished

LEMMA WriteChecksumKeeps ==
    ASSUME BackupsInv, NEW w \in Run, WriteChecksum(w)
    PROVE  BackupsInv'
<1> DEFINE a   == At(w)
           row == [run[w] EXCEPT !.pc = "metadata", !.digest = None]
<1>1. /\ run[w] \in RunRow /\ run \in [Run -> RunRow] /\ a \in Second /\ run[w].pc = "fill"
      /\ sha \in [Second -> Dump \cup {None, Empty}] /\ run[w].digest \in Dump
  BY DEF BackupsInv, BackupsTypeOK, RunRow, WriteChecksum, At
<1>2. /\ run' = [run EXCEPT ![w] = row]
      /\ sha' = IF sha[a] = None THEN sha ELSE [sha EXCEPT ![a] = run[w].digest]
      /\ UNCHANGED <<now, schema, used, shared, tmp, dump, meta>>
  BY DEF WriteChecksum, Aside
<1>3. row \in RunRow /\ row.at = a /\ row.pc = "metadata"
  BY <1>1 DEF RunRow, Pc, At
<1>4. Begun(w)
  BY <1>1 DEF Begun
<1> HIDE DEF row
<1>5. /\ sha[a] # None => sha'[a] = run[w].digest
      /\ \A s \in Second : s # a => sha'[s] = sha[s]
      /\ sha' \in [Second -> Dump \cup {None, Empty}]
  BY <1>1, <1>2
<1>6. run'[w] = row /\ run' \in [Run -> RunRow] /\ \A v \in Run : v # w => run'[v] = run[v]
  BY <1>1, <1>2, <1>3
<1>7. BackupsTypeOK'
  BY <1>2, <1>3, <1>5, <1>6 DEF BackupsInv, BackupsTypeOK, RunRow
<1>8. OwnFiles(w) /\ DumpsAreTimely /\ DumpsAreWhole
  BY DEF BackupsInv
<1>9. a \notin shared => /\ dump[a] # None => dump[a] = run[w].digest /\ sha[a] = Empty
                         /\ tmp[a] # None => tmp[a].by = {w}
  BY <1>1, <1>4, <1>8 DEF OwnFiles
<1>10. OwnFiles(w)'
  BY <1>2, <1>3, <1>5, <1>6, <1>9, BackupsAssumption DEF OwnFiles, At, Begun, Unpublished, Checked
<1>11. /\ tmp'[a] # None => tmp'[a].at >= a
       /\ dump'[a] # None => dump'[a].at >= a
       /\ dump'[a] # None /\ a \notin shared => dump'[a].whole /\ sha'[a] \in {dump'[a], None, Empty}
  BY <1>1, <1>2, <1>5, <1>8, <1>9, BackupsAssumption DEF DumpsAreTimely, DumpsAreWhole
<1>12. run[w].pc \in Published
  BY <1>1 DEF Published
<1> QED
  BY <1>2, <1>3, <1>4, <1>5, <1>7, <1>10, <1>11, <1>12, OwnStep DEF Unpublished

\* A cleanup removes no dump that is not older than its own, so that the one
\* its run relies on, or a later one, is still there afterwards.
LEMMA ExpireKeeps ==
    ASSUME BackupsInv, NEW w \in Run, Expire(w)
    PROVE  BackupsInv'
<1>1. PICK s \in run[w].targets :
         /\ dump[s] # None
         /\ IF dump[s].at < At(w) - Retention
            THEN /\ dump' = [dump EXCEPT ![s] = None]
                 /\ run' = [run EXCEPT ![w].pc = "sidecars", ![w].old = s, ![w].targets = @ \ {s}]
            ELSE /\ run' = [run EXCEPT ![w].targets = @ \ {s}]
                 /\ UNCHANGED dump
  BY DEF Expire
<1>2. /\ run[w].pc = "expire"
      /\ UNCHANGED <<now, schema, used, shared, tmp, sha, meta>>
  BY DEF Expire, Aside
<1>3. /\ run[w] \in RunRow /\ run \in [Run -> RunRow] /\ s \in Second
      /\ dump \in [Second -> Dump \cup {None}] /\ meta \subseteq Second
  BY DEF BackupsInv, BackupsTypeOK, RunRow
<1>4. Begun(w) /\ run[w].pc \in Published
  BY <1>2 DEF Begun, Published
<1>5. CASE dump[s].at >= At(w) - Retention
  <2> DEFINE row == [run[w] EXCEPT !.targets = @ \ {s}]
  <2>1. dump[s] \in Dump /\ At(w) \in Second
    BY <1>1, <1>3 DEF RunRow, At
  <2>2. ~(dump[s].at < At(w) - Retention)
    BY <1>5, <2>1, BackupsAssumption DEF Dump, Second
  <2>3. run' = [run EXCEPT ![w] = row] /\ dump' = dump
    BY <1>1, <2>2
  <2>4. row \in RunRow /\ row.at = At(w) /\ row.pc = "expire"
    BY <1>2, <1>3 DEF RunRow, At
  <2> HIDE DEF row
  <2> QED BY <1>2, <1>3, <1>4, <2>3, <2>4, QuietRun DEF Unpublished, Checked
<1>6. CASE dump[s].at < At(w) - Retention
  <2> DEFINE row == [run[w] EXCEPT !.pc = "sidecars", !.old = s, !.targets = @ \ {s}]
  <2>1. dump[s] \in Dump /\ At(w) \in Second /\ dump[s].at >= s
    BY <1>1, <1>3 DEF RunRow, At, BackupsInv, DumpsAreTimely
  <2>2. run' = [run EXCEPT ![w] = row] /\ dump' = [dump EXCEPT ![s] = None]
    BY <1>1, <1>6
  <2>3. row \in RunRow /\ row.at = At(w) /\ row.pc = "sidecars" /\ row.old = s
    BY <1>2, <1>3 DEF RunRow, At, Pc
  <2> HIDE DEF row
  <2>4. /\ run'[w] = row /\ run' \in [Run -> RunRow]
        /\ \A v \in Run : v # w => run'[v] = run[v]
    BY <1>3, <2>2, <2>3
  <2>5. /\ dump'[s] = None /\ dump' \in [Second -> Dump \cup {None}]
        /\ \A t \in Second : t # s => dump'[t] = dump[t]
    BY <1>3, <2>2
  <2>6. BackupsTypeOK'
    BY <1>2, <2>3, <2>4, <2>5 DEF BackupsInv, BackupsTypeOK, RunRow
  <2>7. \A v \in Run : /\ Begun(v)' => Begun(v)
                       /\ At(v)' = At(v) /\ At(v) \in Second
    BY <1>3, <1>4, <2>3, <2>4 DEF Begun, At, RunRow
  <2>8. SecondsAreUsed'
    BY <1>2, <2>5, <2>7 DEF BackupsInv, SecondsAreUsed
  <2>9. DumpsAreTimely' /\ DumpsAreWhole'
    BY <1>2, <2>5 DEF BackupsInv, DumpsAreTimely, DumpsAreWhole
  <2>10. ASSUME NEW v \in Run PROVE OwnFiles(v)'
    <3>1. OwnFiles(v) /\ (dump'[At(v)] = dump[At(v)] \/ dump'[At(v)] = None)
      BY <2>5, <2>7 DEF BackupsInv
    <3>2. CASE v = w
      BY <1>2, <2>3, <2>4, <2>7, <3>1, <3>2 DEF OwnFiles, Unpublished, Checked
    <3>3. CASE v # w
      BY <1>2, <2>4, <2>7, <3>1, <3>3 DEF OwnFiles
    <3> QED BY <3>2, <3>3
  <2>11. NewerIsThere'
    <3> SUFFICES ASSUME NEW v \in Run, run'[v].pc \in Published
                 PROVE  \E t \in Second : t >= At(v) /\ dump'[t] # None
      BY <2>7 DEF NewerIsThere
    <3>1. PICK t \in Second : t >= At(w) /\ dump[t] # None
      BY <1>4 DEF BackupsInv, NewerIsThere
    <3>2. t > s
      BY <1>3, <1>6, <2>1, <3>1, BackupsAssumption DEF Dump, Second
    <3>3. dump'[t] # None
      BY <1>3, <2>5, <3>1, <3>2 DEF Second
    <3>4. run[v].pc \in Published
      BY <1>4, <2>4
    <3>5. PICK u \in Second : u >= At(v) /\ dump[u] # None
      BY <3>4 DEF BackupsInv, NewerIsThere
    <3>6. CASE u = s
      <4>1. t >= At(v)
        BY <2>7, <3>2, <3>5, <3>6, BackupsAssumption DEF Second
      <4> QED BY <3>3, <4>1
    <3>7. CASE u # s
      BY <2>5, <3>5, <3>7
    <3> QED BY <3>6, <3>7
  <2>12. SidecarsAreLeft'
    <3> SUFFICES ASSUME NEW v \in Run, run'[v].pc = "sidecars", run'[v].old \notin shared
                 PROVE  /\ run'[v].old \in used
                        /\ dump'[run'[v].old] = None
                        /\ \A u \in Run : Begun(u) /\ At(u) = run'[v].old => run[u].pc \notin Unpublished
      BY <1>2, <2>3, <2>4, <2>7 DEF SidecarsAreLeft, Unpublished
    <3>1. CASE v = w
      <4>1. run'[v].old = s
        BY <2>3, <2>4, <3>1
      <4>2. s \in used
        BY <1>1, <1>3 DEF BackupsInv, SecondsAreUsed
      <4>3. \A u \in Run : Begun(u) /\ At(u) = s => run[u].pc \notin Unpublished
        BY <1>1, <4>1 DEF BackupsInv, OwnFiles
      <4> QED BY <2>5, <4>1, <4>2, <4>3
    <3>2. CASE v # w
      <4>1. run'[v] = run[v] /\ run[v].old \in Second
        BY <1>3, <2>4, <3>2 DEF RunRow
      <4> QED BY <2>5, <4>1 DEF BackupsInv, SidecarsAreLeft
    <3> QED BY <3>1, <3>2
  <2> QED BY <2>6, <2>8, <2>9, <2>10, <2>11, <2>12 DEF BackupsInv
<1>7. dump[s].at \in Int /\ At(w) - Retention \in Int
  BY <1>1, <1>3, BackupsAssumption DEF RunRow, At, Dump, Second
<1> QED BY <1>5, <1>6, <1>7

LEMMA RemoveSidecarsKeeps ==
    ASSUME BackupsInv, NEW w \in Run, RemoveSidecars(w)
    PROVE  BackupsInv'
<1> DEFINE row == [run[w] EXCEPT !.pc = "expire", !.old = 0]
           s   == run[w].old
<1>1. /\ run[w] \in RunRow /\ run \in [Run -> RunRow] /\ s \in Second
      /\ sha \in [Second -> Dump \cup {None, Empty}] /\ meta \subseteq Second
  BY DEF BackupsInv, BackupsTypeOK, RunRow
<1>2. /\ run[w].pc = "sidecars" /\ run' = [run EXCEPT ![w] = row]
      /\ sha' = [sha EXCEPT ![s] = None] /\ meta' = meta \ {s}
      /\ UNCHANGED <<now, schema, used, shared, tmp, dump>>
  BY DEF RemoveSidecars, Aside
<1>3. row \in RunRow /\ row.at = At(w) /\ row.pc = "expire"
  <2>1. 0 \in Second
    BY BackupsAssumption DEF Second
  <2> QED BY <1>1, <2>1 DEF RunRow, At, Pc
<1> HIDE DEF row
<1>4. /\ run'[w] = row /\ run' \in [Run -> RunRow]
      /\ \A v \in Run : v # w => run'[v] = run[v]
  BY <1>1, <1>2, <1>3
<1>5. /\ sha' \in [Second -> Dump \cup {None, Empty}]
      /\ \A t \in Second : sha'[t] = sha[t] \/ sha'[t] = None
  BY <1>1, <1>2
<1>6. BackupsTypeOK'
  BY <1>1, <1>2, <1>3, <1>4, <1>5 DEF BackupsInv, BackupsTypeOK, RunRow
<1>7. \A v \in Run : /\ Begun(v)' => Begun(v)
                     /\ At(v)' = At(v) /\ At(v) \in Second
  BY <1>1, <1>2, <1>3, <1>4 DEF Begun, At, RunRow
<1>8. SecondsAreUsed'
  BY <1>2, <1>5, <1>7 DEF BackupsInv, SecondsAreUsed
<1>9. DumpsAreTimely' /\ DumpsAreWhole'
  BY <1>2, <1>5 DEF BackupsInv, DumpsAreTimely, DumpsAreWhole
<1>10. ASSUME NEW v \in Run PROVE OwnFiles(v)'
  <2>1. /\ OwnFiles(v)
        /\ At(v) \notin shared =>
             sha'[At(v)] = sha[At(v)] \/ (sha'[At(v)] = None /\ dump[At(v)] = None)
    BY <1>1, <1>2, <1>7 DEF BackupsInv, SidecarsAreLeft
  <2>2. CASE v = w
    BY <1>2, <1>3, <1>4, <1>7, <2>1, <2>2 DEF OwnFiles, Unpublished, Checked
  <2>3. CASE v # w
    BY <1>2, <1>4, <1>7, <2>1, <2>3 DEF OwnFiles
  <2> QED BY <2>2, <2>3
<1>11. NewerIsThere'
  BY <1>2, <1>3, <1>4, <1>7 DEF BackupsInv, NewerIsThere, Published
<1>12. SidecarsAreLeft'
  BY <1>2, <1>3, <1>4, <1>7 DEF BackupsInv, SidecarsAreLeft, Unpublished
<1> QED BY <1>6, <1>8, <1>9, <1>10, <1>11, <1>12 DEF BackupsInv

\* A run that begins in a second of others shares it; else no file of that
\* second is there yet.
LEMMA BeginKeeps ==
    ASSUME BackupsInv, NEW w \in Run, Begin(w)
    PROVE  BackupsInv'
<1> DEFINE row     == [run[w] EXCEPT !.pc = "dump", !.at = now]
           writers == {w} \cup {v \in Run : tmp[now] # None /\ run[v].pc = "dump" /\ At(v) = now}
           rec     == [by |-> writers, whole |-> FALSE, at |-> now, schema |-> schema]
<1>1. /\ run[w] \in RunRow /\ run \in [Run -> RunRow] /\ now \in Second /\ schema \in Nat
      /\ tmp \in [Second -> Dump \cup {None}] /\ used \subseteq Second /\ shared \subseteq used
  BY DEF BackupsInv, BackupsTypeOK, RunRow
<1>2. /\ run[w].pc = "idle" /\ run' = [run EXCEPT ![w] = row]
      /\ tmp' = [tmp EXCEPT ![now] = rec]
      /\ used' = used \cup {now} /\ shared' = shared \cup (used \cap {now})
      /\ UNCHANGED <<now, schema, dump, sha, meta>>
  BY DEF Begin
<1>3. row \in RunRow /\ row.at = now /\ row.pc = "dump"
  BY <1>1 DEF RunRow, Pc
<1>4. rec \in Dump /\ rec.at = now /\ rec.by = writers
  BY <1>1 DEF Dump
<1>5. tmp[now] = None => writers = {w}
  OBVIOUS
<1> HIDE DEF row, rec, writers
<1>6. /\ run'[w] = row /\ run' \in [Run -> RunRow]
      /\ \A v \in Run : v # w => run'[v] = run[v]
  BY <1>1, <1>2, <1>3
<1>7. /\ tmp'[now] = rec /\ tmp' \in [Second -> Dump \cup {None}]
      /\ \A t \in Second : t # now => tmp'[t] = tmp[t]
  BY <1>1, <1>2, <1>4
<1>8. BackupsTypeOK'
  BY <1>1, <1>2, <1>3, <1>6, <1>7 DEF BackupsInv, BackupsTypeOK, RunRow
<1>9. /\ \A v \in Run : v # w /\ Begun(v)' => Begun(v) /\ At(v)' = At(v) /\ At(v) \in used
      /\ At(w)' = now
  BY <1>3, <1>6 DEF BackupsInv, SecondsAreUsed, Begun, At
<1>10. SecondsAreUsed'
  <2>1. used' \subseteq 0 .. now'
    <3>1. used \subseteq 0 .. now
      BY DEF BackupsInv, SecondsAreUsed
    <3> QED BY <1>1, <1>2, <3>1, BackupsAssumption DEF Second
  <2>2. \A v \in Run : Begun(v)' => At(v)' \in used'
    BY <1>2, <1>9
  <2>3. ASSUME NEW v \in Run, NEW u \in Run, v # u, Begun(v)', Begun(u)', At(v)' = At(u)'
        PROVE  At(v)' \in shared'
    <3>1. CASE v # w /\ u # w
      BY <1>2, <1>9, <2>3, <3>1 DEF BackupsInv, SecondsAreUsed
    <3>2. CASE v = w \/ u = w
      BY <1>2, <1>9, <2>3, <3>2
    <3> QED BY <3>1, <3>2
  <2>4. \A s \in Second \ used' : tmp'[s] = None /\ dump'[s] = None /\ sha'[s] = None
    BY <1>2, <1>7 DEF BackupsInv, SecondsAreUsed
  <2> QED BY <2>1, <2>2, <2>3, <2>4 DEF SecondsAreUsed
<1>11. DumpsAreTimely'
  <2>1. now >= now
    BY <1>1, BackupsAssumption DEF Second
  <2> QED BY <1>2, <1>4, <1>7, <2>1 DEF BackupsInv, DumpsAreTimely
<1>12. ASSUME NEW v \in Run PROVE OwnFiles(v)'
  <2>1. CASE v # w
    <3> SUFFICES ASSUME Begun(v)', At(v)' \notin shared' PROVE OwnFiles(v)'
      BY DEF OwnFiles
    <3>1. /\ Begun(v) /\ At(v)' = At(v) /\ At(v) \in used /\ At(v) \notin shared /\ At(v) # now
          /\ run'[v] = run[v]
      BY <1>2, <1>6, <1>9, <2>1
    <3>2. tmp'[At(v)] = tmp[At(v)] /\ OwnFiles(v)
      BY <1>1, <1>7, <3>1 DEF BackupsInv
    <3> QED BY <1>2, <3>1, <3>2 DEF OwnFiles
  <2>2. CASE v = w
    <3> SUFFICES ASSUME now \notin shared'
                 PROVE  tmp'[now].by = {w} /\ dump'[now] = None /\ sha'[now] = None
      BY <1>3, <1>6, <1>9, <2>2 DEF OwnFiles, Checked
    <3>1. now \in Second \ used
      BY <1>1, <1>2
    <3>2. tmp[now] = None /\ dump[now] = None /\ sha[now] = None
      BY <3>1 DEF BackupsInv, SecondsAreUsed
    <3> QED BY <1>2, <1>4, <1>5, <1>7, <3>2
  <2> QED BY <2>1, <2>2
<1>13. DumpsAreWhole' /\ NewerIsThere'
  <2>1. DumpsAreWhole'
    BY <1>2 DEF BackupsInv, DumpsAreWhole
  <2>2. \A v \in Run : run'[v].pc \in Published => v # w
    BY <1>3, <1>6 DEF Published
  <2>3. \A v \in Run : v # w => At(v)' = At(v) /\ run'[v].pc = run[v].pc
    BY <1>6 DEF At
  <2>4. NewerIsThere'
    BY <1>2, <2>2, <2>3 DEF BackupsInv, NewerIsThere
  <2> QED BY <2>1, <2>4
<1>14. SidecarsAreLeft'
  <2> SUFFICES ASSUME NEW v \in Run, run'[v].pc = "sidecars", run'[v].old \notin shared'
               PROVE  /\ run'[v].old \in used'
                      /\ dump'[run'[v].old] = None
                      /\ \A u \in Run : Begun(u)' /\ At(u)' = run'[v].old => run'[u].pc \notin Unpublished
    BY DEF SidecarsAreLeft
  <2>1. v # w /\ run'[v] = run[v] /\ run[v].old \notin shared
    BY <1>2, <1>3, <1>6
  <2>2. /\ run[v].old \in used /\ dump[run[v].old] = None
        /\ \A u \in Run : Begun(u) /\ At(u) = run[v].old => run[u].pc \notin Unpublished
    BY <2>1 DEF BackupsInv, SidecarsAreLeft
  <2>3. run[v].old # now
    BY <1>2, <2>1, <2>2
  <2> QED BY <1>2, <1>6, <1>9, <2>1, <2>2, <2>3
<1> QED BY <1>8, <1>10, <1>11, <1>12, <1>13, <1>14 DEF BackupsInv

LEMMA BackupStepKeeps ==
    ASSUME BackupsInv, NEW w \in Run, BackupStep(w) \/ Fail(w) \/ Begin(w)
    PROVE  BackupsInv'
BY QuietSteps, FinishDumpKeeps, PublishKeeps, CreateChecksumKeeps, WriteChecksumKeeps, ExpireKeeps,
   RemoveSidecarsKeeps, BeginKeeps, FailedRun DEF BackupStep

LEMMA WholeFromInv == BackupsInv => PublishedIsWhole
<1> SUFFICES ASSUME BackupsInv, NEW s \in Second \ shared, dump[s] # None
             PROVE  /\ dump[s].whole /\ sha[s] \in {dump[s], None, Empty}
                    /\ \A w \in Run : At(w) = s /\ run[w].pc \in Checked => sha[s] = dump[s]
  BY DEF PublishedIsWhole
<1>1. dump[s].whole /\ sha[s] \in {dump[s], None, Empty}
  BY DEF BackupsInv, DumpsAreWhole
<1>2. ASSUME NEW w \in Run, At(w) = s, run[w].pc \in Checked
      PROVE  sha[s] = dump[s]
  BY <1>2 DEF BackupsInv, OwnFiles, Begun, Checked
<1> QED BY <1>1, <1>2

LEMMA RestorableFromInv == BackupsInv => AlwaysRestorable
BY DEF BackupsInv, NewerIsThere, DumpsAreWhole, AlwaysRestorable, Published

\* What the dump of a run that is under way, or done, holds: the schema as it
\* is, until the dump has expired.
HoldsSchema(d) ==
    /\ run[d].pc \in Unpublished /\ tmp[At(d)] # None => tmp[At(d)].schema = schema
    /\ run[d].pc \in Published => \/ dump[At(d)] # None /\ dump[At(d)].schema = schema
                                  \/ now - At(d) > Retention

\* Another run writes no file of a second that it does not share, and
\* removes a dump only when it has expired.
LEMMA OthersFiles ==
    ASSUME BackupsInv, NEW w \in Run, NEW v \in Run, v # w, Begun(v), shared' = {},
           BackupStep(w) \/ Fail(w) \/ Begin(w)
    PROVE  /\ run'[v] = run[v] /\ schema' = schema /\ now' = now
           /\ tmp'[At(v)] = tmp[At(v)]
           /\ dump'[At(v)] = dump[At(v)] \/ now - At(v) > Retention
<1>1. /\ run \in [Run -> RunRow] /\ now \in Second /\ At(v) \in Second /\ At(w) \in Second
      /\ tmp \in [Second -> Dump \cup {None}] /\ dump \in [Second -> Dump \cup {None}]
      /\ At(v) \in used
  BY DEF BackupsInv, BackupsTypeOK, RunRow, At, SecondsAreUsed
<1>2. CASE Begin(w)
  <2>1. now \notin used
    BY <1>2 DEF Begin
  <2> QED BY <1>1, <1>2, <2>1 DEF Begin
<1>3. CASE Fail(w)
  BY <1>1, <1>3 DEF Fail, Aside, files
<1>4. CASE BackupStep(w)
  <2>1. shared = {}
    BY <1>4 DEF BackupStep, FinishDump, List, Publish, Digest, CreateChecksum, WriteChecksum, WriteMetadata, Scan,
                Expire, RemoveSidecars, Finish, Aside
  <2>2. Begun(w)
    BY <1>4 DEF BackupStep, FinishDump, List, Publish, Digest, CreateChecksum, WriteChecksum, WriteMetadata, Scan,
                Expire, RemoveSidecars, Finish, Begun
  <2>3. At(v) # At(w) /\ At(w) \in 0 .. now
    BY <2>1, <2>2, OwnSecond DEF BackupsInv, SecondsAreUsed
  <2>4. CASE Expire(w)
    <3>1. PICK s \in run[w].targets :
            /\ dump[s] # None
            /\ IF dump[s].at < At(w) - Retention
               THEN /\ dump' = [dump EXCEPT ![s] = None]
                    /\ run' = [run EXCEPT ![w].pc = "sidecars", ![w].old = s, ![w].targets = @ \ {s}]
               ELSE /\ run' = [run EXCEPT ![w].targets = @ \ {s}]
                    /\ UNCHANGED dump
      BY <2>4 DEF Expire
    <3>2. s \in Second /\ dump[s] \in Dump /\ dump[s].at >= s
      BY <1>1, <3>1 DEF RunRow, BackupsInv, DumpsAreTimely
    <3>3. run'[v] = run[v] /\ schema' = schema /\ now' = now /\ tmp' = tmp
      BY <1>1, <2>4, <3>1 DEF Expire, Aside
    <3>4. CASE dump'[At(v)] = dump[At(v)]
      BY <3>3, <3>4
    <3>5. CASE dump'[At(v)] # dump[At(v)]
      <4>1. s = At(v) /\ dump[s].at < At(w) - Retention
        BY <1>1, <3>1, <3>5
      <4>2. now - At(v) > Retention
        BY <1>1, <2>3, <3>2, <4>1, BackupsAssumption DEF Dump, Second
      <4> QED BY <3>3, <4>2
    <3> QED BY <3>4, <3>5
  <2>5. CASE FinishDump(w)
    BY <1>1, <2>3, <2>5 DEF FinishDump, Goto, Aside
  <2>6. CASE Publish(w)
    BY <1>1, <2>3, <2>6 DEF Publish, Goto, Aside
  <2>7. CASE List(w) \/ Digest(w) \/ CreateChecksum(w) \/ WriteChecksum(w) \/ WriteMetadata(w) \/ Scan(w)
             \/ RemoveSidecars(w) \/ Finish(w)
    BY <1>1, <2>7 DEF List, Digest, CreateChecksum, WriteChecksum, WriteMetadata, Scan, RemoveSidecars, Finish,
                      Goto, Aside, files
  <2> QED BY <1>4, <2>4, <2>5, <2>6, <2>7 DEF BackupStep
<1> QED BY <1>2, <1>3, <1>4

LEMMA HoldsSchemaStep ==
    ASSUME BackupsInv, NEW w \in Run, NEW d \in Run, HoldsSchema(d), shared' = {},
           BackupStep(w) \/ Fail(w) \/ Begin(w)
    PROVE  HoldsSchema(d)'
<1>1. /\ run \in [Run -> RunRow] /\ now \in Second /\ At(d) \in Second
      /\ tmp \in [Second -> Dump \cup {None}] /\ dump \in [Second -> Dump \cup {None}]
  BY DEF BackupsInv, BackupsTypeOK, RunRow, At
<1>2. CASE d # w
  <2>1. CASE Begun(d)
    <3>1. /\ run'[d] = run[d] /\ schema' = schema /\ now' = now
          /\ tmp'[At(d)] = tmp[At(d)]
          /\ dump'[At(d)] = dump[At(d)] \/ now - At(d) > Retention
      BY <1>2, <2>1, OthersFiles
    <3>2. At(d)' = At(d)
      BY <3>1 DEF At
    <3> QED BY <3>1, <3>2 DEF HoldsSchema
  <2>2. CASE ~Begun(d)
    <3>1. run'[d] = run[d]
      BY <1>1, <1>2 DEF BackupStep, FinishDump, List, Publish, Digest, CreateChecksum, WriteChecksum, WriteMetadata,
                        Scan, Expire, RemoveSidecars, Finish, Begin, Fail, Goto
    <3> QED BY <2>2, <3>1 DEF HoldsSchema, Begun, Unpublished, Published
  <2> QED BY <2>1, <2>2
<1>3. CASE d = w
  <2>1. CASE Begin(w)
    <3>1. /\ run'[d].pc = "dump" /\ At(d)' = now /\ tmp'[now].schema = schema /\ schema' = schema
      BY <1>1, <1>3, <2>1 DEF Begin, At, RunRow
    <3> QED BY <3>1 DEF HoldsSchema, Published
  <2>2. CASE Fail(w)
    <3>1. run'[d].pc = "failed"
      BY <1>1, <1>3, <2>2 DEF Fail
    <3> QED BY <3>1 DEF HoldsSchema, Unpublished, Published
  <2>3. CASE FinishDump(w)
    <3>1. /\ run[d].pc = "dump" /\ run'[d].pc = "list" /\ At(d)' = At(d) /\ schema' = schema
          /\ tmp'[At(d)] # None => tmp[At(d)] # None /\ tmp'[At(d)].schema = tmp[At(d)].schema
      BY <1>1, <1>3, <2>3 DEF FinishDump, Goto, Aside, At, RunRow, Dump
    <3> QED BY <3>1 DEF HoldsSchema, Unpublished, Published
  <2>4. CASE Publish(w)
    <3>1. /\ run[d].pc = "publish" /\ run'[d].pc = "digest" /\ At(d)' = At(d) /\ schema' = schema
          /\ tmp[At(d)] # None /\ dump'[At(d)] = tmp[At(d)]
      BY <1>1, <1>3, <2>4 DEF Publish, Goto, Aside, At, RunRow
    <3> QED BY <3>1 DEF HoldsSchema, Unpublished, Published
  <2>5. CASE Expire(w)
    <3>1. PICK s \in run[w].targets :
            /\ dump[s] # None
            /\ IF dump[s].at < At(w) - Retention
               THEN /\ dump' = [dump EXCEPT ![s] = None]
                    /\ run' = [run EXCEPT ![w].pc = "sidecars", ![w].old = s, ![w].targets = @ \ {s}]
               ELSE /\ run' = [run EXCEPT ![w].targets = @ \ {s}]
                    /\ UNCHANGED dump
      BY <2>5 DEF Expire
    <3>2. s \in Second /\ dump[s] \in Dump /\ dump[s].at >= s
      BY <1>1, <3>1 DEF RunRow, BackupsInv, DumpsAreTimely
    <3>3. dump[s].at < At(w) - Retention => s # At(d)
      BY <1>1, <1>3, <3>2, BackupsAssumption DEF Dump, Second
    <3>4. dump'[At(d)] = dump[At(d)]
      BY <1>1, <3>1, <3>3
    <3>5. /\ run[d].pc = "expire" /\ run'[d].pc \in {"expire", "sidecars"} /\ At(d)' = At(d)
          /\ schema' = schema /\ now' = now
      BY <1>1, <1>3, <2>5, <3>1 DEF Expire, Aside, At, RunRow
    <3> QED BY <3>4, <3>5 DEF HoldsSchema, Unpublished, Published
  <2>6. CASE List(w)
    <3>1. /\ run[d].pc = "list" /\ run'[d].pc = "publish" /\ At(d)' = At(d)
          /\ UNCHANGED <<schema, now, tmp, dump>>
      BY <1>1, <1>3, <2>6 DEF List, Goto, Aside, files, At, RunRow
    <3> QED BY <3>1 DEF HoldsSchema, Unpublished, Published
  <2>7. CASE Digest(w) \/ CreateChecksum(w) \/ WriteChecksum(w) \/ WriteMetadata(w) \/ Scan(w) \/ RemoveSidecars(w)
             \/ Finish(w)
    <3>1. /\ run[d].pc \in Published /\ run'[d].pc \in Published /\ At(d)' = At(d)
          /\ UNCHANGED <<schema, now, tmp, dump>>
      BY <1>1, <1>3, <2>7 DEF Digest, CreateChecksum, WriteChecksum, WriteMetadata, Scan, RemoveSidecars, Finish,
                              Goto, Aside, files, At, RunRow, Published
    <3>2. run'[d].pc \notin Unpublished
      BY <3>1 DEF Unpublished, Published
    <3> QED BY <3>1, <3>2 DEF HoldsSchema
  <2> QED BY <2>1, <2>2, <2>3, <2>4, <2>5, <2>6, <2>7 DEF BackupStep
<1> QED BY <1>2, <1>3

-----------------------------------------------------------------------------
(* Deployments.                                                            *)

ScriptRow == [pc       : {"idle", "backup", "up", "smoke", "record", "done", "restored", "failed"},
              tag      : Tag \cup {None},
              previous : Tag \cup {None},
              rolling  : BOOLEAN]

\* A script that is under way knows what it brings up.
TagsAreSet == \A d \in Deploy : ~Over(d) => deploy[d].tag \in Tag

\* As long as no two have overlapped, at most one script is under way, ...
OneScript == \A d, e \in Deploy : ~Over(d) /\ ~Over(e) => d = e

\* ... the services run what it has brought up, which it has tested before it
\* records it, ...
RunsItsRelease ==
    \A d \in Deploy :
        /\ deploy[d].pc \in {"smoke", "record"} => running = {ReleaseOf(d)}
        /\ deploy[d].pc = "record" => ReleaseOf(d) \in passed

\* ... and between scripts of which none has failed, what was recorded.
RunsTheRecorded ==
    \/ \E d \in Deploy : ~Over(d) \/ deploy[d].pc = "failed"
    \/ running = IF recorded = None THEN {} ELSE {recorded}

\* A deployment that has not migrated yet backs up the schema it will migrate.
BacksUpSchema == \A d \in Deploy : deploy[d].pc = "backup" => HoldsSchema(d)

OneAtATime == OneScript /\ RunsItsRelease /\ RunsTheRecorded /\ (shared = {} => BacksUpSchema)

DeploymentInv ==
    /\ BackupsInv
    /\ TypeOK /\ TagsAreSet
    /\ RecordedHasPassed
    /\ ~overlapped => OneAtATime

LEMMA DeploymentInitInv == Init => DeploymentInv
<1> SUFFICES ASSUME Init PROVE DeploymentInv
  OBVIOUS
<1>1. BackupsInv
  BY BackupsInitInv DEF Init
<1>2. \A d \in Deploy : deploy[d].pc = "idle" /\ run[d].pc = "idle"
  BY DeploymentAssumption DEF Init, BackupsInit
<1>3. TypeOK
  BY <1>1, <1>2 DEF Init, TypeOK, BackupsInv
<1> QED
  BY <1>1, <1>2, <1>3 DEF Init, DeploymentInv, TagsAreSet, RecordedHasPassed, OneAtATime, OneScript,
     RunsItsRelease, RunsTheRecorded, BacksUpSchema, Over

\* What a step of a script does to its own variables, and to those only.
LEMMA ScriptStep ==
    ASSUME DeploymentInv, NEW d \in Deploy, NEW row \in ScriptRow,
           deploy' = [deploy EXCEPT ![d] = row]
    PROVE  /\ deploy \in [Deploy -> ScriptRow] /\ deploy' \in [Deploy -> ScriptRow]
           /\ deploy'[d] = row
           /\ \A e \in Deploy : e # d => /\ deploy'[e] = deploy[e]
                                         /\ Over(e)' = Over(e) /\ ReleaseOf(e)' = ReleaseOf(e)
BY DEF DeploymentInv, TypeOK, ScriptRow, Over, ReleaseOf

LEMMA ReleaseIsRelease ==
    ASSUME DeploymentInv, NEW d \in Deploy, ~Over(d)
    PROVE  ReleaseOf(d) \in Release /\ ReleaseOf(d) # None
BY DeploymentAssumption DEF DeploymentInv, TagsAreSet, ReleaseOf, Release

\* A script begins.
LEMMA EnterKeeps ==
    ASSUME DeploymentInv, NEW d \in Deploy, NEW pc \in {"backup", "up"}, NEW tag \in Tag,
           NEW previous \in Tag \cup {None}, NEW rolling \in BOOLEAN,
           Enter(d, pc, tag, previous, rolling)
    PROVE  DeploymentInv'
<1> DEFINE row == [pc |-> pc, tag |-> tag, previous |-> previous, rolling |-> rolling]
<1>1. /\ deploy' = [deploy EXCEPT ![d] = row] /\ deploy[d].pc = "idle"
      /\ overlapped' = (overlapped \/ \E e \in Deploy : ~Over(e))
      /\ UNCHANGED <<recorded, running, passed>>
      /\ UNCHANGED <<now, schema, tmp, dump, sha, meta, run, used, shared>>
  BY DEF Enter, backups
<1>2. row \in ScriptRow /\ row.pc = pc /\ row.tag = tag
  BY DEF ScriptRow
<1> HIDE DEF row
<1>3. /\ deploy' \in [Deploy -> ScriptRow] /\ deploy'[d] = row
      /\ \A e \in Deploy : e # d => /\ deploy'[e] = deploy[e]
                                    /\ Over(e)' = Over(e) /\ ReleaseOf(e)' = ReleaseOf(e)
  BY <1>1, <1>2, ScriptStep
<1>4. BackupsInv'
  BY <1>1 DEF DeploymentInv, BackupsInv, BackupsTypeOK, SecondsAreUsed, DumpsAreTimely, OwnFiles,
              DumpsAreWhole, SidecarsAreLeft, NewerIsThere, Begun, At
<1>5. run[d].pc = "idle"
  BY <1>1 DEF DeploymentInv, TypeOK
<1>6. TypeOK'
  BY <1>1, <1>2, <1>3, <1>4, <1>5 DEF DeploymentInv, TypeOK, ScriptRow, BackupsInv
<1>7. TagsAreSet'
  BY <1>2, <1>3 DEF DeploymentInv, TagsAreSet
<1>8. RecordedHasPassed'
  BY <1>1 DEF DeploymentInv, RecordedHasPassed
<1>9. ASSUME ~overlapped' PROVE OneAtATime'
  <2>1. ~overlapped /\ \A e \in Deploy : Over(e)
    BY <1>1, <1>9
  <2>2. ~Over(d)' /\ OneAtATime
    BY <1>2, <1>3, <2>1 DEF Over, DeploymentInv
  <2>3. OneScript' /\ RunsTheRecorded'
    BY <1>3, <2>1, <2>2 DEF OneScript, RunsTheRecorded
  <2>4. RunsItsRelease'
    <3>1. \A e \in Deploy : e # d => deploy'[e].pc \notin {"smoke", "record"}
      BY <1>3, <2>1 DEF Over
    <3> QED BY <1>2, <1>3, <3>1 DEF RunsItsRelease
  <2>5. BacksUpSchema'
    <3>1. \A e \in Deploy : e # d => deploy'[e].pc # "backup"
      BY <1>3, <2>1 DEF Over
    <3>2. HoldsSchema(d)'
      BY <1>1, <1>5 DEF HoldsSchema, Unpublished, Published
    <3> QED BY <3>1, <3>2 DEF BacksUpSchema
  <2> QED BY <2>3, <2>4, <2>5 DEF OneAtATime
<1> QED BY <1>4, <1>6, <1>7, <1>8, <1>9 DEF DeploymentInv

\* A script that is under way moves on: as it is the only one, unless scripts
\* have overlapped, what holds of it holds of all.
LEMMA MoveKeeps ==
    ASSUME DeploymentInv, NEW d \in Deploy, ~Over(d), NEW row \in ScriptRow,
           deploy' = [deploy EXCEPT ![d] = row], row.pc \notin {"idle", "backup"},
           row.pc \in {"up", "smoke", "record"} => row.tag \in Tag,
           UNCHANGED <<now, tmp, dump, sha, meta, run, used, shared, overlapped>>, schema' \in Nat,
           recorded' # None => recorded' \in Release /\ (recorded' \in passed' \/ overlapped),
           running' \subseteq Release, passed \subseteq passed', passed' \subseteq Release,
           ~overlapped /\ row.pc \in {"smoke", "record"} => running' = {ReleaseOf(d)'},
           ~overlapped /\ row.pc = "record" => ReleaseOf(d)' \in passed',
           ~overlapped /\ row.pc \in {"done", "restored"} =>
               running' = IF recorded' = None THEN {} ELSE {recorded'}
    PROVE  DeploymentInv'
<1>1. /\ deploy' \in [Deploy -> ScriptRow] /\ deploy'[d] = row
      /\ \A e \in Deploy : e # d => /\ deploy'[e] = deploy[e]
                                    /\ Over(e)' = Over(e) /\ ReleaseOf(e)' = ReleaseOf(e)
  BY ScriptStep
<1>2. BackupsInv'
  <2>1. now' \in Second /\ now' >= now
    BY BackupsAssumption DEF DeploymentInv, BackupsInv, BackupsTypeOK, Second
  <2> QED BY <2>1, BackupsAside DEF DeploymentInv
<1>3. TypeOK'
  BY <1>1, <1>2 DEF DeploymentInv, TypeOK, ScriptRow, BackupsInv
<1>4. TagsAreSet'
  <2>1. Over(d)' \/ row.tag \in Tag
    BY <1>1 DEF Over, ScriptRow
  <2> QED BY <1>1, <2>1 DEF DeploymentInv, TagsAreSet
<1>5. RecordedHasPassed'
  BY DEF RecordedHasPassed
<1>6. ASSUME ~overlapped' PROVE OneAtATime'
  <2>1. ~overlapped /\ OneAtATime
    BY <1>6 DEF DeploymentInv
  <2>2. \A e \in Deploy : e # d => Over(e)
    BY <2>1 DEF OneAtATime, OneScript
  <2>3. \A e \in Deploy : e # d => Over(e)' /\ deploy'[e].pc \notin {"backup", "smoke", "record"}
    BY <1>1, <2>2 DEF Over
  <2>4. OneScript'
    BY <2>3 DEF OneScript
  <2>5. RunsItsRelease'
    BY <1>1, <2>1, <2>3 DEF RunsItsRelease
  <2>6. RunsTheRecorded'
    BY <1>1, <2>1 DEF RunsTheRecorded, Over, ScriptRow
  <2>7. BacksUpSchema'
    BY <1>1, <2>3 DEF BacksUpSchema
  <2> QED BY <2>4, <2>5, <2>6, <2>7 DEF OneAtATime
<1> QED BY <1>2, <1>3, <1>4, <1>5, <1>6 DEF DeploymentInv

\* A script ends: it has failed, or what it records is what runs and has been
\* tested.
LEMMA ExitKeeps ==
    ASSUME DeploymentInv, NEW d \in Deploy, ~Over(d), NEW pc \in {"done", "restored", "failed"},
           Exit(d, pc), UNCHANGED <<backups, passed, overlapped>>, running' \subseteq Release,
           recorded' # None => recorded' \in Release /\ (recorded' \in passed \/ overlapped),
           ~overlapped /\ pc # "failed" => running' = IF recorded' = None THEN {} ELSE {recorded'}
    PROVE  DeploymentInv'
<1> DEFINE row == [deploy[d] EXCEPT !.pc = pc, !.tag = None, !.previous = None, !.rolling = FALSE]
<1>1. deploy \in [Deploy -> ScriptRow] /\ passed \subseteq Release /\ schema \in Nat
  BY DEF DeploymentInv, TypeOK, ScriptRow, BackupsInv, BackupsTypeOK
<1>2. row \in ScriptRow /\ row.pc = pc
  BY <1>1 DEF ScriptRow
<1>3. deploy' = [deploy EXCEPT ![d] = row]
  BY DEF Exit
<1> HIDE DEF row
<1>4. UNCHANGED <<now, schema, tmp, dump, sha, meta, run, used, shared, overlapped, passed>>
  BY DEF backups
<1> QED BY <1>1, <1>2, <1>3, <1>4, MoveKeeps

LEMMA MigrateKeeps ==
    ASSUME DeploymentInv, NEW d \in Deploy, Migrate(d)
    PROVE  DeploymentInv'
<1> DEFINE row == [deploy[d] EXCEPT !.pc = "up"]
<1>1. deploy \in [Deploy -> ScriptRow] /\ passed \subseteq Release /\ running \subseteq Release
  BY DEF DeploymentInv, TypeOK, ScriptRow
<1>2. /\ deploy[d].pc = "backup" /\ deploy' = [deploy EXCEPT ![d] = row]
      /\ schema' = SchemaOf[deploy[d].tag]
      /\ UNCHANGED <<now, tmp, dump, sha, meta, run, used, shared, recorded, running, passed, overlapped>>
  BY DEF Migrate, files
<1>3. ~Over(d) /\ deploy[d].tag \in Tag
  BY <1>2 DEF Over, DeploymentInv, TagsAreSet
<1>4. row \in ScriptRow /\ row.pc = "up" /\ row.tag = deploy[d].tag
  BY <1>1 DEF ScriptRow
<1>5. schema' \in Nat
  BY <1>2, <1>3, DeploymentAssumption
<1>6. recorded # None => recorded \in Release /\ (recorded \in passed \/ overlapped)
  BY DEF DeploymentInv, TypeOK, RecordedHasPassed
<1> HIDE DEF row
<1> QED BY <1>1, <1>2, <1>3, <1>4, <1>5, <1>6, MoveKeeps

LEMMA UpKeeps ==
    ASSUME DeploymentInv, NEW d \in Deploy, Up(d)
    PROVE  DeploymentInv'
<1> DEFINE row == [deploy[d] EXCEPT !.pc = "smoke"]
<1>1. deploy \in [Deploy -> ScriptRow] /\ passed \subseteq Release /\ schema \in Nat
  BY DEF DeploymentInv, TypeOK, ScriptRow, BackupsInv, BackupsTypeOK
<1>2. /\ deploy[d].pc = "up" /\ deploy' = [deploy EXCEPT ![d] = row] /\ running' = {ReleaseOf(d)}
      /\ UNCHANGED <<now, schema, tmp, dump, sha, meta, run, used, shared, recorded, passed, overlapped>>
  BY DEF Up, backups
<1>3. ~Over(d) /\ deploy[d].tag \in Tag
  BY <1>2 DEF Over, DeploymentInv, TagsAreSet
<1>4. row \in ScriptRow /\ row.pc = "smoke" /\ row.tag = deploy[d].tag
  BY <1>1 DEF ScriptRow
<1>5. ReleaseOf(d)' = ReleaseOf(d)
  BY <1>1, <1>2 DEF ReleaseOf, ScriptRow
<1>6. recorded # None => recorded \in Release /\ (recorded \in passed \/ overlapped)
  BY DEF DeploymentInv, TypeOK, RecordedHasPassed
<1>7. running' \subseteq Release
  BY <1>2, <1>3, ReleaseIsRelease
<1> HIDE DEF row
<1> QED BY <1>1, <1>2, <1>3, <1>4, <1>5, <1>6, <1>7, MoveKeeps

LEMMA SmokePassesKeeps ==
    ASSUME DeploymentInv, NEW d \in Deploy, SmokePasses(d)
    PROVE  DeploymentInv'
<1> DEFINE row == [deploy[d] EXCEPT !.pc = "record"]
<1>1. /\ deploy \in [Deploy -> ScriptRow] /\ passed \subseteq Release /\ running \subseteq Release
      /\ schema \in Nat
  BY DEF DeploymentInv, TypeOK, ScriptRow, BackupsInv, BackupsTypeOK
<1>2. /\ deploy[d].pc = "smoke" /\ deploy' = [deploy EXCEPT ![d] = row]
      /\ passed' = IF \E r \in Release : running = {r} THEN passed \cup running ELSE passed
      /\ UNCHANGED <<now, schema, tmp, dump, sha, meta, run, used, shared, recorded, running, overlapped>>
  BY DEF SmokePasses, backups
<1>3. ~Over(d) /\ deploy[d].tag \in Tag
  BY <1>2 DEF Over, DeploymentInv, TagsAreSet
<1>4. row \in ScriptRow /\ row.pc = "record" /\ row.tag = deploy[d].tag
  BY <1>1 DEF ScriptRow
<1>5. ReleaseOf(d)' = ReleaseOf(d)
  BY <1>1, <1>2 DEF ReleaseOf, ScriptRow
<1>6. passed \subseteq passed' /\ passed' \subseteq Release
  BY <1>1, <1>2
<1>7. recorded # None => recorded \in Release /\ (recorded \in passed \/ overlapped)
  BY DEF DeploymentInv, TypeOK, RecordedHasPassed
<1>8. ~overlapped => running = {ReleaseOf(d)} /\ ReleaseOf(d) \in passed'
  <2> SUFFICES ASSUME ~overlapped PROVE running = {ReleaseOf(d)} /\ ReleaseOf(d) \in passed'
    OBVIOUS
  <2>1. running = {ReleaseOf(d)}
    BY <1>2 DEF DeploymentInv, OneAtATime, RunsItsRelease
  <2> QED BY <1>2, <1>3, <2>1, ReleaseIsRelease
<1> HIDE DEF row
<1> QED BY <1>1, <1>2, <1>3, <1>4, <1>5, <1>6, <1>7, <1>8, MoveKeeps

LEMMA SmokeFailsKeeps ==
    ASSUME DeploymentInv, NEW d \in Deploy, SmokeFails(d)
    PROVE  DeploymentInv'
<1>1. /\ deploy \in [Deploy -> ScriptRow] /\ passed \subseteq Release /\ running \subseteq Release
      /\ schema \in Nat
  BY DEF DeploymentInv, TypeOK, ScriptRow, BackupsInv, BackupsTypeOK
<1>2. /\ deploy[d].pc = "smoke"
      /\ UNCHANGED <<backups, recorded, running, passed, overlapped>>
  BY DEF SmokeFails
<1>3. ~Over(d)
  BY <1>2 DEF Over
<1>4. recorded # None => recorded \in Release /\ (recorded \in passed \/ overlapped)
  BY DEF DeploymentInv, TypeOK, RecordedHasPassed
<1>5. CASE deploy[d].previous # None /\ ~deploy[d].rolling
  <2> DEFINE row == [deploy[d] EXCEPT !.pc = "up", !.tag = deploy[d].previous, !.rolling = TRUE]
  <2>1. deploy' = [deploy EXCEPT ![d] = row]
    BY <1>5 DEF SmokeFails
  <2>2. row \in ScriptRow /\ row.pc = "up" /\ row.tag \in Tag
    BY <1>1, <1>5 DEF ScriptRow
  <2>3. UNCHANGED <<now, schema, tmp, dump, sha, meta, run, used, shared>>
    BY <1>2 DEF backups
  <2> HIDE DEF row
  <2> QED BY <1>1, <1>2, <1>3, <1>4, <2>1, <2>2, <2>3, MoveKeeps
<1>6. CASE ~(deploy[d].previous # None /\ ~deploy[d].rolling)
  <2>1. Exit(d, "failed")
    BY <1>6 DEF SmokeFails
  <2> QED BY <1>1, <1>2, <1>3, <1>4, <2>1, ExitKeeps
<1> QED BY <1>5, <1>6

LEMMA RecordKeeps ==
    ASSUME DeploymentInv, NEW d \in Deploy, Record(d)
    PROVE  DeploymentInv'
<1> DEFINE pc == IF deploy[d].rolling THEN "restored" ELSE "done"
<1>1. /\ deploy[d].pc = "record" /\ recorded' = ReleaseOf(d) /\ Exit(d, pc)
      /\ UNCHANGED <<backups, running, passed, overlapped>>
  BY DEF Record
<1>2. ~Over(d)
  BY <1>1 DEF Over
<1>3. ReleaseOf(d) \in Release /\ ReleaseOf(d) # None
  BY <1>2, ReleaseIsRelease
<1>4. ~overlapped => running = {ReleaseOf(d)} /\ ReleaseOf(d) \in passed
  BY <1>1 DEF DeploymentInv, OneAtATime, RunsItsRelease
<1>5. running \subseteq Release
  BY DEF DeploymentInv, TypeOK
<1>6. pc \in {"done", "restored"}
  OBVIOUS
<1> HIDE DEF pc
<1> QED BY <1>1, <1>2, <1>3, <1>4, <1>5, <1>6, ExitKeeps

\* A script fails: its services are not all recreated, or it is stopped.
LEMMA FailedScriptKeeps ==
    ASSUME DeploymentInv, NEW d \in Deploy, UpFails(d) \/ Stop(d)
    PROVE  DeploymentInv'
<1>1. /\ ~Over(d) /\ Exit(d, "failed")
      /\ UNCHANGED <<backups, recorded, passed, overlapped>>
  BY DEF UpFails, Stop, Over
<1>2. running \subseteq Release /\ ReleaseOf(d) \in Release
  BY <1>1, ReleaseIsRelease DEF DeploymentInv, TypeOK
<1>3. running' \subseteq Release
  BY <1>2 DEF UpFails, Stop
<1>4. recorded # None => recorded \in Release /\ (recorded \in passed \/ overlapped)
  BY DEF DeploymentInv, TypeOK, RecordedHasPassed
<1> QED BY <1>1, <1>3, <1>4, ExitKeeps

LEMMA BeginsKeep ==
    ASSUME DeploymentInv, NEW d \in Deploy, BeginDeploy(d) \/ BeginRollback(d)
    PROVE  DeploymentInv'
<1>1. CASE BeginDeploy(d)
  <2> DEFINE previous == IF recorded = None THEN None ELSE recorded.tag
  <2>1. previous \in Tag \cup {None}
    BY DEF DeploymentInv, TypeOK, Release
  <2>2. TagOf[d] \in Tag
    BY DeploymentAssumption
  <2>3. Enter(d, "backup", TagOf[d], previous, FALSE)
    BY <1>1 DEF BeginDeploy
  <2> HIDE DEF previous
  <2> QED BY <2>1, <2>2, <2>3, EnterKeeps
<1>2. CASE BeginRollback(d)
  <2>1. PICK t \in Tag : Enter(d, "up", t, None, TRUE)
    BY <1>2 DEF BeginRollback
  <2> QED BY <2>1, EnterKeeps
<1> QED BY <1>1, <1>2

\* A backup goes on, of the backup process or of a deployment.
LEMMA BackupUnderScripts ==
    ASSUME DeploymentInv, NEW w \in Run, UNCHANGED scripts,
           \/ BackupStep(w) \/ Fail(w)
           \/ Begin(w) /\ (w \in Deploy => deploy[w].pc = "backup")
    PROVE  DeploymentInv'
<1>1. UNCHANGED <<deploy, recorded, running, passed, overlapped>>
  BY DEF scripts
<1>2. BackupsInv /\ BackupsInv'
  BY BackupStepKeeps DEF DeploymentInv
<1>3. run \in [Run -> RunRow]
  BY <1>2 DEF BackupsInv, BackupsTypeOK, RunRow
<1>4. \A d \in Deploy : run'[d].pc # "idle" => deploy[d].pc # "idle"
  <2> SUFFICES ASSUME NEW d \in Deploy, run'[d].pc # "idle", deploy[d].pc = "idle" PROVE FALSE
    OBVIOUS
  <2>1. d \in Run /\ run[d].pc = "idle"
    BY DeploymentAssumption DEF DeploymentInv, TypeOK
  <2>2. d = w
    BY <1>3, <2>1 DEF BackupStep, FinishDump, List, Publish, Digest, CreateChecksum, WriteChecksum, WriteMetadata,
                      Scan, Expire, RemoveSidecars, Finish, Begin, Fail, Goto
  <2>3. ~BackupStep(w) /\ ~Fail(w)
    BY <2>1, <2>2 DEF BackupStep, FinishDump, List, Publish, Digest, CreateChecksum, WriteChecksum, WriteMetadata,
                      Scan, Expire, RemoveSidecars, Finish, Fail, Ended
  <2> QED BY <2>2, <2>3
<1>5. TypeOK'
  BY <1>1, <1>2, <1>4 DEF DeploymentInv, TypeOK, BackupsInv
<1>6. TagsAreSet' /\ RecordedHasPassed'
  BY <1>1 DEF DeploymentInv, TagsAreSet, RecordedHasPassed, Over
<1>7. ASSUME ~overlapped' PROVE OneAtATime'
  <2>1. OneAtATime
    BY <1>1, <1>7 DEF DeploymentInv
  <2>2. OneScript' /\ RunsItsRelease' /\ RunsTheRecorded'
    BY <1>1, <2>1 DEF OneAtATime, OneScript, RunsItsRelease, RunsTheRecorded, Over, ReleaseOf
  <2>3. ASSUME shared' = {} PROVE BacksUpSchema'
    <3>1. shared = {}
      BY <2>3 DEF BackupStep, FinishDump, List, Publish, Digest, CreateChecksum, WriteChecksum, WriteMetadata,
                  Scan, Expire, RemoveSidecars, Finish, Begin, Fail, Aside
    <3>2. ASSUME NEW d \in Deploy, deploy[d].pc = "backup" PROVE HoldsSchema(d)'
      <4>1. d \in Run /\ HoldsSchema(d)
        BY <2>1, <3>1, <3>2, DeploymentAssumption DEF OneAtATime, BacksUpSchema
      <4> QED BY <1>2, <2>3, <4>1, HoldsSchemaStep
    <3> QED BY <1>1, <3>2 DEF BacksUpSchema
  <2> QED BY <2>2, <2>3 DEF OneAtATime
<1> QED BY <1>2, <1>5, <1>6, <1>7 DEF DeploymentInv

\* Time passes, in which dumps come to be expired, or nothing happens.
LEMMA TimeKeeps ==
    ASSUME DeploymentInv, (Tick /\ UNCHANGED scripts) \/ UNCHANGED vars
    PROVE  DeploymentInv'
<1>1. UNCHANGED <<schema, tmp, dump, sha, meta, run, used, shared,
                  deploy, recorded, running, passed, overlapped>>
  BY DEF Tick, files, scripts, vars
<1>2. now \in Second /\ now' \in Second /\ now' >= now /\ schema \in Nat
  BY BackupsAssumption DEF DeploymentInv, BackupsInv, BackupsTypeOK, Tick, vars, Second
<1>3. BackupsInv'
  BY <1>1, <1>2, BackupsAside DEF DeploymentInv
<1>4. TypeOK'
  BY <1>1, <1>3 DEF DeploymentInv, TypeOK, BackupsInv
<1>5. TagsAreSet' /\ RecordedHasPassed'
  BY <1>1 DEF DeploymentInv, TagsAreSet, RecordedHasPassed, Over
<1>6. ASSUME ~overlapped' PROVE OneAtATime'
  <2>1. OneAtATime
    BY <1>1, <1>6 DEF DeploymentInv
  <2>2. OneScript' /\ RunsItsRelease' /\ RunsTheRecorded'
    BY <1>1, <2>1 DEF OneAtATime, OneScript, RunsItsRelease, RunsTheRecorded, Over, ReleaseOf
  <2>3. ASSUME shared' = {} PROVE BacksUpSchema'
    <3> SUFFICES ASSUME NEW d \in Deploy, deploy[d].pc = "backup" PROVE HoldsSchema(d)'
      BY <1>1 DEF BacksUpSchema
    <3>1. d \in Run /\ HoldsSchema(d)
      BY <1>1, <2>1, <2>3, DeploymentAssumption DEF OneAtATime, BacksUpSchema
    <3>2. At(d) \in Second /\ At(d)' = At(d)
      BY <1>1, <3>1 DEF At, DeploymentInv, BackupsInv, BackupsTypeOK
    <3>3. now - At(d) > Retention => now' - At(d) > Retention
      BY <1>2, <3>2, BackupsAssumption DEF Second
    <3> QED BY <1>1, <3>1, <3>2, <3>3 DEF HoldsSchema
  <2> QED BY <2>2, <2>3 DEF OneAtATime
<1> QED BY <1>3, <1>4, <1>5, <1>6 DEF DeploymentInv

LEMMA DeploymentNextInv ==
    ASSUME DeploymentInv, [Next]_vars
    PROVE  DeploymentInv'
<1>1. ASSUME NEW w \in Run, (BackupStep(w) \/ Fail(w)) /\ UNCHANGED scripts PROVE DeploymentInv'
  BY <1>1, BackupUnderScripts
<1>2. ASSUME NEW w \in Run \ Deploy, Begin(w) /\ UNCHANGED scripts PROVE DeploymentInv'
  BY <1>2, BackupUnderScripts
<1>3. ASSUME NEW d \in Deploy, BackUp(d) PROVE DeploymentInv'
  BY <1>3, BackupUnderScripts, DeploymentAssumption DEF BackUp
<1> QED
  BY <1>1, <1>2, <1>3, BeginsKeep, MigrateKeeps, UpKeeps, FailedScriptKeeps, SmokePassesKeeps,
     SmokeFailsKeeps, RecordKeeps, TimeKeeps DEF Next

LEMMA DeploymentAlways == Spec => []DeploymentInv
<1>1. Init => DeploymentInv
  BY DeploymentInitInv
<1>2. DeploymentInv /\ [Next]_vars => DeploymentInv'
  BY DeploymentNextInv
<1> QED BY <1>1, <1>2, PTL DEF Spec

\* Deployment scripts and the backups they share a directory with keep their
\* types: a script that began a backup has begun, and what it brings up, or
\* has recorded, is a release.
THEOREM DeploymentTypeCorrect == Spec => []TypeOK
<1>1. DeploymentInv => TypeOK
  BY DEF DeploymentInv
<1> QED BY <1>1, DeploymentAlways, PTL

\* backup_once: a dump under its final name is complete, with its own checksum,
\* none, or a checksum file that is still empty, at whatever point a run has
\* failed, and its own after every run that has gone on from there, whatever
\* runs, of the backup process or of deployments, go on in other seconds.
THEOREM PublishedDumpsAreWhole == Spec => []PublishedIsWhole
<1>1. DeploymentInv => PublishedIsWhole
  BY WholeFromInv DEF DeploymentInv
<1> QED BY <1>1, DeploymentAlways, PTL

\* cleanup_backups: once a run has been completed there is a whole dump to
\* restore, however runs and their cleanups overlap.
THEOREM ADumpIsRestorable == Spec => []AlwaysRestorable
<1>1. DeploymentInv => AlwaysRestorable
  BY RestorableFromInv DEF DeploymentInv
<1> QED BY <1>1, DeploymentAlways, PTL

\* production-deploy.sh, production-rollback.sh: the release in the state
\* file, to which a deployment rolls back, has passed a smoke test, unless
\* scripts have overlapped.
THEOREM RecordedReleasesHavePassed == Spec => []RecordedHasPassed
<1>1. DeploymentInv => RecordedHasPassed
  BY DEF DeploymentInv
<1> QED BY <1>1, DeploymentAlways, PTL

\* The same scripts: when each of them has succeeded, or has restored the
\* image before it, the services run the release in the state file.
THEOREM SettledServicesAreRecorded == Spec => []SettledIsRecorded
<1>1. DeploymentInv => SettledIsRecorded
  BY DEF DeploymentInv, OneAtATime, RunsTheRecorded, Over, SettledIsRecorded
<1> QED BY <1>1, DeploymentAlways, PTL

\* production-deploy.sh: at the step that migrates the database there is a
\* whole dump of its schema, made by that deployment before, unless scripts
\* have overlapped, runs shared a second, or the dump has expired since.
THEOREM MigrationsAreBackedUp == Spec => MigratedAfterBackup
<1> DEFINE Backed ==
      schema' # schema =>
         \/ overlapped \/ shared # {}
         \/ \E s \in Second : dump[s] # None /\ dump[s].whole /\ dump[s].schema = schema
         \/ \E d \in Deploy : deploy[d].pc = "backup" /\ now - At(d) > Retention
<1>1. ASSUME DeploymentInv, [Next]_vars PROVE [Backed]_vars
  <2> SUFFICES ASSUME Next, schema' # schema, ~overlapped, shared = {} PROVE Backed
    BY <1>1 DEF vars
  <2>1. PICK d \in Deploy : Migrate(d)
    BY DEF Next, BackupStep, FinishDump, List, Publish, Digest, CreateChecksum, WriteChecksum, WriteMetadata, Scan,
           Expire, RemoveSidecars, Finish, Begin, Fail, Tick, Aside, BeginDeploy, BeginRollback, BackUp,
           Up, UpFails, SmokePasses, SmokeFails, Record, Stop, Enter, backups
  <2>2. deploy[d].pc = "backup" /\ run[d].pc = "done" /\ d \in Run
    BY <2>1, DeploymentAssumption DEF Migrate
  <2>3. HoldsSchema(d)
    BY <1>1, <2>2 DEF DeploymentInv, OneAtATime, BacksUpSchema
  <2>4. CASE now - At(d) > Retention
    BY <2>2, <2>4
  <2>5. CASE dump[At(d)] # None /\ dump[At(d)].schema = schema
    <3>1. At(d) \in Second
      BY <1>1, <2>2 DEF DeploymentInv, BackupsInv, BackupsTypeOK, At
    <3>2. dump[At(d)].whole
      BY <1>1, <2>5, <3>1 DEF DeploymentInv, BackupsInv, DumpsAreWhole
    <3> QED BY <2>5, <3>1, <3>2
  <2> QED BY <2>2, <2>3, <2>4, <2>5 DEF HoldsSchema, Published
<1>2. DeploymentInv /\ [Next]_vars => [Backed]_vars
  BY <1>1
<1>3. MigratedAfterBackup <=> [][Backed]_vars
  BY DEF MigratedAfterBackup
<1> HIDE DEF Backed
<1> QED BY <1>2, <1>3, DeploymentAlways, PTL DEF Spec
=============================================================================
