------------------------------ MODULE AuditLog ------------------------------
(***************************************************************************)
(* The audit log: requests record events, an administrator reads them page *)
(* by page, and retention runs write events that are old enough to an      *)
(* archive before they delete them.  Nothing keeps two retention runs from *)
(* overlapping, or one from ending anywhere.  A unit of time is a day, and *)
(* the archives of a day are one file.                                     *)
(***************************************************************************)
EXTENDS Integers, FiniteSets

CONSTANTS
    Event,          \* events, numbered in the order of their identifiers
    Sweep,          \* retention runs
    RetentionDays,  \* audit_retention_days
    MaxOpen,        \* days a recording transaction may stay open
    PageSize,
    NoSweep,        \* the archive ends in a complete line, ...
    Mixed,          \* ... in one that two runs have begun
    MaxDay          \* bound of the clock

ASSUME AuditLogAssumption ==
    /\ Event \subseteq Nat /\ IsFiniteSet(Event)
    /\ RetentionDays \in Nat \ {0} /\ MaxOpen \in Nat /\ MaxOpen < RetentionDays
    /\ PageSize \in Nat \ {0}
    /\ MaxDay \in Nat
    /\ NoSweep \notin Sweep /\ Mixed \notin Sweep \cup {NoSweep}

Day == -RetentionDays .. MaxDay

VARIABLES
    today,
    event,      \* event[e]: the event, and its created_at
    sweep,      \* sweep[w]: the retention run
    copies,     \* copies[e]: how often e is in the archive, on a line of its own
    unfinished, \* unfinished[d]: whose line the archive of d ends in, if it is not complete
    reader,     \* the administrator's reading
    spoiled,    \* history: events written on a line with others
    disturbed   \* history: retention runs have overlapped, or one has failed

log       == <<event, copies, unfinished>>
history   == <<spoiled, disturbed>>
auditVars == <<today, event, sweep, copies, unfinished, reader, spoiled, disturbed>>

-----------------------------------------------------------------------------
Under(w) == sweep[w].pc \in {"select", "write", "delete"}

AuditTypeOK ==
    /\ today \in 0 .. MaxDay
    /\ event \in [Event -> [pc : {"none", "open", "stored", "deleted", "failed"}, at : 0 .. MaxDay]]
    /\ sweep \in [Sweep -> [pc     : {"idle", "select", "write", "delete", "done", "failed"},
                            cutoff : Day,
                            todo   : SUBSET Event,  \* selected and not yet written
                            half   : BOOLEAN]]      \* the first of them has been begun
    /\ \A w \in Sweep : sweep[w].todo # {} \/ sweep[w].half => sweep[w].pc = "write"
    /\ copies \in [Event -> Nat]
    /\ unfinished \in [Day -> Sweep \cup {NoSweep, Mixed}]
    /\ \A d \in Day : unfinished[d] \in Sweep =>
         sweep[unfinished[d]].half \/ sweep[unfinished[d]].pc = "failed"
    /\ reader \in [pc  : {"idle", "reading", "over"}, page : Nat,
                   due : SUBSET Event]      \* there when it began, and not read
    /\ spoiled \subseteq Event
    /\ disturbed \in BOOLEAN

AuditInit ==
    /\ today = 0
    /\ event = [e \in Event |-> [pc |-> "none", at |-> 0]]
    /\ sweep = [w \in Sweep |-> [pc |-> "idle", cutoff |-> 0, todo |-> {}, half |-> FALSE]]
    /\ copies = [e \in Event |-> 0]
    /\ unfinished = [d \in Day |-> NoSweep]
    /\ reader = [pc |-> "idle", page |-> 1, due |-> {}]
    /\ spoiled = {}
    /\ disturbed = FALSE

-----------------------------------------------------------------------------
(* Helpers.                                                                *)

Stored == {e \in Event : event[e].pc = "stored"}

\* Events created before the cutoff of retention run w.
Before(w) == {e \in Stored : event[e].at < sweep[w].cutoff}

\* A variant, no part of the specification: the oldest first.
PrecedesOldest(e, f) == event[e].at < event[f].at \/ (event[e].at = event[f].at /\ e < f)

\* The newest event comes first.
Precedes(e, f) == event[e].at > event[f].at \/ (event[e].at = event[f].at /\ e > f)

Offset(e) == Cardinality({f \in Stored : Precedes(f, e)})

Page(n) == {e \in Stored : (n - 1) * PageSize <= Offset(e) /\ Offset(e) < n * PageSize}

-----------------------------------------------------------------------------
(* AuditService.record: created_at is the time the transaction began.      *)

Open(e) ==
    /\ event[e].pc = "none" /\ \A f \in Event : f < e => event[f].pc # "none"
    /\ event' = [event EXCEPT ![e] = [pc |-> "open", at |-> today]]
    /\ UNCHANGED <<today, sweep, copies, unfinished, reader, history>>

Store(e) ==
    /\ event[e].pc = "open"
    /\ event' = [event EXCEPT ![e].pc = "stored"]
    /\ UNCHANGED <<today, sweep, copies, unfinished, reader, history>>

Lose(e) ==
    /\ event[e].pc = "open"
    /\ event' = [event EXCEPT ![e].pc = "failed"]
    /\ UNCHANGED <<today, sweep, copies, unfinished, reader, history>>

-----------------------------------------------------------------------------
(* search_audit_events, called for one page after the other.               *)

BeginReading ==
    /\ reader.pc = "idle"
    /\ reader' = [reader EXCEPT !.pc = "reading", !.due = Stored]
    /\ UNCHANGED <<today, log, sweep, history>>

ReadPage ==
    /\ reader.pc = "reading"
    /\ LET rows == Page(reader.page) IN
         reader' = IF rows = {} THEN [reader EXCEPT !.pc = "over", !.page = 1]
                   ELSE [reader EXCEPT !.page = @ + 1, !.due = @ \ rows]
    /\ UNCHANGED <<today, log, sweep, history>>

-----------------------------------------------------------------------------
(* AuditService.apply_retention.                                           *)

BeginSweep(w) ==
    /\ sweep[w].pc = "idle"
    /\ sweep' = [sweep EXCEPT ![w].pc = "select", ![w].cutoff = today - RetentionDays]
    /\ disturbed' = (disturbed \/ \E v \in Sweep : Under(v))
    /\ UNCHANGED <<today, log, reader, spoiled>>

Select(w) ==
    /\ sweep[w].pc = "select"
    /\ sweep' = [sweep EXCEPT ![w].pc = IF Before(w) = {} THEN "delete" ELSE "write",
                              ![w].todo = Before(w)]
    /\ UNCHANGED <<today, log, reader, history>>

\* The event whose line comes next: they are written in the order of their
\* created_at.
IsNext(w, e) == e \in sweep[w].todo /\ \A f \in sweep[w].todo : event[e].at <= event[f].at

\* The end of the line of event e is written.  It is a line of its own if the
\* archive ended in a complete line, or in the beginning of this one.
EndLine(w, e) ==
    LET d == sweep[w].cutoff IN
    /\ IF unfinished[d] = IF sweep[w].half THEN w ELSE NoSweep
       THEN copies' = [copies EXCEPT ![e] = @ + 1] /\ UNCHANGED spoiled
       ELSE spoiled' = spoiled \cup {e} /\ UNCHANGED copies
    /\ unfinished' = [unfinished EXCEPT ![d] = NoSweep]

\* Variants, no part of the specification: a cutoff that is read from the
\* clock again; events of the cutoff's day that stay.
DeleteUntilNow(w) ==
    /\ sweep[w].pc = "delete"
    /\ event' = [e \in Event |-> IF e \in Stored /\ event[e].at < today - RetentionDays
                                 THEN [event[e] EXCEPT !.pc = "deleted"] ELSE event[e]]
    /\ sweep' = [sweep EXCEPT ![w].pc = "done"]
    /\ UNCHANGED <<today, copies, unfinished, reader, history>>

DeleteOnlyOlder(w) ==
    /\ sweep[w].pc = "delete"
    /\ event' = [e \in Event |-> IF e \in Before(w) /\ event[e].at < sweep[w].cutoff - 1
                                 THEN [event[e] EXCEPT !.pc = "deleted"] ELSE event[e]]
    /\ sweep' = [sweep EXCEPT ![w].pc = "done"]
    /\ UNCHANGED <<today, copies, unfinished, reader, history>>

WriteLine(w) ==
    /\ sweep[w].pc = "write"
    /\ \E e \in Event :
         /\ IsNext(w, e) /\ EndLine(w, e)
         /\ sweep' = [sweep EXCEPT ![w].todo = @ \ {e}, ![w].half = FALSE,
                                   ![w].pc = IF sweep[w].todo = {e} THEN "delete" ELSE @]
    /\ UNCHANGED <<today, event, reader, disturbed>>

\* The file's buffer is full, and written, in the middle of a line.
WriteHalf(w) ==
    /\ sweep[w].pc = "write" /\ ~sweep[w].half
    /\ sweep' = [sweep EXCEPT ![w].half = TRUE]
    /\ unfinished' = [unfinished EXCEPT ![sweep[w].cutoff] = IF @ = NoSweep THEN w ELSE Mixed]
    /\ UNCHANGED <<today, event, copies, reader, history>>

\* DELETE selects the rows again, and is committed.
Delete(w) ==
    /\ sweep[w].pc = "delete"
    /\ event' = [e \in Event |-> IF e \in Before(w) THEN [event[e] EXCEPT !.pc = "deleted"]
                                                   ELSE event[e]]
    /\ sweep' = [sweep EXCEPT ![w].pc = "done"]
    /\ UNCHANGED <<today, copies, unfinished, reader, history>>

\* A statement fails, or writing does, or the process ends.
FailSweep(w) ==
    /\ Under(w)
    /\ sweep' = [sweep EXCEPT ![w] = [@ EXCEPT !.pc = "failed", !.todo = {}, !.half = FALSE]]
    /\ disturbed' = TRUE
    /\ UNCHANGED <<today, log, reader, spoiled>>

\* No recording transaction stays open for longer than MaxOpen.
NextDay ==
    /\ today < MaxDay
    /\ \A e \in Event : event[e].pc = "open" => today - event[e].at < MaxOpen
    /\ today' = today + 1
    /\ UNCHANGED <<log, sweep, reader, history>>

AuditNext ==
    \/ \E e \in Event : Open(e) \/ Store(e) \/ Lose(e)
    \/ BeginReading \/ ReadPage
    \/ \E w \in Sweep : BeginSweep(w) \/ Select(w) \/ WriteLine(w) \/ WriteHalf(w) \/ Delete(w) \/ FailSweep(w)
    \/ NextDay

AuditSpec == AuditInit /\ [][AuditNext]_auditVars

-----------------------------------------------------------------------------
(* Properties.                                                             *)

\* specs/026: "events older than the cutoff are written as JSONL before they
\* are deleted": an event that is gone is on a line of its own in an archive,
\* though DELETE selects anew.  Only where retention runs overlapped or one
\* failed while it wrote can its line have been spoiled.
DeletedIsArchived ==
    \A e \in Event : event[e].pc = "deleted" => copies[e] > 0 \/ (e \in spoiled /\ disturbed)

\* An event is archived once, unless retention runs overlapped or one failed
\* before it deleted what it had written.
ArchivedOnce == \A e \in Event : copies[e] > 1 => disturbed

\* Who reads page after page, until one is empty, has read every event that
\* was there from the beginning to the end, whatever was recorded or deleted
\* in the meantime.
PagesMissNothing ==
    reader.pc = "over" => \A e \in reader.due : event[e].pc # "stored"
=============================================================================
