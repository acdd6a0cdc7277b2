------------------------------ MODULE Backups ------------------------------
(***************************************************************************)
(* Backups: runs of backup_once, by the backup process and by deployments, *)
(* on one directory.  A run dumps the database to a temporary file, lists  *)
(* the dump, renames it, writes its checksum and its metadata, and removes *)
(* the expired.  The files of a run bear the second it began in: those of  *)
(* runs that began in the same second are the same.                        *)
(***************************************************************************)
EXTENDS Integers, FiniteSets

CONSTANTS
    Run,
    Retention,      \* backup_retention_days
    None,           \* no file
    Empty,          \* a checksum file that has been created, but not written
    MaxNow          \* bound of the clock

\* The settings do not bound the retention; below zero a run would expire the
\* dump it has just written.
ASSUME BackupsAssumption == Retention \in Nat /\ MaxNow \in Nat /\ Empty # None

Second == 0 .. MaxNow

VARIABLES
    now,
    schema,     \* schema of the database
    tmp,        \* tmp[s]: temporary dump of the runs that began at s
    dump,       \* dump[s]: their published dump
    sha,        \* sha[s]: their checksum file: the dump whose checksum it holds
    meta,       \* their metadata files
    run,        \* run[w]: the run
    used,       \* history: seconds in which a run began
    shared      \* history: seconds in which more than one did

files == <<tmp, dump, sha, meta>>

-----------------------------------------------------------------------------
Pc == {"idle", "dump", "list", "publish", "digest", "checksum", "fill", "metadata", "scan",
       "expire", "sidecars", "done", "failed"}

Ended == {"idle", "done", "failed"}

\* The checksum has been written.
Checked == {"metadata", "scan", "expire", "sidecars", "done"}

\* A dump: who writes it, whether it is complete, when it was last written,
\* and the schema it contains.
Dump == [by : SUBSET Run, whole : BOOLEAN, at : Second, schema : Nat]

BackupsTypeOK ==
    /\ now \in Second
    /\ schema \in Nat
    /\ tmp \in [Second -> Dump \cup {None}]
    /\ dump \in [Second -> Dump \cup {None}]
    /\ sha \in [Second -> Dump \cup {None, Empty}]
    /\ meta \subseteq Second
    /\ run \in [Run -> [pc : Pc, at : Second,      \* begin, by the clock
                       digest  : Dump \cup {None},
                       targets : SUBSET Second,    \* dumps that were listed
                       old     : Second]]          \* the one being removed
    /\ \A w \in Run : run[w].pc \in {"checksum", "fill"} => run[w].digest # None
    /\ used \subseteq Second /\ shared \subseteq used

BackupsInit ==
    /\ now = 0
    /\ schema = 0
    /\ tmp = [s \in Second |-> None]
    /\ dump = [s \in Second |-> None]
    /\ sha = [s \in Second |-> None]
    /\ meta = {}
    /\ run = [w \in Run |-> [pc |-> "idle", at |-> 0, digest |-> None, targets |-> {}, old |-> 0]]
    /\ used = {}
    /\ shared = {}

-----------------------------------------------------------------------------
(* Helpers.                                                                *)

At(w) == run[w].at

\* The rest of the state, for the steps of a run.
Aside == <<now, schema, used, shared>>

Goto(w, where) == run' = [run EXCEPT ![w].pc = where]

\* Variants, no part of the specification: a dump under its final name, which
\* a failure leaves there; a cleanup before there is a new dump.
DumpInPlace(w) ==
    /\ run[w].pc = "dump"
    /\ \/ /\ tmp[At(w)] # None
          /\ tmp' = [tmp EXCEPT ![At(w)].whole = tmp[At(w)].by = {w}, ![At(w)].at = now]
          /\ Goto(w, "list") /\ UNCHANGED dump
       \/ dump' = [dump EXCEPT ![At(w)] = tmp[At(w)]] /\ Goto(w, "failed") /\ UNCHANGED tmp
    /\ UNCHANGED <<Aside, sha, meta>>

BeginWithCleanup(w) ==
    /\ run[w].pc = "idle"
    /\ run' = [run EXCEPT ![w].pc = "dump", ![w].at = now]
    /\ tmp' = [tmp EXCEPT ![now] = [by |-> {w}, whole |-> FALSE, at |-> now, schema |-> schema]]
    /\ LET kept == {s \in Second : dump[s] # None /\ dump[s].at >= now - Retention} IN
         /\ dump' = [s \in Second |-> IF s \in kept THEN dump[s] ELSE None]
         /\ sha'  = [s \in Second |-> IF s \in kept THEN sha[s] ELSE None]
         /\ meta' = meta \cap kept
    /\ used' = used \cup {now}
    /\ shared' = shared \cup (used \cap {now})
    /\ UNCHANGED <<now, schema>>

-----------------------------------------------------------------------------
(* backup_once.                                                            *)

\* pg_dump takes its snapshot, and opens its file: one that is there is
\* truncated, and two write to the same.
Begin(w) ==
    /\ run[w].pc = "idle"
    /\ run' = [run EXCEPT ![w].pc = "dump", ![w].at = now]
    /\ LET writers == {w} \cup {v \in Run : tmp[now] # None /\ run[v].pc = "dump" /\ At(v) = now} IN
         tmp' = [tmp EXCEPT ![now] = [by |-> writers, whole |-> FALSE, at |-> now, schema |-> schema]]
    /\ used' = used \cup {now}
    /\ shared' = shared \cup (used \cap {now})
    /\ UNCHANGED <<now, schema, dump, sha, meta>>

\* pg_dump ends, and its file is complete if no other has written to it.
FinishDump(w) ==
    /\ run[w].pc = "dump"
    /\ tmp' = IF tmp[At(w)] = None THEN tmp
              ELSE [tmp EXCEPT ![At(w)].whole = tmp[At(w)].by = {w}, ![At(w)].at = now]
    /\ Goto(w, "list")
    /\ UNCHANGED <<Aside, dump, sha, meta>>

\* pg_restore --list reads the table of contents, at the beginning.
List(w) ==
    /\ run[w].pc = "list"
    /\ tmp[At(w)] # None
    /\ Goto(w, "publish")
    /\ UNCHANGED <<Aside, files>>

Publish(w) ==
    /\ run[w].pc = "publish"
    /\ tmp[At(w)] # None
    /\ dump' = [dump EXCEPT ![At(w)] = tmp[At(w)]]
    /\ tmp' = [tmp EXCEPT ![At(w)] = None]
    /\ Goto(w, "digest")
    /\ UNCHANGED <<Aside, sha, meta>>

Digest(w) ==
    /\ run[w].pc = "digest"
    /\ dump[At(w)] # None
    /\ run' = [run EXCEPT ![w].pc = "checksum", ![w].digest = dump[At(w)]]
    /\ UNCHANGED <<Aside, files>>

\* write_text creates the file, or truncates the one it finds, ...
CreateChecksum(w) ==
    /\ run[w].pc = "checksum"
    /\ sha' = [sha EXCEPT ![At(w)] = Empty]
    /\ Goto(w, "fill")
    /\ UNCHANGED <<Aside, tmp, dump, meta>>

\* ... and then writes it; what is written to a file that has been removed in
\* between is gone.
WriteChecksum(w) ==
    /\ run[w].pc = "fill"
    /\ sha' = IF sha[At(w)] = None THEN sha ELSE [sha EXCEPT ![At(w)] = run[w].digest]
    /\ run' = [run EXCEPT ![w].pc = "metadata", ![w].digest = None]
    /\ UNCHANGED <<Aside, tmp, dump, meta>>

\* The metadata hold the size of the dump.  (Nothing reads their file: that it
\* is there is all that is said of it.)
WriteMetadata(w) ==
    /\ run[w].pc = "metadata"
    /\ dump[At(w)] # None
    /\ meta' = meta \cup {At(w)}
    /\ Goto(w, "scan")
    /\ UNCHANGED <<Aside, tmp, dump, sha>>

-----------------------------------------------------------------------------
(* cleanup_backups.                                                        *)

Scan(w) ==
    /\ run[w].pc = "scan"
    /\ run' = [run EXCEPT ![w].pc = "expire", ![w].targets = {s \in Second : dump[s] # None}]
    /\ UNCHANGED <<Aside, files>>

\* One dump after the other is looked at, and removed if it was written
\* before the cutoff; if it is gone, stat raises.
Expire(w) ==
    /\ run[w].pc = "expire"
    /\ \E s \in run[w].targets :
         /\ dump[s] # None
         /\ IF dump[s].at < At(w) - Retention
            THEN /\ dump' = [dump EXCEPT ![s] = None]
                 /\ run' = [run EXCEPT ![w].pc = "sidecars", ![w].old = s, ![w].targets = @ \ {s}]
            ELSE /\ run' = [run EXCEPT ![w].targets = @ \ {s}]
                 /\ UNCHANGED dump
    /\ UNCHANGED <<Aside, tmp, sha, meta>>

RemoveSidecars(w) ==
    /\ run[w].pc = "sidecars"
    /\ sha' = [sha EXCEPT ![run[w].old] = None]
    /\ meta' = meta \ {run[w].old}
    /\ run' = [run EXCEPT ![w].pc = "expire", ![w].old = 0]
    /\ UNCHANGED <<Aside, tmp, dump>>

Finish(w) ==
    /\ run[w].pc = "expire" /\ run[w].targets = {}
    /\ Goto(w, "done")
    /\ UNCHANGED <<Aside, files>>

\* A command exits with an error, a file is missing, or the process ends.
Fail(w) ==
    /\ run[w].pc \notin Ended
    /\ run' = [run EXCEPT ![w] = [pc |-> "failed", at |-> 0, digest |-> None, targets |-> {}, old |-> 0]]
    /\ UNCHANGED <<Aside, files>>

BackupStep(w) ==
    \/ FinishDump(w) \/ List(w) \/ Publish(w) \/ Digest(w)
    \/ CreateChecksum(w) \/ WriteChecksum(w) \/ WriteMetadata(w)
    \/ Scan(w) \/ Expire(w) \/ RemoveSidecars(w) \/ Finish(w)

Tick ==
    /\ now < MaxNow
    /\ now' = now + 1
    /\ UNCHANGED <<schema, files, run, used, shared>>

-----------------------------------------------------------------------------
(* Properties.                                                             *)

\* specs/013: what is published is a complete dump, at whatever point a run
\* may have failed, with the checksum of that dump, with none, or with a file
\* that was created and never written; and a run that has gone on from its
\* checksum has left that of its dump there as long as there is the dump.
\* verify_backup never sees the checksum of another dump, and raises for the
\* empty file, which a run leaves that fails between creating and writing it.
\* (Runs that begin in one second can spoil all of this.)
PublishedIsWhole ==
    \A s \in Second \ shared : dump[s] # None =>
        /\ dump[s].whole
        /\ sha[s] \in {dump[s], None, Empty}
        /\ \A w \in Run : At(w) = s /\ run[w].pc \in Checked => sha[s] = dump[s]

\* "Retention removes only expired backup artifacts": once a run has been
\* completed there is a dump to restore, although later runs fail, overlap
\* and clean up after each other.
AlwaysRestorable ==
    (\E w \in Run : run[w].pc = "done") /\ shared = {} =>
        \E s \in Second : dump[s] # None /\ dump[s].whole
=============================================================================
