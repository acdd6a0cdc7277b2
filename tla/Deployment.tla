----------------------------- MODULE Deployment -----------------------------
(***************************************************************************)
(* Production deployments and rollbacks, which share the backup directory  *)
(* with the backup process: a deployment backs the database up, migrates   *)
(* it, recreates the services and tests them; if the test fails it rolls   *)
(* the image back.  The scripts stop at the first command that fails, and  *)
(* nothing keeps two of them from running at the same time.                *)
(***************************************************************************)
EXTENDS Backups

CONSTANTS
    Deploy,     \* deployments and rollbacks; what one backs up is the run of its name
    Tag,        \* image tags
    ImageOf,    \* ImageOf[d]: PRODUCTION_IMAGE of d
    TagOf,      \* TagOf[d]: PRODUCTION_IMAGE_TAG of d
    SchemaOf    \* SchemaOf[t]: the schema the image of tag t migrates to

Release == [image : {ImageOf[d] : d \in Deploy}, tag : Tag]

ASSUME DeploymentAssumption ==
    /\ Deploy \subseteq Run
    /\ TagOf \in [Deploy -> Tag]
    /\ SchemaOf \in [Tag -> Nat]
    /\ None \notin Tag \cup Release

VARIABLES
    deploy,     \* deploy[d]: the script
    recorded,   \* the release in the state file
    running,    \* releases the services run
    passed,     \* history: releases that ran alone when a test passed
    overlapped  \* history: two scripts have run at the same time

scripts == <<deploy, recorded, running, passed, overlapped>>
backups == <<now, schema, tmp, dump, sha, meta, run, used, shared>>
vars    == <<now, schema, tmp, dump, sha, meta, run, used, shared,
             deploy, recorded, running, passed, overlapped>>

-----------------------------------------------------------------------------
TypeOK ==
    /\ BackupsTypeOK
    /\ deploy \in [Deploy -> [pc : {"idle", "backup", "up", "smoke", "record",
                                    "done", "restored", "failed"},
                              tag      : Tag \cup {None},   \* what it brings up
                              previous : Tag \cup {None},   \* as recorded before
                              rolling  : BOOLEAN]]          \* in production-rollback.sh
    /\ recorded # None => recorded \in Release
    /\ running \subseteq Release /\ passed \subseteq Release
    /\ overlapped \in BOOLEAN
    /\ \A d \in Deploy : run[d].pc # "idle" => deploy[d].pc # "idle"

Init ==
    /\ BackupsInit
    /\ deploy = [d \in Deploy |-> [pc |-> "idle", tag |-> None, previous |-> None, rolling |-> FALSE]]
    /\ recorded = None
    /\ running = {}
    /\ passed = {}
    /\ overlapped = FALSE

-----------------------------------------------------------------------------
(* Helpers.                                                                *)

Over(d) == deploy[d].pc \in {"idle", "done", "restored", "failed"}

\* With the image of the script itself, whatever tag it brings up.
ReleaseOf(d) == [image |-> ImageOf[d], tag |-> deploy[d].tag]

Enter(d, pc, tag, previous, rolling) ==
    /\ deploy[d].pc = "idle"
    /\ deploy' = [deploy EXCEPT ![d] = [pc |-> pc, tag |-> tag, previous |-> previous,
                                        rolling |-> rolling]]
    /\ overlapped' = (overlapped \/ \E e \in Deploy : ~Over(e))
    /\ UNCHANGED <<backups, recorded, running, passed>>

\* The script ends; its variables go with it.
Exit(d, pc) == deploy' = [deploy EXCEPT ![d] = [@ EXCEPT !.pc = pc, !.tag = None, !.previous = None,
                                                       !.rolling = FALSE]]

-----------------------------------------------------------------------------
(* production-deploy.sh; pulling the images changes nothing here.          *)

BeginDeploy(d) ==
    Enter(d, "backup", TagOf[d], IF recorded = None THEN None ELSE recorded.tag, FALSE)

BackUp(d) ==
    /\ deploy[d].pc = "backup"
    /\ Begin(d)
    /\ UNCHANGED scripts

\* Variants, no part of the specification: migrations that do not wait for
\* the backup; services that were not all recreated, and a failed test, that
\* go unnoticed.
MigrateFirst(d) ==
    /\ deploy[d].pc = "backup"
    /\ schema <= SchemaOf[deploy[d].tag]
    /\ schema' = SchemaOf[deploy[d].tag]
    /\ deploy' = [deploy EXCEPT ![d].pc = "up"]
    /\ UNCHANGED <<now, files, run, used, shared, recorded, running, passed, overlapped>>

UpUnnoticed(d) ==
    /\ deploy[d].pc = "up"
    /\ running' = running \cup {ReleaseOf(d)}
    /\ deploy' = [deploy EXCEPT ![d].pc = "smoke"]
    /\ UNCHANGED <<backups, recorded, passed, overlapped>>

RecordAlways(d) ==
    /\ deploy[d].pc \in {"smoke", "record"}
    /\ recorded' = ReleaseOf(d)
    /\ Exit(d, IF deploy[d].rolling THEN "restored" ELSE "done")
    /\ UNCHANGED <<backups, running, passed, overlapped>>

\* alembic upgrade head, which fails at a schema that the image does not know.
Migrate(d) ==
    /\ deploy[d].pc = "backup" /\ run[d].pc = "done"
    /\ schema <= SchemaOf[deploy[d].tag]
    /\ schema' = SchemaOf[deploy[d].tag]
    /\ deploy' = [deploy EXCEPT ![d].pc = "up"]
    /\ UNCHANGED <<now, files, run, used, shared, recorded, running, passed, overlapped>>

\* The services are recreated, ...
Up(d) ==
    /\ deploy[d].pc = "up"
    /\ running' = {ReleaseOf(d)}
    /\ deploy' = [deploy EXCEPT ![d].pc = "smoke"]
    /\ UNCHANGED <<backups, recorded, passed, overlapped>>

\* ... or some of them.
UpFails(d) ==
    /\ deploy[d].pc = "up"
    /\ running' = running \cup {ReleaseOf(d)}
    /\ Exit(d, "failed")
    /\ UNCHANGED <<backups, recorded, passed, overlapped>>

SmokePasses(d) ==
    /\ deploy[d].pc = "smoke"
    /\ deploy' = [deploy EXCEPT ![d].pc = "record"]
    /\ passed' = IF \E r \in Release : running = {r} THEN passed \cup running ELSE passed
    /\ UNCHANGED <<backups, recorded, running, overlapped>>

\* production-rollback.sh is called with the recorded tag and, as it is
\* exported, the image of the deployment.
SmokeFails(d) ==
    /\ deploy[d].pc = "smoke"
    /\ IF deploy[d].previous # None /\ ~deploy[d].rolling
       THEN deploy' = [deploy EXCEPT ![d].pc = "up", ![d].tag = deploy[d].previous,
                                     ![d].rolling = TRUE]
       ELSE Exit(d, "failed")
    /\ UNCHANGED <<backups, recorded, running, passed, overlapped>>

\* The redirection truncates the state file before it is written; that nobody
\* reads it in between, and no script stops there, is an abstraction: the file
\* would offer no release then, of which no property says anything.
Record(d) ==
    /\ deploy[d].pc = "record"
    /\ recorded' = ReleaseOf(d)
    /\ Exit(d, IF deploy[d].rolling THEN "restored" ELSE "done")
    /\ UNCHANGED <<backups, running, passed, overlapped>>

\* production-rollback.sh, called for any tag.
BeginRollback(d) == \E t \in Tag : Enter(d, "up", t, None, TRUE)

\* Any other command fails, or the script is interrupted.
Stop(d) ==
    /\ ~Over(d)
    /\ Exit(d, "failed")
    /\ UNCHANGED <<backups, recorded, running, passed, overlapped>>

Next ==
    \/ \E w \in Run : (BackupStep(w) \/ Fail(w)) /\ UNCHANGED scripts
    \/ \E w \in Run \ Deploy : Begin(w) /\ UNCHANGED scripts
    \/ \E d \in Deploy :
         \/ BeginDeploy(d) \/ BackUp(d) \/ Migrate(d) \/ Up(d) \/ UpFails(d)
         \/ SmokePasses(d) \/ SmokeFails(d) \/ Record(d) \/ BeginRollback(d) \/ Stop(d)
    \/ Tick /\ UNCHANGED scripts

Spec == Init /\ [][Next]_vars

-----------------------------------------------------------------------------
(* Properties.                                                             *)

\* specs/017: "A database backup runs before migrations": whatever schema is
\* migrated, a complete dump of it is there, unless deployments overlapped,
\* runs shared a second, or the script stood still until the dump expired.
MigratedAfterBackup ==
    [][schema' # schema =>
         \/ overlapped \/ shared # {}
         \/ \E s \in Second : dump[s] # None /\ dump[s].whole /\ dump[s].schema = schema
         \/ \E d \in Deploy : deploy[d].pc = "backup" /\ now - At(d) > Retention]_vars

\* What the state file offers for a rollback has passed a smoke test.
RecordedHasPassed == recorded # None => recorded \in passed \/ overlapped

\* When every script has succeeded or restored the image, the services run
\* what the state file says, all of them.
SettledIsRecorded ==
    /\ \A d \in Deploy : deploy[d].pc \in {"idle", "done", "restored"}
    /\ ~overlapped
    => running = IF recorded = None THEN {} ELSE {recorded}
=============================================================================
