# A TLA+ model of Job Radar

Job Radar collects job postings from the career sites of companies, merges them
into a catalog, matches them against the preferences of its users and notifies
these. It is a FastAPI service with PostgreSQL and Redis, a scheduler process,
Celery workers and a backup process. This directory holds TLA+ modules that model
its components, the configurations with which TLC checks them, and proofs
checked by TLAPS.

Everything below refers to the code under `src/app/` unless a path starts with
`src/`.

## 1. Inventory

### Processes

| process | started by | concurrency |
|---|---|---|
| API | `processes/api.py`, uvicorn | requests interleave at every `await`; several processes in production |
| scheduler | `processes/scheduler.py` | one in the compose file, no restart policy (`src/docker-compose.yml:60`) |
| worker | Celery, `--concurrency=2` | child processes, one task each, acknowledged late |
| backup | `processes/backup.py` | a loop of its own; deployments run `backup_once` as well |
| deployment | GitHub workflows over SSH | scripts of one server, which nothing keeps from overlapping |

The first four share PostgreSQL (each statement of a session is a step; the isolation
level is READ COMMITTED), Redis (ingestion locks, rate limits) and Celery's
queue, which is in Redis as well. No state is shared in memory. Backups and
deployments share a directory, the database's schema and the containers.

### Components

| component | state | operations | what makes it hard |
|---|---|---|---|
| Ingestion runs (`domain/jobs/ingestion_service.py`, `repositories/sources.py`, `workers/`) | rows of `ingestion_runs`, the key `ingestion:source:{id}`, Celery messages | `start_run`, `create_run`, `delay`, `execute_run`, `finish_run` | five processes, a lock that expires, late acknowledgement, retries, redelivery, failures of every call, deletion in between |
| Scheduler (`processes/scheduler.py`, `scheduler/service.py`) | none of its own | `schedule_due_sources`, `is_due` | an exception ends the process |
| Preference profiles (`domain/preferences/`, `repositories/preferences.py`) | `preference_profiles`, `users` | `update` (v1 and v2), `get_active` | concurrent updates, unique indexes, deletion of the user |
| User deletion (`domain/preferences/deletion_service.py`) | cascades to nearly every table | `delete_user` | races with everything a user's row is referred to by |
| Job catalog (`repositories/jobs.py`, `domain/jobs/normalizer.py`) | `jobs`, `job_source_records` | `find_existing`, `upsert` | check-then-insert without a constraint; merging; retried pages |
| Adapters (`ingestion/`) | list of fetched records | `fetch`, `get_json`, `with_retries` | partial failure |
| Matching (`domain/matching/`, `matching/rule_engine.py`) | `match_results` | `match_job`, `evaluate` | job and profile change between the reads |
| Queries and feedback (`domain/jobs/query_service.py`, `repositories/job_query.py`) | `job_feedback` | `list`, `get`, `feedback` | check-then-insert; updates of changed columns only |
| Notifications (`domain/notifications/`, `workers/notifications.py`) | `notification_deliveries` | `deliver`, `get_or_create` | send before commit, unknown outcome |
| Accounts, codes (`domain/auth/service.py`, `api/v1/auth.py`) | `users`, `roles`, `user_roles`, `verification_codes` | `register`, `authenticate`, `issue_code`, `verify_email`, `reset_password` | counters and codes read and written in two steps; commits in the middle |
| Tokens, sessions (`domain/auth/service.py`, `repositories/auth.py`) | `refresh_tokens`, `auth_sessions` | `issue_tokens`, `refresh`, `logout`, `revoke_*` | rotation and revocation under concurrency; lock order |
| Rate limiter (`observability/rate_limit.py`) | Redis counters | `check` | two commands, window boundary, Redis failing |
| Audit log (`domain/audit/service.py`, `repositories/audit.py`) | `audit_events`, archive files | `record`, `search`, `apply_retention` | archive, then delete; offset pages |
| Backups (`backup/service.py`) | files | `backup_once`, `cleanup`, `verify`, `restore` | crash between files, retention, several runs |
| Deployment (`src/scripts/`, `src/.github/workflows/`) | containers, state file, schema | deploy, rollback | partial failure, overlap |
| Database sessions (`db.py`, `errors/database.py`) | transactions | commit, flush, refresh, rollback | which error is retried |
| Observability, configuration, handlers | — | — | no protocol state |

### What makes them correct

* A run that was started is carried by somebody until it is finished; a source's
  runs do not overlap; results are stored once.
* A user's profiles are a gapless, append-only history with the latest version
  active; nobody waits for ever.
* One job per posting; what a run has fetched is stored; a merge takes nothing from
  another source.
* A notification is sent once for a profile, and for no content that it excludes;
  the latest feedback is the one stored.
* A refresh token is used up before its successor exists; what is answered as
  revoked is; a revoked session keeps no token.
* Failures are counted and lock an account; a code is used once; an account has
  its role; the audit trail reports what was committed.
* No more requests of a window are allowed than its limit, and none is refused
  below it for requests of its own kind.
* What audit retention deletes has been archived; a reader of pages misses nothing.
* What is published as a backup is a complete dump, and one to restore is
  always there; a migration follows a backup; the state file names a release
  that works and is the one that runs.

`PROJECT.json` lists the hazards behind these at their lines.

## 2. Modules

| module | what it is |
|---|---|
| `IngestionRuns` | ingestion runs from request or scheduler through Celery to the stored result |
| `SourceRuns` | abstract: the runs of a source follow one another |
| `PreferenceProfiles` | profile updates and user deletions as transactions |
| `VersionedProfile` | abstract: a gapless history whose newest version is current |
| `JobCatalog` | pages, retries and upserts of the records a run fetches |
| `RuleEngine` | the score of a job as operators on sets of terms |
| `JobActions` (extends `RuleEngine`) | matches, feedback and deliveries on a job that changes |
| `AuthTokens` | refresh tokens and sessions as transactions with row locks |
| `Accounts` | registration, lockout, verification codes and their audit events |
| `RateLimiter` | the fixed-window counter in Redis |
| `AuditLog` | recording, reading and archiving of audit events |
| `Backups` | the files of backup runs |
| `Deployment` (extends `Backups`) | deployments and rollbacks beside the backup process |
| `MC...` | instances for TLC |
| `..._proofs` | theorems, see section 4 |

Definitions whose comment calls them variants belong to no specification. Each
replaces one definition in a trial run that has to find the property named for it in
`PROJECT.json` violated, as evidence that the property depends on the code.

Variables marked as history record what happened for the properties; no action
that models code reads them.

### IngestionRuns

| variable | in the code |
|---|---|
| `source[s]` | the row of `sources`; `"deleted"` is remembered because primary keys do not come back |
| `status[r]` | the status column of the run, `"absent"` before and `"deleted"` after its row |
| `lock[s]` | the Redis key `ingestion:source:{s}` |
| `caller[c]` | a request or the scheduler between two awaits of `start_run` and `delay` |
| `todo[p]` | the rest of the list that `schedule_due_sources` has read |
| `queue[r][k]` | messages for the run, by retry number |
| `worker[w]` | a worker child: where it is in `_run_ingestion` and `execute_run`, with `request.retries`, the outcome to be stored, whether its exception is retried, and whether the broker still waits for its acknowledgement |
| `abandoned`, `faults` | history: runs some step gave up on; number of external faults |

One SQL statement (or flush with its commit), one Redis command and one broker
call is one action. `Request` and `Look` are `start_run` up to `get_active_run`;
`TakeLock` is the `SET NX EX` that only the scheduler's service executes, since
`get_ingestion_service` (`dependencies/sources.py:16`) passes no Redis;
`CreateRun` commits the row; `Dispatch` is `delay`. `Load`, `Fetch`, `Store`,
`ReleaseLock` are the steps of `execute_run`, `Unexpected` is every exception
that its `except AdapterError` does not catch, and `Ack`, `Retry`,
`RetriesExhausted` are what Celery does afterwards under `task_acks_late`,
`autoretry_for` and `max_retries`. A fault (`LookFails` ... `Redeliver`) is a
dead process or a call without an answer, whose effect may or may not have
taken place; `WorkerLost` returns the message because of
`task_reject_on_worker_lost`, `Redeliver` is the visibility timeout of Redis as
a broker. `DeleteUser` cascades to sources and runs and leaves Redis alone.

Abstracted: counters and summaries of a run, the records it stores, the
provider, the contents of messages. `Unexpected` may happen in any run, because
whether it does depends on the provider's data.

### PreferenceProfiles

`tokenRequired` is the setting `auth_require_token`, chosen once: with it a user comes
from a bearer token, without it `X-User-ID` names one, who is created if absent.
`profile[c]` is the row that request `c` inserts (a request inserts at most
one), `txn[c]` the open transaction of a process: the version it is going to
insert, the active row its UPDATE has found (`target`), the row it has
deactivated and thereby locked (`held`), whether it has inserted the user.
`users` holds the committed users.

The actions are the statements of `PreferenceService.update`, which
`V2PreferenceService.update` repeats: `ensure_user` (`FindUser`, `AddUser`),
`get_latest_version` (`ReadVersion`), `deactivate_active` (`FindActive` takes
the snapshot, `LockRow` waits for the row's holder and looks at the row again,
as PostgreSQL does at READ COMMITTED), the INSERT (`Insert` with the unique
indexes, `Reference` with the foreign key), the COMMIT, and `refresh_session`.
A request with a token has loaded its user into the same session, whose identity
map answers `ensure_user`; hence `Authenticate` goes straight to the version.
`DELETE /users/me` locks the user's row and cascades. `BreakDeadlock` is
PostgreSQL's deadlock detector, `Abort` a lost connection or process,
`CommitUnanswered` a commit whose answer is lost.

The unique index on active profiles exists in the migration
(`src/alembic/versions/20260909_001_preferences.py:51`), not in the ORM model.

### JobCatalog

An execution is one call of `execute_run`, and any of them may overlap: the runs of
several sources do, those of one source as `IngestionRuns` says. `jobs[j]` is a row
of `jobs`, `records` the rows of `job_source_records` (every upsert adds one;
rows that agree in job, source and external id count once), `fetched[x]` the list
that `collect` fills, and `exec[x]` the rest of the execution: attempt, page,
`malformed_count`, the record it is at, and the job object its session holds.

`ReadPage`, `RetryFetch`, `FailFetch` and `EndFetch` are `fetch` under
`with_retries`, `FindBySource` and `FindByUrl` the two SELECTs of
`find_existing`, `Write` the flush and the commit of `upsert`, `Refresh` its
refresh, `Finish` `finish_run`. The loop of `execute_run` keeps the job of the
last upsert alive (`_`), and the session does not expire on commit; a SELECT that
returns this job answers with the attributes of the object (`seen`, `loaded`), not
with those of the row. `Merge` compares and writes accordingly. `Break` is a dead
worker or an exception, `BreakAfterCommit` the same after the commit,
`RefuseWrite` the foreign key of a deleted source.

`raced` is history: the identities of a source, URLs of a company and jobs that two
executions have had in hand at the same time (`InHand`: from the first SELECT to the
commit the identity, from the second SELECT the URL of a job about to be inserted, and
always the job object of the session). It says exactly where the check and the insert
of `upsert` are not atomic.

A posting is a record of external id, URL, title and description; two
descriptions are equal if their hashes are. A missing URL is the `""` that the adapters
put there, one value of `Url` among the others. Counters of created, updated and duplicate
jobs are left out, the count of fetched ones is the length of the list.

### JobActions and RuleEngine

There is one job, `job` its row, `had` the contents it has had (history), and one channel. `profiles` and `active` are the
rows that `PreferenceProfiles` looks at in detail; here saving a profile and deleting a
user are atomic. `match[r]` is the row that request `r` stored, reduced to
profile and decision, `feedback[u]` and `delivery[p]` the rows under their unique
constraints, `req[r]` what a request has read and holds across an `await`.

`BeginMatch`, `ReadJob`, `ReadProfile` and `SaveMatch` are `match_job`; its score is
`RuleEngine!Evaluate`, where a text is the set of terms that occur in it.
`ReadFeedback` and `UpdateFeedback` or `InsertFeedback` are `feedback`: the object-relational
mapper writes the columns that differ from what was read, so two requests that overlap can
leave the label of one and the note of the other. `BeginDeliver` to `RecordDelivery`
are `deliver`, which nothing in the program calls yet: any match may be delivered, at any time and
more than once. `Send` chooses whether the message has reached the provider and,
independently, how the provider's answer is classified; an answer without
status code, a timeout for instance, is `failed` and not `retryable`.
`UpdateJob` is ingestion, which stores another content only under another
`description_hash`.

### AuthTokens

`db` holds the committed state of every row of `users`, `auth_sessions` and
`refresh_tokens`. A request issues at most one session and one token, which
bear its name; `req[r]` is its transaction: the token it presents, the session
it is about, the rows an UPDATE has found and must still lock (`targets`) and
those it has changed (`held`).

An UPDATE finds the rows of its snapshot, then takes them one after the other in
any order (`LockRow`), waits for a holder, and looks at each again. `Rotate` is an
UPDATE with its commit (`revoke_tokens`, before `issue_tokens`); `Issue` is
`issue_tokens`. `RevokeFamily`, `FindSession` are `logout`; `RevokeSession` and
`RevokeOthers` begin what `UpdateTokens` and `Commit` finish; `Reset` is
`reset_password` from the new password on; `DeleteUser` and `Cascade` are
`DELETE /users/me`. The family of a token is the token, because `issue_tokens`
draws a new `family_id` for each one. A token without session (from a time
without session management) is not matched by `session_id != current`, which is
NULL for it. Signatures, hashes and access tokens are left out: a request has a
live session or not.

### Accounts

`acct[u]` is a row of `users` with the columns that authentication uses,
`roles` and `member` are rows of `roles` and `user_roles`, `code[r]` the code
that request `r` has issued. A request is one of six operations of
`api/v1/auth.py`, followed by its audit event in a transaction of its own.

`Register`, `InsertUser`, `FindRole`, `CreateRole`, `AssignRole` are `register`:
the flush of the account waits for another one of the same address, and
`create_role` commits it together with the role, before `assign_role`.
`CheckPassword` reads the row, `Refuse` and `Accept` write back what was
computed from it. `PresentCode` reads a code, `ConsumeCode` consumes it in one
commit with its effect. What the tokens of a login or the revocations of a
reset do is `AuthTokens`.

### RateLimiter

`counter[<<k, b>>]` is the Redis key of caller and window, `expiry` its time to live,
`req[r]` a request between its two commands. `Arrive` reads the clock and so
fixes the window; `Incr` and `Expire` are the commands; `IncrFails` and
`ExpireFails` a `RedisError` after which the command has or has not been carried out; `Tick`
removes what has expired, `LoseMemory` is a restart of Redis without
persistence. One counter serves both limits of a caller, as in the code
(`_identity_key` says nothing of the path).

### AuditLog

`event[e]` is an event whose `created_at` is the begin of its transaction;
events are numbered in the order of their identifiers, the second sort key.
`Open`, `Store`, `Lose` are `record`; `ReadPage` is
`search_audit_events` with growing offsets; `BeginSweep` to `Delete` are
`apply_retention`: a SELECT, the lines of the archive one by one, the DELETE
with the same condition. `WriteHalf` is a buffer that is written when it is full, in
the middle of a line; `unfinished[d]` says whose line the file of day `d` ends
in, `copies[e]` how many intact lines an event has. The archive is modelled as
switched on (`audit_archive_enabled`; it is off by default, and then deletion
has nothing to follow). The unit of time is a day.

### Backups and Deployment

Files are named after the second in which a run begins: `tmp[s]`, `dump[s]`,
`sha[s]` and `meta` are the four files of second `s`. A dump knows its writers,
whether it is complete, its modification time and the schema it contains.
`Begin` to `WriteMetadata` are the steps of `backup_once`, one per command or
file, two for the checksum, which `write_text` creates (`CreateChecksum`) before it writes it
(`WriteChecksum`), `Scan` to `RemoveSidecars` those of `cleanup_backups`, `Fail` a command
with an error, a missing file, or the end of the process. `verify_backup` and
`restore_backup` change no file.

`deploy[d]` is `production-deploy.sh` or `production-rollback.sh`. `BackUp` starts
the backup run of its name, and `Migrate` waits for its end; `Up` recreates the
services, `UpFails` some of them; `SmokeFails` calls the rollback with
the recorded tag; `Record` writes the state file in one step, although the redirection truncates
it first (a script that stops in between leaves it without a release, of which no property speaks). A failed test during a rollback, and any other
failing command, stops the script (`set -e`) and restores nothing.

## 3. Runs

`CHECK_DEADLOCK FALSE` is set everywhere: all runs, requests and days are finite in
number, and the system may stop when they are used up.

| run | instance | checked | result |
|---|---|---|---|
| `runs_faults` | 1 source, 1 run, 1 request, 1 scheduler, 2 workers, 1 retry, 3 faults, locks may expire in use, fair processes | `TypeOK`, `NothingLost`, `CommittedBeforeDispatch`, `FinishedOnce`, `FlightEnds` | hold |
| `runs_exclusive` | `LockedSpec`: 1 source, 3 runs, 2 schedulers, 2 workers, 1 retry, 3 faults | `SingleFlight`, `ImplementsSourceRuns` | hold |
| `runs_end` | 1 source, 1 run, 1 request, 1 worker, no fault, fair processes | `EveryRunEnds` | violated |
| `profiles` | `FairLastingSpec`: 3 updates and, with bearer tokens, 2 deletions of one user, who may not exist yet | `TypeOK`, `LatestIsActive`, `EveryRequestAnswered`, `ImplementsVersionedProfile` | hold |
| `catalog` | 2 sources of one company, an execution of each, which overlap, 2 pages, 2 attempts, edited postings and malformed entries, fair executions | `OneJobPerUrl`, `TextIsLatest`, `OneJobPerIdentity`, `FinishedIsStored`, `ProvenanceKept`, `ExecutionEnds` | hold |
| `tokens_races` | 4 requests of one user, one of them an earlier login, fair | `RotatedBeforeIssue`, `AnsweredIsRevoked`, `RevokedSessionHasNoToken`, `RequestsEnd` | hold |
| `tokens_reuse` | 3 requests | `ReuseRevokesFamily` | violated |
| `accounts` | 3 requests, 2 addresses, 2 roles, 2 attempts, 1 unit of lock and of code life | `LockedOnlyAfterFailures`, `CounterIsStreak`, `CodeUsedOnce`, `AccountHasRole`, `SuccessIsCommitted` | hold |
| `limiter` | 4 requests of one caller, limits 1 and 2, 2 windows of 2 seconds, 1 loss of memory | `WithinLimit`, `ExpiresUnlessBroken`, `RefusedIsFull` | hold |
| `job_actions` | 3 requests, 2 profiles, 2 contents, 2 labels, 2 notes | `SentOnce`, `ExclusionsAbsolute`, `FeedbackIsLast` | hold |
| `audit_log` | 3 events, 2 retention runs, pages of 1, 5 days | `DeletedIsArchived`, `ArchivedOnce`, `PagesMissNothing` | hold |
| `deployments` | 2 scripts, 1 run of the backup process, 2 tags with different schemas, 3 seconds | `PublishedIsWhole`, `AlwaysRestorable`, `RecordedHasPassed`, `SettledIsRecorded`, `MigratedAfterBackup` | hold |

Two runs state disagreements with a document. `tokens_reuse`:
`src/specs/010-authentication-authorisation/spec.md:32` promises that reuse of a rotated token
revokes its complete family, but every token is a family of its own, so its successor stays
usable. `runs_end`: `src/specs/003-ingestion/spec.md:16` says that every run ends as succeeded, partial or
failed, but after an exception that `execute_run` does not handle and Celery does not retry the
row stays `running`, even without any fault of the surroundings.

### Bounds

Two workers are the least with which a duplicated message can meet its
original and a late retry; three faults allow a fault during the recovery from
another, and an exhausted retry beside a lost worker. `NothingLost`, `FlightEnds` and
`FinishedOnce` speak about each run by itself, so `runs_faults` has one run;
what runs of a source do to each other is in `runs_exclusive`. That sources do
not interfere is left to the proof of `LockExcludes`. One retry distinguishes
first, repeated and exhausted; the code's three add no new case. For profiles,
two updates race for a version while a third changes what they have read, and
two deletions wait for each other. The three postings of the catalog are a job, the
same URL under another id with another description, and the same id with another URL; no run
exhausts the primary keys.

For tokens, three requests beside a login make every ring of locks that logouts,
revocations and a deletion can form, and a refresh between any two of
them. Two attempts and three logins tell first, last and overwritten
failure apart; a registration of a second address has two roles of which
the first may exist already. Four requests exceed both limits once, while a counter expires and Redis
loses its memory. Of the two contents of the job, the second profile excludes one and not the
other, and the job may begin with either: it comes to be excluded, or ceases to be, between any two steps
of a match and its delivery. The first profile excludes nothing and asks for a score that only one of
the contents reaches. The third request overlaps the retry of the second.
Five days leave time for an event to be recorded late, to expire, and for a second retention run to
meet it. Three seconds give three backups of different ages with a retention of one, so that
the first expires while a later run publishes.

`deployments` has the constraint `OneRunASecond`: runs that begin in the same second use
the same names, and PostgreSQL's dumps spoil each other; the properties exclude that case (`shared`),
and the run does not explore what follows. The theorems have no such constraint: `PublishedIsWhole`, in
particular, is proved for the seconds that are not shared, whatever happens in the others.

Symmetry is used where no liveness is checked: runs, workers and schedulers in
`runs_exclusive` (`SourceRuns` has no fairness), requests in `limiter` and `job_actions`, retention runs in `audit_log`. The proofs remove all of these
bounds for the properties they cover.

### Fairness

`IngestionRuns!Fairness` is weak fairness of each request, scheduler
and worker: none of them waits for another process, since a busy lock makes
`start_run` raise and not wait. Nothing is assumed of users, of deletions, of
faults, or of the operator who would restart a scheduler. In
`PreferenceProfiles` a transaction may wait for a lock; weak fairness says that
it goes on once nobody blocks it, and that PostgreSQL resolves deadlocks. In
`AuthTokens` it is enough that some transaction which can go on does, or some
deadlock is resolved: each request takes a bounded number of steps. In
`JobCatalog` an execution takes its next step unless it breaks: requests to
providers have a timeout of 30 seconds, and nothing there waits for others. The other
modules state no fairness: their operations never wait for each other, and what they promise is safety.

### Limits of what is shown

`SingleFlight` and `ImplementsSourceRuns` hold when every run is started under the
lock (requests take none), ends within its 900 seconds, and is not executed again
without it. `LockedSpec` leaves out the three faults that do the last: the
database fails while the result is stored (the `finally` deletes the key before the
retry), the worker dies after that `finally` (the message comes back without the
key), and Redis redelivers the message of a run under way (two workers have it, and
the first deletes the key of the second). With any one of the three back, TLC finds two runs of
a source in flight. All other faults may happen: dead or failing
starters, a failing load or release, a worker lost before its release.
`NothingLost` and `FlightEnds` speak about runs nobody gave up on; the steps
that give up (`Unexpected`, `LoadFails` with an error that `autoretry_for` does not list,
`RetriesExhausted`, `ReleaseFails`, a caller that dies between commit and `delay`) leave a row
that stays `running`, against the specification: that is `EveryRunEnds` and its run `runs_end`.
`LatestIsActive` and the refinement of `VersionedProfile` assume that a deleted
user's key does not come back (`LastingSpec`: bearer tokens, or no deletions). With `auth_require_token` off it can, through
`ensure_user`: a request that has read version n of the erased history may then
insert n + 1 after version 1.

Nothing keeps the executions for a company, or those of a source, apart, and an overlap can
create a posting twice or leave an old description: when two executions look for the same identity,
are about to insert a job with the same URL, or hold the same job, at the same time. `OneJobPerIdentity`,
`OneJobPerUrl` and `TextIsLatest` except just the identities, URLs and jobs for which that has happened
(`raced`), and hold for all others, whatever else overlaps.

`RefusedIsFull` excepts callers that have made requests of both kinds in a window. These share a counter,
so that general requests can have a login refused below the limit for authentication, and the other way
round, against `src/specs/020-rate-limiting/spec.md:11` ("lower, independent limit") and `qa.md:26`. `ExclusionsAbsolute` is about the contents the job has
had until the notification: `deliver` does not evaluate again, so a job that comes to be excluded after its match is
still notified, against `src/specs/005-matching/spec.md:23` ("Excluded frontend/support/PHP roles are not notified").
`PublishedIsWhole` allows a checksum file that is empty: a run that fails between creating and
writing it leaves one, for which `verify_backup` raises (`backup/service.py:100`), while it accepts a dump without checksum.

Several properties name the cases in which the code gives no guarantee: a token in
`late`, a pair in `together`, a profile in `excused`, a retention run that was
`disturbed`, scripts that `overlapped`, what was `raced` for. They are what the properties say about
the code: outside these cases the promise holds. They do not catch the hazard itself in these cases, as
the notes in the list of hazards say of each.

`BackupsAssumption` has a retention of at least 0 days, which `config.py:29` does not enforce: with
a negative one a run would remove the dump it has just published.

`TypeOK` (`AuditTypeOK`, `BackupsTypeOK`) is checked where it stands in a run, and proved for every
module of a component. The names of `AuditLog` differ from those of `Deployment` because
`Operations_proofs` extends both.

## 4. Proofs

| theorem | says | assumes |
|---|---|---|
| `TypeCorrect` | `Spec => []TypeOK` | `ConstantsAssumption` |
| `NoRunIsLost` | `Spec => []NothingLost`, of runs no step gave up on | — |
| `RowsPrecedeMessages` | `Spec => []CommittedBeforeDispatch` | — |
| `ResultsStoredOnce` | `Spec => FinishedOnce` | — |
| `ResultsAreFinal` | `LockedSpec` changes no stored result but by deletion | no fault repeats a run without its lock |
| `LockExcludes` | `LockOnly /\ LockedSpec => []SingleFlight` | the same; no requests, no run outlives the lock |
| `RunsFollowOneAnother` | `LockOnly /\ LockedSpec => ImplementsSourceRuns` | the same |
| `ProfilesTypeCorrect` | `Spec => []TypeOK` | `ProfilesAssumption` |
| `OneLatestActive` | `LastingSpec => []LatestIsActive` | tokens required, or no deletions |
| `VersionsHaveNoGap` | the versions of a user are 1 to n | the same |
| `ProfilesAreHistories` | `LastingSpec => ImplementsVersionedProfile` | the same |
| `CatalogTypeCorrect` | `Spec => []TypeOK` | `CatalogAssumption` |
| `MergesKeepProvenance` | `Spec => ProvenanceKept` | — |
| `FinishedRunsAreStored` | `Spec => []FinishedIsStored` | — |
| `IdentityHasOneJob` | `Spec => []OneJobPerIdentity` | — |
| `UrlHasOneJob` | `Spec => []OneJobPerUrl` | — |
| `LatestTextIsShown` | `Spec => []TextIsLatest` | — |
| `TokensTypeCorrect` | `Spec => []TypeOK`, where a row lives with its user | `TokensAssumption` |
| `RotationComesFirst` | `Spec => []RotatedBeforeIssue` | — |
| `AnswersHold` | `Spec => []AnsweredIsRevoked` | — |
| `RevocationIsComplete` | `Spec => []RevokedSessionHasNoToken` | — |
| `AccountsTypeCorrect` | `Spec => []TypeOK` | `AccountsAssumption` |
| `LocksAreEarned` | `Spec => []LockedOnlyAfterFailures` | — |
| `CountersAreStreaks` | `Spec => []CounterIsStreak` | — |
| `CodesAreUsedOnce` | `Spec => []CodeUsedOnce` | — |
| `AccountsHaveRoles` | `Spec => []AccountHasRole` | — |
| `SuccessesAreCommitted` | `Spec => []SuccessIsCommitted` | — |
| `LimiterTypeCorrect` | `Spec => []TypeOK` | `RateLimiterAssumption` |
| `LimitIsKept` | `Spec => []WithinLimit` | — |
| `RefusalsAreDue` | `Spec => []RefusedIsFull` | — |
| `CountersExpire` | `Spec => []ExpiresUnlessBroken` | — |
| `JobActionsTypeCorrect` | `Spec => []TypeOK` | `JobActionsAssumption` |
| `NotificationsAreSentOnce` | `Spec => []SentOnce` | — |
| `ExclusionsHold` | `Spec => []ExclusionsAbsolute` | — |
| `FeedbackIsKept` | `Spec => []FeedbackIsLast` | — |
| `AuditTypeCorrect` | `AuditSpec => []AuditTypeOK` | `AuditLogAssumption`: retention of a day or more, transactions that record are shorter |
| `DeletedEventsAreArchived` | `AuditSpec => []DeletedIsArchived` | the same |
| `EventsAreArchivedOnce` | `AuditSpec => []ArchivedOnce` | the same |
| `ReadersMissNothing` | `AuditSpec => []PagesMissNothing` | the same |
| `DeploymentTypeCorrect` | `Spec => []TypeOK`, of `Deployment` and `Backups` | `BackupsAssumption`, `DeploymentAssumption` |
| `PublishedDumpsAreWhole` | `Spec => []PublishedIsWhole` | — |
| `ADumpIsRestorable` | `Spec => []AlwaysRestorable` | — |
| `RecordedReleasesHavePassed` | `Spec => []RecordedHasPassed` | — |
| `SettledServicesAreRecorded` | `Spec => []SettledIsRecorded` | — |
| `MigrationsAreBackedUp` | `Spec => MigratedAfterBackup` | — |

All hold for any number of users, sources, requests, processes, retries and faults, and for any
limits, thresholds, roles, rules and lifetimes. An invariant that is to be proved is made
inductive by saying what the program counter of each process has established; each action's
effect is stated once as a lemma, and the steps of an invariant rest on these.

* *Runs.* `TypeInv` adds to `TypeOK` what the program counter of a process says
  about its other fields. `RunInv` adds the two invariants and that committed
  rows have a source; `NothingLost` is inductive with it, action by action: each
  step hands a run from its caller to the queue, from there to a worker, and from
  the worker back or to a final status.
* *Results.* `OneHand(r)` says that at most one of the following is going to execute r: its
  caller, one message, one worker; and none once r is finished, given up or about to be
  released. Counting them needs a sum over messages; it is replaced by pairwise exclusion.
  Under `LockedSpec` every step keeps it: a fault either lets go of the run (`DispatchFails`,
  `ReleaseFails`) or hands it on (`LoadFails`, `WorkerLost` while the worker is busy).
  Only a worker that has the run stores a result, so a stored one is final. Before the
  first fault every step is one of `LockedSpec`, which gives `FinishedOnce`.
* *Exclusion.* `Exclusive(s)` says that at most one of the following concerns a
  source: a scheduler between lock and `create_run`, a run in flight, a worker about
  to release; and if one does, the lock is set. With each run in one hand, the lock's user
  changes only from starter to run to releasing worker, and a step that only lets users
  go, or sets the lock, needs nothing else (`ExclusiveFrame`). Each source is treated by itself.
  The refinement maps the run's row and whether it was given up to `phase`: `CreateRun`
  begins a run, and so does a `CreateRunFails` that commits; the starter holds the lock, so no
  other run of the source is active. `Store` and the steps that give up end a run,
  `DeleteUser` deletes.
* *Profiles.* Versions have no gap, and a version a transaction has read has all
  its predecessors committed (`Predecessors`, unless the user is gone). A row
  that passes the unique index is therefore the next version, and from then on no
  other transaction of the user passes it (`SoleWriter`). `LockedRows` says that
  a deactivated row is active until its only holder commits. For the refinement,
  the versions below that of a committing transaction are a bijection onto the user's rows
  (`NextVersion`), so that the abstract history grows by its cardinality plus 1; a
  commit is `Accept`, a cascade `Erase`, and all other steps change neither a profile that is
  there nor its version.
* *Catalog.* `Progress` says of an execution that all records before the one it
  is at are recorded, as long as its source lives; other executions only add
  records, a deletion ends the condition. For the identities and URLs, `RaceInv` says what an
  execution in the middle of an upsert knows: what the SELECTs have told it (no record of this id,
  no job of this URL, or the job its session holds, as the database has it: `IdentityKnown`,
  `UrlIsFree`, `SessionIsFresh`) is still so,
  or another execution has had the same in hand and it is `raced`. Another execution can make
  it false only by a write, and had at that time in hand what it wrote, so the SELECT that came later
  of the two has recorded the race. Each step is a quiet one, a SELECT or a write
  (`Quiet`, `Finds`, `Writes`), and the invariant is shown for these three kinds.
* *Tokens.* Rows only go from none to live, revoked and deleted. `TokensInv` says that
  a row is locked by one transaction at most, and for each statement of a
  transaction which rows it must already have taken (`Taken` and its relatives):
  all of the snapshot that are not among its remaining targets. What another transaction does to the
  rows is stated once (`OthersKeep`), so that each invariant has to be shown only for
  the request that moves. A refresh that comes after the snapshot is the one case left, and is the
  set `late`.
* *Accounts.* `CountersEarned`: neither the counter of an account nor what a
  login has read of it exceeds the passwords refused so far, whoever overwrites whom.
  `ReadIsCurrent`: what a login has read is what the account holds, unless
  another one overlaps. A code that was accepted is consumed in the same commit and
  refused to all who begin later (`UsersTogether`). `ToAssign` says what a registration has still to
  assign, and that the account is committed with its first role or after having created it;
  when nothing is left, all roles are there (`RolesAssigned`).
* *Limiter.* `CounterIsEarned`: a counter is no higher than the requests it has
  counted. `GrantsWithinQuota`: what was allowed in a window is at most the limit for each
  memory Redis has lost, and what the present counter has granted, until the window ends.
  `CounterOutlivesWindow` says that a counter does not expire within its window. `SharedLimitUsed`
  says of a refused request that more requests of both kinds together were counted than its limit, whence
  `RefusedIsFull`.
* *Job actions.* `DeliveriesSingle`: a profile that is not excused has one delivery at a
  time, and what has been sent for it is recorded, about to be, or gone with its user.
  `NotifiesAdmitted`: a decision to notify was made of a content that the job has
  had and the profile's rules admit. `FeedbackOfAlone`: a request that is alone finds in the row what it has read.
* *Audit log.* A transaction that is open is recent (`OpenIsRecent`) and a cutoff is old
  (`CutoffIsOld`), so no event comes to be older than the cutoff between the SELECT and the
  DELETE; `WrittenOrToDo` says that what the DELETE will find has been written or is still to be.
  That an event has one copy at most rests on there being one run (`OneSweep`), whose todo list
  and copies divide what it selected (`OnceWritten`), and on lines that end (`LinesWhole`). For
  the reader, the offsets of the stored events have no gap (`OffsetsHaveNoGap`, a pigeonhole
  argument with the library's facts on injections), so an empty page means that nothing is
  behind it; no due event that is still there falls below the reader's offset, since recordings
  can only push it further on and deletions take what comes after it (`AheadOfReader`).
* *Backups.* `OwnFiles` says what is in the files of a run whose second nobody shares, at each
  of its steps: others touch them only to remove a dump that has expired. A dump is not written before its
  run begins (`DumpsAreTimely`), so a cleanup removes none of its own second or
  later; hence since a run has published there is a dump not older than its own
  (`NewerIsThere`), and with `PublishedIsWhole` it can be restored.
* *Deployments.* As long as none have overlapped, one script is under way (`OneScript`). What
  runs is what it has brought up, which has passed when it records it (`RunsItsRelease`); between scripts
  it is what is recorded, unless one failed (`RunsTheRecorded`). `BacksUpSchema` says of a
  deployment that its dump, temporary or published, holds the present schema until it has
  expired; only `Migrate` changes the schema, and finds it there.

Only model-checked: liveness (`FlightEnds`,
`EveryRequestAnswered`, `RequestsEnd`, `ExecutionEnds`), and `ReuseRevokesFamily` and `EveryRunEnds`, which the code violates. Liveness needs ENABLED, which is out of the provers' reach, as are the induction lemmas of
the library, which take an operator as a parameter.

## 5. What is left

### Not modelled

* The schema of preferences (`domain/preferences/schemas.py`) beyond the rules
  that the engine reads: validation of input, no state.
* The list of jobs (`repositories/job_query.py:24`): pages by offset over rows that
  change; the audit log has the same structure and is modelled with it.
* The latest match of a user, which `query_service` shows (`repositories/matching.py:17`).
* The text of notifications and the HTTP calls of the channels.
* `run_with_dead_letter` and `run_source_workflow`: no process calls them. Neither does any call
  `NotificationService.deliver` (only tests do), but it is what a caller is to use, and is modelled.
* Roles that an administrator creates or assigns by hand: single statements under a
  unique constraint.
* The cadence of the scheduler: since `last_success_at` is never written
  (`processes/scheduler.py:30`), every source is due at every poll, and that is what
  `IngestionRuns` does.
* Observability, configuration, error handlers, entry points: no state that a protocol depends on.

### Observations

The following came up in modelling. Except for the first and the third, which `tokens_reuse` and `runs_end` state, they are
consequences of the modelled actions, named in the properties or in the list of hazards.

* A token's successor survives the reuse of the token; a token without session survives the
  revocation of all other sessions; tokens issued while a session is being revoked stay
  usable (`late`).
* Two requests at the same time create two active runs, since requests take no lock
  (`dependencies/sources.py:17`; `src/specs/003-ingestion/spec.md:14`).
* A run that ends with any exception but `AdapterError` and those that are retried stays `running`
  (`domain/jobs/ingestion_service.py:102`; `workers/tasks/ingestion.py:21` lists no `PersistenceFailure`,
  which is what most database errors become), and every later start is then turned away. A message
  delivered again after completion executes the run again and overwrites its result.
* A source deleted under the scheduler's hands ends the scheduler (`processes/scheduler.py:34`).
* Overlapping runs of two sources create a posting twice (`repositories/jobs.py:31`); postings of a
  company without URL are merged; a retried fetch keeps the records of earlier pages twice, and
  `fetched` counts them; a new title is ignored unless the description changes with it.
* In local mode a deleted user comes back with the same key (`repositories/preferences.py:15`).
* Two concurrent first registrations conflict on the role they both create; `create_role`
  commits the account before it has the role. The failure counter is not reset when a lock
  expires. `auth_otp_resend_seconds` (`config.py:48`) is used nowhere.
* One counter serves both limits of the rate limiter, which `src/specs/020-rate-limiting/spec.md:11`
  calls independent; a failed `EXPIRE` leaves a counter for ever.
* `deliver` stores the errors of its provider, so that nothing above it would retry; an error
  without status code is final. The highest score of a job is 70, the default minimum for a
  notification 75: default preferences never notify.
* Feedback that overlaps may store the label of one input and the note of the other.
* The audit archive is off by default and not synchronised to disk; an export ends after 1000
  events; the total is counted by a statement of its own.
* Two backups in the same second write the same files; orphaned temporary files are
  never removed; a retention of 0 days is not refused.
* The rollback uses the image name of the deployment with the recorded tag; a failed
  `up` or migration stops without rollback; nothing keeps two deployments apart.

### Plan

1. `IngestionPipeline`: runs composed with the catalog, so that retries and
   redeliveries meet what they have stored before.
2. Job listing and latest matches over `JobActions`.
3. With the composition, the proof that runs which `LockExcludes` keeps apart race for no identity of
   their source.
