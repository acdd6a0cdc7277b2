------------------------------ MODULE Accounts ------------------------------
(***************************************************************************)
(* Accounts: concurrent registrations, password checks with lockout, and   *)
(* verification codes for e-mail addresses and password resets.            *)
(* AuthService reads a row, decides, and writes columns of it by its key,  *)
(* so that what another request has written in between is overwritten.     *)
(* A step is one statement, or several of which only one can be observed.  *)
(***************************************************************************)
EXTENDS Naturals, Sequences, FiniteSets

CONSTANTS
    User,           \* accounts, by e-mail address
    Request,        \* HTTP requests
    Naming,         \* how requests may name addresses: functions [Request -> User]
    May,            \* May[r]: what request r may be
    Before,         \* addresses that may have been registered before
    Role,
    RolesOf,        \* RolesOf[u]: roles that the registration of u assigns, in order
    Enabled,        \* feature flags that are on
    MaxAttempts,    \* auth_max_login_attempts
    LockFor,        \* auth_lockout_minutes
    CodeLife,       \* auth_otp_expire_minutes
    MaxNow          \* bound of the clock

Flag == {"lockout", "verification", "reset"}

Op == {"register", "login", "resend", "forgot", "verify", "reset"}

ASSUME AccountsAssumption ==
    /\ Naming \subseteq [Request -> User]
    /\ Before \subseteq User
    /\ May \in [Request -> SUBSET Op]
    /\ RolesOf \in [User -> Seq(Role)]
    /\ \A u \in User : RolesOf[u] # <<>>
    /\ Enabled \subseteq Flag
    /\ MaxAttempts \in Nat \ {0} /\ LockFor \in Nat \ {0} /\ CodeLife \in Nat /\ MaxNow \in Nat

VARIABLES
    UserOf,     \* UserOf[r]: the address that request r names, an input
    now,        \* the clock
    acct,       \* acct[u]: row of "users"
    roles,      \* rows of "roles"
    member,     \* rows of "user_roles"
    code,       \* code[r]: verification code issued by request r
    req,        \* req[r]: request r
    event,      \* event[r]: audit event that request r has recorded
    refused,    \* history: refused[u], passwords of u ever refused and counted
    streak,     \* history: streak[u], those since the last one accepted
    together    \* history: pairs of requests that were under way together

vars == <<UserOf, now, acct, roles, member, code, req, event, refused, streak, together>>
history == <<refused, streak>>

-----------------------------------------------------------------------------
Wanted(u) == {RolesOf[u][i] : i \in DOMAIN RolesOf[u]}

Purpose == {"verification", "reset"}

Answer == {"done", "failed"}

\* Before it is answered, a request has the outcome recorded.
Recording == {"record done", "record failed"}

Account == [status : {"none", "pending", "active"}, verified : BOOLEAN,
            failed : Nat, locked : Nat]     \* locked_until; 0 is NULL

Code == [state : {"none", "issued", "consumed"}, purpose : Purpose, expires : Nat]

RequestState ==
    [op : Op \cup {"none"},
     pc : {"idle", "insert", "role", "newrole", "member", "code", "refuse", "accept", "consume"}
          \cup Recording \cup Answer,
     todo    : Seq(Role),    \* roles to be assigned still
     pending : BOOLEAN,      \* account inserted, not committed
     created : BOOLEAN,      \* has created a role, and so committed
     failed  : Nat,          \* columns of the account, and the time, when the
     locked  : Nat,          \* password was checked
     at      : Nat,
     code    : Request]      \* code presented

TypeOK ==
    /\ UserOf \in [Request -> User]
    /\ now \in 0 .. MaxNow
    /\ acct \in [User -> Account]
    /\ roles \subseteq Role
    /\ member \subseteq User \X roles
    /\ code \in [Request -> Code]
    /\ req \in [Request -> RequestState]
    /\ event \in [Request -> {"none", "success", "failure"}]
    /\ refused \in [User -> Nat]
    /\ streak \in [User -> Nat]
    /\ together \subseteq SUBSET Request

\* Addresses are free, or have been registered before.
Init ==
    /\ UserOf \in Naming
    /\ now = 0
    /\ \E before \in SUBSET Before :
         /\ acct \in [User -> [status : {"none", "pending", "active"}, verified : BOOLEAN,
                               failed : {0}, locked : {0}]]
         /\ \A u \in User : /\ acct[u].status # "none" <=> u \in before
                            /\ acct[u].verified => acct[u].status = "active"
         /\ member = UNION {{u} \X Wanted(u) : u \in before}
         /\ roles = UNION {Wanted(u) : u \in before}
    /\ code = [r \in Request |-> [state |-> "none", purpose |-> "reset", expires |-> 0]]
    /\ req = [r \in Request |-> [op |-> "none", pc |-> "idle", todo |-> <<>>, pending |-> FALSE,
                                 created |-> FALSE, failed |-> 0, locked |-> 0, at |-> 0, code |-> r]]
    /\ event = [r \in Request |-> "none"]
    /\ refused = [u \in User |-> 0]
    /\ streak = [u \in User |-> 0]
    /\ together = {}

-----------------------------------------------------------------------------
(* Helpers.                                                                *)

Known(u) == acct[u].status # "none"

UnderWay(r) == req[r].pc \notin Answer \cup {"idle"}

\* Where a request goes with its result: all but "resend" record an event
\* first.  (A failure that its handler does not expect goes unrecorded.)
Recorded(op, where) ==
    IF where \notin Answer \/ op = "resend" THEN where
    ELSE IF where = "done" THEN "record done" ELSE "record failed"

\* Request r begins, and is under way together with others for its account.
Begin(r, op, where, c) ==
    /\ req[r].pc = "idle" /\ op \in May[r]
    /\ LET checked == where \in {"refuse", "accept"} IN
         req' = [req EXCEPT ![r].op = op, ![r].pc = Recorded(op, where), ![r].code = c,
                   ![r].failed = IF checked THEN acct[UserOf[r]].failed ELSE 0,
                   ![r].locked = IF checked THEN acct[UserOf[r]].locked ELSE 0,
                   ![r].at     = IF checked THEN now ELSE 0]
    /\ together' = together \cup {{r, q} : q \in {q \in Request : UnderWay(q) /\ UserOf[q] = UserOf[r]}}

\* What a request has read is of no more interest once its result is known.
Goto(r, where) ==
    req' = [req EXCEPT ![r] = IF where \in Answer \cup Recording
              THEN [@ EXCEPT !.pc = where, !.todo = <<>>, !.pending = FALSE,
                             !.failed = 0, !.locked = 0, !.at = 0]
              ELSE [@ EXCEPT !.pc = where]]

Finish(r, result) == Goto(r, Recorded(req[r].op, result))

\* The commit of a registration's transaction.
Inserted(r) ==
    [acct EXCEPT ![UserOf[r]].status =
        IF ~req[r].pending THEN @ ELSE IF "verification" \in Enabled THEN "pending" ELSE "active"]

-----------------------------------------------------------------------------
(* Defective variants of actions below, each with one plausible mistake.   *)
(* They are no part of the specification.                                  *)

\* InsertUser that commits at once.
InsertUserCommits(r) ==
    /\ req[r].pc = "insert"
    /\ IF Known(UserOf[r]) THEN Finish(r, "failed") /\ UNCHANGED acct
       ELSE /\ req' = [req EXCEPT ![r].pc = "role", ![r].todo = RolesOf[UserOf[r]]]
            /\ acct' = [acct EXCEPT ![UserOf[r]].status = "pending"]
    /\ UNCHANGED <<UserOf, now, roles, member, code, event, history, together>>

\* AssignRole that forgets the further roles.
AssignRoleFirst(r) ==
    /\ req[r].pc = "member"
    /\ member' = member \cup {<<UserOf[r], Head(req[r].todo)>>}
    /\ acct' = Inserted(r)
    /\ req' = [req EXCEPT ![r].todo = <<>>, ![r].pending = FALSE, ![r].pc = "code"]
    /\ UNCHANGED <<UserOf, now, roles, code, event, history, together>>

\* ConsumeCode without consumed_at.
ConsumeCodeAgain(r) ==
    /\ req[r].pc = "consume"
    /\ acct' = IF req[r].op = "verify"
               THEN [acct EXCEPT ![UserOf[r]].verified = TRUE, ![UserOf[r]].status = "active"]
               ELSE acct
    /\ Finish(r, "done")
    /\ UNCHANGED <<UserOf, now, roles, member, code, event, history, together>>

\* Refuse that locks one attempt early.
RefuseEarly(r) ==
    LET u == UserOf[r]
        n == req[r].failed + 1
    IN /\ req[r].pc = "refuse"
       /\ acct' = [acct EXCEPT ![u].failed = n,
                     ![u].locked = IF n + 1 >= MaxAttempts THEN req[r].at + LockFor ELSE @]
       /\ refused' = [refused EXCEPT ![u] = @ + 1]
       /\ streak' = [streak EXCEPT ![u] = @ + 1]
       /\ Finish(r, "failed")
       /\ UNCHANGED <<UserOf, now, roles, member, code, event, together>>

\* Accept that unlocks and does not reset the counter.
AcceptKeepsCount(r) ==
    LET u == UserOf[r]
    IN /\ req[r].pc = "accept"
       /\ acct' = [acct EXCEPT ![u].locked = IF req[r].locked = 0 THEN @ ELSE 0]
       /\ streak' = [streak EXCEPT ![u] = 0]
       /\ Finish(r, "done")
       /\ UNCHANGED <<UserOf, now, roles, member, code, event, refused, together>>

-----------------------------------------------------------------------------
(* Registration.                                                           *)

Register(r) ==
    /\ Begin(r, "register", IF Known(UserOf[r]) THEN "failed" ELSE "insert", r)
    /\ UNCHANGED <<UserOf, now, acct, roles, member, code, event, history>>

\* The flush waits for another uncommitted account with this address.
InsertUser(r) ==
    /\ req[r].pc = "insert"
    /\ \A q \in Request : UserOf[q] = UserOf[r] => ~req[q].pending
    /\ IF Known(UserOf[r]) THEN Finish(r, "failed")
       ELSE req' = [req EXCEPT ![r].pc = "role", ![r].pending = TRUE, ![r].todo = RolesOf[UserOf[r]]]
    /\ UNCHANGED <<UserOf, now, acct, roles, member, code, event, history, together>>

FindRole(r) ==
    /\ req[r].pc = "role"
    /\ Goto(r, IF Head(req[r].todo) \in roles THEN "member" ELSE "newrole")
    /\ UNCHANGED <<UserOf, now, acct, roles, member, code, event, history, together>>

\* create_role commits, and with the role the account; a role that another
\* registration has created meanwhile is a conflict that rolls both back.
CreateRole(r) ==
    /\ req[r].pc = "newrole"
    /\ IF Head(req[r].todo) \in roles
       THEN Goto(r, "failed") /\ UNCHANGED <<acct, roles>>
       ELSE /\ roles' = roles \cup {Head(req[r].todo)}
            /\ acct' = Inserted(r)
            /\ req' = [req EXCEPT ![r].pc = "member", ![r].pending = FALSE, ![r].created = TRUE]
    /\ UNCHANGED <<UserOf, now, member, code, event, history, together>>

\* assign_role commits the account and its role, and the next role follows.
AssignRole(r) ==
    /\ req[r].pc = "member"
    /\ member' = member \cup {<<UserOf[r], Head(req[r].todo)>>}
    /\ acct' = Inserted(r)
    /\ req' = [req EXCEPT ![r].todo = Tail(@), ![r].pending = FALSE,
                 ![r].pc = IF Tail(req[r].todo) # <<>> THEN "role"
                            ELSE IF "verification" \in Enabled THEN "code" ELSE "record done"]
    /\ UNCHANGED <<UserOf, now, roles, code, event, history, together>>

-----------------------------------------------------------------------------
(* Verification codes.                                                     *)

\* POST /auth/email/resend and /auth/password-reset/request
RequestCode(r, op) ==
    /\ op \in {"resend", "forgot"}
    /\ Begin(r, op, IF (IF op = "resend" THEN "verification" ELSE "reset") \in Enabled
                    THEN "code" ELSE "done", r)
    /\ UNCHANGED <<UserOf, now, acct, roles, member, code, event, history>>

\* issue_code: an unknown address gets the same answer and no code.
IssueCode(r) ==
    /\ req[r].pc = "code"
    /\ code' = IF Known(UserOf[r])
               THEN [code EXCEPT ![r] = [state |-> "issued", expires |-> now + CodeLife,
                       purpose |-> IF req[r].op = "forgot" THEN "reset" ELSE "verification"]]
               ELSE code
    /\ Finish(r, "done")
    /\ UNCHANGED <<UserOf, now, acct, roles, member, event, history, together>>

\* verify_email and reset_password: the code is read, ...
PresentCode(r, c) ==
    /\ code[c].state # "none" /\ UserOf[c] = UserOf[r]
    /\ Begin(r, IF code[c].purpose = "reset" THEN "reset" ELSE "verify",
             IF code[c].state = "issued" /\ code[c].expires > now THEN "consume" ELSE "failed", c)
    /\ UNCHANGED <<UserOf, now, acct, roles, member, code, event, history>>

\* ... and consumed, in one commit with what it allows.
ConsumeCode(r) ==
    /\ req[r].pc = "consume"
    /\ code' = [code EXCEPT ![req[r].code].state = "consumed"]
    /\ acct' = IF req[r].op = "verify"
               THEN [acct EXCEPT ![UserOf[r]].verified = TRUE, ![UserOf[r]].status = "active"]
               ELSE acct
    /\ Finish(r, "done")
    /\ UNCHANGED <<UserOf, now, roles, member, event, history, together>>

-----------------------------------------------------------------------------
(* Login: authenticate.                                                    *)

\* The account is read and the password checked, which may be right.
CheckPassword(r, right) ==
    LET a == acct[UserOf[r]]
        usable  == a.status = "active" \/ "verification" \in Enabled
        lockout == "lockout" \in Enabled
    IN /\ Begin(r, "login",
               IF ~Known(UserOf[r]) \/ (lockout /\ a.locked > now) THEN "failed"
               ELSE IF ~(right /\ usable) THEN (IF lockout THEN "refuse" ELSE "failed")
               ELSE IF "verification" \in Enabled /\ ~a.verified THEN "failed"
               ELSE IF lockout THEN "accept" ELSE "done", r)
       /\ UNCHANGED <<UserOf, now, acct, roles, member, code, event, history>>

\* What was read is counted up and written, whatever the row holds now.
Refuse(r) ==
    LET u == UserOf[r]
        n == req[r].failed + 1
    IN /\ req[r].pc = "refuse"
       /\ acct' = [acct EXCEPT ![u].failed = n,
                     ![u].locked = IF n >= MaxAttempts THEN req[r].at + LockFor ELSE @]
       /\ refused' = [refused EXCEPT ![u] = @ + 1]
       /\ streak' = [streak EXCEPT ![u] = @ + 1]
       /\ Finish(r, "failed")
       /\ UNCHANGED <<UserOf, now, roles, member, code, event, together>>

\* Only columns that differ from what was read are written.
Accept(r) ==
    LET u == UserOf[r]
    IN /\ req[r].pc = "accept"
       /\ acct' = [acct EXCEPT ![u].failed = IF req[r].failed = 0 THEN @ ELSE 0,
                     ![u].locked = IF req[r].locked = 0 THEN @ ELSE 0]
       /\ streak' = [streak EXCEPT ![u] = 0]
       /\ Finish(r, "done")
       /\ UNCHANGED <<UserOf, now, roles, member, code, event, refused, together>>

-----------------------------------------------------------------------------
\* record_audit: a transaction of its own, after the operation.
RecordAudit(r) ==
    /\ req[r].pc \in Recording
    /\ event' = [event EXCEPT ![r] = IF req[r].pc = "record done" THEN "success" ELSE "failure"]
    /\ Goto(r, IF req[r].pc = "record done" THEN "done" ELSE "failed")
    /\ UNCHANGED <<UserOf, now, acct, roles, member, code, history, together>>

\* The connection or the process is lost.
Abort(r) ==
    /\ UnderWay(r)
    /\ Goto(r, "failed")
    /\ UNCHANGED <<UserOf, now, acct, roles, member, code, event, history, together>>

Tick ==
    /\ now < MaxNow
    /\ now' = now + 1
    /\ UNCHANGED <<UserOf, acct, roles, member, code, req, event, history, together>>

Start(r) ==
    \/ Register(r)
    \/ \E op \in {"resend", "forgot"} : RequestCode(r, op)
    \/ \E c \in Request : PresentCode(r, c)
    \/ \E right \in BOOLEAN : CheckPassword(r, right)

Step(r) ==
    \/ InsertUser(r) \/ FindRole(r) \/ CreateRole(r) \/ AssignRole(r) \/ IssueCode(r)
    \/ ConsumeCode(r) \/ Refuse(r) \/ Accept(r) \/ RecordAudit(r)

Next == Tick \/ \E r \in Request : Start(r) \/ Step(r) \/ Abort(r)

Spec == Init /\ [][Next]_vars

-----------------------------------------------------------------------------
(* Properties.                                                             *)

\* specs/023: an account is locked after a threshold of failed attempts.
\* However checks interleave and overwrite what others have counted, none is
\* locked before so many passwords were refused.
LockedOnlyAfterFailures ==
    \A u \in User : acct[u].locked # 0 => refused[u] >= MaxAttempts

\* If no two logins of an account overlap, its counter is the number of
\* refused passwords since the last accepted one, over lock and expiry, and
\* it is locked, or was when the lock expired, if they are too many.
CounterIsStreak ==
    \A u \in User :
        \/ \E r, q \in Request : /\ r # q /\ {r, q} \in together /\ UserOf[r] = u /\ UserOf[q] = u
                                 /\ req[r].op = "login" /\ req[q].op = "login"
        \/ /\ acct[u].failed = streak[u]
           /\ acct[u].locked # 0 <=> streak[u] >= MaxAttempts

\* specs/023: single-use codes.  A code that has been used is refused by
\* every request that begins afterwards, so that only requests which were
\* under way together can have used the same one.
CodeUsedOnce ==
    \A r, q \in Request :
        /\ req[r].op \in {"verify", "reset"} /\ req[r].pc \in {"record done", "done"}
        /\ req[q].op \in {"verify", "reset"} /\ req[q].pc \in {"record done", "done"}
        /\ req[r].code = req[q].code
        => r = q \/ {r, q} \in together

\* An account is committed with its first role, although it is flushed
\* before, unless its registration had to create this role and has still to
\* assign it, or broke in between.
AccountHasRole ==
    \A u \in User : Known(u) =>
        \/ <<u, RolesOf[u][1]>> \in member
        \/ \E r \in Request : /\ UserOf[r] = u /\ req[r].op = "register" /\ req[r].created
                              /\ req[r].pc \in {"member", "failed"}

\* specs/024: the audit trail records outcomes.  Whatever breaks between an
\* operation and its event, an event of success is about a committed effect:
\* the account, all its roles and its code, or the code that was consumed.
SuccessIsCommitted ==
    \A r \in Request : event[r] = "success" =>
        /\ req[r].op = "register" =>
             /\ Known(UserOf[r])
             /\ {UserOf[r]} \X Wanted(UserOf[r]) \subseteq member
             /\ "verification" \in Enabled => code[r].state # "none"
        /\ req[r].op \in {"verify", "reset"} => code[req[r].code].state = "consumed"
        /\ req[r].op = "verify" => acct[UserOf[r]].verified
=============================================================================
