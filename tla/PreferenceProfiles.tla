------------------------- MODULE PreferenceProfiles -------------------------
(***************************************************************************)
(* Versioned preference profiles: concurrent PUT /api/v1/preferences and   *)
(* /api/v2/preferences requests (the two services run the same statements) *)
(* and DELETE /users/me, as PostgreSQL transactions at READ COMMITTED.     *)
(* Every statement reads what is committed when it starts; updates lock    *)
(* rows, the unique indexes and the foreign key make a statement wait for  *)
(* transactions whose outcome decides about it.                            *)
(*                                                                         *)
(* A request inserts at most one profile, so the row is named by the       *)
(* request; its configuration is the request's body.                       *)
(***************************************************************************)
EXTENDS Naturals, FiniteSets

CONSTANTS
    User,           \* users, by primary key
    Request,        \* update requests
    Deletion,       \* DELETE /users/me requests
    UserOf,         \* UserOf[c]: the user that request c is about
    NoRow           \* no profile row

Process == Request \cup Deletion

ASSUME ProfilesAssumption ==
    /\ UserOf \in [Process -> User]
    /\ Request \cap Deletion = {}
    /\ NoRow \notin Request

VARIABLES
    users,          \* committed rows of "users"
    profile,        \* profile[c]: the committed row inserted by request c
    txn,            \* txn[c]: the transaction of process c
    tokenRequired   \* auth_require_token, a setting: X-User-ID is not accepted

vars == <<users, profile, txn, tokenRequired>>

\* What a step within a transaction leaves alone.
stored == <<users, profile, tokenRequired>>

-----------------------------------------------------------------------------
ProfileState == {"none", "active", "inactive", "deleted"}

\* How a request is answered: 201 or 204, 409, another error.
Answer == {"done", "conflict", "failed"}

Pc == {"idle", "find", "adduser", "version", "deactivate", "lockrow",
       "insert", "reference", "commit", "refresh", "lockuser", "cascade"} \cup Answer

Txn == [pc      : Pc,
        version : Nat,                     \* version to be inserted
        target  : Request \cup {NoRow},    \* active row the UPDATE has found
        held    : Request \cup {NoRow},    \* row it has deactivated and locked
        newuser : BOOLEAN]                 \* uncommitted row in "users"

TypeOK ==
    /\ tokenRequired \in BOOLEAN
    /\ users \subseteq User
    /\ profile \in [Request -> ProfileState]
    /\ txn \in [Process -> Txn]
    /\ \A c \in Process :
         txn[c].pc \in {"deactivate", "lockrow", "insert", "reference", "commit", "refresh"}
           => txn[c].version > 0

Init ==
    /\ tokenRequired \in BOOLEAN
    /\ users \in SUBSET User
    /\ profile = [c \in Request |-> "none"]
    /\ txn = [c \in Process |-> [pc |-> "idle", version |-> 0, target |-> NoRow,
                                 held |-> NoRow, newuser |-> FALSE]]

-----------------------------------------------------------------------------
(* Helpers.                                                                *)

\* The committed profiles of a user.
Rows(u) == {c \in Request : UserOf[c] = u /\ profile[c] \in {"active", "inactive"}}

\* Other update requests for the user of c.
Rivals(c) == {d \in Request : d # c /\ UserOf[d] = UserOf[c]}

\* A DELETE that has locked the row of u and has still to cascade.
BeingDeleted(u) == \E d \in Deletion : UserOf[d] = u /\ txn[d].pc = "cascade"

Goto(c, where) == txn' = [txn EXCEPT ![c].pc = where]

\* The end of a transaction: its locks are released, its uncommitted rows
\* are committed (by Commit) or forgotten.
End(c, answer) ==
    txn' = [txn EXCEPT ![c].pc = answer, ![c].target = NoRow,
                       ![c].held = NoRow, ![c].newuser = FALSE]

\* Request c takes effect: users, the deactivated row and the new one.
Apply(c) ==
    /\ users' = IF txn[c].newuser THEN users \cup {UserOf[c]} ELSE users
    /\ profile' = [d \in Request |-> CASE d = c -> "active"
                                       [] d = txn[c].held -> "inactive"
                                       [] OTHER -> profile[d]]
    /\ UNCHANGED tokenRequired

\* One of the two unique indexes of preference_profiles refuses the row of c:
\* (user_id, version), or (user_id) where is_active.
SameVersion(c) == \E d \in Rows(UserOf[c]) : txn[d].version = txn[c].version

OtherActive(c) ==
    \E d \in Rows(UserOf[c]) : profile[d] = "active" /\ d # txn[c].held

-----------------------------------------------------------------------------
(* Defective variants of actions below, each with one plausible mistake.   *)
(* They are no part of the specification.                                  *)

\* ReadVersion that takes the latest version instead of the next one.
ReadVersionLatest(c) ==
    /\ txn[c].pc = "version"
    /\ \E n \in {0} \cup {txn[d].version : d \in Rows(UserOf[c])} :
         /\ \A d \in Rows(UserOf[c]) : txn[d].version <= n
         /\ txn' = [txn EXCEPT ![c].pc = "deactivate", ![c].version = n]
    /\ UNCHANGED stored

\* Insert without the unique constraint on (user_id, version).
InsertAnyVersion(c) ==
    /\ txn[c].pc = "insert"
    /\ \A d \in Rivals(c) : txn[d].held = NoRow /\ txn[d].pc \notin {"reference", "commit"}
    /\ IF OtherActive(c) THEN End(c, "conflict") ELSE Goto(c, "reference")
    /\ UNCHANGED stored

\* Insert whose unique violation is reported without ending the transaction.
InsertNoRollback(c) ==
    /\ txn[c].pc = "insert"
    /\ \A d \in Rivals(c) : txn[d].held = NoRow /\ txn[d].pc \notin {"reference", "commit"}
    /\ IF SameVersion(c) \/ OtherActive(c) THEN Goto(c, "conflict") ELSE Goto(c, "reference")
    /\ UNCHANGED stored

\* Commit after the UPDATE that deactivates has been rolled back.
CommitKeepsActive(c) ==
    /\ txn[c].pc = "commit"
    /\ users' = IF txn[c].newuser THEN users \cup {UserOf[c]} ELSE users
    /\ profile' = [profile EXCEPT ![c] = "active"]
    /\ UNCHANGED tokenRequired
    /\ End(c, "refresh")

-----------------------------------------------------------------------------
(* PUT /preferences.                                                       *)

\* A bearer token: get_current_user has loaded the user into the session,
\* where ensure_user finds it without asking the database.
Authenticate(c) ==
    /\ txn[c].pc = "idle"
    /\ UserOf[c] \in users
    /\ Goto(c, "version")
    /\ UNCHANGED stored

\* X-User-ID, accepted in local mode: any identifier.
Identify(c) ==
    /\ txn[c].pc = "idle"
    /\ ~tokenRequired
    /\ Goto(c, "find")
    /\ UNCHANGED stored

\* ensure_user: session.get ...
FindUser(c) ==
    /\ txn[c].pc = "find"
    /\ Goto(c, IF UserOf[c] \in users THEN "version" ELSE "adduser")
    /\ UNCHANGED stored

\* ... and the flush of the new row, which waits for other transactions on
\* the same primary key and conflicts with a row that is there meanwhile.
AddUser(c) ==
    /\ txn[c].pc = "adduser"
    /\ \A d \in Rivals(c) : ~txn[d].newuser
    /\ ~BeingDeleted(UserOf[c])
    /\ IF UserOf[c] \in users
       THEN End(c, "conflict")
       ELSE txn' = [txn EXCEPT ![c].pc = "version", ![c].newuser = TRUE]
    /\ UNCHANGED stored

\* get_latest_version + 1
ReadVersion(c) ==
    /\ txn[c].pc = "version"
    /\ \E n \in {0} \cup {txn[d].version : d \in Rows(UserOf[c])} :
         /\ \A d \in Rows(UserOf[c]) : txn[d].version <= n
         /\ txn' = [txn EXCEPT ![c].pc = "deactivate", ![c].version = n + 1]
    /\ UNCHANGED stored

\* deactivate_active: the UPDATE finds the row that is active in its
\* snapshot, if any ...
FindActive(c) ==
    /\ txn[c].pc = "deactivate"
    /\ \/ /\ \A d \in Rows(UserOf[c]) : profile[d] # "active"
          /\ Goto(c, "insert")
       \/ \E d \in Rows(UserOf[c]) :
            /\ profile[d] = "active"
            /\ txn' = [txn EXCEPT ![c].pc = "lockrow", ![c].target = d]
    /\ UNCHANGED stored

\* ... waits for a transaction that has changed this row, and changes it if
\* it is active still.
LockRow(c) ==
    /\ txn[c].pc = "lockrow"
    /\ \A d \in Rivals(c) : txn[d].held # txn[c].target
    /\ txn' = [txn EXCEPT ![c].pc = "insert", ![c].target = NoRow,
                 ![c].held = IF profile[txn[c].target] = "active"
                             THEN txn[c].target ELSE NoRow]
    /\ UNCHANGED stored

\* create: the flush of the new row in commit_session.  The unique indexes
\* make it wait for transactions with uncommitted rows of the user.
Insert(c) ==
    /\ txn[c].pc = "insert"
    /\ \A d \in Rivals(c) : txn[d].held = NoRow /\ txn[d].pc \notin {"reference", "commit"}
    /\ IF SameVersion(c) \/ OtherActive(c) THEN End(c, "conflict") ELSE Goto(c, "reference")
    /\ UNCHANGED stored

\* The foreign key of the inserted row: waits for a deletion of the user,
\* then fails without the user, or keeps the user's row from being deleted.
Reference(c) ==
    /\ txn[c].pc = "reference"
    /\ ~BeingDeleted(UserOf[c])
    /\ IF UserOf[c] \in users \/ txn[c].newuser THEN Goto(c, "commit") ELSE End(c, "failed")
    /\ UNCHANGED stored

Commit(c) ==
    /\ txn[c].pc = "commit"
    /\ Apply(c)
    /\ End(c, "refresh")

\* refresh_session reads the row again; it may be gone with its user.
Refresh(c) ==
    /\ txn[c].pc = "refresh"
    /\ Goto(c, IF profile[c] = "deleted" THEN "failed" ELSE "done")
    /\ UNCHANGED stored

-----------------------------------------------------------------------------
(* DELETE /users/me.                                                       *)

\* get_current_user and session.get(User)
StartDeletion(d) ==
    /\ txn[d].pc = "idle"
    /\ UserOf[d] \in users
    /\ Goto(d, "lockuser")
    /\ UNCHANGED stored

\* DELETE FROM users: waits for another deletion and for transactions whose
\* profile refers to the row.  A row that is gone is no error.
LockUser(d) ==
    /\ txn[d].pc = "lockuser"
    /\ ~BeingDeleted(UserOf[d])
    /\ \A c \in Request : UserOf[c] = UserOf[d] => txn[c].pc # "commit"
    /\ Goto(d, IF UserOf[d] \in users THEN "cascade" ELSE "done")
    /\ UNCHANGED stored

\* ON DELETE CASCADE, which waits for locked profiles, and the commit.
Cascade(d) ==
    /\ txn[d].pc = "cascade"
    /\ \A c \in Request : UserOf[c] = UserOf[d] => txn[c].held = NoRow
    /\ users' = users \ {UserOf[d]}
    /\ profile' = [c \in Request |-> IF c \in Rows(UserOf[d]) THEN "deleted" ELSE profile[c]]
    /\ Goto(d, "done")
    /\ UNCHANGED tokenRequired

-----------------------------------------------------------------------------
(* What may go wrong in a transaction.                                     *)

\* c waits with a profile locked for the deletion d, which waits for that
\* profile: PostgreSQL aborts one of the two after deadlock_timeout.
Deadlock(c, d) ==
    /\ UserOf[c] = UserOf[d]
    /\ txn[c].pc = "reference" /\ txn[c].held # NoRow
    /\ txn[d].pc = "cascade"

BreakDeadlock(c, d) ==
    /\ Deadlock(c, d)
    /\ \E victim \in {c, d} : End(victim, "failed")
    /\ UNCHANGED stored

\* The connection or the process is lost: the transaction is rolled back, or
\* its commit has taken effect although no answer came back.
Abort(c) ==
    /\ txn[c].pc \notin Answer \cup {"idle", "refresh"}
    /\ End(c, "failed")
    /\ UNCHANGED stored

CommitUnanswered(c) ==
    /\ txn[c].pc = "commit"
    /\ Apply(c)
    /\ End(c, "failed")

-----------------------------------------------------------------------------
Update(c) ==
    \/ FindUser(c) \/ AddUser(c) \/ ReadVersion(c) \/ FindActive(c) \/ LockRow(c)
    \/ Insert(c) \/ Reference(c) \/ Commit(c) \/ Refresh(c)

Delete(d) == LockUser(d) \/ Cascade(d)

Next ==
    \/ \E c \in Request : Authenticate(c) \/ Identify(c) \/ Update(c) \/ CommitUnanswered(c)
    \/ \E d \in Deletion : StartDeletion(d) \/ Delete(d)
    \/ \E c \in Request, d \in Deletion : BreakDeadlock(c, d)
    \/ \E c \in Process : Abort(c)

Spec == Init /\ [][Next]_vars

\* A transaction that does not wait goes on, and PostgreSQL looks for
\* deadlocks.  Nobody has to send a request.
Fairness ==
    /\ \A c \in Request : WF_vars(Update(c))
    /\ \A d \in Deletion : WF_vars(Delete(d))
    /\ \A c \in Request, d \in Deletion : WF_vars(BreakDeadlock(c, d))

FairSpec == Spec /\ Fairness

\* A user that is deleted in local mode may come back under the same key, by
\* X-User-ID, while requests that have numbered their versions after the old
\* profiles go on.  With the bearer tokens of a production deployment, or if
\* nobody is deleted, it does not.
UsersStayDeleted == tokenRequired \/ \A d \in Deletion : ~StartDeletion(d)

LastingSpec == Init /\ [][Next /\ UsersStayDeleted]_vars

FairLastingSpec == LastingSpec /\ Fairness

-----------------------------------------------------------------------------
(* Properties.                                                             *)

\* specs/002: one active profile per user, the one whose version is the
\* latest, whatever the interleaving of updates that have read the same
\* latest version, of rollbacks and of deletions.
LatestIsActive ==
    \A u \in User : \A c, d \in Rows(u) :
        /\ txn[c].version = txn[d].version => c = d
        /\ profile[c] = "active" <=> \A e \in Rows(u) : txn[e].version <= txn[c].version

\* A request that was admitted is answered: nobody waits for a row or a user
\* for ever, and a refused insert lets the others go on.
EveryRequestAnswered ==
    \A c \in Process : txn[c].pc # "idle" ~> txn[c].pc \in Answer

\* The abstract specification, and this one's view of it.
VersionedProfile == INSTANCE VersionedProfile WITH
    history  <- [u \in User |-> {<<txn[c].version, c>> : c \in Rows(u)}],
    current  <- [u \in User |-> {c \in Rows(u) : profile[c] = "active"}],
    accepted <- {c \in Request : profile[c] # "none"}

\* The profiles of a user are versions 1, 2, 3, ... without a gap; an
\* accepted request adds the next one and makes it current in one step, and
\* no version is changed or lost while its user exists.
ImplementsVersionedProfile == VersionedProfile!Spec
=============================================================================
