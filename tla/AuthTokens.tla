----------------------------- MODULE AuthTokens -----------------------------
(***************************************************************************)
(* Refresh tokens and sessions: concurrent logins, refreshes, logouts,     *)
(* revocations of sessions, password resets and deletions of users, as     *)
(* PostgreSQL transactions at READ COMMITTED.  An UPDATE finds the rows    *)
(* that match in its snapshot, locks them one after the other, waiting for *)
(* transactions that hold them, and changes those that match still.        *)
(*                                                                         *)
(* A request issues at most one token and one session, which bear its      *)
(* name.  The family of a token is the token itself, because issue_tokens  *)
(* makes a new family_id for every token, those of a refresh included.     *)
(***************************************************************************)
EXTENDS Naturals, FiniteSets

CONSTANTS
    User,
    Request,    \* HTTP requests
    Earlier,    \* logins that are over: with or, from before session management
                \* was switched on, without a session
    None,       \* no token, no session
    Managed     \* auth_session_management_enabled

ASSUME TokensAssumption ==
    /\ Earlier \subseteq Request
    /\ None \notin Request
    /\ Managed \in BOOLEAN

Row == {"user"} \X User \cup {"session", "token"} \X Request

VARIABLES
    db,         \* committed state of every row
    expired,    \* tokens past their expires_at
    req,        \* req[r]: request r and its transaction
    late        \* history: tokens issued under a revocation that missed them

vars == <<db, expired, req, late>>

-----------------------------------------------------------------------------
Op == {"none", "login", "refresh", "logout", "revoke", "others", "reset", "delete"}

\* 2xx, RefreshTokenReplay, another error.
Answer == {"done", "replay", "failed"}

Pc == {"idle", "rotate", "reuse", "stale", "issue", "family", "session", "tokens",
       "sessions", "cascade", "commit"} \cup Answer

Transaction == [op : Op, pc : Pc, user : User,
                token   : Request \cup {None},  \* presented token
                session : Request \cup {None},  \* session meant or continued
                targets : SUBSET Row,           \* rows an UPDATE has still to lock
                held    : SUBSET Row]           \* rows changed and not committed

TypeOK ==
    /\ db \in [Row -> {"none", "live", "revoked", "deleted"}]
    /\ expired \subseteq Request
    /\ req \in [Request -> Transaction]
    /\ late \subseteq Request
    /\ \A r \in Request : req[r].targets \cap req[r].held = {}
    /\ \A r \in Request, k \in {"session", "token"} :
         db[<<k, r>>] \in {"live", "revoked"} => db[<<"user", req[r].user>>] = "live"

Init ==
    \E user \in [Request -> User], managed \in SUBSET Earlier :
      /\ Managed \/ managed = {}
      /\ db = [x \in Row |-> IF \/ x[1] = "user"
                                \/ x \in {"token"} \X Earlier
                                \/ x \in {"session"} \X managed
                             THEN "live" ELSE "none"]
      /\ req = [r \in Request |->
                  [op |-> IF r \in Earlier THEN "login" ELSE "none",
                   pc |-> IF r \in Earlier THEN "done" ELSE "idle",
                   user |-> user[r], token |-> None,
                   session |-> IF r \in managed THEN r ELSE None,
                   targets |-> {}, held |-> {}]]
      /\ expired = {}
      /\ late = {}

-----------------------------------------------------------------------------
(* Helpers.                                                                *)

Live(kind, x) == db[<<kind, x>>] = "live"

HeldByOther(r, x) == \E q \in Request \ {r} : x \in req[q].held

BeingDeleted(u) == \E q \in Request : req[q].op = "delete" /\ <<"user", u>> \in req[q].held

\* Defective variants of Matched and End, no part of the specification: a
\* password reset that compares session_id with NULL, a failed statement
\* whose transaction is not rolled back.
MatchedBySession(r) ==
    {x \in {"token"} \X Request :
        LET t == req[x[2]] IN
        /\ db[x] = "live" /\ x \notin req[r].held
        /\ IF req[r].op = "others"
           THEN t.user = req[r].user /\ t.session \notin {req[r].session, None}
           ELSE t.session = req[r].session /\ t.session # None}

EndNoRollback(r, answer) ==
    req' = [req EXCEPT ![r].pc = answer, ![r].targets = {},
                       ![r].held = IF answer = "failed" THEN @ ELSE {}]

\* The live tokens that the UPDATE of request r on refresh_tokens matches.
\* session_id != current is not true of tokens without session.
Matched(r) ==
    {x \in {"token"} \X Request :
        LET t == req[x[2]] IN
        /\ db[x] = "live" /\ x \notin req[r].held
        /\ CASE req[r].op = "reset"  -> t.user = req[r].user
             [] req[r].op = "others" -> t.user = req[r].user /\ t.session \notin {req[r].session, None}
             [] OTHER                -> t.session = req[r].session}

LiveSessions(u) == {x \in {"session"} \X Request : db[x] = "live" /\ req[x[2]].user = u}

\* An ORM object, updated by its key: it is an error if the row is gone.
MustExist(r, x) ==
    \/ x[1] = "user" /\ req[r].op = "reset"
    \/ x[1] = "session" /\ req[r].op \in {"logout", "revoke", "others"}

\* Request r revokes session s and has selected the tokens to revoke with it.
PastTokens(r, s) ==
    /\ req[r].pc \in {"sessions", "commit"}
    /\ \/ req[r].op = "reset" /\ req[s].user = req[r].user
       \/ <<"session", s>> \in req[r].held

\* A token issued now for session s escapes its revocation.
Missed(s) == db[<<"session", s>>] = "revoked" \/ \E q \in Request : PastTokens(q, s)

Goto(r, where) == req' = [req EXCEPT ![r].pc = where]

Select(r, where, rows) == req' = [req EXCEPT ![r].pc = where, ![r].targets = rows]

End(r, answer) == req' = [req EXCEPT ![r].pc = answer, ![r].targets = {}, ![r].held = {}]

Begin(r, op, u, t, s, where, rows) ==
    /\ req[r].pc = "idle"
    /\ req' = [req EXCEPT ![r] = [op |-> op, pc |-> where, user |-> u, token |-> t,
                                  session |-> s, targets |-> rows, held |-> {}]]
    /\ UNCHANGED <<db, expired, late>>

Apply(r) ==
    /\ db' = [x \in Row |-> IF x \notin req[r].held THEN db[x]
                            ELSE IF req[r].op = "delete" THEN "deleted"
                            ELSE IF x[1] = "user" THEN "live" ELSE "revoked"]
    /\ UNCHANGED <<expired, late>>

-----------------------------------------------------------------------------
(* Login and refresh.                                                      *)

\* authenticate has accepted the password.
Login(r, u) ==
    /\ Live("user", u)
    /\ Begin(r, "login", u, None, None, "issue", {})

\* Defective variants of actions below: a refresh that leaves the revocation
\* to the reuse check, an UPDATE that skips locked rows.  They are no part of the specification.
RefreshKeepsToken(r, t) ==
    /\ db[<<"token", t>>] # "none"
    /\ Begin(r, "refresh", req[t].user, t, req[t].session,
             IF db[<<"token", t>>] = "deleted" THEN "failed"
             ELSE IF db[<<"token", t>>] = "revoked" THEN "reuse"
             ELSE IF t \in expired THEN "stale" ELSE "issue", {})

LockRowSkipped(r, x) ==
    /\ IF MustExist(r, x) /\ db[x] = "deleted"
       THEN End(r, "failed")
       ELSE req' = [req EXCEPT ![r].targets = @ \ {x},
                      ![r].held = IF db[x] \in {"live", "revoked"} /\ ~HeldByOther(r, x)
                                  THEN @ \cup {x} ELSE @]
    /\ UNCHANGED <<db, expired, late>>

\* refresh: a token unknown, usable, revoked or expired.
Refresh(r, t) ==
    /\ db[<<"token", t>>] # "none"
    /\ Begin(r, "refresh", req[t].user, t, req[t].session,
             IF db[<<"token", t>>] = "deleted" THEN "failed"
             ELSE IF db[<<"token", t>>] = "revoked" THEN "reuse"
             ELSE IF t \in expired THEN "stale" ELSE "rotate", {})

\* The family, that is the token, is revoked and committed, before a
\* successor is issued or the request refused.
Rotate(r) ==
    /\ req[r].pc \in {"rotate", "reuse", "stale"}
    /\ LET x == <<"token", req[r].token>> IN
         /\ ~HeldByOther(r, x)
         /\ db' = [db EXCEPT ![x] = IF @ = "live" THEN "revoked" ELSE @]
    /\ Goto(r, CASE req[r].pc = "rotate" -> "issue"
                 [] req[r].pc = "reuse"  -> "replay"
                 [] OTHER                -> "failed")
    /\ UNCHANGED <<expired, late>>

\* issue_tokens: a session if there is none, the token, one commit.  The
\* foreign keys wait for a deletion of the user and refuse rows without it.
Issue(r) ==
    /\ req[r].pc = "issue"
    /\ ~BeingDeleted(req[r].user)
    /\ IF Live("user", req[r].user)
       THEN LET new == Managed /\ req[r].session = None
                s   == IF new THEN r ELSE req[r].session IN
            /\ db' = [db EXCEPT ![<<"token", r>>] = "live",
                                ![<<"session", r>>] = IF new THEN "live" ELSE @]
            /\ req' = [req EXCEPT ![r].pc = "done", ![r].session = s]
            /\ late' = IF s # None /\ Missed(s) THEN late \cup {r} ELSE late
       ELSE End(r, "failed") /\ UNCHANGED <<db, late>>
    /\ UNCHANGED expired

Expire(t) ==
    /\ Live("token", t)
    /\ expired' = expired \cup {t}
    /\ UNCHANGED <<db, req, late>>

-----------------------------------------------------------------------------
(* Revocation.                                                             *)

\* logout: an unknown token is no error.
Logout(r, t) ==
    /\ db[<<"token", t>>] # "none"
    /\ Begin(r, "logout", req[t].user, t, req[t].session,
             IF db[<<"token", t>>] = "deleted" THEN "done" ELSE "family", {})

\* The UPDATE of the family ...
RevokeFamily(r) ==
    /\ req[r].pc = "family"
    /\ Select(r, IF Managed /\ req[r].session # None THEN "session" ELSE "commit",
              {x \in {<<"token", req[r].token>>} : db[x] = "live"})
    /\ UNCHANGED <<db, expired, late>>

\* ... and revoke_auth_session in the same transaction, which reads the
\* session before it changes it.
FindSession(r) ==
    /\ req[r].pc = "session" /\ req[r].targets = {}
    /\ IF Live("session", req[r].session)
       THEN Select(r, "tokens", {<<"session", req[r].session>>})
       ELSE Goto(r, "commit")
    /\ UNCHANGED <<db, expired, late>>

\* DELETE /auth/sessions/{s}, in the name of the live session c.
RevokeSession(r, c, s) ==
    /\ Live("session", c)
    /\ db[<<"session", s>>] # "none" /\ req[s].user = req[c].user
    /\ Begin(r, "revoke", req[c].user, None, s,
             IF Live("session", s) THEN "tokens" ELSE "failed",
             {x \in {<<"session", s>>} : db[x] = "live"})

\* DELETE /auth/sessions/others
RevokeOthers(r, c) ==
    /\ Live("session", c)
    /\ LET others == LiveSessions(req[c].user) \ {<<"session", c>>} IN
         Begin(r, "others", req[c].user, None, c,
               IF others = {} THEN "done" ELSE "tokens", others)

\* reset_password with a valid code: the flush of the new password, the
\* user's tokens, then the sessions.
Reset(r, u) ==
    /\ Live("user", u)
    /\ Begin(r, "reset", u, None, None, "tokens", {<<"user", u>>})

UpdateTokens(r) ==
    /\ req[r].pc = "tokens" /\ req[r].targets = {}
    /\ Select(r, IF req[r].op = "reset" THEN "sessions" ELSE "commit", Matched(r))
    /\ UNCHANGED <<db, expired, late>>

UpdateSessions(r) ==
    /\ req[r].pc = "sessions" /\ req[r].targets = {}
    /\ Select(r, "commit", LiveSessions(req[r].user))
    /\ UNCHANGED <<db, expired, late>>

\* DELETE /users/me, and the cascade of a row that was there.
DeleteUser(r, u) ==
    /\ Live("user", u)
    /\ Managed => \E c \in Request : Live("session", c) /\ req[c].user = u
    /\ Begin(r, "delete", u, None, None, "cascade", {<<"user", u>>})

Cascade(r) ==
    /\ req[r].pc = "cascade" /\ req[r].targets = {}
    /\ Select(r, "commit",
              {x \in {"session", "token"} \X Request :
                 req[r].held # {} /\ db[x] \in {"live", "revoked"} /\ req[x[2]].user = req[r].user})
    /\ UNCHANGED <<db, expired, late>>

\* An UPDATE or DELETE takes the next row that no other transaction holds,
\* unless the row matches no more.
LockRow(r, x) ==
    /\ ~HeldByOther(r, x)
    /\ IF MustExist(r, x) /\ db[x] = "deleted"
       THEN End(r, "failed")
       ELSE req' = [req EXCEPT ![r].targets = @ \ {x},
                      ![r].held = IF \/ db[x] = "live"
                                     \/ db[x] = "revoked" /\ (MustExist(r, x) \/ req[r].op = "delete")
                                  THEN @ \cup {x} ELSE @]
    /\ UNCHANGED <<db, expired, late>>

Commit(r) ==
    /\ req[r].pc = "commit" /\ req[r].targets = {}
    /\ Apply(r)
    /\ End(r, "done")

-----------------------------------------------------------------------------
(* What may go wrong in a transaction.                                     *)

\* A ring of transactions each of which waits for rows that another one of
\* them holds: PostgreSQL aborts one after deadlock_timeout.
Deadlocked(ring) ==
    \A r \in ring :
        /\ req[r].targets # {}
        /\ \A x \in req[r].targets : \E q \in ring \ {r} : x \in req[q].held

BreakDeadlock(r) ==
    /\ req[r].targets # {}
    /\ \E ring \in SUBSET Request : r \in ring /\ Deadlocked(ring)
    /\ End(r, "failed")
    /\ UNCHANGED <<db, expired, late>>

\* The connection or the process is lost, before or after the commit.
Abort(r) ==
    /\ req[r].pc \notin Answer \cup {"idle"}
    /\ End(r, "failed")
    /\ UNCHANGED <<db, expired, late>>

CommitUnanswered(r) ==
    /\ req[r].pc = "commit" /\ req[r].targets = {}
    /\ Apply(r)
    /\ End(r, "failed")

-----------------------------------------------------------------------------
Start(r) ==
    \/ \E u \in User : Login(r, u) \/ Reset(r, u) \/ DeleteUser(r, u)
    \/ \E t \in Request : Refresh(r, t) \/ Logout(r, t)
    \/ \E c \in Request : RevokeOthers(r, c) \/ \E s \in Request : RevokeSession(r, c, s)

Step(r) ==
    \/ Rotate(r) \/ Issue(r) \/ RevokeFamily(r) \/ FindSession(r) \/ UpdateTokens(r)
    \/ UpdateSessions(r) \/ Cascade(r) \/ Commit(r)
    \/ \E x \in req[r].targets : LockRow(r, x)

Next ==
    \/ \E r \in Request : Start(r) \/ Step(r) \/ BreakDeadlock(r) \/ Abort(r) \/ CommitUnanswered(r)
    \/ \E t \in Request : Expire(t)

Spec == Init /\ [][Next]_vars

\* A transaction that does not wait goes on, and PostgreSQL looks for
\* deadlocks.  A request takes few steps, so that some step is enough.
Fairness == WF_vars(\E r \in Request : Step(r) \/ BreakDeadlock(r))

FairSpec == Spec /\ Fairness

-----------------------------------------------------------------------------
(* Properties.                                                             *)

\* specs/010: rotation invalidates the previous token.  A token and its
\* successor are never usable together, even if two refreshes have read the
\* token before either revoked it, or one breaks before it has issued.
RotatedBeforeIssue ==
    \A r \in Request :
        req[r].op = "refresh" /\ db[<<"token", r>>] # "none" => ~Live("token", req[r].token)

\* Once a logout or a revocation is answered, what it was about is revoked,
\* whatever waited for the same rows or had read them before.
AnsweredIsRevoked ==
    \A r \in Request : req[r].pc = "done" =>
        /\ req[r].op = "logout" => ~Live("token", req[r].token)
        /\ (req[r].op = "revoke" \/ (req[r].op = "logout" /\ Managed /\ req[r].session # None))
             => ~Live("session", req[r].session)

\* specs/023: revoking a session, by logout, by its owner or by a password
\* reset, revokes its tokens, except those issued by a login or a refresh
\* that was under way when the tokens were selected, or has found the session
\* revoked: they are usable in a revoked session.
RevokedSessionHasNoToken ==
    \A t \in Request :
        /\ Live("token", t)
        /\ req[t].session # None
        /\ db[<<"session", req[t].session>>] = "revoked"
        => t \in late

\* No request waits for ever, although logouts lock tokens before sessions
\* and revocations of sessions lock them after.
RequestsEnd == <>[](\A r \in Request : req[r].pc \in Answer \cup {"idle"})

\* specs/010: "reuse revokes the complete token family".
Family(t) ==
    LET issued == {r \in Request : db[<<"token", r>>] # "none"}
        from[n \in 0 .. Cardinality(Request)] ==
          IF n = 0 THEN {t}
          ELSE from[n - 1] \cup {r \in issued : req[r].op = "refresh" /\ req[r].token \in from[n - 1]}
    IN from[Cardinality(Request)]

ReuseRevokesFamily ==
    \A r \in Request : req[r].pc = "replay" =>
        \A t \in Family(req[r].token) : ~Live("token", t)
=============================================================================
