------------------------- MODULE AuthTokens_proofs -------------------------
(***************************************************************************)
(* Theorems about AuthTokens, for any users, requests and earlier logins,  *)
(* with and without session management.                                    *)
(***************************************************************************)
EXTENDS AuthTokens, TLAPS

-----------------------------------------------------------------------------
(* The inductive invariant.                                                *)

Dead(x) == db[x] \in {"revoked", "deleted"}

Takes(r, x) == x \in req[r].targets \cup req[r].held

Types ==
    /\ db \in [Row -> {"none", "live", "revoked", "deleted"}]
    /\ expired \subseteq Request
    /\ req \in [Request -> Transaction]
    /\ late \subseteq Request
    /\ \A r \in Request : req[r].targets \cap req[r].held = {}

\* A row is written by the request that it bears the name of, and is there
\* no longer than its user.
Rooted ==
    /\ \A u \in User : db[<<"user", u>>] \in {"live", "deleted"}
    /\ \A r \in Request, k \in {"session", "token"} :
         /\ db[<<k, r>>] # "none" => req[r].pc = "done"
         /\ db[<<k, r>>] \in {"live", "revoked"} => db[<<"user", req[r].user>>] = "live"
         /\ db[<<k, r>>] = "deleted" => db[<<"user", req[r].user>>] = "deleted"

\* A row is held by one transaction, which found it there.
Locks ==
    \A r \in Request :
        /\ \A x \in req[r].held :
             /\ db[x] \in {"live", "revoked"}
             /\ \A q \in Request \ {r} : x \notin req[q].held
        /\ \A x \in req[r].targets : db[x] # "none"

OpOfPc(r) ==
    /\ req[r].pc \in {"rotate", "reuse", "stale"} => req[r].op = "refresh"
    /\ req[r].pc = "issue" => req[r].op \in {"login", "refresh"}
    /\ req[r].pc \in {"family", "session"} => req[r].op = "logout"
    /\ req[r].pc = "session" => req[r].session # None
    /\ req[r].pc = "tokens" => req[r].op \in {"logout", "revoke", "others", "reset"}
    /\ req[r].pc = "sessions" => req[r].op = "reset"
    /\ req[r].pc = "cascade" => req[r].op = "delete"
    /\ req[r].pc = "commit" => req[r].op \in {"logout", "revoke", "others", "reset", "delete"}
    /\ req[r].pc \in {"rotate", "reuse", "stale", "issue", "family", "idle"} \cup Answer =>
         req[r].targets = {} /\ req[r].held = {}

\* The token and the session of a request are known and of its user.
References(r) ==
    /\ req[r].token # None =>
         db[<<"token", req[r].token>>] # "none" /\ req[req[r].token].user = req[r].user
    /\ req[r].session # None =>
         db[<<"session", req[r].session>>] # "none" /\ req[req[r].session].user = req[r].user
    /\ req[r].op \in {"refresh", "logout"} => req[r].token # None
    /\ req[r].op \in {"revoke", "others"} => req[r].session # None

\* Which rows a transaction takes.
Scope(r) ==
    /\ \A s \in Request : Takes(r, <<"session", s>>) =>
         /\ req[r].op \in {"logout", "revoke"} => s = req[r].session
         /\ req[r].op = "others" => s # req[r].session
         /\ req[r].op \in {"others", "reset"} => req[s].user = req[r].user
         /\ req[r].op = "reset" => req[r].pc = "commit"
         /\ req[r].pc # "session"
    /\ req[r].op \in {"logout", "revoke", "others"} /\ req[r].pc = "commit" =>
         \A s \in Request : <<"session", s>> \notin req[r].targets
    /\ req[r].op = "delete" =>
         /\ \A u \in User : Takes(r, <<"user", u>>) =>
              u = req[r].user /\ (req[r].pc = "commit" => <<"user", u>> \in req[r].held)
         /\ \A k \in {"session", "token"}, p \in Request : Takes(r, <<k, p>>) =>
              /\ req[r].pc = "commit" /\ req[p].user = req[r].user
              /\ <<"user", req[r].user>> \in req[r].held

\* What a request is about is revoked, or will be when it commits.
Taken(r) ==
    /\ req[r].op = "refresh" /\ req[r].pc \in {"issue", "done"} => Dead(<<"token", req[r].token>>)
    /\ req[r].op = "logout" /\ req[r].pc \in {"session", "tokens", "commit", "done"} =>
         Dead(<<"token", req[r].token>>) \/ Takes(r, <<"token", req[r].token>>)
    /\ /\ req[r].op = "revoke" \/ (req[r].op = "logout" /\ Managed /\ req[r].session # None)
       /\ req[r].pc \in {"tokens", "commit", "done"}
       => Dead(<<"session", req[r].session>>) \/ Takes(r, <<"session", req[r].session>>)

\* The deletion of a user takes all of the user's tokens and sessions.
UserTaken(r) ==
    req[r].op = "delete" /\ req[r].pc = "commit" /\ <<"user", req[r].user>> \in req[r].held =>
      \A k \in {"session", "token"}, p \in Request :
        db[<<k, p>>] \in {"live", "revoked"} /\ req[p].user = req[r].user => Takes(r, <<k, p>>)

\* A revocation that has selected its tokens takes all that are live, but
\* for those issued since.
TokensTaken(r) ==
    req[r].op # "delete" =>
      \A t \in Request :
        Live("token", t) /\ req[t].session # None /\ PastTokens(r, req[t].session) =>
          t \in late \/ Takes(r, <<"token", t>>)

RequestInv(r) ==
    /\ OpOfPc(r) /\ References(r) /\ Scope(r)
    /\ Taken(r) /\ UserTaken(r) /\ TokensTaken(r)

TokensInv ==
    /\ Types /\ Rooted /\ Locks /\ RevokedSessionHasNoToken
    /\ \A r \in Request : RequestInv(r)

-----------------------------------------------------------------------------
(* Rows.                                                                   *)

LEMMA RowForms ==
    /\ \A u \in User : <<"user", u>> \in Row
    /\ \A k \in {"session", "token"}, r \in Request : <<k, r>> \in Row
    /\ \A x \in Row : \/ \E u \in User : x = <<"user", u>>
                      \/ \E k \in {"session", "token"}, r \in Request : x = <<k, r>>
BY DEF Row

LEMMA TransactionStep ==
    ASSUME NEW S, NEW f \in [Request -> S], NEW r, NEW e \in S
    PROVE  [f EXCEPT ![r] = e] \in [Request -> S]
OBVIOUS

\* A row is there with its user, and gone with its user.
LEMMA RowsOfUser ==
    ASSUME TokensInv, NEW k \in {"session", "token"}, NEW p \in Request
    PROVE  /\ db[<<k, p>>] # "none" => req[p].pc = "done"
           /\ db[<<k, p>>] \in {"live", "revoked"} => db[<<"user", req[p].user>>] = "live"
           /\ db[<<k, p>>] = "deleted" => db[<<"user", req[p].user>>] = "deleted"
<1>1. Rooted
  BY DEF TokensInv
<1> QED BY <1>1 DEF Rooted

\* The rows of a request that has not issued them are not there.
LEMMA NotIssued ==
    ASSUME TokensInv, NEW r \in Request, req[r].pc # "done"
    PROVE  db[<<"token", r>>] = "none" /\ db[<<"session", r>>] = "none"
BY DEF TokensInv, Rooted

-----------------------------------------------------------------------------
(* Types.                                                                  *)

LEMMA TypesInit == Init => Types
<1> SUFFICES ASSUME Init PROVE Types
  OBVIOUS
<1>1. PICK user \in [Request -> User], managed \in SUBSET Earlier :
        /\ Managed \/ managed = {}
        /\ db = [x \in Row |-> IF \/ x[1] = "user"
                                  \/ x \in {"token"} \X Earlier
                                  \/ x \in {"session"} \X managed
                               THEN "live" ELSE "none"]
        /\ req = [r \in Request |->
                    [op |-> IF r \in Earlier THEN "login" ELSE "none",
                     pc |-> IF r \in Earlier THEN "done" ELSE "idle",
                     user |-> user[r], token |-> None,
                     session |-> IF r \in managed THEN r ELSE None,
                     targets |-> {}, held |-> {}]]
        /\ expired = {}
        /\ late = {}
  BY Zenon DEF Init
<1>2. db \in [Row -> {"none", "live", "revoked", "deleted"}]
  BY <1>1
<1>3. ASSUME NEW r \in Request
      PROVE  req[r] \in Transaction /\ req[r].targets = {}
  BY <1>1, TokensAssumption DEF Transaction, Op, Pc, Answer
<1>4. req \in [Request -> Transaction]
  BY <1>1, <1>3
<1> QED BY <1>1, <1>2, <1>3, <1>4 DEF Types

\* Steps of request r to another place, with other rows.
LEMMA GotoIsMove ==
    ASSUME Types, NEW r \in Request, NEW pc, Goto(r, pc)
    PROVE  req' = [req EXCEPT ![r].pc = pc, ![r].targets = req[r].targets, ![r].held = req[r].held]
<1>1. req' = [req EXCEPT ![r] = [req[r] EXCEPT !.pc = pc]]
  BY DEF Goto
<1>2. [req[r] EXCEPT !.pc = pc]
        = [req[r] EXCEPT !.pc = pc, !.targets = req[r].targets, !.held = req[r].held]
  BY DEF Types, Transaction
<1> QED BY <1>1, <1>2

LEMMA SelectIsMove ==
    ASSUME Types, NEW r \in Request, NEW pc, NEW rows, Select(r, pc, rows)
    PROVE  req' = [req EXCEPT ![r].pc = pc, ![r].targets = rows, ![r].held = req[r].held]
<1>1. req' = [req EXCEPT ![r] = [req[r] EXCEPT !.pc = pc, !.targets = rows]]
  BY DEF Select
<1>2. [req[r] EXCEPT !.pc = pc, !.targets = rows]
        = [req[r] EXCEPT !.pc = pc, !.targets = rows, !.held = req[r].held]
  BY DEF Types, Transaction
<1> QED BY <1>1, <1>2

LEMMA EndIsMove ==
    ASSUME Types, NEW r \in Request, NEW answer, End(r, answer)
    PROVE  req' = [req EXCEPT ![r].pc = answer, ![r].targets = {}, ![r].held = {}]
BY DEF End

-----------------------------------------------------------------------------
(* What a step of one request leaves of the others.                        *)

\* Rows are only written, revoked and deleted, in this order; a row that is
\* written is not of a user that is being deleted; a token that is written
\* is late if a revocation of its session has selected its tokens.
Outside(r) ==
    /\ \A q \in Request \ {r} : req'[q] = req[q]
    /\ req[r].pc = "done" => req'[r] = req[r]
    /\ \A x \in Row : /\ db[x] # "none" => db'[x] # "none"
                      /\ Dead(x) => db'[x] \in {"revoked", "deleted"}
    /\ \A k \in {"session", "token"}, p \in Request :
         db[<<k, p>>] = "none" /\ db'[<<k, p>>] # "none" =>
           /\ p = r /\ req'[r].user = req[r].user /\ ~BeingDeleted(req[r].user)
           /\ k = "token" /\ req'[r].session # None /\ Missed(req'[r].session) => r \in late'
    /\ late \subseteq late'

\* A row that is there is of a request that has ended well, and remains so.
LEMMA WrittenIsDone ==
    ASSUME TokensInv, NEW r \in Request, Outside(r),
           NEW k \in {"session", "token"}, NEW p \in Request, db[<<k, p>>] # "none"
    PROVE  req[p].pc = "done" /\ req'[p] = req[p]
<1>1. req[p].pc = "done"
  BY DEF TokensInv, Rooted
<1> QED BY <1>1 DEF Outside

\* Rows that come alive are new.
LEMMA LiveIsOldOrNew ==
    ASSUME TokensInv, Types', NEW r \in Request, Outside(r), NEW x \in Row,
           db'[x] \notin {"revoked", "deleted"}
    PROVE  db[x] \in {"none", "live"}
BY DEF Outside, Dead, TokensInv, Types

LEMMA OthersKeep ==
    ASSUME TokensInv, Types', NEW r \in Request, Outside(r), NEW q \in Request \ {r}
    PROVE  RequestInv(q)'
<1>1. req'[q] = req[q]
  BY DEF Outside
<1>2. RequestInv(q)
  BY DEF TokensInv
<1>3. OpOfPc(q)'
  BY <1>1, <1>2 DEF RequestInv, OpOfPc
<1>4. req[q].token \in Request \cup {None} /\ req[q].session \in Request \cup {None}
  BY DEF TokensInv, Types, Transaction
<1>5. References(q)'
  <2>1. ASSUME req[q].token # None
        PROVE  db'[<<"token", req[q].token>>] # "none" /\ req'[req[q].token].user = req[q].user
    BY <1>2, <1>4, <2>1, WrittenIsDone, RowForms DEF RequestInv, References, Outside
  <2>2. ASSUME req[q].session # None
        PROVE  db'[<<"session", req[q].session>>] # "none" /\ req'[req[q].session].user = req[q].user
    BY <1>2, <1>4, <2>2, WrittenIsDone, RowForms DEF RequestInv, References, Outside
  <2> QED BY <1>1, <1>2, <2>1, <2>2 DEF RequestInv, References
<1>6. ASSUME NEW k \in {"session", "token"}, NEW p \in Request, Takes(q, <<k, p>>)
      PROVE  req'[p] = req[p]
  <2>1. db[<<k, p>>] # "none"
    BY <1>6 DEF TokensInv, Locks, Takes
  <2> QED BY <2>1, WrittenIsDone
<1>7. Scope(q)'
  BY <1>1, <1>2, <1>6 DEF RequestInv, Scope, Takes
<1>8. Taken(q)'
  <2>1. ASSUME NEW x \in Row, Dead(x) PROVE Dead(x)'
    BY <2>1 DEF Outside, Dead
  <2>2. req[q].op \in {"refresh", "logout"} => <<"token", req[q].token>> \in Row
    BY <1>2, <1>4, RowForms DEF RequestInv, References
  <2>3. req[q].session # None \/ req[q].op = "revoke" => <<"session", req[q].session>> \in Row
    BY <1>2, <1>4, RowForms DEF RequestInv, References
  <2> QED BY <1>1, <1>2, <2>1, <2>2, <2>3 DEF RequestInv, Taken, Takes
<1>9. UserTaken(q)'
  <2> SUFFICES ASSUME req[q].op = "delete", req[q].pc = "commit",
                      <<"user", req[q].user>> \in req[q].held,
                      NEW k \in {"session", "token"}, NEW p \in Request,
                      db'[<<k, p>>] \in {"live", "revoked"}, req'[p].user = req[q].user
               PROVE  Takes(q, <<k, p>>)
    BY <1>1 DEF UserTaken, Takes
  <2>1. CASE db[<<k, p>>] = "none"
    BY <2>1 DEF Outside, BeingDeleted
  <2>2. CASE db[<<k, p>>] = "deleted"
    <3>1. req[p].pc = "done" /\ req'[p] = req[p]
      BY <2>2, WrittenIsDone
    <3>2. db[<<"user", req[p].user>>] = "deleted"
      BY <2>2 DEF TokensInv, Rooted
    <3>3. db[<<"user", req[q].user>>] \in {"live", "revoked"}
      BY DEF TokensInv, Locks
    <3> QED BY <3>1, <3>2, <3>3
  <2>3. CASE db[<<k, p>>] \in {"live", "revoked"}
    <3>1. req'[p] = req[p]
      BY <2>3, WrittenIsDone
    <3> QED BY <1>2, <2>3, <3>1 DEF RequestInv, UserTaken
  <2>4. db[<<k, p>>] \in {"none", "live", "revoked", "deleted"}
    BY RowForms DEF TokensInv, Types
  <2> QED BY <2>1, <2>2, <2>3, <2>4
<1>10. TokensTaken(q)'
  <2> SUFFICES ASSUME req[q].op # "delete", NEW t \in Request, db'[<<"token", t>>] = "live",
                      NEW s, s = req'[t].session, s # None, PastTokens(q, s)'
               PROVE  t \in late' \/ Takes(q, <<"token", t>>)
    BY <1>1 DEF TokensTaken, Takes, Live
  <2>1. db[<<"token", t>>] \in {"none", "live"}
    BY LiveIsOldOrNew, RowForms
  <2>2. s \in Request
    BY DEF Types, Transaction
  <2>3. CASE db[<<"token", t>>] = "live"
    <3>1. req'[t] = req[t]
      BY <2>3, WrittenIsDone
    <3>2. db[<<"session", s>>] # "none"
      BY <3>1 DEF TokensInv, RequestInv, References
    <3>3. req'[s] = req[s]
      BY <2>2, <3>2, WrittenIsDone
    <3>4. PastTokens(q, s)
      BY <1>1, <3>3 DEF PastTokens
    <3> QED BY <1>2, <2>3, <3>1, <3>4 DEF RequestInv, TokensTaken, Live, Outside
  <2>4. CASE db[<<"token", t>>] = "none"
    <3>1. /\ t = r /\ req'[r].user = req[r].user
          /\ Missed(s) => r \in late'
      BY <2>4 DEF Outside
    <3>2. req'[s].user = req[s].user
      BY <2>2, <3>1 DEF Outside
    <3>3. PastTokens(q, s)
      BY <1>1, <3>2 DEF PastTokens
    <3> QED BY <3>1, <3>3 DEF Missed
  <2> QED BY <2>1, <2>3, <2>4
<1> QED BY <1>3, <1>5, <1>7, <1>8, <1>9, <1>10 DEF RequestInv

-----------------------------------------------------------------------------
(* Steps of a transaction that write nothing yet.                          *)

\* Request r goes to another place, takes other targets or holds other rows.
Move(r, pc, targets, held) ==
    /\ UNCHANGED <<db, late>>
    /\ \A q \in Request \ {r} : req'[q] = req[q]
    /\ req'[r].op = req[r].op /\ req'[r].user = req[r].user
    /\ req'[r].token = req[r].token /\ req'[r].session = req[r].session
    /\ req'[r].pc = pc /\ req'[r].targets = targets /\ req'[r].held = held

LEMMA MoveIsOutside ==
    ASSUME NEW r \in Request, req[r].pc # "done", NEW pc, NEW targets, NEW held,
           Move(r, pc, targets, held)
    PROVE  Outside(r)
BY DEF Move, Outside, Dead

\* A step that writes nothing.
LEMMA QuietStep ==
    ASSUME TokensInv, Types', NEW r \in Request, Outside(r), UNCHANGED <<db, late>>,
           \A x \in req'[r].targets : db[x] # "none",
           \A x \in req'[r].held : /\ db[x] \in {"live", "revoked"}
                                   /\ \A q \in Request \ {r} : x \notin req[q].held,
           RequestInv(r)'
    PROVE  TokensInv'
<1>1. Outside(r)
  OBVIOUS
<1>2. \A q \in Request : RequestInv(q)'
  BY <1>1, OthersKeep
<1>3. UNCHANGED <<db, late>>
  OBVIOUS
<1>4. ASSUME NEW k \in {"session", "token"}, NEW p \in Request, db[<<k, p>>] # "none"
      PROVE  req[p].pc = "done" /\ req'[p] = req[p]
  BY <1>1, <1>4, WrittenIsDone
<1>5. Rooted'
  <2>1. ASSUME NEW p \in Request, NEW k \in {"session", "token"}
        PROVE  /\ db[<<k, p>>] # "none" => req'[p].pc = "done"
               /\ db[<<k, p>>] \in {"live", "revoked"} => db[<<"user", req'[p].user>>] = "live"
               /\ db[<<k, p>>] = "deleted" => db[<<"user", req'[p].user>>] = "deleted"
    <3>1. CASE db[<<k, p>>] = "none"
      BY <3>1
    <3>2. CASE db[<<k, p>>] # "none"
      <4>1. req[p].pc = "done" /\ req'[p] = req[p]
        BY <1>4, <3>2
      <4>2. /\ db[<<k, p>>] \in {"live", "revoked"} => db[<<"user", req[p].user>>] = "live"
            /\ db[<<k, p>>] = "deleted" => db[<<"user", req[p].user>>] = "deleted"
        BY RowsOfUser
      <4> QED BY <4>1, <4>2, Zenon
    <3> QED BY <3>1, <3>2
  <2> QED BY <1>3, <2>1 DEF TokensInv, Rooted
<1>6. Locks'
  <2>1. \A q \in Request \ {r} : req'[q] = req[q]
    BY <1>1 DEF Outside
  <2> QED BY <1>3, <2>1 DEF TokensInv, Locks
<1>7. RevokedSessionHasNoToken'
  <2> SUFFICES ASSUME NEW t \in Request, db[<<"token", t>>] = "live", req'[t].session # None,
                      db[<<"session", req'[t].session>>] = "revoked"
               PROVE  t \in late
    BY <1>3 DEF RevokedSessionHasNoToken, Live
  <2>1. req'[t] = req[t]
    BY <1>4
  <2> QED BY <2>1 DEF TokensInv, RevokedSessionHasNoToken, Live
<1> QED BY <1>2, <1>5, <1>6, <1>7 DEF TokensInv

LEMMA MoveStep ==
    ASSUME TokensInv, Types', NEW r \in Request, req[r].pc # "done",
           NEW pc, NEW targets, NEW held, Move(r, pc, targets, held),
           \A x \in targets : db[x] # "none",
           \A x \in held : /\ db[x] \in {"live", "revoked"}
                           /\ \A q \in Request \ {r} : x \notin req[q].held,
           RequestInv(r)'
    PROVE  TokensInv'
<1>1. Outside(r)
  BY MoveIsOutside
<1>2. req'[r].targets = targets /\ req'[r].held = held /\ UNCHANGED <<db, late>>
  BY DEF Move
<1> QED BY <1>1, <1>2, QuietStep

LEMMA MoveReferences ==
    ASSUME TokensInv, NEW r \in Request, NEW pc, NEW targets, NEW held, Move(r, pc, targets, held)
    PROVE  References(r)'
<1>1. References(r)
  BY DEF TokensInv, RequestInv
<1>2. req[r].token \in Request \cup {None} /\ req[r].session \in Request \cup {None}
  BY DEF TokensInv, Types, Transaction
<1>3. \A p \in Request : req'[p].user = req[p].user
  BY DEF Move
<1>4. /\ req'[r].op = req[r].op /\ req'[r].user = req[r].user
      /\ req'[r].token = req[r].token /\ req'[r].session = req[r].session
      /\ UNCHANGED db
  BY DEF Move
<1> QED BY <1>1, <1>2, <1>3, <1>4 DEF References

\* A request that is over takes nothing.
LEMMA OverStep ==
    ASSUME TokensInv, Types', NEW r \in Request, req[r].pc # "done",
           NEW pc \in {"failed", "replay"}, Move(r, pc, {}, {})
    PROVE  TokensInv'
<1>1. OpOfPc(r)'
  BY DEF Move, OpOfPc
<1>2. References(r)'
  BY MoveReferences
<1>3. Scope(r)' /\ Taken(r)' /\ UserTaken(r)' /\ TokensTaken(r)'
  BY DEF Move, Scope, Takes, Taken, UserTaken, TokensTaken, PastTokens
<1> QED BY <1>1, <1>2, <1>3, MoveStep DEF RequestInv

LEMMA MoveByExcept ==
    ASSUME Types, NEW r \in Request,
           NEW pc \in Pc, NEW targets \in SUBSET Row, NEW held \in SUBSET Row,
           targets \cap held = {}, UNCHANGED <<db, expired, late>>,
           req' = [req EXCEPT ![r].pc = pc, ![r].targets = targets, ![r].held = held]
    PROVE  Types' /\ Move(r, pc, targets, held)
<1> DEFINE e == [req[r] EXCEPT !.pc = pc, !.targets = targets, !.held = held]
<1>1. /\ req' \in [Request -> Transaction]
      /\ \A q \in Request \ {r} : req'[q] = req[q]
      /\ req'[r].op = req[r].op /\ req'[r].user = req[r].user
      /\ req'[r].token = req[r].token /\ req'[r].session = req[r].session
      /\ req'[r].pc = pc /\ req'[r].targets = targets /\ req'[r].held = held
  <2>1. e \in Transaction
    BY DEF Types, Transaction
  <2>2. req' = [req EXCEPT ![r] = e]
    BY DEF Types
  <2>3. /\ e.op = req[r].op /\ e.user = req[r].user
        /\ e.token = req[r].token /\ e.session = req[r].session
        /\ e.pc = pc /\ e.targets = targets /\ e.held = held
    BY DEF Types, Transaction
  <2> HIDE DEF e
  <2>4. req' \in [Request -> Transaction]
    <3>1. req \in [Request -> Transaction]
      BY DEF Types
    <3> QED BY <2>1, <2>2, <3>1, TransactionStep, Zenon
  <2>5. req'[r] = e /\ \A q \in Request \ {r} : req'[q] = req[q]
    BY <2>2 DEF Types
  <2> QED BY <2>3, <2>4, <2>5
<1>2. Move(r, pc, targets, held)
  BY <1>1 DEF Move
<1>3. \A q \in Request : req'[q].targets \cap req'[q].held = {}
  BY <1>1 DEF Types
<1> QED BY <1>1, <1>2, <1>3 DEF Types

LEMMA SelectMove ==
    ASSUME Types, NEW r \in Request, NEW pc \in Pc, NEW rows \in SUBSET Row,
           rows \cap req[r].held = {}, UNCHANGED <<db, expired, late>>, Select(r, pc, rows)
    PROVE  Types' /\ Move(r, pc, rows, req[r].held)
<1>1. req' = [req EXCEPT ![r].pc = pc, ![r].targets = rows, ![r].held = req[r].held]
  BY SelectIsMove, Zenon
<1>2. req[r].held \in SUBSET Row
  BY DEF Types, Transaction
<1> QED BY <1>1, <1>2, MoveByExcept, Zenon

LEMMA GotoMove ==
    ASSUME Types, NEW r \in Request, NEW pc \in Pc,
           UNCHANGED <<db, expired, late>>, Goto(r, pc)
    PROVE  Types' /\ Move(r, pc, req[r].targets, req[r].held)
<1>1. req' = [req EXCEPT ![r].pc = pc, ![r].targets = req[r].targets, ![r].held = req[r].held]
  BY GotoIsMove, Zenon
<1>2. /\ req[r].held \in SUBSET Row /\ req[r].targets \in SUBSET Row
      /\ req[r].targets \cap req[r].held = {}
  BY DEF Types, Transaction
<1> QED BY <1>1, <1>2, MoveByExcept, Zenon

LEMMA EndMove ==
    ASSUME Types, NEW r \in Request, NEW answer \in Answer,
           UNCHANGED <<db, expired, late>>, End(r, answer)
    PROVE  Types' /\ Move(r, answer, {}, {})
<1>1. req' = [req EXCEPT ![r].pc = answer, ![r].targets = {}, ![r].held = {}]
  BY EndIsMove, Zenon
<1>2. answer \in Pc /\ {} \in SUBSET Row /\ {} \cap {} = {}
  BY DEF Pc
<1> QED BY <1>1, <1>2, MoveByExcept, Zenon

\* What a transaction holds, it keeps holding.
LEMMA HeldStays ==
    ASSUME TokensInv, NEW r \in Request
    PROVE  \A x \in req[r].held : /\ db[x] \in {"live", "revoked"}
                                  /\ \A q \in Request \ {r} : x \notin req[q].held
BY DEF TokensInv, Locks

\* The family of a token, and then its session.
LEMMA RevokeFamilyStep ==
    ASSUME TokensInv, NEW r \in Request, RevokeFamily(r)
    PROVE  TokensInv'
<1> DEFINE x    == <<"token", req[r].token>>
           rows == {y \in {x} : db[y] = "live"}
           pc   == IF Managed /\ req[r].session # None THEN "session" ELSE "commit"
<1>1. /\ req[r].pc = "family" /\ req[r].op = "logout"
      /\ req[r].targets = {} /\ req[r].held = {}
      /\ req[r].token \in Request /\ db[x] # "none" /\ x \in Row
  BY RowForms DEF RevokeFamily, TokensInv, RequestInv, OpOfPc, References, Types, Transaction
<1>2. Types' /\ Move(r, pc, rows, {})
  <2>1. rows \in SUBSET Row /\ pc \in Pc
    BY <1>1 DEF Pc
  <2> QED BY <1>1, <2>1, SelectMove, Zenon DEF RevokeFamily, TokensInv
<1> HIDE DEF pc
<1>3. \A y \in rows : db[y] # "none"
  OBVIOUS
<1>4. RequestInv(r)'
  <2>1. pc \in {"session", "commit"} /\ (pc = "commit" => ~Managed \/ req[r].session = None)
      /\ (pc = "session" => req[r].session # None)
    BY DEF pc
  <2>2. /\ req'[r].pc = pc /\ req'[r].targets = rows /\ req'[r].held = {}
        /\ req'[r].op = "logout" /\ UNCHANGED db
        /\ req'[r].token = req[r].token /\ req'[r].session = req[r].session
    BY <1>1, <1>2 DEF Move
  <2>3. OpOfPc(r)'
    BY <2>1, <2>2 DEF OpOfPc, Answer
  <2>4. References(r)'
    BY <1>2, MoveReferences
  <2>5. Scope(r)'
    BY <2>2 DEF Scope, Takes
  <2>6. Taken(r)'
    <3>1. Dead(x) \/ x \in rows
      BY <1>1 DEF TokensInv, Types, Dead
    <3> QED BY <2>1, <2>2, <3>1 DEF Taken, Takes, Dead
  <2>7. UserTaken(r)' /\ TokensTaken(r)'
    BY <2>2 DEF UserTaken, TokensTaken, PastTokens
  <2> QED BY <2>3, <2>4, <2>5, <2>6, <2>7 DEF RequestInv
<1> QED BY <1>1, <1>2, <1>3, <1>4, MoveStep

LEMMA FindSessionStep ==
    ASSUME TokensInv, NEW r \in Request, FindSession(r)
    PROVE  TokensInv'
<1> DEFINE s == req[r].session
           x == <<"session", s>>
<1>1. /\ req[r].pc = "session" /\ req[r].op = "logout" /\ req[r].targets = {}
      /\ s # None
      /\ \A p \in Request : ~Takes(r, <<"session", p>>)
      /\ UNCHANGED <<db, expired, late>>
  BY DEF FindSession, TokensInv, RequestInv, OpOfPc, Scope
<1>2. Dead(<<"token", req[r].token>>) \/ <<"token", req[r].token>> \in req[r].held
  BY <1>1 DEF TokensInv, RequestInv, Taken, Takes
<1>3. s \in Request /\ x \in Row /\ db[x] # "none"
  BY <1>1, RowForms DEF TokensInv, RequestInv, References, Types, Transaction
<1>4. ASSUME NEW pc \in {"tokens", "commit"}, NEW rows \in SUBSET Row,
             Move(r, pc, rows, req[r].held), Types',
             Dead(x) \/ x \in rows,
             \A y \in rows : y = x /\ db[y] # "none",
             pc = "commit" => rows = {}
      PROVE  TokensInv'
  <2>1. /\ req'[r].pc = pc /\ req'[r].targets = rows /\ req'[r].held = req[r].held
        /\ req'[r].op = "logout" /\ UNCHANGED db
        /\ req'[r].token = req[r].token /\ req'[r].session = s
    BY <1>1, <1>4 DEF Move
  <2>2. OpOfPc(r)'
    BY <2>1 DEF OpOfPc, Answer
  <2>3. References(r)'
    BY <1>4, MoveReferences
  <2>4. Scope(r)'
    BY <1>1, <1>4, <2>1 DEF Scope, Takes
  <2>5. Taken(r)'
    BY <1>2, <1>4, <2>1 DEF Taken, Takes, Dead
  <2>6. UserTaken(r)'
    BY <2>1 DEF UserTaken
  <2>7. TokensTaken(r)'
    <3>1. \A t \in Request : req'[t].session \in Request \cup {None}
      BY <1>4 DEF Types, Transaction
    <3>2. \A p \in Request : ~PastTokens(r, p)'
      BY <1>1, <2>1 DEF PastTokens, Takes
    <3> QED BY <3>1, <3>2 DEF TokensTaken
  <2>8. RequestInv(r)'
    BY <2>2, <2>3, <2>4, <2>5, <2>6, <2>7 DEF RequestInv
  <2> QED BY <1>1, <1>4, <2>8, HeldStays, MoveStep
<1>5. CASE Live("session", s)
  <2>1. {x} \in SUBSET Row /\ {x} \cap req[r].held = {} /\ "tokens" \in Pc
    BY <1>1, <1>3 DEF Takes, Pc
  <2>2. Select(r, "tokens", {x})
    BY <1>5 DEF FindSession
  <2>3. Types' /\ Move(r, "tokens", {x}, req[r].held)
    BY <1>1, <2>1, <2>2, SelectMove DEF TokensInv
  <2> QED BY <1>3, <1>4, <2>1, <2>3
<1>6. CASE ~Live("session", s)
  <2>1. Goto(r, "commit")
    BY <1>6 DEF FindSession
  <2>2. Types' /\ Move(r, "commit", {}, req[r].held)
    BY <1>1, <2>1, GotoMove DEF TokensInv, Pc
  <2>3. Dead(x)
    BY <1>3, <1>6 DEF Live, Dead, TokensInv, Types
  <2> QED BY <1>4, <2>2, <2>3
<1> QED BY <1>5, <1>6

\* The tokens, when no row is waited for.
LEMMA UpdateTokensStep ==
    ASSUME TokensInv, NEW r \in Request, UpdateTokens(r)
    PROVE  TokensInv'
<1> DEFINE rows == Matched(r)
           pc   == IF req[r].op = "reset" THEN "sessions" ELSE "commit"
<1>1. /\ req[r].pc = "tokens" /\ req[r].op \in {"logout", "revoke", "others", "reset"}
      /\ req[r].targets = {} /\ UNCHANGED <<db, expired, late>>
  BY DEF UpdateTokens, TokensInv, RequestInv, OpOfPc
<1>2. rows \in SUBSET ({"token"} \X Request) /\ rows \in SUBSET Row
      /\ rows \cap req[r].held = {} /\ \A x \in rows : db[x] = "live"
  BY DEF Matched, Row
<1>3. Types' /\ Move(r, pc, rows, req[r].held)
  <2>1. pc \in Pc /\ Select(r, pc, rows)
    BY DEF Pc, UpdateTokens
  <2> HIDE DEF rows, pc
  <2> QED BY <1>1, <1>2, <2>1, SelectMove DEF TokensInv
<1>4. /\ req'[r].pc = pc /\ req'[r].targets = rows /\ req'[r].held = req[r].held
      /\ req'[r].op = req[r].op /\ req'[r].user = req[r].user
      /\ req'[r].token = req[r].token /\ req'[r].session = req[r].session
      /\ \A q \in Request \ {r} : req'[q] = req[q]
  BY <1>3 DEF Move
<1>5. pc \in {"sessions", "commit"} /\ (pc = "sessions" <=> req[r].op = "reset")
  OBVIOUS
<1> HIDE DEF pc
<1>6. OpOfPc(r)'
  BY <1>1, <1>4, <1>5 DEF OpOfPc, Answer
<1>7. References(r)'
  BY <1>3, MoveReferences
<1>8. Scope(r)'
  <2>1. Scope(r) /\ \A p \in Request : req'[p].user = req[p].user
    BY <1>4 DEF TokensInv, RequestInv
  <2>2. \A s \in Request : /\ Takes(r, <<"session", s>>)' => Takes(r, <<"session", s>>)
                           /\ <<"session", s>> \notin rows
    BY <1>2, <1>4 DEF Takes
  <2>3. \A s \in Request : Takes(r, <<"session", s>>) => req[r].op # "reset"
    BY <1>1, <2>1 DEF Scope
  <2> QED BY <1>1, <1>4, <1>5, <2>1, <2>2, <2>3 DEF Scope
<1>9. Taken(r)'
  BY <1>1, <1>4, <1>5 DEF TokensInv, RequestInv, Taken, Takes, Dead
<1>10. UserTaken(r)'
  BY <1>1, <1>4 DEF UserTaken
<1>11. TokensTaken(r)'
  <2> SUFFICES ASSUME NEW t \in Request, db[<<"token", t>>] = "live",
                      NEW s, s = req'[t].session, s # None, PastTokens(r, s)'
               PROVE  <<"token", t>> \in rows \cup req[r].held
    BY <1>1, <1>4 DEF TokensTaken, Takes, Live
  <2>1. t # r /\ req'[t] = req[t]
    BY <1>1, <1>4 DEF TokensInv, Rooted
  <2>2. s \in Request /\ req[s].user = req[t].user
    BY <2>1 DEF TokensInv, Types, Transaction, RequestInv, References
  <2>3. req'[s].user = req[s].user
    BY <1>4, <2>2
  <2>4. Scope(r) /\ References(r)
    BY DEF TokensInv, RequestInv
  <2>5. \/ req[r].op = "reset" /\ req[t].user = req[r].user
        \/ req[r].op # "reset" /\ <<"session", s>> \in req[r].held
    BY <1>1, <1>4, <2>2, <2>3, <2>4 DEF PastTokens, Scope, Takes
  <2>6. CASE req[r].op = "reset"
    BY <2>5, <2>6 DEF Matched
  <2>7. CASE req[r].op = "others"
    BY <2>1, <2>2, <2>4, <2>5, <2>7 DEF Matched, Scope, Takes
  <2>8. CASE req[r].op \in {"logout", "revoke"}
    BY <2>1, <2>2, <2>4, <2>5, <2>8 DEF Matched, Scope, Takes
  <2> QED BY <1>1, <2>6, <2>7, <2>8
<1>12. RequestInv(r)'
  BY <1>6, <1>7, <1>8, <1>9, <1>10, <1>11 DEF RequestInv
<1> HIDE DEF rows
<1> QED BY <1>1, <1>2, <1>3, <1>12, HeldStays, MoveStep

\* A password reset takes the sessions after the tokens.
LEMMA UpdateSessionsStep ==
    ASSUME TokensInv, NEW r \in Request, UpdateSessions(r)
    PROVE  TokensInv'
<1> DEFINE rows == LiveSessions(req[r].user)
<1>1. /\ req[r].pc = "sessions" /\ req[r].op = "reset"
      /\ req[r].targets = {} /\ UNCHANGED <<db, expired, late>>
      /\ \A s \in Request : ~Takes(r, <<"session", s>>)
  BY DEF UpdateSessions, TokensInv, RequestInv, OpOfPc, Scope
<1>2. /\ rows \in SUBSET Row /\ rows \cap req[r].held = {}
      /\ \A x \in rows : db[x] = "live"
      /\ \A s \in Request : <<"session", s>> \in rows => req[s].user = req[r].user
  BY <1>1 DEF LiveSessions, Row, Takes
<1> HIDE DEF rows
<1>3. Types' /\ Move(r, "commit", rows, req[r].held)
  <2>1. "commit" \in Pc /\ Select(r, "commit", rows)
    BY DEF Pc, UpdateSessions, rows
  <2> QED BY <1>1, <1>2, <2>1, SelectMove DEF TokensInv
<1>4. /\ req'[r].pc = "commit" /\ req'[r].targets = rows /\ req'[r].held = req[r].held
      /\ req'[r].op = "reset" /\ req'[r].user = req[r].user
      /\ \A q \in Request \ {r} : req'[q] = req[q]
  BY <1>1, <1>3 DEF Move
<1>5. OpOfPc(r)' /\ Taken(r)' /\ UserTaken(r)'
  BY <1>4 DEF OpOfPc, Answer, Taken, UserTaken
<1>6. References(r)'
  BY <1>3, MoveReferences
<1>7. Scope(r)'
  BY <1>1, <1>2, <1>4 DEF Scope, Takes
<1>8. TokensTaken(r)'
  <2> SUFFICES ASSUME NEW t \in Request, db[<<"token", t>>] = "live",
                      NEW s, s = req'[t].session, s # None, PastTokens(r, s)'
               PROVE  t \in late \/ <<"token", t>> \in req[r].held
    BY <1>1, <1>4 DEF TokensTaken, Takes, Live
  <2>1. t # r /\ req'[t] = req[t] /\ s \in Request
    <3>1. t # r /\ req'[t] = req[t]
      BY <1>1, <1>4 DEF TokensInv, Rooted
    <3> QED BY <3>1 DEF TokensInv, Types, Transaction
  <2>2. req'[s].user = req[s].user
    BY <1>4, <2>1
  <2>3. PastTokens(r, s)
    BY <1>1, <1>4, <2>1, <2>2 DEF PastTokens, Takes
  <2>4. t \in late \/ Takes(r, <<"token", t>>)
    BY <1>1, <2>1, <2>3 DEF TokensInv, RequestInv, TokensTaken, Live
  <2> QED BY <1>1, <2>4 DEF Takes
<1>9. RequestInv(r)'
  BY <1>5, <1>6, <1>7, <1>8 DEF RequestInv
<1> QED BY <1>1, <1>2, <1>3, <1>9, HeldStays, MoveStep

\* The cascade takes what there is of a user whose row is held.
LEMMA CascadeStep ==
    ASSUME TokensInv, NEW r \in Request, Cascade(r)
    PROVE  TokensInv'
<1> DEFINE u    == req[r].user
           rows == {x \in {"session", "token"} \X Request :
                      req[r].held # {} /\ db[x] \in {"live", "revoked"} /\ req[x[2]].user = u}
<1>1. /\ req[r].pc = "cascade" /\ req[r].op = "delete"
      /\ req[r].targets = {} /\ UNCHANGED <<db, expired, late>>
  BY DEF Cascade, TokensInv, RequestInv, OpOfPc
<1>2. \A x \in req[r].held : x = <<"user", u>>
  <2> SUFFICES ASSUME NEW x \in req[r].held PROVE x = <<"user", u>>
    OBVIOUS
  <2>1. Scope(r) /\ Takes(r, x) /\ x \in Row
    BY DEF TokensInv, RequestInv, Takes, Types, Transaction
  <2>2. ASSUME NEW v \in User, x = <<"user", v>> PROVE x = <<"user", u>>
    BY <1>1, <2>1, <2>2 DEF Scope
  <2>3. ASSUME NEW k \in {"session", "token"}, NEW p \in Request, x = <<k, p>> PROVE FALSE
    BY <1>1, <2>1, <2>3 DEF Scope
  <2> QED BY <2>1, <2>2, <2>3, RowForms
<1>3. /\ rows \in SUBSET Row /\ rows \cap req[r].held = {}
      /\ \A x \in rows : db[x] # "none"
      /\ \A k \in {"session", "token"}, p \in Request :
           <<k, p>> \in rows <=> req[r].held # {} /\ db[<<k, p>>] \in {"live", "revoked"} /\ req[p].user = u
      /\ \A v \in User : <<"user", v>> \notin rows
  BY <1>2 DEF Row
<1>4. "commit" \in Pc /\ Select(r, "commit", rows)
  BY DEF Pc, Cascade
<1> HIDE DEF rows
<1>5. Types' /\ Move(r, "commit", rows, req[r].held)
  BY <1>1, <1>3, <1>4, SelectMove DEF TokensInv
<1>6. /\ req'[r].pc = "commit" /\ req'[r].targets = rows /\ req'[r].held = req[r].held
      /\ req'[r].op = "delete" /\ req'[r].user = u /\ UNCHANGED db
      /\ \A q \in Request : req'[q].user = req[q].user
  BY <1>1, <1>5 DEF Move
<1>7. OpOfPc(r)' /\ Taken(r)' /\ TokensTaken(r)'
  BY <1>6 DEF OpOfPc, Answer, Taken, TokensTaken
<1>8. References(r)'
  BY <1>5, MoveReferences
<1>9. Scope(r)'
  <2>1. ASSUME NEW v \in User, Takes(r, <<"user", v>>)'
        PROVE  v = u /\ <<"user", v>> \in req[r].held
    BY <1>2, <1>3, <1>6, <2>1 DEF Takes
  <2>2. ASSUME NEW k \in {"session", "token"}, NEW p \in Request, Takes(r, <<k, p>>)'
        PROVE  req[p].user = u /\ <<"user", u>> \in req[r].held
    <3>1. <<k, p>> \notin req[r].held
      BY <1>2
    <3> QED BY <1>2, <1>3, <1>6, <2>2, <3>1 DEF Takes
  <2> QED BY <1>6, <2>1, <2>2 DEF Scope
<1>10. UserTaken(r)'
  BY <1>3, <1>6 DEF UserTaken, Takes
<1>11. RequestInv(r)'
  BY <1>7, <1>8, <1>9, <1>10 DEF RequestInv
<1> QED BY <1>1, <1>3, <1>5, <1>11, HeldStays, MoveStep

\* A row that a transaction has waited for matches, or does so no more.
LEMMA LockRowStep ==
    ASSUME TokensInv, NEW r \in Request, NEW x \in req[r].targets, LockRow(r, x)
    PROVE  TokensInv'
<1> DEFINE kept    == req[r].targets \ {x}
           matches == \/ db[x] = "live"
                      \/ db[x] = "revoked" /\ (MustExist(r, x) \/ req[r].op = "delete")
           held    == IF matches THEN req[r].held \cup {x} ELSE req[r].held
<1>1. /\ OpOfPc(r) /\ References(r) /\ Scope(r) /\ Taken(r) /\ UserTaken(r) /\ TokensTaken(r)
      /\ req[r] \in Transaction /\ req[r].targets \cap req[r].held = {}
  BY DEF TokensInv, Types, RequestInv
<1>2. /\ req[r].pc \in {"session", "tokens", "sessions", "cascade", "commit"}
      /\ req[r].pc \in Pc /\ x \in Row /\ db[x] \in {"live", "revoked", "deleted"}
      /\ UNCHANGED <<db, expired, late>>
      /\ \A q \in Request \ {r} : x \notin req[q].held
  BY <1>1 DEF LockRow, HeldByOther, OpOfPc, TokensInv, Types, Locks, Transaction, Pc
<1>3. CASE MustExist(r, x) /\ db[x] = "deleted"
  <2>1. End(r, "failed")
    BY <1>3 DEF LockRow
  <2>2. Types' /\ Move(r, "failed", {}, {})
    BY <1>2, <2>1, EndMove DEF TokensInv, Answer
  <2> QED BY <1>2, <2>2, OverStep
<1>4. CASE ~(MustExist(r, x) /\ db[x] = "deleted")
  <2>1. /\ kept \in SUBSET Row /\ held \in SUBSET Row /\ kept \cap held = {}
        /\ \A y \in held : /\ db[y] \in {"live", "revoked"}
                           /\ \A q \in Request \ {r} : y \notin req[q].held
    BY <1>1, <1>2, HeldStays DEF Transaction
  <2>2. req' = [req EXCEPT ![r].pc = req[r].pc, ![r].targets = kept, ![r].held = held]
    <3>1. req' = [req EXCEPT ![r] = [req[r] EXCEPT !.targets = kept, !.held = held]]
      BY <1>4 DEF LockRow
    <3> HIDE DEF kept, held
    <3>2. [req[r] EXCEPT !.targets = kept, !.held = held]
            = [req[r] EXCEPT !.pc = req[r].pc, !.targets = kept, !.held = held]
      BY <1>1 DEF Transaction
    <3> QED BY <3>1, <3>2
  <2>3. \A y \in kept : db[y] # "none"
    BY DEF TokensInv, Locks
  <2>4. /\ req[r].held \subseteq held /\ held \subseteq req[r].held \cup {x}
        /\ kept \cup held \subseteq req[r].targets \cup req[r].held
        /\ x \in kept \cup held \/ db[x] = "deleted"
             \/ (db[x] = "revoked" /\ ~MustExist(r, x) /\ req[r].op # "delete")
        /\ db[x] = "live" => x \in held
        /\ \A y : Takes(r, y) /\ y # x => y \in kept \cup held
    BY <1>2 DEF Takes
  <2> HIDE DEF kept, held, matches
  <2>5. Types' /\ Move(r, req[r].pc, kept, held)
    BY <1>2, <2>1, <2>2, MoveByExcept DEF TokensInv
  <2>6. /\ req'[r].pc = req[r].pc /\ req'[r].targets = kept /\ req'[r].held = held
        /\ req'[r].op = req[r].op /\ req'[r].user = req[r].user
        /\ req'[r].token = req[r].token /\ req'[r].session = req[r].session
        /\ \A q \in Request \ {r} : req'[q] = req[q]
        /\ \A q \in Request : req'[q].user = req[q].user
    BY <2>5 DEF Move
  <2>7. \A y : Takes(r, y)' => Takes(r, y)
    BY <2>4, <2>6 DEF Takes
  <2>8. OpOfPc(r)'
    BY <1>1, <1>2, <2>6 DEF OpOfPc, Answer
  <2>9. References(r)'
    BY <2>5, MoveReferences
  <2>10. Scope(r)'
    BY <1>1, <2>4, <2>6, <2>7 DEF Scope, kept
  <2>11. Taken(r)'
    <3>1. ASSUME NEW y, Dead(y) \/ Takes(r, y) PROVE Dead(y)' \/ Takes(r, y)'
      BY <1>2, <2>4, <2>6, <3>1 DEF Dead, Takes
    <3> QED BY <1>1, <1>2, <2>6, <3>1 DEF Taken, Dead
  <2>12. UserTaken(r)'
    <3> SUFFICES ASSUME req[r].op = "delete", req[r].pc = "commit",
                        <<"user", req[r].user>> \in held,
                        NEW k \in {"session", "token"}, NEW p \in Request,
                        db[<<k, p>>] \in {"live", "revoked"}, req[p].user = req[r].user
                 PROVE  <<k, p>> \in kept \cup held
      BY <1>2, <2>6 DEF UserTaken, Takes
    <3>1. <<"user", req[r].user>> \in req[r].held
      BY <1>1, <2>4 DEF Scope, Takes, Transaction
    <3>2. Takes(r, <<k, p>>)
      BY <1>1, <3>1 DEF UserTaken
    <3> QED BY <2>4, <3>2
  <2>13. TokensTaken(r)'
    <3> SUFFICES ASSUME req[r].op # "delete", NEW t \in Request, db[<<"token", t>>] = "live",
                        NEW s, s = req'[t].session, s # None, PastTokens(r, s)'
                 PROVE  t \in late \/ <<"token", t>> \in kept \cup held
      BY <1>2, <2>6 DEF TokensTaken, Takes, Live
    <3>1. t # r /\ req'[t] = req[t]
      BY <1>2, <2>6 DEF TokensInv, Rooted
    <3>2. s \in Request
      BY <3>1 DEF TokensInv, Types, Transaction
    <3>3. PastTokens(r, s)
      <4>1. CASE \/ <<"session", s>> \in req[r].held
                 \/ (req[r].op = "reset" /\ req'[s].user = req[r].user)
        BY <2>6, <3>2, <4>1 DEF PastTokens
      <4>2. CASE x = <<"session", s>>
        <5>1. req[r].op = "reset" /\ req[s].user = req[r].user
          BY <1>1, <1>2, <2>6, <3>2, <4>2 DEF Scope, OpOfPc, Takes, PastTokens
        <5> QED BY <2>6, <5>1 DEF PastTokens
      <4> QED BY <2>4, <2>6, <4>1, <4>2 DEF PastTokens
    <3>4. t \in late \/ Takes(r, <<"token", t>>)
      BY <1>1, <3>1, <3>3 DEF TokensTaken, Live
    <3> QED BY <2>4, <3>4
  <2>14. RequestInv(r)'
    BY <2>8, <2>9, <2>10, <2>11, <2>12, <2>13 DEF RequestInv
  <2> QED BY <1>2, <2>1, <2>3, <2>5, <2>14, MoveStep
<1> QED BY <1>3, <1>4

LEMMA FailStep ==
    ASSUME TokensInv, NEW r \in Request, BreakDeadlock(r) \/ Abort(r)
    PROVE  TokensInv'
<1>1. UNCHANGED <<db, expired, late>> /\ End(r, "failed") /\ req[r].pc # "done"
  BY DEF BreakDeadlock, Abort, TokensInv, RequestInv, OpOfPc, Answer
<1>2. Types' /\ Move(r, "failed", {}, {})
  BY <1>1, EndMove DEF TokensInv, Answer
<1> QED BY <1>1, <1>2, OverStep

-----------------------------------------------------------------------------
(* A request begins.                                                       *)

\* What a request may begin with.
Beginning(op, u, t, s, where, rows) ==
    /\ op \in Op /\ u \in User /\ where \in Pc \ {"commit", "sessions"}
    /\ rows \in SUBSET Row /\ \A x \in rows : db[x] # "none"
    /\ t = None \/ (t \in Request /\ db[<<"token", t>>] # "none" /\ req[t].user = u)
    /\ s = None \/ (s \in Request /\ db[<<"session", s>>] # "none" /\ req[s].user = u)
    /\ op \in {"refresh", "logout"} => t # None
    /\ op \in {"revoke", "others"} => s # None

LEMMA BeginMove ==
    ASSUME TokensInv, NEW r \in Request,
           NEW op, NEW u, NEW t, NEW s, NEW where, NEW rows,
           Begin(r, op, u, t, s, where, rows), Beginning(op, u, t, s, where, rows)
    PROVE  /\ Types' /\ Outside(r) /\ UNCHANGED <<db, late>>
           /\ req'[r].op = op /\ req'[r].user = u /\ req'[r].token = t /\ req'[r].session = s
           /\ req'[r].pc = where /\ req'[r].targets = rows /\ req'[r].held = {}
<1> DEFINE e == [op |-> op, pc |-> where, user |-> u, token |-> t,
                 session |-> s, targets |-> rows, held |-> {}]
<1>1. e \in Transaction /\ e.targets \cap e.held = {}
  BY DEF Transaction, Beginning
<1>2. req[r].pc = "idle" /\ req' = [req EXCEPT ![r] = e] /\ UNCHANGED <<db, expired, late>>
  BY DEF Begin
<1>3. req \in [Request -> Transaction]
  BY DEF TokensInv, Types
<1>4. /\ e.op = op /\ e.user = u /\ e.token = t /\ e.session = s
      /\ e.pc = where /\ e.targets = rows /\ e.held = {}
  OBVIOUS
<1> HIDE DEF e
<1>5. req' \in [Request -> Transaction]
  BY <1>1, <1>2, <1>3, TransactionStep, Zenon
<1>6. req'[r] = e /\ \A q \in Request \ {r} : req'[q] = req[q]
  BY <1>2, <1>3
<1>7. Types'
  BY <1>1, <1>2, <1>5, <1>6 DEF TokensInv, Types
<1>8. Outside(r)
  BY <1>2, <1>6 DEF Outside, Dead
<1> QED BY <1>2, <1>4, <1>6, <1>7, <1>8

\* What remains to be shown of a request that begins.
LEMMA BeginStep ==
    ASSUME TokensInv, NEW r \in Request,
           NEW op, NEW u, NEW t, NEW s, NEW where, NEW rows,
           Begin(r, op, u, t, s, where, rows), Beginning(op, u, t, s, where, rows),
           OpOfPc(r)' /\ Scope(r)' /\ Taken(r)'
    PROVE  TokensInv'
<1>1. /\ Types' /\ Outside(r) /\ UNCHANGED <<db, late>>
      /\ req'[r].op = op /\ req'[r].user = u /\ req'[r].token = t /\ req'[r].session = s
      /\ req'[r].pc = where /\ req'[r].targets = rows /\ req'[r].held = {}
  BY BeginMove
<1>2. References(r)'
  <2>1. t # None => req'[t] = req[t]
    BY <1>1, WrittenIsDone DEF Beginning
  <2>2. s # None => req'[s] = req[s]
    BY <1>1, WrittenIsDone DEF Beginning
  <2> QED BY <1>1, <2>1, <2>2 DEF References, Beginning
<1>3. UserTaken(r)' /\ TokensTaken(r)'
  BY <1>1 DEF UserTaken, TokensTaken, PastTokens, Beginning
<1>4. RequestInv(r)'
  BY <1>2, <1>3 DEF RequestInv
<1> QED BY <1>1, <1>4, QuietStep DEF Beginning

\* A token that is there is of a user, and its session is of the same user.
LEMMA TokenReferences ==
    ASSUME TokensInv, NEW t \in Request
    PROVE  /\ req[t].user \in User /\ req[t].session \in Request \cup {None}
           /\ req[t].session # None =>
                db[<<"session", req[t].session>>] # "none" /\ req[req[t].session].user = req[t].user
BY DEF TokensInv, Types, Transaction, RequestInv, References

LEMMA LoginStep ==
    ASSUME TokensInv, NEW r \in Request, NEW u \in User, Login(r, u)
    PROVE  TokensInv'
<1>1. Begin(r, "login", u, None, None, "issue", {})
  BY DEF Login
<1>2. Beginning("login", u, None, None, "issue", {})
  BY DEF Beginning, Op, Pc
<1>3. /\ req'[r].op = "login" /\ req'[r].pc = "issue"
      /\ req'[r].targets = {} /\ req'[r].held = {}
  BY <1>1, <1>2, BeginMove
<1>4. OpOfPc(r)' /\ Scope(r)' /\ Taken(r)'
  BY <1>3 DEF OpOfPc, Answer, Scope, Takes, Taken
<1> QED BY <1>1, <1>2, <1>4, BeginStep

LEMMA RefreshStep ==
    ASSUME TokensInv, NEW r \in Request, NEW t \in Request, Refresh(r, t)
    PROVE  TokensInv'
<1> DEFINE where == IF db[<<"token", t>>] = "deleted" THEN "failed"
                    ELSE IF db[<<"token", t>>] = "revoked" THEN "reuse"
                    ELSE IF t \in expired THEN "stale" ELSE "rotate"
<1>1. /\ db[<<"token", t>>] # "none"
      /\ Begin(r, "refresh", req[t].user, t, req[t].session, where, {})
  BY DEF Refresh
<1>2. where \in {"failed", "reuse", "stale", "rotate"}
  OBVIOUS
<1> HIDE DEF where
<1>3. Beginning("refresh", req[t].user, t, req[t].session, where, {})
  BY <1>1, <1>2, TokenReferences, TokensAssumption DEF Beginning, Op, Pc, Answer
<1>4. /\ req'[r].op = "refresh" /\ req'[r].pc = where
      /\ req'[r].targets = {} /\ req'[r].held = {}
  BY <1>1, <1>3, BeginMove
<1>5. OpOfPc(r)' /\ Scope(r)' /\ Taken(r)'
  BY <1>2, <1>4 DEF OpOfPc, Answer, Scope, Takes, Taken
<1> QED BY <1>1, <1>2, <1>3, <1>5, BeginStep

\* If the token is gone with its user, so is its session.
LEMMA LogoutStep ==
    ASSUME TokensInv, NEW r \in Request, NEW t \in Request, Logout(r, t)
    PROVE  TokensInv'
<1> DEFINE where == IF db[<<"token", t>>] = "deleted" THEN "done" ELSE "family"
           s     == req[t].session
<1>1. /\ db[<<"token", t>>] # "none"
      /\ Begin(r, "logout", req[t].user, t, s, where, {})
  BY DEF Logout
<1>2. where \in {"done", "family"} /\ (where = "done" => db[<<"token", t>>] = "deleted")
  OBVIOUS
<1> HIDE DEF where
<1>3. Beginning("logout", req[t].user, t, s, where, {})
  BY <1>1, <1>2, TokenReferences, TokensAssumption DEF Beginning, Op, Pc, Answer
<1>4. /\ req'[r].op = "logout" /\ req'[r].pc = where /\ req'[r].token = t /\ req'[r].session = s
      /\ req'[r].targets = {} /\ req'[r].held = {} /\ UNCHANGED db
  BY <1>1, <1>3, BeginMove
<1>5. OpOfPc(r)' /\ Scope(r)'
  BY <1>2, <1>4 DEF OpOfPc, Answer, Scope, Takes
<1>6. ASSUME db[<<"token", t>>] = "deleted", s # None
      PROVE  Dead(<<"session", s>>)
  <2>1. s \in Request /\ db[<<"session", s>>] # "none" /\ req[s].user = req[t].user
    BY <1>6, TokenReferences
  <2>2. db[<<"user", req[t].user>>] = "deleted"
    BY <1>6 DEF TokensInv, Rooted
  <2>3. db[<<"session", s>>] \notin {"live", "revoked"}
    BY <2>1, <2>2 DEF TokensInv, Rooted
  <2>4. db[<<"session", s>>] \in {"none", "live", "revoked", "deleted"}
    BY <2>1, RowForms DEF TokensInv, Types
  <2> QED BY <2>1, <2>3, <2>4 DEF Dead
<1>7. Taken(r)'
  BY <1>2, <1>4, <1>6 DEF Taken, Dead
<1> QED BY <1>1, <1>2, <1>3, <1>5, <1>7, BeginStep

LEMMA RevokeSessionStep ==
    ASSUME TokensInv, NEW r \in Request, NEW c \in Request, NEW s \in Request,
           RevokeSession(r, c, s)
    PROVE  TokensInv'
<1> DEFINE rows  == {x \in {<<"session", s>>} : db[x] = "live"}
           where == IF Live("session", s) THEN "tokens" ELSE "failed"
<1>1. /\ db[<<"session", s>>] # "none" /\ req[s].user = req[c].user
      /\ Begin(r, "revoke", req[c].user, None, s, where, rows)
  BY DEF RevokeSession
<1>2. \/ (where = "tokens" /\ rows = {<<"session", s>>} /\ db[<<"session", s>>] = "live")
      \/ (where = "failed" /\ rows = {})
  BY DEF Live
<1> HIDE DEF where, rows
<1>3. Beginning("revoke", req[c].user, None, s, where, rows)
  BY <1>1, <1>2, TokenReferences, RowForms, TokensAssumption DEF Beginning, Op, Pc, Answer
<1>4. /\ req'[r].op = "revoke" /\ req'[r].pc = where /\ req'[r].session = s
      /\ req'[r].targets = rows /\ req'[r].held = {}
  BY <1>1, <1>3, BeginMove
<1>5. OpOfPc(r)' /\ Scope(r)' /\ Taken(r)'
  BY <1>2, <1>4 DEF OpOfPc, Answer, Scope, Takes, Taken
<1> QED BY <1>1, <1>2, <1>3, <1>5, BeginStep

LEMMA RevokeOthersStep ==
    ASSUME TokensInv, NEW r \in Request, NEW c \in Request, RevokeOthers(r, c)
    PROVE  TokensInv'
<1> DEFINE rows  == LiveSessions(req[c].user) \ {<<"session", c>>}
           where == IF rows = {} THEN "done" ELSE "tokens"
<1>1. /\ Begin(r, "others", req[c].user, None, c, where, rows)
      /\ Live("session", c) /\ req[r].pc = "idle"
  BY DEF RevokeOthers, Begin
<1>2. where = "tokens" \/ (where = "done" /\ rows = {})
  OBVIOUS
<1>3. /\ rows \in SUBSET Row /\ \A x \in rows : db[x] = "live"
      /\ \A p \in Request : <<"session", p>> \in rows => p # c /\ req[p].user = req[c].user
  BY DEF LiveSessions, Row
<1> HIDE DEF where, rows
<1>4. Beginning("others", req[c].user, None, c, where, rows)
  BY <1>1, <1>2, <1>3, TokenReferences, TokensAssumption DEF Beginning, Op, Pc, Answer, Live
<1>5. /\ req'[r].op = "others" /\ req'[r].pc = where /\ req'[r].session = c
      /\ req'[r].user = req[c].user /\ req'[r].targets = rows /\ req'[r].held = {} /\ Outside(r)
  BY <1>1, <1>4, BeginMove
<1>6. OpOfPc(r)' /\ Taken(r)'
  BY <1>2, <1>5 DEF OpOfPc, Answer, Taken
<1>7. Scope(r)'
  <2>1. \A p \in Request : <<"session", p>> \in rows => req'[p] = req[p]
    BY <1>3, <1>5, WrittenIsDone
  <2> QED BY <1>2, <1>3, <1>5, <2>1 DEF Scope, Takes
<1> QED BY <1>1, <1>2, <1>3, <1>4, <1>6, <1>7, BeginStep

LEMMA ResetStep ==
    ASSUME TokensInv, NEW r \in Request, NEW u \in User, Reset(r, u)
    PROVE  TokensInv'
<1>1. Begin(r, "reset", u, None, None, "tokens", {<<"user", u>>}) /\ db[<<"user", u>>] = "live"
  BY DEF Reset, Live
<1>2. Beginning("reset", u, None, None, "tokens", {<<"user", u>>})
  BY <1>1, RowForms DEF Beginning, Op, Pc
<1>3. /\ req'[r].op = "reset" /\ req'[r].pc = "tokens"
      /\ req'[r].targets = {<<"user", u>>} /\ req'[r].held = {}
  BY <1>1, <1>2, BeginMove
<1>4. OpOfPc(r)' /\ Scope(r)' /\ Taken(r)'
  BY <1>3 DEF OpOfPc, Answer, Scope, Takes, Taken
<1> QED BY <1>1, <1>2, <1>4, BeginStep

LEMMA DeleteUserStep ==
    ASSUME TokensInv, NEW r \in Request, NEW u \in User, DeleteUser(r, u)
    PROVE  TokensInv'
<1>1. Begin(r, "delete", u, None, None, "cascade", {<<"user", u>>}) /\ db[<<"user", u>>] = "live"
  BY DEF DeleteUser, Live
<1>2. Beginning("delete", u, None, None, "cascade", {<<"user", u>>})
  BY <1>1, RowForms DEF Beginning, Op, Pc
<1>3. /\ req'[r].op = "delete" /\ req'[r].pc = "cascade" /\ req'[r].user = u
      /\ req'[r].targets = {<<"user", u>>} /\ req'[r].held = {}
  BY <1>1, <1>2, BeginMove
<1>4. OpOfPc(r)' /\ Scope(r)' /\ Taken(r)'
  BY <1>3 DEF OpOfPc, Answer, Scope, Takes, Taken
<1> QED BY <1>1, <1>2, <1>4, BeginStep

-----------------------------------------------------------------------------
(* Steps that write.                                                       *)

\* The token that is refreshed is revoked, and stays so.
LEMMA RotateStep ==
    ASSUME TokensInv, NEW r \in Request, Rotate(r)
    PROVE  TokensInv'
<1> DEFINE t  == req[r].token
           x  == <<"token", t>>
           pc == CASE req[r].pc = "rotate" -> "issue"
                   [] req[r].pc = "reuse"  -> "replay"
                   [] OTHER                -> "failed"
<1>1. /\ OpOfPc(r) /\ References(r) /\ req \in [Request -> Transaction]
      /\ db \in [Row -> {"none", "live", "revoked", "deleted"}]
  BY DEF TokensInv, RequestInv, Types
<1>2. /\ req[r].op = "refresh" /\ req[r].targets = {} /\ req[r].held = {}
      /\ req[r].pc # "done" /\ UNCHANGED <<expired, late>>
      /\ t \in Request /\ x \in Row /\ db[x] # "none"
      /\ db' = [db EXCEPT ![x] = IF @ = "live" THEN "revoked" ELSE @]
      /\ \A q \in Request \ {r} : x \notin req[q].held
      /\ Goto(r, pc)
  BY <1>1, RowForms DEF Rotate, HeldByOther, OpOfPc, References, Transaction
<1>3. pc \in {"issue", "replay", "failed"}
  OBVIOUS
<1> HIDE DEF pc
<1>4. /\ \A y \in Row \ {x} : db'[y] = db[y]
      /\ db'[x] = IF db[x] = "live" THEN "revoked" ELSE db[x]
      /\ db'[x] \in {"revoked", "deleted"}
      /\ db' \in [Row -> {"none", "live", "revoked", "deleted"}]
  BY <1>1, <1>2
<1>5. /\ req' \in [Request -> Transaction]
      /\ \A q \in Request \ {r} : req'[q] = req[q]
      /\ req'[r].pc = pc /\ req'[r].op = "refresh" /\ req'[r].user = req[r].user
      /\ req'[r].token = t /\ req'[r].session = req[r].session
      /\ req'[r].targets = {} /\ req'[r].held = {}
  <2> DEFINE e == [req[r] EXCEPT !.pc = pc]
  <2>1. e \in Transaction
    BY <1>1, <1>3 DEF Transaction, Pc, Answer
  <2>2. req' = [req EXCEPT ![r] = e]
    BY <1>2 DEF Goto
  <2>3. /\ e.pc = pc /\ e.op = "refresh" /\ e.user = req[r].user /\ e.token = t
        /\ e.session = req[r].session /\ e.targets = {} /\ e.held = {}
    BY <1>1, <1>2 DEF Transaction
  <2> HIDE DEF e
  <2>4. req' \in [Request -> Transaction]
    BY <1>1, <2>1, <2>2, TransactionStep, Zenon
  <2>5. req'[r] = e /\ \A q \in Request \ {r} : req'[q] = req[q]
    BY <1>1, <2>2
  <2> QED BY <2>3, <2>4, <2>5
<1>6. Types'
  BY <1>2, <1>4, <1>5 DEF TokensInv, Types
<1>7. Outside(r)
  <2>1. ASSUME NEW y \in Row
        PROVE  /\ db[y] # "none" <=> db'[y] # "none"
               /\ Dead(y) => db'[y] \in {"revoked", "deleted"}
    BY <1>1, <1>2, <1>4 DEF Dead
  <2> QED BY <1>2, <1>5, <2>1, RowForms DEF Outside
<1>8. RequestInv(r)'
  <2>1. \A p \in Request : req'[p].user = req[p].user
    BY <1>5
  <2>2. References(r)'
    <3>1. req[r].session # None => /\ req[r].session \in Request
                                   /\ db[<<"session", req[r].session>>] # "none"
                                   /\ req[req[r].session].user = req[r].user
      BY <1>1 DEF References, Transaction
    <3>2. req[r].session # None => db'[<<"session", req[r].session>>] # "none"
      BY <1>4, <3>1, RowForms
    <3> QED BY <1>1, <1>2, <1>4, <1>5, <2>1, <3>1, <3>2 DEF References
  <2>3. OpOfPc(r)' /\ Scope(r)' /\ Taken(r)'
    BY <1>3, <1>4, <1>5 DEF OpOfPc, Answer, Scope, Takes, Taken, Dead
  <2>4. UserTaken(r)' /\ TokensTaken(r)'
    BY <1>3, <1>5 DEF UserTaken, TokensTaken, PastTokens
  <2> QED BY <2>2, <2>3, <2>4 DEF RequestInv
<1>9. Locks'
  <2>1. ASSUME NEW q \in Request \ {r}, NEW y \in req[q].held
        PROVE  db'[y] = db[y]
    BY <1>1, <1>2, <1>4, <2>1 DEF Transaction
  <2>2. ASSUME NEW q \in Request \ {r}, NEW y \in req[q].targets
        PROVE  db'[y] # "none"
    BY <1>1, <1>2, <1>4, <2>2 DEF Transaction, TokensInv, Locks
  <2> QED BY <1>5, <2>1, <2>2 DEF TokensInv, Locks
<1>10. Rooted'
  <2>1. ASSUME NEW k \in {"session", "token"}, NEW p \in Request
        PROVE  /\ db'[<<k, p>>] # "none" => req'[p].pc = "done"
               /\ db'[<<k, p>>] \in {"live", "revoked"} => db[<<"user", req'[p].user>>] = "live"
               /\ db'[<<k, p>>] = "deleted" => db[<<"user", req'[p].user>>] = "deleted"
    <3>1. /\ db'[<<k, p>>] = "none" <=> db[<<k, p>>] = "none"
          /\ db'[<<k, p>>] \in {"live", "revoked"} => db[<<k, p>>] \in {"live", "revoked"}
          /\ db'[<<k, p>>] = "deleted" => db[<<k, p>>] = "deleted"
      BY <1>1, <1>2, <1>4, RowForms
    <3>2. db[<<k, p>>] # "none" => req'[p] = req[p]
      BY <1>7, WrittenIsDone
    <3>3. db[<<k, p>>] = "none" => db'[<<k, p>>] \notin {"live", "revoked", "deleted"}
      BY <3>1
    <3>4. CASE db[<<k, p>>] = "none"
      BY <3>1, <3>3, <3>4
    <3>5. CASE db[<<k, p>>] # "none"
      BY <3>1, <3>2, <3>5, RowsOfUser
    <3> QED BY <3>4, <3>5
  <2>2. \A u \in User : db'[<<"user", u>>] = db[<<"user", u>>]
    BY <1>4, RowForms
  <2>3. \A p \in Request : req'[p].user \in User
    BY <1>5 DEF Transaction
  <2> QED BY <2>1, <2>2, <2>3 DEF TokensInv, Rooted
<1>11. RevokedSessionHasNoToken'
  <2> SUFFICES ASSUME NEW p \in Request, db'[<<"token", p>>] = "live", req'[p].session # None,
                      db'[<<"session", req'[p].session>>] = "revoked"
               PROVE  p \in late
    BY <1>2 DEF RevokedSessionHasNoToken, Live
  <2>1. db[<<"token", p>>] = "live"
    BY <1>4, RowForms
  <2>2. req'[p] = req[p]
    BY <1>7, <2>1, WrittenIsDone
  <2>3. req[p].session \in Request
    BY <1>1, <2>2 DEF Transaction
  <2>4. db[<<"session", req[p].session>>] = "revoked"
    BY <1>4, <2>2, <2>3, RowForms
  <2> QED BY <2>1, <2>2, <2>4 DEF TokensInv, RevokedSessionHasNoToken, Live
<1> QED BY <1>6, <1>7, <1>8, <1>9, <1>10, <1>11, OthersKeep DEF TokensInv

\* A successor or a first token, with a session if there is none.
LEMMA IssueStep ==
    ASSUME TokensInv, NEW r \in Request, Issue(r)
    PROVE  TokensInv'
<1> DEFINE new == Managed /\ req[r].session = None
           s   == IF new THEN r ELSE req[r].session
           u   == req[r].user
           x   == <<"token", r>>
           y   == <<"session", r>>
<1>1. /\ OpOfPc(r) /\ References(r) /\ Taken(r) /\ req \in [Request -> Transaction]
      /\ db \in [Row -> {"none", "live", "revoked", "deleted"}]
      /\ late \subseteq Request
  BY DEF TokensInv, RequestInv, Types
<1>2. /\ req[r].pc = "issue" /\ req[r].op \in {"login", "refresh"}
      /\ req[r].targets = {} /\ req[r].held = {} /\ UNCHANGED expired
      /\ ~BeingDeleted(u)
  BY <1>1 DEF Issue, OpOfPc
<1>3. CASE ~Live("user", u)
  <2>1. End(r, "failed") /\ UNCHANGED <<db, expired, late>>
    BY <1>2, <1>3 DEF Issue
  <2>2. Types' /\ Move(r, "failed", {}, {})
    BY <2>1, EndMove DEF TokensInv, Answer
  <2> QED BY <1>2, <2>2, OverStep
<1>4. CASE Live("user", u)
  <2>1. /\ db' = [db EXCEPT ![x] = "live", ![y] = IF new THEN "live" ELSE @]
        /\ req' = [req EXCEPT ![r].pc = "done", ![r].session = s]
        /\ late' = IF s # None /\ Missed(s) THEN late \cup {r} ELSE late
    BY <1>4 DEF Issue
  <2>2. /\ x \in Row /\ y \in Row /\ x # y
        /\ db[x] = "none" /\ db[y] = "none"
    BY <1>2, RowForms, NotIssued
  <2>3. /\ \A z \in Row \ {x, y} : db'[z] = db[z]
        /\ db'[x] = "live" /\ db'[y] = IF new THEN "live" ELSE "none"
        /\ db' \in [Row -> {"none", "live", "revoked", "deleted"}]
    BY <1>1, <2>1, <2>2
  <2>4. s \in Request \cup {None}
    BY <1>1 DEF Transaction
  <2>5. /\ req' \in [Request -> Transaction]
        /\ \A q \in Request \ {r} : req'[q] = req[q]
        /\ req'[r].pc = "done" /\ req'[r].op = req[r].op /\ req'[r].user = u
        /\ req'[r].token = req[r].token /\ req'[r].session = s
        /\ req'[r].targets = {} /\ req'[r].held = {}
    <3> HIDE DEF s
    <3> DEFINE e == [req[r] EXCEPT !.pc = "done", !.session = s]
    <3>1. e \in Transaction
      <4>1. "done" \in Pc
        BY DEF Pc, Answer
      <4>2. req[r] \in Transaction
        BY <1>1
      <4> QED BY <2>4, <4>1, <4>2 DEF Transaction
    <3>2. req' = [req EXCEPT ![r] = e]
      BY <2>1
    <3>3. /\ e.pc = "done" /\ e.op = req[r].op /\ e.user = u /\ e.token = req[r].token
          /\ e.session = s /\ e.targets = {} /\ e.held = {}
      BY <1>1, <1>2 DEF Transaction
    <3> HIDE DEF e
    <3>4. req' \in [Request -> Transaction]
      BY <1>1, <3>1, <3>2, TransactionStep, Zenon
    <3>5. req'[r] = e /\ \A q \in Request \ {r} : req'[q] = req[q]
      BY <1>1, <3>2
    <3> QED BY <3>3, <3>4, <3>5
  <2>6. Types'
    <3>1. late' \subseteq Request
      BY <1>1, <2>1
    <3> QED BY <1>2, <2>3, <2>5, <3>1 DEF TokensInv, Types
  <2>7. \A z \in Row : db[z] # "none" => db'[z] = db[z]
    BY <2>2, <2>3
  <2>8. Outside(r)
    <3>1. ASSUME NEW k \in {"session", "token"}, NEW p \in Request,
                 db[<<k, p>>] = "none", db'[<<k, p>>] # "none"
          PROVE  p = r
      BY <2>3, <3>1, RowForms
    <3>2. s # None /\ Missed(s) => r \in late'
      BY <2>1
    <3>3. late \subseteq late'
      BY <2>1
    <3> HIDE DEF s
    <3>4. \A z \in Row : /\ db[z] # "none" => db'[z] # "none"
                         /\ Dead(z) => db'[z] \in {"revoked", "deleted"}
      BY <2>7 DEF Dead
    <3> QED BY <1>2, <2>5, <3>1, <3>2, <3>3, <3>4 DEF Outside
  <2>9. s # None => db'[<<"session", s>>] # "none" /\ req'[s].user = u
    <3>1. CASE new
      BY <2>3, <2>5, <3>1
    <3>2. CASE ~new
      <4>1. s # None => s \in Request /\ db[<<"session", s>>] # "none" /\ req[s].user = u
        BY <1>1, <2>4, <3>2 DEF References
      <4>2. s # None => s # r
        BY <2>2, <4>1
      <4> QED BY <2>5, <2>7, <4>1, <4>2, RowForms
    <3> QED BY <3>1, <3>2
  <2>10. RequestInv(r)'
    <3> HIDE DEF s
    <3>1. OpOfPc(r)' /\ Scope(r)'
      BY <1>2, <2>5 DEF OpOfPc, Answer, Scope, Takes
    <3>2. req[r].op = "refresh" => /\ req[r].token \in Request
                                   /\ <<"token", req[r].token>> \in Row
                                   /\ Dead(<<"token", req[r].token>>)
      BY <1>1, <1>2, RowForms DEF References, Taken, Transaction
    <3>3. req[r].op = "refresh" => Dead(<<"token", req[r].token>>)'
      BY <2>5, <2>7, <3>2 DEF Dead
    <3>4. Taken(r)'
      BY <1>2, <2>5, <3>3 DEF Taken
    <3>5. References(r)'
      <4>1. req[r].token # None => /\ req[r].token \in Request
                                   /\ db[<<"token", req[r].token>>] # "none"
                                   /\ req[req[r].token].user = u
        BY <1>1 DEF References, Transaction
      <4>2. req[r].token # None => /\ db'[<<"token", req[r].token>>] # "none"
                                   /\ req'[req[r].token].user = u
        BY <2>5, <2>7, <4>1, RowForms
      <4> QED BY <1>1, <1>2, <2>5, <2>9, <4>2 DEF References
    <3>6. UserTaken(r)' /\ TokensTaken(r)'
      BY <2>5 DEF UserTaken, TokensTaken, PastTokens
    <3> QED BY <3>1, <3>4, <3>5, <3>6 DEF RequestInv
  <2>11. Locks'
    <3>1. ASSUME NEW q \in Request \ {r}
          PROVE  /\ \A z \in req[q].held : db'[z] = db[z]
                 /\ \A z \in req[q].targets : db'[z] # "none"
      <4>1. req[q].held \subseteq Row /\ req[q].targets \subseteq Row
        BY <1>1 DEF Transaction
      <4>2. /\ \A z \in req[q].held : db[z] # "none"
            /\ \A z \in req[q].targets : db[z] # "none"
        BY DEF TokensInv, Locks
      <4> QED BY <2>7, <4>1, <4>2
    <3> QED BY <2>5, <3>1 DEF TokensInv, Locks
  <2>12. Rooted'
    <3>1. ASSUME NEW v \in User PROVE db'[<<"user", v>>] = db[<<"user", v>>]
      BY <2>3, RowForms
    <3>2. ASSUME NEW k \in {"session", "token"}, NEW p \in Request
          PROVE  /\ db'[<<k, p>>] # "none" => req'[p].pc = "done"
                 /\ db'[<<k, p>>] \in {"live", "revoked"} => db[<<"user", req'[p].user>>] = "live"
                 /\ db'[<<k, p>>] = "deleted" => db[<<"user", req'[p].user>>] = "deleted"
      <4>1. CASE p = r
        <5>1. db'[<<k, p>>] \in {"none", "live"}
          BY <2>3, <4>1
        <5> QED BY <1>4, <2>5, <4>1, <5>1 DEF Live
      <4>2. CASE p # r
        <5>1. db'[<<k, p>>] = db[<<k, p>>] /\ req'[p] = req[p]
          BY <2>3, <2>5, <4>2, RowForms
        <5> QED BY <5>1, RowsOfUser
      <4> QED BY <4>1, <4>2
    <3>3. \A p \in Request : req'[p].user \in User
      BY <2>5 DEF Transaction
    <3> QED BY <3>1, <3>2, <3>3 DEF TokensInv, Rooted
  <2>13. RevokedSessionHasNoToken'
    <3> SUFFICES ASSUME NEW p \in Request, db'[<<"token", p>>] = "live", req'[p].session # None,
                        db'[<<"session", req'[p].session>>] = "revoked"
                 PROVE  p \in late'
      BY DEF RevokedSessionHasNoToken, Live
    <3> DEFINE z == req'[p].session
    <3>1. z \in Request /\ <<"session", z>> \in Row
      BY <2>5, RowForms DEF Transaction
    <3>2. db[<<"session", z>>] = "revoked"
      BY <2>2, <2>3, <3>1
    <3>3. CASE p = r
      <4>1. Missed(s) /\ s # None
        BY <2>5, <3>2, <3>3 DEF Missed
      <4> QED BY <2>1, <3>3, <4>1
    <3>4. CASE p # r
      <4>1. db[<<"token", p>>] = "live" /\ req'[p] = req[p]
        BY <2>3, <2>5, <3>4, RowForms
      <4>2. p \in late
        BY <3>2, <4>1 DEF TokensInv, RevokedSessionHasNoToken, Live
      <4> QED BY <2>1, <4>2
    <3> QED BY <3>3, <3>4
  <2> QED BY <2>6, <2>8, <2>10, <2>11, <2>12, <2>13, OthersKeep DEF TokensInv
<1> QED BY <1>3, <1>4

\* A transaction commits: what it holds is revoked, or deleted with its user.
LEMMA ApplyStep ==
    ASSUME TokensInv, NEW r \in Request, Commit(r) \/ CommitUnanswered(r)
    PROVE  TokensInv'
<1>1. /\ OpOfPc(r) /\ References(r) /\ Scope(r) /\ Taken(r) /\ UserTaken(r) /\ TokensTaken(r)
      /\ req \in [Request -> Transaction]
      /\ db \in [Row -> {"none", "live", "revoked", "deleted"}]
  BY DEF TokensInv, RequestInv, Types
<1>2. /\ req[r].pc = "commit" /\ req[r].targets = {} /\ UNCHANGED <<expired, late>>
      /\ req[r].op \in {"logout", "revoke", "others", "reset", "delete"}
      /\ req[r].held \in SUBSET Row /\ \A x : Takes(r, x) <=> x \in req[r].held
  BY <1>1 DEF Commit, CommitUnanswered, Apply, OpOfPc, Transaction, Takes
<1>3. PICK answer \in {"done", "failed"} : End(r, answer)
  BY DEF Commit, CommitUnanswered
<1>4. /\ \A x \in Row \ req[r].held : db'[x] = db[x]
      /\ \A x \in req[r].held : db'[x] = IF req[r].op = "delete" THEN "deleted"
                                          ELSE IF x[1] = "user" THEN "live" ELSE "revoked"
      /\ db' \in [Row -> {"none", "live", "revoked", "deleted"}]
  <2>1. db' = [x \in Row |-> IF x \notin req[r].held THEN db[x]
                             ELSE IF req[r].op = "delete" THEN "deleted"
                             ELSE IF x[1] = "user" THEN "live" ELSE "revoked"]
    BY DEF Commit, CommitUnanswered, Apply
  <2>2. ASSUME NEW x \in Row
        PROVE  /\ x \notin req[r].held => db'[x] = db[x]
               /\ x \in req[r].held => db'[x] = IF req[r].op = "delete" THEN "deleted"
                                               ELSE IF x[1] = "user" THEN "live" ELSE "revoked"
    BY <2>1
  <2>3. DOMAIN db' = Row /\ \A x \in Row : db'[x] \in {"none", "live", "revoked", "deleted"}
    BY <1>1, <2>1, <2>2
  <2>4. db' = [x \in Row |-> db'[x]]
    BY <2>1
  <2> QED BY <1>2, <2>2, <2>3, <2>4
<1>5. /\ req' \in [Request -> Transaction]
      /\ \A q \in Request \ {r} : req'[q] = req[q]
      /\ req'[r].pc = answer /\ req'[r].op = req[r].op /\ req'[r].user = req[r].user
      /\ req'[r].token = req[r].token /\ req'[r].session = req[r].session
      /\ req'[r].targets = {} /\ req'[r].held = {}
  <2> DEFINE e == [req[r] EXCEPT !.pc = answer, !.targets = {}, !.held = {}]
  <2>1. e \in Transaction
    BY <1>1, <1>3 DEF Transaction, Pc, Answer
  <2>2. req' = [req EXCEPT ![r] = e]
    BY <1>3 DEF End
  <2>3. /\ e.pc = answer /\ e.op = req[r].op /\ e.user = req[r].user /\ e.token = req[r].token
        /\ e.session = req[r].session /\ e.targets = {} /\ e.held = {}
    BY <1>1 DEF Transaction
  <2> HIDE DEF e
  <2>4. req' \in [Request -> Transaction]
    BY <1>1, <2>1, <2>2, TransactionStep, Zenon
  <2>5. req'[r] = e /\ \A q \in Request \ {r} : req'[q] = req[q]
    BY <1>1, <2>2
  <2> QED BY <2>3, <2>4, <2>5
<1>6. Types'
  BY <1>2, <1>4, <1>5 DEF TokensInv, Types
<1>7. \A x \in req[r].held : /\ db[x] \in {"live", "revoked"} /\ x \in Row
                             /\ \A q \in Request \ {r} : x \notin req[q].held
  BY <1>2, HeldStays
\* The rows of users, tokens and sessions afterwards.
<1>8. ASSUME NEW u \in User
      PROVE  db'[<<"user", u>>] = IF <<"user", u>> \in req[r].held /\ req[r].op = "delete"
                                  THEN "deleted" ELSE db[<<"user", u>>]
  <2>1. db[<<"user", u>>] \in {"live", "deleted"} /\ <<"user", u>> \in Row
    BY RowForms DEF TokensInv, Rooted
  <2>2. <<"user", u>> \in req[r].held => db[<<"user", u>>] = "live"
    BY <1>7, <2>1
  <2>3. <<"user", u>>[1] = "user"
    OBVIOUS
  <2> QED BY <1>4, <2>1, <2>2, <2>3
<1>9. ASSUME NEW k \in {"session", "token"}, NEW p \in Request
      PROVE  /\ <<k, p>> \in Row
             /\ db'[<<k, p>>] = IF <<k, p>> \notin req[r].held THEN db[<<k, p>>]
                                ELSE IF req[r].op = "delete" THEN "deleted" ELSE "revoked"
  <2>1. <<k, p>> \in Row /\ <<k, p>>[1] # "user"
    BY RowForms
  <2> QED BY <1>4, <2>1
<1>10. ASSUME NEW x \in Row
       PROVE  /\ db[x] = "none" <=> db'[x] = "none"
              /\ Dead(x) => db'[x] \in {"revoked", "deleted"}
  <2>1. CASE x \notin req[r].held
    BY <1>4, <2>1 DEF Dead
  <2>2. CASE x \in req[r].held
    <3>1. db[x] \in {"live", "revoked"} /\ db'[x] # "none"
      BY <1>4, <1>7, <2>2
    <3>2. ASSUME NEW u \in User, x = <<"user", u>> PROVE ~Dead(x)
      BY <3>1, <3>2 DEF TokensInv, Rooted, Dead
    <3>3. ASSUME NEW k \in {"session", "token"}, NEW p \in Request, x = <<k, p>>
          PROVE  db'[x] \in {"revoked", "deleted"}
      BY <1>9, <2>2, <3>3
    <3> QED BY <3>1, <3>2, <3>3, RowForms
  <2> QED BY <2>1, <2>2
<1>11. Outside(r)
  <2>1. \A k \in {"session", "token"}, p \in Request :
          ~(db[<<k, p>>] = "none" /\ db'[<<k, p>>] # "none")
    BY <1>10, RowForms
  <2> QED BY <1>2, <1>5, <1>10, <2>1 DEF Outside
<1>12. RequestInv(r)'
  <2>1. OpOfPc(r)' /\ Scope(r)'
    BY <1>5 DEF OpOfPc, Answer, Scope, Takes
  <2>2. \A p \in Request : req'[p].user = req[p].user
    BY <1>5
  <2>3. References(r)'
    <3>1. req[r].token # None => req[r].token \in Request
      BY <1>1 DEF Transaction
    <3>2. req[r].session # None => req[r].session \in Request
      BY <1>1 DEF Transaction
    <3>3. /\ req[r].token # None => db'[<<"token", req[r].token>>] # "none"
          /\ req[r].session # None => db'[<<"session", req[r].session>>] # "none"
      BY <1>1, <1>10, <3>1, <3>2, RowForms DEF References
    <3> QED BY <1>1, <1>5, <2>2, <3>1, <3>2, <3>3 DEF References
  <2>4. Taken(r)'
    <3>1. ASSUME NEW k \in {"session", "token"}, NEW p \in Request,
                 Dead(<<k, p>>) \/ Takes(r, <<k, p>>)
          PROVE  db'[<<k, p>>] \in {"revoked", "deleted"}
      BY <1>2, <1>9, <1>10, <3>1 DEF Dead
    <3>2. req[r].op = "logout" => db'[<<"token", req[r].token>>] \in {"revoked", "deleted"}
      <4>1. req[r].op = "logout" => req[r].token \in Request
        BY <1>1 DEF References, Transaction
      <4>2. req[r].op = "logout" => \/ Dead(<<"token", req[r].token>>)
                                    \/ Takes(r, <<"token", req[r].token>>)
        BY <1>1, <1>2 DEF Taken
      <4> QED BY <3>1, <4>1, <4>2
    <3>3. req[r].op = "revoke" \/ (req[r].op = "logout" /\ Managed /\ req[r].session # None)
            => db'[<<"session", req[r].session>>] \in {"revoked", "deleted"}
      <4>1. req[r].op = "revoke" \/ (req[r].op = "logout" /\ Managed /\ req[r].session # None)
              => req[r].session \in Request
        BY <1>1 DEF References, Transaction
      <4>2. req[r].op = "revoke" \/ (req[r].op = "logout" /\ Managed /\ req[r].session # None)
              => \/ Dead(<<"session", req[r].session>>)
                 \/ Takes(r, <<"session", req[r].session>>)
        BY <1>1, <1>2 DEF Taken
      <4> QED BY <3>1, <4>1, <4>2
    <3> QED BY <1>2, <1>5, <3>2, <3>3 DEF Taken, Dead
  <2>5. UserTaken(r)' /\ TokensTaken(r)'
    BY <1>5 DEF UserTaken, TokensTaken, PastTokens
  <2> QED BY <2>1, <2>3, <2>4, <2>5 DEF RequestInv
<1>13. Locks'
  <2>1. ASSUME NEW q \in Request \ {r}
        PROVE  /\ \A x \in req[q].held : db'[x] = db[x]
               /\ \A x \in req[q].targets : db'[x] # "none"
    <3>1. req[q].held \subseteq Row /\ req[q].targets \subseteq Row
      BY <1>1 DEF Transaction
    <3>2. /\ \A x \in req[q].held : x \notin req[r].held
          /\ \A x \in req[q].targets : db[x] # "none"
      BY DEF TokensInv, Locks
    <3> QED BY <1>4, <1>10, <3>1, <3>2
  <2> QED BY <1>5, <2>1 DEF TokensInv, Locks
<1>14. Rooted'
  <2>1. ASSUME NEW k \in {"session", "token"}, NEW p \in Request
        PROVE  /\ db'[<<k, p>>] # "none" => req'[p].pc = "done"
               /\ db'[<<k, p>>] \in {"live", "revoked"} => db'[<<"user", req'[p].user>>] = "live"
               /\ db'[<<k, p>>] = "deleted" => db'[<<"user", req'[p].user>>] = "deleted"
    <3>1. CASE db[<<k, p>>] = "none"
      BY <1>10, <3>1, RowForms
    <3>2. CASE db[<<k, p>>] # "none"
      <4> DEFINE v == req[p].user
      <4>1. req'[p] = req[p] /\ req[p].pc = "done" /\ v \in User
        BY <1>1, <1>11, <3>2, WrittenIsDone DEF Transaction
      <4>2. /\ db[<<k, p>>] \in {"live", "revoked"} => db[<<"user", v>>] = "live"
            /\ db[<<k, p>>] = "deleted" => db[<<"user", v>>] = "deleted"
        BY RowsOfUser
      <4>3. db[<<k, p>>] \in {"live", "revoked", "deleted"}
        BY <1>1, <1>9, <3>2
      <4> HIDE DEF v
      <4>4. CASE <<k, p>> \in req[r].held /\ req[r].op = "delete"
        <5>1. <<"user", v>> \in req[r].held
          BY <1>1, <1>2, <4>4 DEF Scope, v
        <5>2. db'[<<k, p>>] = "deleted" /\ db'[<<"user", v>>] = "deleted"
          BY <1>8, <1>9, <4>1, <4>4, <5>1
        <5> QED BY <4>1, <5>2 DEF v
      <4>5. CASE <<k, p>> \in req[r].held /\ req[r].op # "delete"
        <5>1. db[<<k, p>>] \in {"live", "revoked"}
          BY <1>7, <4>5
        <5>2. db'[<<k, p>>] = "revoked" /\ db'[<<"user", v>>] = "live"
          BY <1>8, <1>9, <4>1, <4>2, <4>5, <5>1
        <5> QED BY <4>1, <5>2 DEF v
      <4>6. CASE <<k, p>> \notin req[r].held
        <5>1. db'[<<k, p>>] = db[<<k, p>>]
          BY <1>9, <4>6
        <5>2. CASE <<"user", v>> \in req[r].held /\ req[r].op = "delete"
          <6>1. v = req[r].user
            BY <1>1, <1>2, <4>1, <5>2 DEF Scope
          <6>2. db[<<k, p>>] \notin {"live", "revoked"}
            BY <1>1, <1>2, <4>6, <5>2, <6>1 DEF UserTaken, v
          <6>3. db'[<<"user", v>>] = "deleted"
            BY <1>8, <4>1, <5>2
          <6> QED BY <4>1, <4>3, <5>1, <6>2, <6>3 DEF v
        <5>3. CASE ~(<<"user", v>> \in req[r].held /\ req[r].op = "delete")
          <6>1. db'[<<"user", v>>] = db[<<"user", v>>]
            BY <1>8, <4>1, <5>3
          <6> QED BY <4>1, <4>2, <5>1, <6>1 DEF v
        <5> QED BY <5>2, <5>3
      <4> QED BY <4>4, <4>5, <4>6
    <3> QED BY <3>1, <3>2
  <2>2. ASSUME NEW u \in User PROVE db'[<<"user", u>>] \in {"live", "deleted"}
    BY <1>8 DEF TokensInv, Rooted
  <2> QED BY <2>1, <2>2 DEF Rooted
<1>15. RevokedSessionHasNoToken'
  <2> SUFFICES ASSUME NEW t \in Request, db'[<<"token", t>>] = "live", req'[t].session # None,
                      db'[<<"session", req'[t].session>>] = "revoked"
               PROVE  t \in late
    BY <1>2 DEF RevokedSessionHasNoToken, Live
  <2>1. db[<<"token", t>>] = "live" /\ <<"token", t>> \notin req[r].held
    BY <1>9
  <2>2. req'[t] = req[t]
    BY <1>11, <2>1, WrittenIsDone
  <2> DEFINE s == req[t].session
  <2>3. s \in Request /\ s # None /\ db'[<<"session", s>>] = "revoked"
    BY <1>1, <2>2 DEF Transaction
  <2>4. CASE <<"session", s>> \in req[r].held
    <3>1. req[r].op # "delete"
      BY <1>9, <2>3, <2>4
    <3>2. PastTokens(r, s)
      BY <1>2, <2>4 DEF PastTokens
    <3> QED BY <1>1, <1>2, <2>1, <2>3, <3>1, <3>2 DEF TokensTaken, Live
  <2>5. CASE <<"session", s>> \notin req[r].held
    BY <1>9, <2>1, <2>3, <2>5 DEF TokensInv, RevokedSessionHasNoToken, Live
  <2> QED BY <2>4, <2>5
<1> QED BY <1>6, <1>11, <1>12, <1>13, <1>14, <1>15, OthersKeep DEF TokensInv

-----------------------------------------------------------------------------
(* The invariant.                                                          *)

LEMMA SameRows ==
    ASSUME TokensInv, UNCHANGED <<db, req, late>>, expired' \subseteq Request
    PROVE  TokensInv'
<1>1. Types' /\ Rooted' /\ Locks' /\ RevokedSessionHasNoToken'
  BY DEF TokensInv, Types, Rooted, Locks, RevokedSessionHasNoToken, Live
<1>2. ASSUME NEW r \in Request PROVE RequestInv(r)'
  <2>1. RequestInv(r)
    BY DEF TokensInv
  <2>2. OpOfPc(r)' /\ References(r)' /\ Scope(r)'
    BY <2>1 DEF RequestInv, OpOfPc, References, Scope, Takes
  <2>3. Taken(r)' /\ UserTaken(r)'
    BY <2>1 DEF RequestInv, Taken, UserTaken, Takes, Dead
  <2>4. TokensTaken(r)'
    BY <2>1 DEF RequestInv, TokensTaken, Takes, Live, PastTokens
  <2> QED BY <2>2, <2>3, <2>4 DEF RequestInv
<1> QED BY <1>1, <1>2 DEF TokensInv

\* The expiry of a token is seen by the next refresh and by nothing else.
LEMMA ExpireStep ==
    ASSUME TokensInv, NEW t \in Request, Expire(t)
    PROVE  TokensInv'
<1>1. UNCHANGED <<db, req, late>> /\ expired' \subseteq Request
  BY DEF Expire, TokensInv, Types
<1> QED BY <1>1, SameRows

LEMMA TokensStep == TokensInv /\ [Next]_vars => TokensInv'
<1> SUFFICES ASSUME TokensInv, [Next]_vars PROVE TokensInv'
  OBVIOUS
<1>1. CASE UNCHANGED vars
  <2>1. UNCHANGED <<db, req, late>> /\ expired' \subseteq Request
    BY <1>1 DEF vars, TokensInv, Types
  <2> QED BY <2>1, SameRows
<1>2. ASSUME NEW r \in Request, Start(r) PROVE TokensInv'
  <2>1. CASE \E u \in User : Login(r, u) \/ Reset(r, u) \/ DeleteUser(r, u)
    BY <2>1, LoginStep, ResetStep, DeleteUserStep
  <2>2. CASE \E t \in Request : Refresh(r, t) \/ Logout(r, t)
    BY <2>2, RefreshStep, LogoutStep
  <2>3. CASE \E c \in Request : RevokeOthers(r, c) \/ \E s \in Request : RevokeSession(r, c, s)
    BY <2>3, RevokeOthersStep, RevokeSessionStep
  <2> QED BY <1>2, <2>1, <2>2, <2>3 DEF Start
<1>3. ASSUME NEW r \in Request, Step(r) PROVE TokensInv'
  BY <1>3, RotateStep, IssueStep, RevokeFamilyStep, FindSessionStep, UpdateTokensStep,
     UpdateSessionsStep, CascadeStep, LockRowStep, ApplyStep DEF Step
<1>4. CASE Next
  <2>1. CASE \E r \in Request : \/ Start(r) \/ Step(r) \/ BreakDeadlock(r) \/ Abort(r)
                                 \/ CommitUnanswered(r)
    BY <1>2, <1>3, <2>1, FailStep, ApplyStep
  <2>2. CASE \E t \in Request : Expire(t)
    BY <2>2, ExpireStep
  <2> QED BY <1>4, <2>1, <2>2 DEF Next
<1> QED BY <1>1, <1>4

LEMMA TokensInit == Init => TokensInv
<1> SUFFICES ASSUME Init PROVE TokensInv
  OBVIOUS
<1>1. PICK user \in [Request -> User], managed \in SUBSET Earlier :
        /\ Managed \/ managed = {}
        /\ db = [x \in Row |-> IF \/ x[1] = "user"
                                  \/ x \in {"token"} \X Earlier
                                  \/ x \in {"session"} \X managed
                               THEN "live" ELSE "none"]
        /\ req = [r \in Request |->
                    [op |-> IF r \in Earlier THEN "login" ELSE "none",
                     pc |-> IF r \in Earlier THEN "done" ELSE "idle",
                     user |-> user[r], token |-> None,
                     session |-> IF r \in managed THEN r ELSE None,
                     targets |-> {}, held |-> {}]]
        /\ expired = {}
        /\ late = {}
  BY Zenon DEF Init
<1>2. ASSUME NEW r \in Request
      PROVE  /\ req[r].op = IF r \in Earlier THEN "login" ELSE "none"
             /\ req[r].pc = IF r \in Earlier THEN "done" ELSE "idle"
             /\ req[r].user \in User /\ req[r].token = None
             /\ req[r].session = IF r \in managed THEN r ELSE None
             /\ req[r].targets = {} /\ req[r].held = {}
  BY <1>1
<1>3. ASSUME NEW u \in User PROVE db[<<"user", u>>] = "live"
  BY <1>1, RowForms
<1>4. ASSUME NEW r \in Request
      PROVE  /\ db[<<"token", r>>] = IF r \in Earlier THEN "live" ELSE "none"
             /\ db[<<"session", r>>] = IF r \in managed THEN "live" ELSE "none"
  BY <1>1, RowForms
<1>5. Rooted
  BY <1>2, <1>3, <1>4 DEF Rooted
<1>6. Locks
  BY <1>2 DEF Locks
<1>7. RevokedSessionHasNoToken
  <2>1. \A r \in Request : req[r].session # None => db[<<"session", req[r].session>>] = "live"
    BY <1>2, <1>4
  <2> QED BY <2>1 DEF RevokedSessionHasNoToken
<1>8. ASSUME NEW r \in Request PROVE RequestInv(r)
  <2>1. References(r)
    BY <1>2, <1>4 DEF References
  <2> QED BY <1>2, <2>1
      DEF RequestInv, OpOfPc, Answer, Scope, Takes, Taken, UserTaken, TokensTaken, PastTokens
<1> QED BY <1>5, <1>6, <1>7, <1>8, TypesInit DEF TokensInv

LEMMA TokensInvariant == Spec => []TokensInv
BY TokensInit, TokensStep, PTL DEF Spec

-----------------------------------------------------------------------------
(* The theorems.                                                           *)

\* Every variable keeps its type, and no token or session outlives its user.
THEOREM TokensTypeCorrect == Spec => []TypeOK
<1>1. TokensInv => TypeOK
  BY DEF TokensInv, Types, Rooted, TypeOK
<1> QED BY <1>1, TokensInvariant, PTL

\* refresh never leaves a token and its successor usable together, however
\* many refreshes, logouts and revocations have read the token before.
THEOREM RotationComesFirst == Spec => []RotatedBeforeIssue
<1>1. TokensInv => RotatedBeforeIssue
  <2> SUFFICES ASSUME TokensInv, NEW r \in Request,
                      req[r].op = "refresh", db[<<"token", r>>] # "none"
               PROVE  ~Live("token", req[r].token)
    BY DEF RotatedBeforeIssue
  <2>1. req[r].pc = "done"
    BY NotIssued
  <2>2. Dead(<<"token", req[r].token>>)
    BY <2>1 DEF TokensInv, RequestInv, Taken
  <2> QED BY <2>2 DEF Dead, Live
<1> QED BY <1>1, TokensInvariant, PTL

\* A logout or a revocation of a session that is answered has taken place,
\* whichever transactions waited for the same rows.
THEOREM AnswersHold == Spec => []AnsweredIsRevoked
<1>1. TokensInv => AnsweredIsRevoked
  <2> SUFFICES ASSUME TokensInv, NEW r \in Request, req[r].pc = "done"
               PROVE  /\ req[r].op = "logout" => ~Live("token", req[r].token)
                      /\ (req[r].op = "revoke" \/ (req[r].op = "logout" /\ Managed /\ req[r].session # None))
                           => ~Live("session", req[r].session)
    BY DEF AnsweredIsRevoked
  <2>1. \A x : ~Takes(r, x)
    BY DEF TokensInv, RequestInv, OpOfPc, Answer, Takes
  <2> QED BY <2>1 DEF TokensInv, RequestInv, Taken, Dead, Live
<1> QED BY <1>1, TokensInvariant, PTL

\* A revoked session keeps no token but those issued while it was revoked,
\* for any logouts, resets, revocations, refreshes and deletions at once.
THEOREM RevocationIsComplete == Spec => []RevokedSessionHasNoToken
BY TokensInvariant, PTL DEF TokensInv
=============================================================================
