--------------------------- MODULE Accounts_proofs ---------------------------
(***************************************************************************)
(* Theorems about Accounts, for any addresses, requests, roles, flags,     *)
(* thresholds and lifetimes.                                               *)
(***************************************************************************)
EXTENDS Accounts, TLAPS

-----------------------------------------------------------------------------
(* The inductive invariant.                                                *)

Registering == {"insert", "role", "newrole", "member"}

Succeeded(r) == req[r].pc \in {"record done", "done"}

\* What a request is where, and what it holds.
KindOf(x) ==
    /\ x.pc = "idle" <=> x.op = "none"
    /\ x.pc \in Registering => x.op = "register"
    /\ x.pc = "code" => x.op \in {"register", "resend", "forgot"}
    /\ x.pc \in {"refuse", "accept"} => x.op = "login"
    /\ x.pc = "consume" => x.op \in {"verify", "reset"}
    /\ x.pending => x.pc \in {"role", "newrole", "member"}
    /\ x.todo # <<>> => x.pc \in {"role", "newrole", "member"}

RequestKind == \A r \in Request : KindOf(req[r])

\* Requests for one account that are under way are so together.
TogetherUnderWay ==
    \A r, q \in Request :
        r # q /\ UnderWay(r) /\ UnderWay(q) /\ UserOf[r] = UserOf[q] => {r, q} \in together

\* The counter of an account is no higher than the number of refused
\* passwords, and neither is what a login has read of it.
CountersEarned ==
    /\ \A u \in User : acct[u].failed <= refused[u]
    /\ \A r \in Request : req[r].pc = "refuse" => req[r].failed <= refused[UserOf[r]]

\* Two logins of account u have overlapped.
Overlapped(u) ==
    \E r, q \in Request : /\ r # q /\ {r, q} \in together /\ UserOf[r] = u /\ UserOf[q] = u
                          /\ req[r].op = "login" /\ req[q].op = "login"

\* Otherwise what a login has read is what the account holds.
ReadIsCurrent ==
    \A r \in Request :
        req[r].pc \in {"refuse", "accept"} /\ ~Overlapped(UserOf[r]) =>
          req[r].failed = acct[UserOf[r]].failed /\ req[r].locked = acct[UserOf[r]].locked

\* A code is issued once, to an account that is there.
CodesHaveAccount ==
    \A c \in Request : code[c].state # "none" =>
        Known(UserOf[c]) /\ req[c].pc \in Recording \cup Answer

\* A code that is presented is one of the account, and one that was accepted
\* is consumed.
CodesConsumed ==
    \A r \in Request : req[r].op \in {"verify", "reset"} =>
        /\ UserOf[req[r].code] = UserOf[r]
        /\ code[req[r].code].state # "none"
        /\ Succeeded(r) => code[req[r].code].state = "consumed"
        /\ Succeeded(r) /\ req[r].op = "verify" => acct[UserOf[r]].verified

Uses(r) == req[r].op \in {"verify", "reset"} /\ (Succeeded(r) \/ req[r].pc = "consume")

UsersTogether ==
    \A r, q \in Request :
        Uses(r) /\ Uses(q) /\ req[r].code = req[q].code => r = q \/ {r, q} \in together

FirstRole(u) == <<u, RolesOf[u][1]>>

\* What registration r is still to assign: every role of its account that it
\* has not, the first one first, and the account is committed with it.
ToAssign(r) ==
    LET u == UserOf[r] IN
    /\ req[r].todo # <<>>
    /\ \A role \in Wanted(u) :
         <<u, role>> \in member \/ \E i \in DOMAIN req[r].todo : req[r].todo[i] = role
    /\ req[r].todo = RolesOf[u] \/ FirstRole(u) \in member
    /\ req[r].pending \/ FirstRole(u) \in member \/ (req[r].pc = "member" /\ req[r].created)
    /\ req[r].pending \/ Known(u)

AllAssigned(u) == Known(u) /\ {u} \X Wanted(u) \subseteq member

RolesAssigned ==
    \A r \in Request :
        /\ req[r].pc \in {"role", "newrole", "member"} => ToAssign(r)
        /\ req[r].op = "register" /\ (req[r].pc = "code" \/ Succeeded(r)) => AllAssigned(UserOf[r])
        /\ req[r].op = "register" /\ Succeeded(r) /\ "verification" \in Enabled =>
             code[r].state # "none"

HeadInRoles == \A r \in Request : req[r].pc = "member" => Head(req[r].todo) \in roles

SuccessAnswered == \A r \in Request : event[r] = "success" => req[r].pc = "done"

AccountsInv ==
    /\ TypeOK /\ RequestKind /\ TogetherUnderWay
    /\ CountersEarned /\ LockedOnlyAfterFailures /\ ReadIsCurrent /\ CounterIsStreak
    /\ CodesHaveAccount /\ CodesConsumed /\ UsersTogether
    /\ RolesAssigned /\ HeadInRoles /\ AccountHasRole
    /\ SuccessAnswered

-----------------------------------------------------------------------------
(* The initial states.                                                     *)

LEMMA InitInv == Init => AccountsInv
<1> SUFFICES ASSUME Init PROVE AccountsInv
  OBVIOUS
<1> USE AccountsAssumption
<1>1. TypeOK
  <2>1. PICK before \in SUBSET Before :
          /\ acct \in [User -> [status : {"none", "pending", "active"}, verified : BOOLEAN,
                               failed : {0}, locked : {0}]]
          /\ \A u \in User : acct[u].status # "none" <=> u \in before
          /\ member = UNION {{u} \X Wanted(u) : u \in before}
          /\ roles = UNION {Wanted(u) : u \in before}
    BY DEF Init
  <2>2. \A u \in User : Wanted(u) \subseteq Role
    BY DEF Wanted
  <2>3. acct \in [User -> Account]
    BY <2>1 DEF Account
  <2>4. before \subseteq User
    OBVIOUS
  <2>5. roles \subseteq Role
    BY <2>1, <2>2, <2>4
  <2>6. member \subseteq User \X roles
    BY <2>1, <2>4
  <2>7. req \in [Request -> RequestState]
    BY DEF Init, RequestState, Op, Recording, Answer
  <2>8. code \in [Request -> Code]
    BY DEF Init, Code, Purpose
  <2> QED BY <2>3, <2>5, <2>6, <2>7, <2>8 DEF Init, TypeOK
<1>2. \A u \in User : acct[u].failed = 0 /\ acct[u].locked = 0
  BY DEF Init
<1>3. \A r \in Request : /\ req[r].op = "none" /\ req[r].pc = "idle" /\ ~req[r].pending
                        /\ req[r].todo = <<>> /\ code[r].state = "none" /\ event[r] = "none"
                        /\ ~UnderWay(r)
  BY DEF Init, UnderWay
<1>4. \A u \in User : refused[u] = 0 /\ streak[u] = 0
  BY DEF Init
<1>5. RequestKind /\ TogetherUnderWay /\ SuccessAnswered /\ HeadInRoles
  BY <1>3 DEF RequestKind, KindOf, Registering, TogetherUnderWay, SuccessAnswered, HeadInRoles
<1>6. CountersEarned /\ LockedOnlyAfterFailures /\ ReadIsCurrent /\ CounterIsStreak
  BY <1>2, <1>3, <1>4 DEF CountersEarned, LockedOnlyAfterFailures, ReadIsCurrent, CounterIsStreak
<1>7. CodesHaveAccount /\ CodesConsumed /\ UsersTogether /\ RolesAssigned
  BY <1>3 DEF CodesHaveAccount, CodesConsumed, UsersTogether, Uses, RolesAssigned, Succeeded
<1>8. AccountHasRole
  <2> SUFFICES ASSUME NEW u \in User, Known(u) PROVE <<u, RolesOf[u][1]>> \in member
    BY DEF AccountHasRole
  <2>1. PICK before \in SUBSET Before :
          /\ \A v \in User : acct[v].status # "none" <=> v \in before
          /\ member = UNION {{v} \X Wanted(v) : v \in before}
    BY DEF Init
  <2>2. u \in before
    BY <2>1 DEF Known
  <2>3. RolesOf[u][1] \in Wanted(u)
    BY DEF Wanted
  <2> QED BY <2>1, <2>2, <2>3
<1> QED BY <1>1, <1>5, <1>6, <1>7, <1>8 DEF AccountsInv

-----------------------------------------------------------------------------
(* What a step does to its request.                                        *)

LEMMA RequestType ==
    ASSUME TypeOK, RequestKind, NEW r \in Request
    PROVE  req[r] \in RequestState /\ KindOf(req[r]) /\ UserOf[r] \in User
BY DEF TypeOK, RequestKind

\* Request r becomes e, and no other changes.
Becomes(r, e) ==
    /\ req' = [req EXCEPT ![r] = e]
    /\ e \in RequestState /\ KindOf(e)

LEMMA BecomesType ==
    ASSUME TypeOK, RequestKind, NEW r \in Request, NEW e, Becomes(r, e)
    PROVE  /\ req' \in [Request -> RequestState] /\ RequestKind'
           /\ req'[r] = e /\ \A q \in Request \ {r} : req'[q] = req[q]
BY DEF TypeOK, RequestKind, Becomes

\* Request r goes to pc; when it leaves a statement with its result it
\* forgets what it has read.
Goes(r, pc) ==
    /\ req' \in [Request -> RequestState] /\ RequestKind'
    /\ \A q \in Request \ {r} : req'[q] = req[q]
    /\ req'[r].pc = pc /\ pc # "idle"
    /\ req'[r].op = req[r].op /\ req'[r].code = req[r].code

LEMMA GotoResult ==
    ASSUME TypeOK, RequestKind, NEW r \in Request, NEW pc \in Answer \cup Recording,
           req[r].pc # "idle", Goto(r, pc)
    PROVE  Goes(r, pc) /\ req'[r].created = req[r].created
<1> DEFINE e == [req[r] EXCEPT !.pc = pc, !.todo = <<>>, !.pending = FALSE,
                               !.failed = 0, !.locked = 0, !.at = 0]
<1>1. req[r] \in RequestState /\ KindOf(req[r])
  BY RequestType
<1>2. req' = [req EXCEPT ![r] = e]
  BY DEF Goto
<1>3. e \in RequestState
  <2>1. <<>> \in Seq(Role) /\ 0 \in Nat
    OBVIOUS
  <2> QED BY <1>1, <2>1 DEF RequestState, Answer, Recording
<1>4. /\ e.pc = pc /\ e.op = req[r].op /\ e.code = req[r].code /\ e.created = req[r].created
      /\ ~e.pending /\ e.todo = <<>>
  BY <1>1 DEF RequestState
<1> HIDE DEF e
<1>5. KindOf(e)
  BY <1>1, <1>4 DEF KindOf, Registering, Answer, Recording
<1>6. Becomes(r, e)
  BY <1>2, <1>3, <1>5 DEF Becomes
<1>7. pc # "idle"
  BY DEF Answer, Recording
<1> QED BY <1>4, <1>6, <1>7, BecomesType DEF Goes

LEMMA FinishGoes ==
    ASSUME TypeOK, RequestKind, NEW r \in Request, NEW result \in Answer,
           req[r].pc # "idle", Finish(r, result)
    PROVE  /\ Goes(r, IF req[r].op = "resend" THEN result
                      ELSE IF result = "done" THEN "record done" ELSE "record failed")
           /\ req'[r].created = req[r].created
<1>1. Recorded(req[r].op, result) = IF req[r].op = "resend" THEN result
                      ELSE IF result = "done" THEN "record done" ELSE "record failed"
  BY DEF Recorded
<1>2. Recorded(req[r].op, result) \in Answer \cup Recording
  BY <1>1 DEF Recording
<1> QED BY <1>1, <1>2, GotoResult DEF Finish

\* Request r begins as op at pc, with code c.
Starts(r, op, pc, c) ==
    /\ req[r].pc = "idle"
    /\ req' \in [Request -> RequestState] /\ RequestKind'
    /\ \A q \in Request \ {r} : req'[q] = req[q]
    /\ req'[r].op = op /\ req'[r].pc = pc /\ req'[r].code = c
    /\ pc \in {"refuse", "accept"} =>
         req'[r].failed = acct[UserOf[r]].failed /\ req'[r].locked = acct[UserOf[r]].locked
    /\ together' = together \cup
                     {{r, q} : q \in {q \in Request : UnderWay(q) /\ UserOf[q] = UserOf[r]}}

\* Where a request may begin.
Fits(op, where) ==
    /\ where \in {"insert", "code", "consume", "refuse", "accept"} \cup Answer
    /\ where = "insert" => op = "register"
    /\ where = "code" => op \in {"resend", "forgot"}
    /\ where = "consume" => op \in {"verify", "reset"}
    /\ where \in {"refuse", "accept"} => op = "login"

LEMMA BeginStarts ==
    ASSUME TypeOK, RequestKind, NEW r \in Request, NEW op \in Op, NEW where, NEW c \in Request,
           Fits(op, where), Begin(r, op, where, c)
    PROVE  Starts(r, op, Recorded(op, where), c)
<1> DEFINE checked == where \in {"refuse", "accept"}
           pc == Recorded(op, where)
           e == [req[r] EXCEPT !.op = op, !.pc = pc, !.code = c,
                   !.failed = IF checked THEN acct[UserOf[r]].failed ELSE 0,
                   !.locked = IF checked THEN acct[UserOf[r]].locked ELSE 0,
                   !.at     = IF checked THEN now ELSE 0]
<1>1. req[r] \in RequestState /\ KindOf(req[r]) /\ acct[UserOf[r]] \in Account
  BY RequestType DEF TypeOK
<1>2. req' = [req EXCEPT ![r] = e]
  BY <1>1 DEF Begin, TypeOK
<1>3. /\ pc \in {"insert", "code", "consume", "refuse", "accept"} \cup Answer \cup Recording
      /\ pc = "insert" => op = "register"
      /\ pc = "code" => op \in {"resend", "forgot"}
      /\ pc = "consume" => op \in {"verify", "reset"}
      /\ pc \in {"refuse", "accept"} => op = "login"
      /\ pc \in {"refuse", "accept"} <=> checked
  BY DEF Recorded, Fits, Answer, Recording
<1>4. acct[UserOf[r]].failed \in Nat /\ acct[UserOf[r]].locked \in Nat /\ now \in Nat
  BY <1>1, AccountsAssumption DEF TypeOK, Account
<1> HIDE DEF pc
<1>5. e \in RequestState
  BY <1>1, <1>3, <1>4 DEF RequestState, Recording, Answer
<1>6. /\ e.op = op /\ e.pc = pc /\ e.code = c /\ e.pending = req[r].pending
      /\ e.todo = req[r].todo
      /\ checked => e.failed = acct[UserOf[r]].failed /\ e.locked = acct[UserOf[r]].locked
  BY <1>1 DEF RequestState
<1>7. req[r].pc = "idle" /\ ~req[r].pending /\ req[r].todo = <<>>
  BY <1>1 DEF Begin, KindOf
<1> HIDE DEF e
<1>8. KindOf(e)
  BY <1>3, <1>6, <1>7 DEF KindOf, Registering, Op, Answer, Recording
<1>9. Becomes(r, e)
  BY <1>2, <1>5, <1>8 DEF Becomes
<1>10. /\ req' \in [Request -> RequestState] /\ RequestKind'
       /\ req'[r] = e /\ \A q \in Request \ {r} : req'[q] = req[q]
  BY <1>9, BecomesType
<1> QED BY <1>3, <1>6, <1>7, <1>10 DEF Starts, Begin, pc

\* What beginning leaves alone.
Unread == UNCHANGED <<UserOf, now, acct, roles, member, code, event, history>>

\* Every request that begins: a registration with its insert, the use of a
\* code with one of the account that is issued.
Begun(r, op, where, c) ==
    /\ Starts(r, op, Recorded(op, where), c)
    /\ Fits(op, where)
    /\ op = "register" => where \in {"insert", "failed"}
    /\ op \in {"verify", "reset"} =>
         /\ UserOf[c] = UserOf[r] /\ code[c].state # "none"
         /\ where \in {"consume", "failed"}
         /\ where = "consume" => code[c].state = "issued"

LEMMA StartBegins ==
    ASSUME TypeOK, RequestKind, NEW r \in Request, Start(r)
    PROVE  /\ \E op \in Op, c \in Request :
                \E where \in {"insert", "code", "consume", "refuse", "accept", "done", "failed"} :
                  Begun(r, op, where, c)
           /\ Unread
<1> DEFINE Where == {"insert", "code", "consume", "refuse", "accept", "done", "failed"}
<1>1. CASE Register(r)
  <2> DEFINE where == IF Known(UserOf[r]) THEN "failed" ELSE "insert"
  <2>1. Fits("register", where) /\ where \in Where /\ where \in {"insert", "failed"}
    BY DEF Fits, Answer
  <2>2. "register" \in Op
    BY DEF Op
  <2>3. Begin(r, "register", where, r) /\ Unread
    BY <1>1 DEF Register, Unread
  <2> HIDE DEF where
  <2>4. Begun(r, "register", where, r)
    BY <2>1, <2>2, <2>3, BeginStarts DEF Begun
  <2> QED BY <2>1, <2>2, <2>3, <2>4
<1>2. ASSUME NEW op \in {"resend", "forgot"}, RequestCode(r, op)
      PROVE  Unread /\ \E where \in Where : Begun(r, op, where, r)
  <2> DEFINE where == IF (IF op = "resend" THEN "verification" ELSE "reset") \in Enabled
                      THEN "code" ELSE "done"
  <2>1. Fits(op, where) /\ where \in Where
    BY DEF Fits, Answer
  <2>2. Begin(r, op, where, r) /\ Unread /\ op \in Op
    BY <1>2 DEF RequestCode, Unread, Op
  <2> HIDE DEF where
  <2>3. Begun(r, op, where, r)
    BY <2>1, <2>2, BeginStarts DEF Begun
  <2> QED BY <2>1, <2>2, <2>3
<1>3. ASSUME NEW c \in Request, PresentCode(r, c)
      PROVE  Unread /\ \E op \in Op : \E where \in Where : Begun(r, op, where, c)
  <2> DEFINE op == IF code[c].purpose = "reset" THEN "reset" ELSE "verify"
             where == IF code[c].state = "issued" /\ code[c].expires > now
                      THEN "consume" ELSE "failed"
  <2>1. /\ Fits(op, where) /\ where \in Where /\ op \in Op /\ op \in {"verify", "reset"}
        /\ where \in {"consume", "failed"} /\ (where = "consume" => code[c].state = "issued")
    BY DEF Fits, Answer, Op
  <2>2. Begin(r, op, where, c) /\ Unread /\ code[c].state # "none" /\ UserOf[c] = UserOf[r]
    BY <1>3 DEF PresentCode, Unread
  <2> HIDE DEF where, op
  <2>3. Begun(r, op, where, c)
    BY <2>1, <2>2, BeginStarts DEF Begun
  <2> QED BY <2>1, <2>2, <2>3
<1>4. ASSUME NEW right \in BOOLEAN, CheckPassword(r, right)
      PROVE  Unread /\ \E where \in Where : Begun(r, "login", where, r)
  <2> DEFINE a == acct[UserOf[r]]
             usable  == a.status = "active" \/ "verification" \in Enabled
             lockout == "lockout" \in Enabled
             where == IF ~Known(UserOf[r]) \/ (lockout /\ a.locked > now) THEN "failed"
               ELSE IF ~(right /\ usable) THEN (IF lockout THEN "refuse" ELSE "failed")
               ELSE IF "verification" \in Enabled /\ ~a.verified THEN "failed"
               ELSE IF lockout THEN "accept" ELSE "done"
  <2>1. where \in {"failed", "refuse", "accept", "done"}
    OBVIOUS
  <2>2. Begin(r, "login", where, r) /\ Unread
    BY <1>4 DEF CheckPassword, Unread
  <2> HIDE DEF where
  <2>3. Fits("login", where) /\ where \in Where /\ "login" \in Op
    BY <2>1 DEF Fits, Answer, Op
  <2>4. Begun(r, "login", where, r)
    BY <2>2, <2>3, BeginStarts DEF Begun
  <2> QED BY <2>2, <2>3, <2>4
<1>5. "login" \in Op /\ {"resend", "forgot"} \subseteq Op
  BY DEF Op
<1> QED BY <1>1, <1>2, <1>3, <1>4, <1>5 DEF Start

-----------------------------------------------------------------------------
(* The effects of the steps.                                               *)

\* The accounts after the commit of r: only a status is written.
Committed(r) ==
    /\ acct' \in [User -> Account]
    /\ \A u \in User : /\ acct'[u].failed = acct[u].failed /\ acct'[u].locked = acct[u].locked
                       /\ acct'[u].verified = acct[u].verified
                       /\ Known(u) => Known(u)'
                       /\ u # UserOf[r] \/ ~req[r].pending => acct'[u] = acct[u]
    /\ req[r].pending => acct'[UserOf[r]].status # "none"

LEMMA InsertedCommits ==
    ASSUME TypeOK, RequestKind, NEW r \in Request, acct' = Inserted(r)
    PROVE  Committed(r)
<1> DEFINE v == UserOf[r]
           s == IF ~req[r].pending THEN acct[v].status
                ELSE IF "verification" \in Enabled THEN "pending" ELSE "active"
<1>1. v \in User /\ acct \in [User -> Account]
  BY RequestType DEF TypeOK
<1>2. acct' = [acct EXCEPT ![v] = [acct[v] EXCEPT !.status = s]]
  BY <1>1 DEF Inserted
<1>3. acct[v] \in Account
  BY <1>1
<1>4. s \in {"none", "pending", "active"} /\ (req[r].pending => s # "none")
      /\ (acct[v].status # "none" => s # "none") /\ (~req[r].pending => s = acct[v].status)
  BY <1>3 DEF Account
<1> HIDE DEF s
<1> DEFINE e == [acct[v] EXCEPT !.status = s]
<1>5. /\ e \in Account /\ e.failed = acct[v].failed /\ e.locked = acct[v].locked
      /\ e.verified = acct[v].verified /\ e.status = s
      /\ ~req[r].pending => e = acct[v]
  BY <1>3, <1>4 DEF Account
<1> HIDE DEF e
<1>6. acct' \in [User -> Account] /\ acct'[v] = e
      /\ \A u \in User \ {v} : acct'[u] = acct[u]
  BY <1>1, <1>2, <1>5 DEF e
<1> HIDE DEF v
<1>7. ASSUME NEW u \in User
      PROVE  /\ acct'[u].failed = acct[u].failed /\ acct'[u].locked = acct[u].locked
             /\ acct'[u].verified = acct[u].verified
             /\ acct[u].status # "none" => acct'[u].status # "none"
             /\ u # v \/ ~req[r].pending => acct'[u] = acct[u]
  BY <1>4, <1>5, <1>6
<1>8. req[r].pending => acct'[v].status # "none"
  BY <1>4, <1>5, <1>6
<1> QED BY <1>6, <1>7, <1>8 DEF Committed, Known, v

\* InsertUser: a conflict, or the account is flushed.
LEMMA InsertUserGoes ==
    ASSUME TypeOK, RequestKind, NEW r \in Request, InsertUser(r)
    PROVE  /\ UNCHANGED <<UserOf, now, acct, roles, member, code, event, history, together>>
           /\ req[r].pc = "insert" /\ req[r].op = "register"
           /\ req'[r].created = req[r].created
           /\ \/ Goes(r, "record failed")
              \/ /\ Goes(r, "role")
                 /\ req'[r].pending /\ req'[r].todo = RolesOf[UserOf[r]]
<1>1. req[r] \in RequestState /\ KindOf(req[r]) /\ UserOf[r] \in User
  BY RequestType
<1>2. /\ UNCHANGED <<UserOf, now, acct, roles, member, code, event, history, together>>
      /\ req[r].pc = "insert" /\ req[r].op = "register"
  BY <1>1 DEF InsertUser, KindOf, Registering
<1>3. CASE Known(UserOf[r])
  <2>1. Finish(r, "failed")
    BY <1>3 DEF InsertUser
  <2>2. "failed" \in Answer
    BY DEF Answer
  <2> QED BY <1>2, <2>1, <2>2, FinishGoes
<1>4. CASE ~Known(UserOf[r])
  <2> DEFINE e == [req[r] EXCEPT !.pc = "role", !.pending = TRUE, !.todo = RolesOf[UserOf[r]]]
  <2>1. req' = [req EXCEPT ![r] = e]
    BY <1>4 DEF InsertUser, TypeOK
  <2>2. RolesOf[UserOf[r]] \in Seq(Role)
    BY <1>1, AccountsAssumption
  <2>3. /\ e \in RequestState
        /\ e.pc = "role" /\ e.op = req[r].op /\ e.code = req[r].code /\ e.created = req[r].created
        /\ e.pending /\ e.todo = RolesOf[UserOf[r]]
    BY <1>1, <2>2 DEF RequestState
  <2> HIDE DEF e
  <2>4. Becomes(r, e)
    BY <1>2, <2>1, <2>3 DEF Becomes, KindOf, Registering
  <2> QED BY <1>2, <2>3, <2>4, BecomesType DEF Goes
<1> QED BY <1>3, <1>4

\* FindRole: to the role if it is there, else to its creation.
LEMMA FindRoleGoes ==
    ASSUME TypeOK, RequestKind, NEW r \in Request, FindRole(r)
    PROVE  /\ UNCHANGED <<UserOf, now, acct, roles, member, code, event, history, together>>
           /\ req[r].pc = "role" /\ req[r].op = "register"
           /\ req'[r].pending = req[r].pending /\ req'[r].todo = req[r].todo
           /\ req'[r].created = req[r].created
           /\ \/ Goes(r, "newrole")
              \/ Goes(r, "member") /\ Head(req[r].todo) \in roles
<1>1. req[r] \in RequestState /\ KindOf(req[r])
  BY RequestType
<1>2. /\ UNCHANGED <<UserOf, now, acct, roles, member, code, event, history, together>>
      /\ req[r].pc = "role" /\ req[r].op = "register"
  BY <1>1 DEF FindRole, KindOf, Registering
<1> DEFINE pc == IF Head(req[r].todo) \in roles THEN "member" ELSE "newrole"
           e == [req[r] EXCEPT !.pc = pc]
<1>3. req' = [req EXCEPT ![r] = e]
  BY DEF FindRole, Goto, Answer, Recording, TypeOK
<1>4. /\ pc \in {"member", "newrole"}
      /\ pc = "member" => Head(req[r].todo) \in roles
  OBVIOUS
<1> HIDE DEF pc
<1>5. /\ e \in RequestState
      /\ e.pc = pc /\ e.op = req[r].op /\ e.code = req[r].code /\ e.created = req[r].created
      /\ e.pending = req[r].pending /\ e.todo = req[r].todo
  BY <1>1, <1>4 DEF RequestState
<1> HIDE DEF e
<1>6. Becomes(r, e)
  BY <1>1, <1>2, <1>3, <1>4, <1>5 DEF Becomes, KindOf, Registering
<1>7. /\ req' \in [Request -> RequestState] /\ RequestKind' /\ req'[r] = e
      /\ \A q \in Request \ {r} : req'[q] = req[q]
  BY <1>6, BecomesType
<1>8. Goes(r, pc)
  BY <1>4, <1>5, <1>7 DEF Goes
<1> QED BY <1>2, <1>4, <1>5, <1>7, <1>8

\* CreateRole: a conflict, or the role and the account are committed.
LEMMA CreateRoleGoes ==
    ASSUME TypeOK, RequestKind, NEW r \in Request, CreateRole(r)
    PROVE  /\ UNCHANGED <<UserOf, now, member, code, event, history, together>>
           /\ req[r].pc = "newrole" /\ req[r].op = "register"
           /\ \/ /\ Goes(r, "failed") /\ UNCHANGED <<acct, roles>>
                 /\ req'[r].created = req[r].created
              \/ /\ Goes(r, "member") /\ Committed(r)
                 /\ roles' = roles \cup {Head(req[r].todo)}
                 /\ req'[r].todo = req[r].todo /\ ~req'[r].pending /\ req'[r].created
<1>1. req[r] \in RequestState /\ KindOf(req[r])
  BY RequestType
<1>2. /\ UNCHANGED <<UserOf, now, member, code, event, history, together>>
      /\ req[r].pc = "newrole" /\ req[r].op = "register"
  BY <1>1 DEF CreateRole, KindOf, Registering
<1>3. CASE Head(req[r].todo) \in roles
  <2>1. Goto(r, "failed") /\ UNCHANGED <<acct, roles>>
    BY <1>3 DEF CreateRole
  <2>2. "failed" \in Answer \cup Recording
    BY DEF Answer
  <2> QED BY <1>2, <2>1, <2>2, GotoResult
<1>4. CASE Head(req[r].todo) \notin roles
  <2> DEFINE e == [req[r] EXCEPT !.pc = "member", !.pending = FALSE, !.created = TRUE]
  <2>1. /\ req' = [req EXCEPT ![r] = e]
        /\ roles' = roles \cup {Head(req[r].todo)}
        /\ acct' = Inserted(r)
    BY <1>4 DEF CreateRole, TypeOK
  <2>2. /\ e \in RequestState
        /\ e.pc = "member" /\ e.op = req[r].op /\ e.code = req[r].code /\ e.created
        /\ ~e.pending /\ e.todo = req[r].todo
    BY <1>1 DEF RequestState
  <2> HIDE DEF e
  <2>3. Becomes(r, e)
    BY <1>2, <2>1, <2>2 DEF Becomes, KindOf, Registering
  <2> QED BY <1>2, <2>1, <2>2, <2>3, BecomesType, InsertedCommits DEF Goes
<1> QED BY <1>3, <1>4

\* AssignRole: the next role is that of the account, with the account.
LEMMA AssignRoleGoes ==
    ASSUME TypeOK, RequestKind, NEW r \in Request, AssignRole(r), req[r].todo # <<>>
    PROVE  /\ UNCHANGED <<UserOf, now, roles, code, event, history, together>>
           /\ req[r].pc = "member" /\ req[r].op = "register"
           /\ member' = member \cup {<<UserOf[r], Head(req[r].todo)>>}
           /\ Committed(r)
           /\ req'[r].todo = Tail(req[r].todo) /\ ~req'[r].pending
           /\ req'[r].created = req[r].created
           /\ IF Tail(req[r].todo) # <<>> THEN Goes(r, "role")
              ELSE IF "verification" \in Enabled THEN Goes(r, "code") ELSE Goes(r, "record done")
<1>1. req[r] \in RequestState /\ KindOf(req[r])
  BY RequestType
<1>2. /\ UNCHANGED <<UserOf, now, roles, code, event, history, together>>
      /\ req[r].pc = "member" /\ req[r].op = "register"
      /\ member' = member \cup {<<UserOf[r], Head(req[r].todo)>>}
      /\ acct' = Inserted(r)
  BY <1>1 DEF AssignRole, KindOf, Registering
<1> DEFINE pc == IF Tail(req[r].todo) # <<>> THEN "role"
                 ELSE IF "verification" \in Enabled THEN "code" ELSE "record done"
           e == [req[r] EXCEPT !.todo = Tail(req[r].todo), !.pending = FALSE, !.pc = pc]
<1>3. req' = [req EXCEPT ![r] = e]
  BY DEF AssignRole, TypeOK
<1>4. /\ pc \in {"role", "code", "record done"}
      /\ pc = "role" <=> Tail(req[r].todo) # <<>>
      /\ pc = "code" => "verification" \in Enabled
      /\ pc = "record done" => "verification" \notin Enabled
  OBVIOUS
<1> HIDE DEF pc
<1>5. req[r].todo \in Seq(Role)
  BY <1>1 DEF RequestState
<1>6. Tail(req[r].todo) \in Seq(Role)
  BY <1>5
<1>7. /\ e \in RequestState
      /\ e.pc = pc /\ e.op = req[r].op /\ e.code = req[r].code /\ e.created = req[r].created
      /\ ~e.pending /\ e.todo = Tail(req[r].todo)
  BY <1>1, <1>4, <1>6 DEF RequestState, Recording
<1> HIDE DEF e
<1>8. Becomes(r, e)
  BY <1>2, <1>3, <1>4, <1>7 DEF Becomes, KindOf, Registering
<1>9. /\ req' \in [Request -> RequestState] /\ RequestKind' /\ req'[r] = e
      /\ \A q \in Request \ {r} : req'[q] = req[q]
  BY <1>8, BecomesType
<1>10. Goes(r, pc)
  BY <1>4, <1>7, <1>9 DEF Goes
<1> QED BY <1>2, <1>4, <1>7, <1>9, <1>10, InsertedCommits

\* The request answers: all but "resend" record an event first.
ResultOf(r, result) ==
    IF req[r].op = "resend" THEN result
    ELSE IF result = "done" THEN "record done" ELSE "record failed"

\* IssueCode: an account gets the code of this request.
LEMMA IssueCodeGoes ==
    ASSUME TypeOK, RequestKind, NEW r \in Request, IssueCode(r)
    PROVE  /\ UNCHANGED <<UserOf, now, acct, roles, member, event, history, together>>
           /\ req[r].pc = "code" /\ req[r].op \in {"register", "resend", "forgot"}
           /\ Goes(r, ResultOf(r, "done")) /\ req'[r].created = req[r].created
           /\ code' \in [Request -> Code]
           /\ IF Known(UserOf[r]) THEN /\ code'[r].state = "issued"
                                       /\ \A c \in Request \ {r} : code'[c] = code[c]
              ELSE code' = code
<1>1. KindOf(req[r])
  BY RequestType
<1>2. /\ UNCHANGED <<UserOf, now, acct, roles, member, event, history, together>>
      /\ req[r].pc = "code" /\ req[r].op \in {"register", "resend", "forgot"}
      /\ Finish(r, "done")
  BY <1>1 DEF IssueCode, KindOf
<1>3. Goes(r, ResultOf(r, "done")) /\ req'[r].created = req[r].created
  <2>1. "done" \in Answer
    BY DEF Answer
  <2> QED BY <1>2, <2>1, FinishGoes DEF ResultOf
<1>4. /\ code' \in [Request -> Code]
      /\ IF Known(UserOf[r]) THEN /\ code'[r].state = "issued"
                                  /\ \A c \in Request \ {r} : code'[c] = code[c]
         ELSE code' = code
  <2> DEFINE e == [state |-> "issued", expires |-> now + CodeLife,
                   purpose |-> IF req[r].op = "forgot" THEN "reset" ELSE "verification"]
  <2>1. code' = IF Known(UserOf[r]) THEN [code EXCEPT ![r] = e] ELSE code
    BY DEF IssueCode
  <2>2. now + CodeLife \in Nat
    BY AccountsAssumption DEF TypeOK
  <2>3. e \in Code /\ e.state = "issued"
    BY <2>2 DEF Code, Purpose
  <2> HIDE DEF e
  <2> QED BY <2>1, <2>3 DEF TypeOK
<1> QED BY <1>2, <1>3, <1>4

\* ConsumeCode: the code is consumed, and the account verified.
LEMMA ConsumeCodeGoes ==
    ASSUME TypeOK, RequestKind, NEW r \in Request, ConsumeCode(r)
    PROVE  /\ UNCHANGED <<UserOf, now, roles, member, event, history, together>>
           /\ req[r].pc = "consume" /\ req[r].op \in {"verify", "reset"}
           /\ Goes(r, "record done") /\ req'[r].created = req[r].created
           /\ code' \in [Request -> Code] /\ code'[req[r].code].state = "consumed"
           /\ \A c \in Request \ {req[r].code} : code'[c] = code[c]
           /\ acct' \in [User -> Account]
           /\ \A u \in User : /\ acct'[u].failed = acct[u].failed
                              /\ acct'[u].locked = acct[u].locked
                              /\ acct[u].verified => acct'[u].verified
                              /\ acct[u].status # "none" => acct'[u].status # "none"
                              /\ acct[u].status = "none" /\ u # UserOf[r] => acct'[u].status = "none"
           /\ req[r].op = "verify" => acct'[UserOf[r]].verified
<1>1. req[r] \in RequestState /\ KindOf(req[r]) /\ UserOf[r] \in User
  BY RequestType
<1>2. /\ UNCHANGED <<UserOf, now, roles, member, event, history, together>>
      /\ req[r].pc = "consume" /\ req[r].op \in {"verify", "reset"}
      /\ Finish(r, "done")
  BY <1>1 DEF ConsumeCode, KindOf
<1>3. Goes(r, "record done") /\ req'[r].created = req[r].created
  <2>1. "done" \in Answer
    BY DEF Answer
  <2> QED BY <1>2, <2>1, FinishGoes
<1>4. /\ code' \in [Request -> Code] /\ code'[req[r].code].state = "consumed"
      /\ \A c \in Request \ {req[r].code} : code'[c] = code[c]
  <2> DEFINE c == req[r].code
             e == [code[c] EXCEPT !.state = "consumed"]
  <2>1. c \in Request
    BY <1>1 DEF RequestState
  <2>2. code' = [code EXCEPT ![c] = e]
    BY <2>1 DEF ConsumeCode, TypeOK
  <2>3. code \in [Request -> Code] /\ code[c] \in Code
    BY <2>1 DEF TypeOK
  <2>4. e \in Code /\ e.state = "consumed"
    BY <2>3 DEF Code
  <2> HIDE DEF e
  <2> QED BY <2>1, <2>2, <2>3, <2>4
<1>5. /\ acct' \in [User -> Account]
      /\ \A u \in User : /\ acct'[u].failed = acct[u].failed
                         /\ acct'[u].locked = acct[u].locked
                         /\ acct[u].verified => acct'[u].verified
                         /\ acct[u].status # "none" => acct'[u].status # "none"
                         /\ acct[u].status = "none" /\ u # UserOf[r] => acct'[u].status = "none"
      /\ req[r].op = "verify" => acct'[UserOf[r]].verified
  <2> DEFINE v == UserOf[r]
             e == [acct[v] EXCEPT !.verified = TRUE, !.status = "active"]
  <2>1. acct' = IF req[r].op = "verify" THEN [acct EXCEPT ![v] = e] ELSE acct
    BY <1>1 DEF ConsumeCode, TypeOK
  <2>2. acct \in [User -> Account] /\ acct[v] \in Account /\ v \in User
    BY <1>1 DEF TypeOK
  <2>3. /\ e \in Account /\ e.verified = TRUE /\ e.status = "active"
        /\ e.failed = acct[v].failed /\ e.locked = acct[v].locked
    BY <2>2 DEF Account
  <2> HIDE DEF e, v
  <2>4. CASE req[r].op = "verify"
    <3>1. acct' = [acct EXCEPT ![v] = e]
      BY <2>1, <2>4
    <3>2. acct' \in [User -> Account] /\ acct'[v] = e /\ \A u \in User \ {v} : acct'[u] = acct[u]
      BY <2>2, <2>3, <3>1
    <3> QED BY <2>2, <2>3, <3>2 DEF v
  <2>5. CASE req[r].op # "verify"
    BY <2>1, <2>2, <2>5
  <2> QED BY <2>4, <2>5
<1> QED BY <1>2, <1>3, <1>4, <1>5

\* Refuse: what was read is counted up and written.
LEMMA RefuseGoes ==
    ASSUME TypeOK, RequestKind, NEW r \in Request, Refuse(r)
    PROVE  LET u == UserOf[r] IN
           /\ UNCHANGED <<UserOf, now, roles, member, code, event, together>>
           /\ req[r].pc = "refuse" /\ req[r].op = "login"
           /\ Goes(r, "record failed") /\ req'[r].created = req[r].created
           /\ acct' \in [User -> Account] /\ refused' \in [User -> Nat] /\ streak' \in [User -> Nat]
           /\ \A w \in User \ {u} : /\ acct'[w] = acct[w] /\ refused'[w] = refused[w]
                                    /\ streak'[w] = streak[w]
           /\ acct'[u].status = acct[u].status /\ acct'[u].verified = acct[u].verified
           /\ acct'[u].failed = req[r].failed + 1
           /\ IF req[r].failed + 1 >= MaxAttempts THEN acct'[u].locked # 0
              ELSE acct'[u].locked = acct[u].locked
           /\ refused'[u] = refused[u] + 1 /\ streak'[u] = streak[u] + 1
<1>1. req[r] \in RequestState /\ KindOf(req[r]) /\ UserOf[r] \in User
  BY RequestType
<1>2. /\ UNCHANGED <<UserOf, now, roles, member, code, event, together>>
      /\ req[r].pc = "refuse" /\ req[r].op = "login"
      /\ Finish(r, "failed")
  BY <1>1 DEF Refuse, KindOf
<1>3. Goes(r, "record failed") /\ req'[r].created = req[r].created
  <2>1. "failed" \in Answer
    BY DEF Answer
  <2> QED BY <1>2, <2>1, FinishGoes
<1> DEFINE v == UserOf[r]
           n == req[r].failed + 1
           l == IF n >= MaxAttempts THEN req[r].at + LockFor ELSE acct[v].locked
           e == [acct[v] EXCEPT !.failed = n, !.locked = l]
<1>4. /\ acct \in [User -> Account] /\ acct[v] \in Account /\ v \in User
      /\ refused \in [User -> Nat] /\ streak \in [User -> Nat]
      /\ refused[v] \in Nat /\ streak[v] \in Nat
  BY <1>1 DEF TypeOK
<1>5. acct' = [acct EXCEPT ![v] = e]
  BY <1>4 DEF Refuse
<1>6. /\ n \in Nat /\ l \in Nat /\ (n >= MaxAttempts => l # 0)
      /\ ~(n >= MaxAttempts) => l = acct[v].locked
  <2>1. req[r].failed \in Nat /\ req[r].at \in Nat /\ acct[v].locked \in Nat
    BY <1>1, <1>4 DEF RequestState, Account
  <2> QED BY <2>1, AccountsAssumption
<1> HIDE DEF l
<1>7. /\ e \in Account /\ e.status = acct[v].status /\ e.verified = acct[v].verified
      /\ e.failed = n /\ e.locked = l
  BY <1>4, <1>6 DEF Account
<1> HIDE DEF e
<1>8. acct' \in [User -> Account] /\ acct'[v] = e /\ \A w \in User \ {v} : acct'[w] = acct[w]
  BY <1>4, <1>5, <1>7
<1>9. /\ refused' \in [User -> Nat] /\ streak' \in [User -> Nat]
      /\ \A w \in User \ {v} : refused'[w] = refused[w] /\ streak'[w] = streak[w]
      /\ refused'[v] = refused[v] + 1 /\ streak'[v] = streak[v] + 1
  <2>1. /\ refused' = [refused EXCEPT ![v] = refused[v] + 1]
        /\ streak' = [streak EXCEPT ![v] = streak[v] + 1]
    BY <1>4 DEF Refuse
  <2>2. refused[v] + 1 \in Nat /\ streak[v] + 1 \in Nat
    BY <1>4
  <2> QED BY <1>4, <2>1, <2>2
<1> QED BY <1>2, <1>3, <1>6, <1>7, <1>8, <1>9

\* Accept: the counter and the lock are reset unless they were when read.
LEMMA AcceptGoes ==
    ASSUME TypeOK, RequestKind, NEW r \in Request, Accept(r)
    PROVE  LET u == UserOf[r] IN
           /\ UNCHANGED <<UserOf, now, roles, member, code, event, refused, together>>
           /\ req[r].pc = "accept" /\ req[r].op = "login"
           /\ Goes(r, "record done") /\ req'[r].created = req[r].created
           /\ acct' \in [User -> Account] /\ streak' \in [User -> Nat]
           /\ \A w \in User \ {u} : acct'[w] = acct[w] /\ streak'[w] = streak[w]
           /\ acct'[u].status = acct[u].status /\ acct'[u].verified = acct[u].verified
           /\ acct'[u].failed = IF req[r].failed = 0 THEN acct[u].failed ELSE 0
           /\ acct'[u].locked = IF req[r].locked = 0 THEN acct[u].locked ELSE 0
           /\ streak'[u] = 0
<1>1. req[r] \in RequestState /\ KindOf(req[r]) /\ UserOf[r] \in User
  BY RequestType
<1>2. /\ UNCHANGED <<UserOf, now, roles, member, code, event, refused, together>>
      /\ req[r].pc = "accept" /\ req[r].op = "login"
      /\ Finish(r, "done")
  BY <1>1 DEF Accept, KindOf
<1>3. Goes(r, "record done") /\ req'[r].created = req[r].created
  <2>1. "done" \in Answer
    BY DEF Answer
  <2> QED BY <1>2, <2>1, FinishGoes
<1> DEFINE v == UserOf[r]
           f == IF req[r].failed = 0 THEN acct[v].failed ELSE 0
           l == IF req[r].locked = 0 THEN acct[v].locked ELSE 0
           e == [acct[v] EXCEPT !.failed = f, !.locked = l]
<1>4. acct \in [User -> Account] /\ acct[v] \in Account /\ v \in User /\ streak \in [User -> Nat]
  BY <1>1 DEF TypeOK
<1>5. acct' = [acct EXCEPT ![v] = e]
  BY <1>4 DEF Accept
<1>6. f \in Nat /\ l \in Nat
  BY <1>4 DEF Account
<1> HIDE DEF f, l
<1>7. /\ e \in Account /\ e.status = acct[v].status /\ e.verified = acct[v].verified
      /\ e.failed = f /\ e.locked = l
  BY <1>4, <1>6 DEF Account
<1> HIDE DEF e
<1>8. acct' \in [User -> Account] /\ acct'[v] = e /\ \A w \in User \ {v} : acct'[w] = acct[w]
  BY <1>4, <1>5, <1>7
<1>9. /\ streak' \in [User -> Nat] /\ streak'[v] = 0
      /\ \A w \in User \ {v} : streak'[w] = streak[w]
  BY <1>4 DEF Accept
<1> QED BY <1>2, <1>3, <1>7, <1>8, <1>9 DEF f, l

\* RecordAudit: the outcome is recorded, and answered.
LEMMA RecordAuditGoes ==
    ASSUME TypeOK, RequestKind, NEW r \in Request, RecordAudit(r)
    PROVE  /\ UNCHANGED <<UserOf, now, acct, roles, member, code, history, together>>
           /\ req[r].pc \in Recording
           /\ Goes(r, IF req[r].pc = "record done" THEN "done" ELSE "failed")
           /\ req'[r].created = req[r].created
           /\ event' \in [Request -> {"none", "success", "failure"}]
           /\ \A q \in Request \ {r} : event'[q] = event[q]
           /\ event'[r] = IF req[r].pc = "record done" THEN "success" ELSE "failure"
<1> DEFINE pc == IF req[r].pc = "record done" THEN "done" ELSE "failed"
<1>1. /\ UNCHANGED <<UserOf, now, acct, roles, member, code, history, together>>
      /\ req[r].pc \in Recording /\ Goto(r, pc)
  BY DEF RecordAudit
<1>2. pc \in Answer \cup Recording /\ req[r].pc # "idle"
  BY <1>1 DEF Answer, Recording
<1>3. Goes(r, pc) /\ req'[r].created = req[r].created
  <2> HIDE DEF pc
  <2> QED BY <1>1, <1>2, GotoResult
<1>4. /\ event' \in [Request -> {"none", "success", "failure"}]
      /\ \A q \in Request \ {r} : event'[q] = event[q]
      /\ event'[r] = IF req[r].pc = "record done" THEN "success" ELSE "failure"
  BY DEF RecordAudit, TypeOK
<1> QED BY <1>1, <1>3, <1>4

\* Abort: an answer of failure, and nothing else.
LEMMA AbortGoes ==
    ASSUME TypeOK, RequestKind, NEW r \in Request, Abort(r)
    PROVE  /\ UNCHANGED <<UserOf, now, acct, roles, member, code, event, history, together>>
           /\ UnderWay(r) /\ Goes(r, "failed") /\ req'[r].created = req[r].created
<1>1. "failed" \in Answer \cup Recording /\ req[r].pc # "idle"
  BY DEF Abort, UnderWay, Answer
<1> QED BY <1>1, GotoResult DEF Abort

-----------------------------------------------------------------------------
(* What the steps of a request under way have in common: accounts, roles   *)
(* and codes are there to stay, and an accepted code is consumed.          *)

Moves(r) ==
    /\ UNCHANGED <<UserOf, now, together>>
    /\ UnderWay(r)
    /\ Goes(r, req'[r].pc)
    /\ req'[r].pc \notin {"refuse", "accept", "insert", "consume"}
    /\ req[r].pc \in Recording => req'[r].pc \in Answer
    /\ acct' \in [User -> Account] /\ code' \in [Request -> Code]
    /\ event' \in [Request -> {"none", "success", "failure"}]
    /\ refused' \in [User -> Nat] /\ streak' \in [User -> Nat]
    /\ roles \subseteq roles' /\ roles' \subseteq Role
    /\ member \subseteq member' /\ member' \subseteq User \X roles'
    /\ \A u \in User : /\ acct[u].status # "none" => acct'[u].status # "none"
                       /\ acct[u].verified => acct'[u].verified
    /\ \A c \in Request :
         /\ code[c].state # "none" => code'[c].state # "none"
         /\ code[c].state = "consumed" => code'[c].state = "consumed"
         /\ code[c].state = "none" /\ code'[c].state # "none" =>
              c = r /\ Known(UserOf[r]) /\ req'[r].pc \in Recording \cup Answer
    /\ req[r].op \in {"verify", "reset"} /\ req'[r].pc \in {"record done", "done"} =>
         /\ Uses(r)
         /\ code'[req[r].code].state = "consumed"
         /\ req[r].op = "verify" => acct'[UserOf[r]].verified
    /\ \A q \in Request \ {r} : event'[q] = event[q]
    /\ event'[r] = "success" => req'[r].pc = "done"

\* Most steps leave most of it alone.
LEMMA Frame ==
    ASSUME TypeOK
    PROVE  /\ acct \in [User -> Account] /\ code \in [Request -> Code]
           /\ event \in [Request -> {"none", "success", "failure"}]
           /\ refused \in [User -> Nat] /\ streak \in [User -> Nat]
           /\ roles \subseteq Role /\ member \subseteq User \X roles
BY DEF TypeOK

\* A request under way has recorded no success.
LEMMA NoEventYet ==
    ASSUME AccountsInv, NEW r \in Request, UnderWay(r)
    PROVE  event[r] # "success"
BY DEF AccountsInv, SuccessAnswered, UnderWay, Answer

LEMMA TodoSound ==
    ASSUME AccountsInv, NEW r \in Request, req[r].pc = "member"
    PROVE  /\ req[r].todo # <<>> /\ req[r].todo \in Seq(Role)
           /\ Head(req[r].todo) \in roles /\ UserOf[r] \in User
<1>1. req[r].todo # <<>> /\ Head(req[r].todo) \in roles
  BY DEF AccountsInv, RolesAssigned, ToAssign, HeadInRoles
<1>2. req[r] \in RequestState /\ UserOf[r] \in User
  BY RequestType DEF AccountsInv
<1> QED BY <1>1, <1>2 DEF RequestState

LEMMA StepMoves ==
    ASSUME AccountsInv, NEW r \in Request, Step(r) \/ Abort(r)
    PROVE  Moves(r)
<1> TypeOK /\ RequestKind
  BY DEF AccountsInv
<1> USE DEF Answer, Recording, Registering, history
<1>0. KindOf(req[r]) /\ req[r].code \in Request /\ UserOf[r] \in User
  BY RequestType DEF RequestState
<1>1. CASE InsertUser(r)
  <2>1. UnderWay(r) /\ event[r] # "success"
    BY <1>1, InsertUserGoes, NoEventYet DEF UnderWay
  <2> QED BY <1>1, <2>1, InsertUserGoes, Frame DEF Moves, Goes
<1>2. CASE FindRole(r)
  <2>1. UnderWay(r) /\ event[r] # "success"
    BY <1>2, FindRoleGoes, NoEventYet DEF UnderWay
  <2> QED BY <1>2, <2>1, FindRoleGoes, Frame DEF Moves, Goes
<1>3. CASE CreateRole(r)
  <2>1. UnderWay(r) /\ event[r] # "success"
    BY <1>3, CreateRoleGoes, NoEventYet DEF UnderWay
  <2>2. roles \subseteq roles' /\ roles' \subseteq Role /\ req[r].todo # <<>>
    <3>1. req[r].pc = "newrole"
      BY <1>3, CreateRoleGoes
    <3>2. req[r].todo # <<>>
      BY <3>1 DEF AccountsInv, RolesAssigned, ToAssign
    <3>3. req[r].todo \in Seq(Role)
      BY RequestType DEF RequestState
    <3>4. Head(req[r].todo) \in Role
      BY <3>2, <3>3
    <3>5. roles' \in {roles, roles \cup {Head(req[r].todo)}}
      BY <1>3, CreateRoleGoes
    <3> QED BY <3>2, <3>4, <3>5, Frame
  <2>3. /\ acct' \in [User -> Account]
        /\ \A u \in User : /\ acct[u].status # "none" => acct'[u].status # "none"
                           /\ acct[u].verified => acct'[u].verified
    BY <1>3, CreateRoleGoes, Frame DEF Committed, Known
  <2>4. Goes(r, req'[r].pc) /\ req'[r].pc \in {"failed", "member"}
    BY <1>3, CreateRoleGoes DEF Goes
  <2>5. /\ UNCHANGED <<UserOf, now, member, code, event, refused, streak, together>>
        /\ req[r].pc = "newrole" /\ req[r].op = "register"
    BY <1>3, CreateRoleGoes
  <2> QED BY <2>1, <2>2, <2>3, <2>4, <2>5, Frame DEF Moves
<1>4. CASE AssignRole(r)
  <2>0. req[r].pc = "member"
    BY <1>4 DEF AssignRole
  <2>1. UnderWay(r) /\ event[r] # "success"
    BY <2>0, NoEventYet DEF UnderWay
  <2>2. /\ req[r].todo # <<>> /\ Head(req[r].todo) \in roles
    BY <2>0, TodoSound
  <2>3. member \subseteq member' /\ member' \subseteq User \X roles'
    <3>1. /\ member' = member \cup {<<UserOf[r], Head(req[r].todo)>>} /\ roles' = roles
      BY <1>4, <2>2, AssignRoleGoes
    <3> QED BY <1>0, <2>2, <3>1, Frame
  <2>4. /\ acct' \in [User -> Account]
        /\ \A u \in User : /\ acct[u].status # "none" => acct'[u].status # "none"
                           /\ acct[u].verified => acct'[u].verified
    BY <1>4, <2>2, AssignRoleGoes, Frame DEF Committed, Known
  <2> QED BY <1>0, <1>4, <2>1, <2>2, <2>3, <2>4, AssignRoleGoes, Frame DEF Moves, Goes
<1>5. CASE IssueCode(r)
  <2>1. UnderWay(r) /\ event[r] # "success"
    BY <1>5, IssueCodeGoes, NoEventYet DEF UnderWay
  <2>2. code[r].state = "none"
    BY <1>5, IssueCodeGoes DEF AccountsInv, CodesHaveAccount
  <2>3. \A c \in Request :
         /\ code[c].state # "none" => code'[c].state # "none"
         /\ code[c].state = "consumed" => code'[c].state = "consumed"
         /\ code[c].state = "none" /\ code'[c].state # "none" => c = r /\ Known(UserOf[r])
    BY <1>5, <2>2, IssueCodeGoes
  <2>4. req'[r].pc \in {"record done", "done"}
    BY <1>5, IssueCodeGoes DEF Goes, ResultOf
  <2>5. Goes(r, req'[r].pc)
    BY <1>5, IssueCodeGoes DEF Goes
  <2> QED BY <1>5, <2>1, <2>3, <2>4, <2>5, IssueCodeGoes, Frame DEF Moves
<1>6. CASE ConsumeCode(r)
  <2>1. UnderWay(r) /\ event[r] # "success" /\ Uses(r)
    BY <1>6, ConsumeCodeGoes, NoEventYet DEF UnderWay, Uses
  <2>2. code[req[r].code].state # "none"
    BY <1>6, ConsumeCodeGoes DEF AccountsInv, CodesConsumed
  <2>3. \A c \in Request :
         /\ code[c].state # "none" => code'[c].state # "none"
         /\ code[c].state = "consumed" => code'[c].state = "consumed"
         /\ ~(code[c].state = "none" /\ code'[c].state # "none")
    BY <1>6, <2>2, ConsumeCodeGoes
  <2>4. Goes(r, req'[r].pc) /\ req'[r].pc = "record done"
    BY <1>6, ConsumeCodeGoes DEF Goes
  <2> QED BY <1>6, <2>1, <2>3, <2>4, ConsumeCodeGoes, Frame DEF Moves
<1>7. CASE Refuse(r)
  <2>1. UnderWay(r) /\ event[r] # "success"
    BY <1>7, RefuseGoes, NoEventYet DEF UnderWay
  <2>2. \A u \in User : acct'[u].status = acct[u].status /\ acct'[u].verified = acct[u].verified
    BY <1>7, RefuseGoes
  <2>3. Goes(r, req'[r].pc) /\ req'[r].pc = "record failed"
    BY <1>7, RefuseGoes DEF Goes
  <2> QED BY <1>7, <2>1, <2>2, <2>3, RefuseGoes, Frame DEF Moves
<1>8. CASE Accept(r)
  <2>1. UnderWay(r) /\ event[r] # "success"
    BY <1>8, AcceptGoes, NoEventYet DEF UnderWay
  <2>2. \A u \in User : acct'[u].status = acct[u].status /\ acct'[u].verified = acct[u].verified
    BY <1>8, AcceptGoes
  <2>3. Goes(r, req'[r].pc) /\ req'[r].pc = "record done"
    BY <1>8, AcceptGoes DEF Goes
  <2> QED BY <1>8, <2>1, <2>2, <2>3, AcceptGoes, Frame DEF Moves
<1>9. CASE RecordAudit(r)
  <2>1. UnderWay(r)
    BY <1>9, RecordAuditGoes DEF UnderWay
  <2>2. Goes(r, req'[r].pc) /\ req'[r].pc \in {"done", "failed"}
        /\ (req'[r].pc = "done" <=> req[r].pc = "record done")
    BY <1>9, RecordAuditGoes DEF Goes
  <2>3. req[r].op \in {"verify", "reset"} /\ req[r].pc = "record done" =>
          /\ Uses(r) /\ code[req[r].code].state = "consumed"
          /\ req[r].op = "verify" => acct[UserOf[r]].verified
    BY DEF AccountsInv, CodesConsumed, Uses, Succeeded
  <2>4. event'[r] = "success" => req[r].pc = "record done"
    BY <1>9, RecordAuditGoes
  <2> QED BY <1>9, <2>1, <2>2, <2>3, <2>4, RecordAuditGoes, Frame DEF Moves, history
<1>10. CASE Abort(r)
  <2>1. UnderWay(r) /\ event[r] # "success"
    BY <1>10, AbortGoes, NoEventYet
  <2>2. Goes(r, req'[r].pc) /\ req'[r].pc = "failed"
    BY <1>10, AbortGoes DEF Goes
  <2> QED BY <1>10, <2>1, <2>2, AbortGoes, Frame DEF Moves, history
<1> QED BY <1>1, <1>2, <1>3, <1>4, <1>5, <1>6, <1>7, <1>8, <1>9, <1>10 DEF Step

-----------------------------------------------------------------------------
(* Codes and events.                                                       *)

\* What Moves says of any request q, for easy use.
LEMMA MovesFrame ==
    ASSUME AccountsInv, NEW r \in Request, Moves(r), NEW q \in Request
    PROVE  /\ UserOf'[q] = UserOf[q] /\ req'[q].op = req[q].op /\ req'[q].code = req[q].code
           /\ UnderWay(q)' => UnderWay(q)
           /\ q # r => req'[q] = req[q]
           /\ UserOf[q] \in User /\ req[q].code \in Request
BY RequestType DEF Moves, Goes, UnderWay, AccountsInv, RequestState

LEMMA MovesType == ASSUME AccountsInv, NEW r \in Request, Moves(r) PROVE TypeOK' /\ RequestKind'
<1> TypeOK
  BY DEF AccountsInv
<1> QED BY DEF TypeOK, Moves, Goes

LEMMA MovesTogether == ASSUME AccountsInv, NEW r \in Request, Moves(r) PROVE TogetherUnderWay'
<1> SUFFICES ASSUME NEW p \in Request, NEW q \in Request,
                    p # q, UnderWay(p)', UnderWay(q)', UserOf'[p] = UserOf'[q]
             PROVE  {p, q} \in together'
  BY DEF TogetherUnderWay
<1>1. together' = together
  BY DEF Moves
<1> QED BY <1>1, MovesFrame DEF AccountsInv, TogetherUnderWay

LEMMA MovesCodes ==
    ASSUME AccountsInv, NEW r \in Request, Moves(r)
    PROVE  CodesHaveAccount' /\ CodesConsumed' /\ SuccessAnswered'
<1>1. CodesHaveAccount'
  <2> SUFFICES ASSUME NEW c \in Request, code'[c].state # "none"
               PROVE  Known(UserOf[c])' /\ req'[c].pc \in Recording \cup Answer
    BY DEF CodesHaveAccount
  <2>1. UserOf'[c] = UserOf[c] /\ UserOf[c] \in User /\ (c # r => req'[c] = req[c])
    BY MovesFrame
  <2>2. CASE code[c].state # "none"
    <3>1. acct[UserOf[c]].status # "none" /\ req[c].pc \in Recording \cup Answer
      BY <2>2 DEF AccountsInv, CodesHaveAccount, Known
    <3>2. req'[c].pc \in Recording \cup Answer
      BY <2>1, <3>1 DEF Moves, UnderWay
    <3>3. acct'[UserOf[c]].status # "none"
      BY <2>1, <3>1 DEF Moves
    <3> QED BY <2>1, <3>2, <3>3 DEF Known
  <2>3. CASE code[c].state = "none"
    <3>1. c = r /\ acct[UserOf[r]].status # "none" /\ req'[r].pc \in Recording \cup Answer
      BY <2>3 DEF Moves, Known
    <3>2. acct'[UserOf[c]].status # "none"
      BY <2>1, <3>1 DEF Moves
    <3> QED BY <2>1, <3>1, <3>2 DEF Known
  <2> QED BY <2>2, <2>3
<1>2. CodesConsumed'
  <2> SUFFICES ASSUME NEW q \in Request, req'[q].op \in {"verify", "reset"}
               PROVE  /\ UserOf'[req'[q].code] = UserOf'[q]
                      /\ code'[req'[q].code].state # "none"
                      /\ Succeeded(q)' => code'[req'[q].code].state = "consumed"
                      /\ Succeeded(q)' /\ req'[q].op = "verify" => acct'[UserOf'[q]].verified
    BY DEF CodesConsumed
  <2> DEFINE c == req[q].code
  <2>1. /\ UserOf'[q] = UserOf[q] /\ req'[q].op = req[q].op /\ req'[q].code = c
        /\ UserOf[q] \in User /\ c \in Request /\ UserOf'[c] = UserOf[c]
        /\ q # r => req'[q] = req[q]
    BY MovesFrame
  <2>2. /\ UserOf[c] = UserOf[q] /\ code[c].state # "none"
        /\ Succeeded(q) => code[c].state = "consumed"
        /\ Succeeded(q) /\ req[q].op = "verify" => acct[UserOf[q]].verified
    BY <2>1 DEF AccountsInv, CodesConsumed
  <2>3. code'[c].state # "none" /\ (code[c].state = "consumed" => code'[c].state = "consumed")
        /\ (acct[UserOf[q]].verified => acct'[UserOf[q]].verified)
    BY <2>1, <2>2 DEF Moves
  <2>4. CASE q # r
    BY <2>1, <2>2, <2>3, <2>4 DEF Succeeded
  <2>5. CASE q = r
    <3>1. Succeeded(q)' => /\ code'[c].state = "consumed"
                           /\ req[q].op = "verify" => acct'[UserOf[q]].verified
      BY <2>1, <2>5 DEF Moves, Succeeded
    <3> QED BY <2>1, <2>2, <2>3, <3>1
  <2> QED BY <2>4, <2>5
<1>3. SuccessAnswered'
  <2> SUFFICES ASSUME NEW q \in Request, event'[q] = "success" PROVE req'[q].pc = "done"
    BY DEF SuccessAnswered
  <2> QED BY MovesFrame DEF Moves, AccountsInv, SuccessAnswered
<1> QED BY <1>1, <1>2, <1>3

LEMMA MovesUsers == ASSUME AccountsInv, NEW r \in Request, Moves(r) PROVE UsersTogether'
<1>1. ASSUME NEW q \in Request, Uses(q)'
      PROVE  Uses(q)
  <2>1. req'[q].op = req[q].op /\ (q # r => req'[q] = req[q])
    BY MovesFrame
  <2>2. CASE q # r
    BY <1>1, <2>1, <2>2 DEF Uses, Succeeded
  <2>3. CASE q = r
    BY <1>1, <2>1, <2>3 DEF Uses, Succeeded, Moves
  <2> QED BY <2>2, <2>3
<1> SUFFICES ASSUME NEW p \in Request, NEW q \in Request, Uses(p)', Uses(q)',
                    req'[p].code = req'[q].code
             PROVE  p = q \/ {p, q} \in together'
  BY DEF UsersTogether
<1>2. req[p].code = req[q].code /\ together' = together
  BY MovesFrame DEF Moves
<1> QED BY <1>1, <1>2 DEF AccountsInv, UsersTogether

-----------------------------------------------------------------------------
(* Counters and locks.                                                     *)

Counters ==
    CountersEarned /\ LockedOnlyAfterFailures /\ ReadIsCurrent /\ CounterIsStreak

KeepsCounters ==
    /\ \A u \in User : acct'[u].failed = acct[u].failed /\ acct'[u].locked = acct[u].locked
    /\ refused' = refused /\ streak' = streak

LEMMA OthersKeepCounters ==
    ASSUME AccountsInv, NEW r \in Request, Step(r) \/ Abort(r), ~Refuse(r), ~Accept(r)
    PROVE  KeepsCounters
<1> TypeOK /\ RequestKind
  BY DEF AccountsInv
<1> USE DEF history
<1>1. CASE InsertUser(r)
  BY <1>1, InsertUserGoes DEF KeepsCounters
<1>2. CASE FindRole(r)
  BY <1>2, FindRoleGoes DEF KeepsCounters
<1>3. CASE CreateRole(r)
  BY <1>3, CreateRoleGoes DEF KeepsCounters, Committed
<1>4. CASE AssignRole(r)
  <2>1. req[r].todo # <<>>
    BY <1>4, TodoSound DEF AssignRole
  <2> QED BY <1>4, <2>1, AssignRoleGoes DEF KeepsCounters, Committed
<1>5. CASE IssueCode(r)
  BY <1>5, IssueCodeGoes DEF KeepsCounters
<1>6. CASE ConsumeCode(r)
  BY <1>6, ConsumeCodeGoes DEF KeepsCounters
<1>7. CASE RecordAudit(r)
  BY <1>7, RecordAuditGoes DEF KeepsCounters
<1>8. CASE Abort(r)
  BY <1>8, AbortGoes DEF KeepsCounters
<1> QED BY <1>1, <1>2, <1>3, <1>4, <1>5, <1>6, <1>7, <1>8 DEF Step

\* Logins that have overlapped have so for good.
LEMMA MovesOverlap ==
    ASSUME AccountsInv, NEW r \in Request, Moves(r), NEW u
    PROVE  Overlapped(u)' <=> Overlapped(u)
<1>1. \A q \in Request : UserOf'[q] = UserOf[q] /\ req'[q].op = req[q].op
  BY MovesFrame
<1>2. together' = together
  BY DEF Moves
<1>3. ASSUME NEW p \in Request, NEW q \in Request
      PROVE  (/\ p # q /\ {p, q} \in together /\ UserOf[p] = u /\ UserOf[q] = u
              /\ req[p].op = "login" /\ req[q].op = "login")'
             <=> /\ p # q /\ {p, q} \in together /\ UserOf[p] = u /\ UserOf[q] = u
                 /\ req[p].op = "login" /\ req[q].op = "login"
  BY <1>1, <1>2
<1> QED BY <1>3 DEF Overlapped

\* Two logins of an account that are under way have overlapped.
LEMMA UnderWayOverlaps ==
    ASSUME AccountsInv, NEW r \in Request, NEW q \in Request, r # q, UserOf[r] = UserOf[q],
           req[r].pc \in {"refuse", "accept"}, req[q].pc \in {"refuse", "accept"}
    PROVE  Overlapped(UserOf[r])
<1>1. UnderWay(r) /\ UnderWay(q)
  BY DEF UnderWay, Answer
<1>2. {r, q} \in together
  BY <1>1 DEF AccountsInv, TogetherUnderWay
<1>3. req[r].op = "login" /\ req[q].op = "login"
  BY DEF AccountsInv, RequestKind, KindOf
<1> QED BY <1>2, <1>3 DEF Overlapped

\* The counter of account u is its streak, and what it locks by.
StreakCounted(u) ==
    /\ acct[u].failed = streak[u]
    /\ acct[u].locked # 0 <=> streak[u] >= MaxAttempts

LEMMA StreakByOverlap ==
    CounterIsStreak <=>
      \A u \in User : Overlapped(u) \/ StreakCounted(u)
BY DEF CounterIsStreak, Overlapped, StreakCounted

LEMMA MovesCounters ==
    ASSUME AccountsInv, NEW r \in Request, Step(r) \/ Abort(r), Moves(r)
    PROVE  Counters'
<1> TypeOK /\ RequestKind /\ TypeOK' /\ MaxAttempts \in Nat \ {0}
  BY MovesType, AccountsAssumption DEF AccountsInv
<1> DEFINE v == UserOf[r]
<1>0. /\ v \in User
      /\ \A u \in User : /\ acct[u].failed \in Nat /\ acct[u].locked \in Nat
                         /\ refused[u] \in Nat /\ streak[u] \in Nat
                         /\ acct'[u].failed \in Nat /\ acct'[u].locked \in Nat
      /\ req[r].failed \in Nat /\ req[r].locked \in Nat
  BY RequestType DEF TypeOK, Account, RequestState
<1>1. \A q \in Request : UserOf'[q] = UserOf[q] /\ (q # r => req'[q] = req[q]) /\ UserOf[q] \in User
  BY MovesFrame
<1>2. \A u : Overlapped(u)' <=> Overlapped(u)
  BY MovesOverlap
<1>3. req'[r].pc \notin {"refuse", "accept"}
  BY DEF Moves
<1>4. CASE ~Refuse(r) /\ ~Accept(r)
  <2>1. KeepsCounters
    BY <1>4, OthersKeepCounters
  <2>2. CountersEarned' /\ LockedOnlyAfterFailures'
    BY <1>1, <1>3, <2>1 DEF AccountsInv, CountersEarned, LockedOnlyAfterFailures, KeepsCounters
  <2>3. ReadIsCurrent'
    BY <1>1, <1>2, <1>3, <2>1 DEF AccountsInv, ReadIsCurrent, KeepsCounters
  <2>4. CounterIsStreak'
    <3>1. \A u \in User : Overlapped(u) \/ StreakCounted(u)
      BY StreakByOverlap DEF AccountsInv
    <3>2. \A u \in User : Overlapped(u)' \/ StreakCounted(u)'
      BY <1>2, <2>1, <3>1 DEF KeepsCounters, StreakCounted
    <3>3. CounterIsStreak' <=>
            \A u \in User : Overlapped(u)' \/ StreakCounted(u)'
      BY DEF CounterIsStreak, Overlapped, StreakCounted
    <3> QED BY <3>2, <3>3
  <2> QED BY <2>2, <2>3, <2>4 DEF Counters
<1>5. CASE Refuse(r)
  <2>1. /\ req[r].pc = "refuse"
        /\ \A w \in User \ {v} : /\ acct'[w] = acct[w] /\ refused'[w] = refused[w]
                                 /\ streak'[w] = streak[w]
        /\ acct'[v].failed = req[r].failed + 1
        /\ IF req[r].failed + 1 >= MaxAttempts THEN acct'[v].locked # 0
           ELSE acct'[v].locked = acct[v].locked
        /\ refused'[v] = refused[v] + 1 /\ streak'[v] = streak[v] + 1
    BY <1>5, RefuseGoes
  <2>2. CountersEarned'
    <3>1. req[r].failed <= refused[v] /\ \A u \in User : acct[u].failed <= refused[u]
      BY <2>1 DEF AccountsInv, CountersEarned
    <3>2. \A u \in User : refused[u] <= refused'[u]
      BY <1>0, <2>1
    <3>3. \A u \in User : acct'[u].failed <= refused'[u]
      BY <1>0, <2>1, <3>1
    <3>4. ASSUME NEW q \in Request, req'[q].pc = "refuse"
          PROVE  req'[q].failed <= refused'[UserOf'[q]]
      <4>1. q # r /\ req'[q] = req[q] /\ UserOf'[q] = UserOf[q] /\ UserOf[q] \in User
        BY <1>1, <1>3, <3>4
      <4>2. req[q].failed <= refused[UserOf[q]]
        BY <3>4, <4>1 DEF AccountsInv, CountersEarned
      <4>3. req[q].failed \in Nat /\ refused'[UserOf[q]] \in Nat
        BY <4>1, RequestType DEF RequestState, TypeOK
      <4> QED BY <1>0, <3>2, <4>1, <4>2, <4>3
    <3> QED BY <3>3, <3>4 DEF CountersEarned
  <2>3. LockedOnlyAfterFailures'
    <3>1. req[r].failed <= refused[v]
      BY <2>1 DEF AccountsInv, CountersEarned
    <3>2. \A u \in User : acct[u].locked # 0 => refused[u] >= MaxAttempts
      BY DEF AccountsInv, LockedOnlyAfterFailures
    <3>3. acct'[v].locked # 0 => refused'[v] >= MaxAttempts
      BY <1>0, <2>1, <3>1, <3>2
    <3> QED BY <2>1, <3>2, <3>3 DEF LockedOnlyAfterFailures
  <2>4. ReadIsCurrent'
    <3> SUFFICES ASSUME NEW q \in Request, req'[q].pc \in {"refuse", "accept"},
                        ~Overlapped(UserOf[q])
                 PROVE  /\ req'[q].failed = acct'[UserOf[q]].failed
                        /\ req'[q].locked = acct'[UserOf[q]].locked
      BY <1>1, <1>2 DEF ReadIsCurrent
    <3>1. q # r /\ req'[q] = req[q] /\ UserOf[q] \in User
      BY <1>1, <1>3
    <3>2. UserOf[q] # v
      BY <2>1, <3>1, UnderWayOverlaps
    <3> QED BY <2>1, <3>1, <3>2 DEF AccountsInv, ReadIsCurrent
  <2>5. CounterIsStreak'
    <3>1. \A u \in User : Overlapped(u) \/ StreakCounted(u)
      BY StreakByOverlap DEF AccountsInv
    <3>2. ASSUME NEW u \in User, ~Overlapped(u)
          PROVE  StreakCounted(u)'
      <4>1. CASE u # v
        BY <2>1, <3>1, <3>2, <4>1 DEF StreakCounted
      <4>2. CASE u = v
        <5>1. req[r].failed = acct[v].failed
          BY <2>1, <3>2, <4>2 DEF AccountsInv, ReadIsCurrent
        <5>2. acct[v].failed = streak[v] /\ (acct[v].locked # 0 <=> streak[v] >= MaxAttempts)
          BY <3>1, <3>2, <4>2 DEF StreakCounted
        <5> QED BY <1>0, <2>1, <4>2, <5>1, <5>2 DEF StreakCounted
      <4> QED BY <4>1, <4>2
    <3>3. CounterIsStreak' <=>
            \A u \in User : Overlapped(u)' \/ StreakCounted(u)'
      BY DEF CounterIsStreak, Overlapped, StreakCounted
    <3> QED BY <1>2, <3>2, <3>3
  <2> QED BY <2>2, <2>3, <2>4, <2>5 DEF Counters
<1>6. CASE Accept(r)
  <2>1. /\ req[r].pc = "accept" /\ refused' = refused
        /\ \A w \in User \ {v} : acct'[w] = acct[w] /\ streak'[w] = streak[w]
        /\ acct'[v].failed = IF req[r].failed = 0 THEN acct[v].failed ELSE 0
        /\ acct'[v].locked = IF req[r].locked = 0 THEN acct[v].locked ELSE 0
        /\ streak'[v] = 0
    BY <1>6, AcceptGoes
  <2>2. CountersEarned'
    <3>1. \A u \in User : acct[u].failed <= refused[u]
      BY DEF AccountsInv, CountersEarned
    <3>2. \A u \in User : acct'[u].failed <= refused'[u]
      BY <1>0, <2>1, <3>1
    <3>3. \A q \in Request : req'[q].pc = "refuse" => req'[q].failed <= refused'[UserOf'[q]]
      BY <1>1, <1>3, <2>1 DEF AccountsInv, CountersEarned
    <3> QED BY <3>2, <3>3 DEF CountersEarned
  <2>3. LockedOnlyAfterFailures'
    BY <1>0, <2>1 DEF AccountsInv, LockedOnlyAfterFailures
  <2>4. ReadIsCurrent'
    <3> SUFFICES ASSUME NEW q \in Request, req'[q].pc \in {"refuse", "accept"},
                        ~Overlapped(UserOf[q])
                 PROVE  /\ req'[q].failed = acct'[UserOf[q]].failed
                        /\ req'[q].locked = acct'[UserOf[q]].locked
      BY <1>1, <1>2 DEF ReadIsCurrent
    <3>1. q # r /\ req'[q] = req[q] /\ UserOf[q] \in User
      BY <1>1, <1>3
    <3>2. UserOf[q] # v
      BY <2>1, <3>1, UnderWayOverlaps
    <3> QED BY <2>1, <3>1, <3>2 DEF AccountsInv, ReadIsCurrent
  <2>5. CounterIsStreak'
    <3>1. \A u \in User : Overlapped(u) \/ StreakCounted(u)
      BY StreakByOverlap DEF AccountsInv
    <3>2. ASSUME NEW u \in User, ~Overlapped(u)
          PROVE  StreakCounted(u)'
      <4>1. CASE u # v
        BY <2>1, <3>1, <3>2, <4>1 DEF StreakCounted
      <4>2. CASE u = v
        <5>1. req[r].failed = acct[v].failed /\ req[r].locked = acct[v].locked
          BY <2>1, <3>2, <4>2 DEF AccountsInv, ReadIsCurrent
        <5> QED BY <1>0, <2>1, <4>2, <5>1 DEF StreakCounted
      <4> QED BY <4>1, <4>2
    <3>3. CounterIsStreak' <=>
            \A u \in User : Overlapped(u)' \/ StreakCounted(u)'
      BY DEF CounterIsStreak, Overlapped, StreakCounted
    <3> QED BY <1>2, <3>2, <3>3
  <2> QED BY <2>2, <2>3, <2>4, <2>5 DEF Counters
<1> QED BY <1>4, <1>5, <1>6

-----------------------------------------------------------------------------
(* Roles.                                                                  *)

LEMMA TailKeeps ==
    ASSUME NEW s \in Seq(Role), s # <<>>, NEW i \in DOMAIN s, s[i] # Head(s)
    PROVE  \E j \in DOMAIN Tail(s) : Tail(s)[j] = s[i]
<1>1. i \in 2 .. Len(s)
  OBVIOUS
<1>2. i - 1 \in DOMAIN Tail(s) /\ Tail(s)[i - 1] = s[i]
  BY <1>1
<1> QED BY <1>2

\* What holds of another request's roles is kept.
LEMMA OthersRoles ==
    ASSUME AccountsInv, NEW r \in Request, Moves(r), NEW q \in Request, q # r
    PROVE  /\ req'[q].pc \in {"role", "newrole", "member"} => ToAssign(q)'
           /\ req'[q].op = "register" /\ (req'[q].pc = "code" \/ Succeeded(q)') =>
                AllAssigned(UserOf[q])'
           /\ req'[q].op = "register" /\ Succeeded(q)' /\ "verification" \in Enabled =>
                code'[q].state # "none"
           /\ req'[q].pc = "member" => Head(req'[q].todo) \in roles'
<1>1. req'[q] = req[q] /\ UserOf'[q] = UserOf[q] /\ UserOf[q] \in User
  BY MovesFrame
<1>2. /\ member \subseteq member' /\ roles \subseteq roles'
      /\ code[q].state # "none" => code'[q].state # "none"
      /\ acct[UserOf[q]].status # "none" => acct'[UserOf[q]].status # "none"
  BY <1>1 DEF Moves
<1>3. ToAssign(q) => ToAssign(q)'
  BY <1>1, <1>2 DEF ToAssign, Known, FirstRole, Wanted
<1>4. AllAssigned(UserOf[q]) => AllAssigned(UserOf[q])'
  BY <1>1, <1>2 DEF AllAssigned, Known, Wanted
<1>5. /\ req[q].pc \in {"role", "newrole", "member"} => ToAssign(q)
      /\ req[q].op = "register" /\ (req[q].pc = "code" \/ Succeeded(q)) => AllAssigned(UserOf[q])
  BY DEF AccountsInv, RolesAssigned
<1>6. Succeeded(q)' <=> Succeeded(q)
  BY <1>1 DEF Succeeded
<1>7. req'[q].op = "register" /\ Succeeded(q)' /\ "verification" \in Enabled =>
        code'[q].state # "none"
  BY <1>1, <1>2 DEF AccountsInv, RolesAssigned, Succeeded
<1>8. req'[q].pc = "member" => Head(req'[q].todo) \in roles'
  BY <1>1, <1>2 DEF AccountsInv, HeadInRoles
<1> QED BY <1>1, <1>3, <1>4, <1>5, <1>6, <1>7, <1>8

\* What holds of the request itself.
RolesKept(r) ==
    /\ req'[r].pc \in {"role", "newrole", "member"} => ToAssign(r)'
    /\ req'[r].op = "register" /\ (req'[r].pc = "code" \/ Succeeded(r)') => AllAssigned(UserOf[r])'
    /\ req'[r].op = "register" /\ Succeeded(r)' /\ "verification" \in Enabled =>
         code'[r].state # "none"
    /\ req'[r].pc = "member" => Head(req'[r].todo) \in roles'

LEMMA StepRoles ==
    ASSUME AccountsInv, NEW r \in Request, Step(r) \/ Abort(r), Moves(r)
    PROVE  RolesKept(r)
<1> TypeOK /\ RequestKind
  BY DEF AccountsInv
<1> DEFINE u == UserOf[r]
<1>0. /\ UserOf'[r] = u /\ u \in User /\ UserOf' = UserOf /\ req'[r].op = req[r].op
      /\ req[r] \in RequestState /\ KindOf(req[r]) /\ RolesOf[u] \in Seq(Role) /\ RolesOf[u] # <<>>
  BY MovesFrame, RequestType, AccountsAssumption DEF Moves
<1>1. CASE InsertUser(r)
  <2>1. CASE Goes(r, "record failed")
    BY <2>1 DEF RolesKept, Goes, Succeeded
  <2>2. CASE Goes(r, "role") /\ req'[r].pending /\ req'[r].todo = RolesOf[u]
    <3>1. ToAssign(r)'
      BY <1>0, <2>2 DEF ToAssign, Wanted, Goes
    <3> QED BY <2>2, <3>1 DEF RolesKept, Goes, Succeeded
  <2> QED BY <1>1, <2>1, <2>2, InsertUserGoes
<1>2. CASE FindRole(r)
  <2>1. /\ req[r].pc = "role" /\ UNCHANGED <<acct, roles, member>>
        /\ req'[r].pending = req[r].pending /\ req'[r].todo = req[r].todo
        /\ req'[r].pc \in {"newrole", "member"}
        /\ req'[r].pc = "member" => Head(req[r].todo) \in roles
    BY <1>2, FindRoleGoes DEF Goes
  <2>2. ToAssign(r)
    BY <2>1 DEF AccountsInv, RolesAssigned
  <2>3. ToAssign(r)'
    BY <1>0, <2>1, <2>2 DEF ToAssign, Wanted, FirstRole, Known
  <2> QED BY <2>1, <2>3 DEF RolesKept, Succeeded
<1>3. CASE CreateRole(r)
  <2>1. CASE Goes(r, "failed")
    BY <2>1 DEF RolesKept, Goes, Succeeded
  <2>2. CASE /\ Goes(r, "member") /\ Committed(r)
             /\ roles' = roles \cup {Head(req[r].todo)}
             /\ req'[r].todo = req[r].todo /\ ~req'[r].pending /\ req'[r].created
    <3>1. ToAssign(r) /\ member' = member
      BY <1>3, CreateRoleGoes DEF AccountsInv, RolesAssigned
    <3>2. acct'[u].status # "none"
      BY <1>0, <2>2, <3>1 DEF ToAssign, Committed, Known
    <3>3. ToAssign(r)'
      BY <1>0, <2>2, <3>1, <3>2 DEF ToAssign, Wanted, FirstRole, Known, Goes
    <3> QED BY <2>2, <3>3 DEF RolesKept, Goes, Succeeded
  <2> QED BY <1>3, <2>1, <2>2, CreateRoleGoes
<1>4. CASE AssignRole(r)
  <2>1. req[r].pc = "member"
    BY <1>4 DEF AssignRole
  <2>2. /\ req[r].todo # <<>> /\ req[r].todo \in Seq(Role)
    BY <2>1, TodoSound
  <2>3. /\ member' = member \cup {<<u, Head(req[r].todo)>>} /\ Committed(r)
        /\ req'[r].todo = Tail(req[r].todo) /\ ~req'[r].pending
        /\ IF Tail(req[r].todo) # <<>> THEN Goes(r, "role")
              ELSE IF "verification" \in Enabled THEN Goes(r, "code") ELSE Goes(r, "record done")
    BY <1>4, <2>2, AssignRoleGoes
  <2>4. ToAssign(r)
    BY <2>1 DEF AccountsInv, RolesAssigned
  <2>5. acct'[u].status # "none"
    BY <1>0, <2>3, <2>4 DEF ToAssign, Committed, Known
  <2>6. FirstRole(u) \in member'
    <3>1. req[r].todo = RolesOf[u] \/ FirstRole(u) \in member
      BY <2>4 DEF ToAssign
    <3>2. Head(RolesOf[u]) = RolesOf[u][1]
      BY <1>0
    <3> QED BY <2>3, <3>1, <3>2 DEF FirstRole
  <2>7. ASSUME NEW role \in Wanted(u), <<u, role>> \notin member'
        PROVE  \E j \in DOMAIN Tail(req[r].todo) : Tail(req[r].todo)[j] = role
    <3>1. PICK i \in DOMAIN req[r].todo : req[r].todo[i] = role
      BY <2>3, <2>4, <2>7 DEF ToAssign
    <3>2. role # Head(req[r].todo)
      BY <2>3, <2>7
    <3> QED BY <2>2, <3>1, <3>2, TailKeeps
  <2>8. CASE Tail(req[r].todo) # <<>>
    <3>0. Wanted(u)' = Wanted(u) /\ req'[r].todo = Tail(req[r].todo)
      BY <1>0, <2>3 DEF Wanted
    <3>1. \A role \in Wanted(u)' :
             \/ <<u, role>> \in member'
             \/ \E i \in DOMAIN req'[r].todo : req'[r].todo[i] = role
      BY <2>7, <3>0
    <3>2. ToAssign(r)'
      BY <1>0, <2>3, <2>5, <2>6, <2>8, <3>1 DEF ToAssign, FirstRole, Known
    <3> QED BY <2>3, <2>8, <3>2 DEF RolesKept, Goes, Succeeded
  <2>9. CASE Tail(req[r].todo) = <<>>
    <3>1. \A role \in Wanted(u) : <<u, role>> \in member'
      BY <2>7, <2>9
    <3>2. AllAssigned(u)'
      BY <1>0, <2>5, <3>1 DEF AllAssigned, Wanted, Known
    <3>3. req'[r].pc = IF "verification" \in Enabled THEN "code" ELSE "record done"
      BY <2>3, <2>9 DEF Goes
    <3> QED BY <3>2, <3>3 DEF RolesKept, Succeeded
  <2> QED BY <2>8, <2>9
<1>5. CASE IssueCode(r)
  <2>1. /\ req[r].pc = "code" /\ UNCHANGED <<acct, member>> /\ req'[r].pc \in {"record done", "done"}
        /\ Known(u) => code'[r].state = "issued"
    BY <1>5, IssueCodeGoes DEF Goes, ResultOf
  <2>2. req[r].op = "register" => AllAssigned(u)
    BY <2>1 DEF AccountsInv, RolesAssigned
  <2> QED BY <1>0, <2>1, <2>2 DEF RolesKept, AllAssigned, Wanted, Known
<1>6. CASE ConsumeCode(r) \/ Refuse(r) \/ Accept(r)
  <2>1. req[r].op # "register" /\ req'[r].pc \in Recording
    BY <1>6, ConsumeCodeGoes, RefuseGoes, AcceptGoes DEF Goes, Recording
  <2> QED BY <1>0, <2>1 DEF RolesKept, Recording
<1>7. CASE RecordAudit(r)
  <2>1. /\ UNCHANGED <<acct, member, code>> /\ req'[r].pc \in {"done", "failed"}
        /\ req'[r].pc = "done" => req[r].pc = "record done"
    BY <1>7, RecordAuditGoes DEF Goes
  <2>2. req'[r].pc = "done" /\ req[r].op = "register" =>
          AllAssigned(u) /\ ("verification" \in Enabled => code[r].state # "none")
    BY <2>1 DEF AccountsInv, RolesAssigned, Succeeded
  <2> QED BY <1>0, <2>1, <2>2 DEF RolesKept, AllAssigned, Wanted, Known, Succeeded
<1>8. CASE Abort(r)
  <2>1. req'[r].pc = "failed"
    BY <1>8, AbortGoes DEF Goes
  <2> QED BY <2>1 DEF RolesKept, Succeeded
<1> QED BY <1>1, <1>2, <1>3, <1>4, <1>5, <1>6, <1>7, <1>8 DEF Step

LEMMA MovesRoles ==
    ASSUME AccountsInv, NEW r \in Request, Step(r) \/ Abort(r), Moves(r)
    PROVE  RolesAssigned' /\ HeadInRoles'
<1>1. \A q \in Request : UserOf'[q] = UserOf[q]
  BY MovesFrame
<1>2. UserOf' = UserOf
  BY DEF Moves
<1>3. \A q \in Request : RolesKept(q)
  <2>1. RolesKept(r)
    BY StepRoles
  <2>2. \A q \in Request \ {r} : RolesKept(q)
    BY OthersRoles DEF RolesKept
  <2> QED BY <2>1, <2>2
<1> QED BY <1>1, <1>2, <1>3 DEF RolesKept, RolesAssigned, HeadInRoles

\* A registration that has created a role and has still to assign it, or
\* broke in between.
Broken(u) ==
    \E r \in Request : /\ UserOf[r] = u /\ req[r].op = "register" /\ req[r].created
                       /\ req[r].pc \in {"member", "failed"}

LEMMA MovesHasRole ==
    ASSUME AccountsInv, NEW r \in Request, Step(r) \/ Abort(r), Moves(r)
    PROVE  AccountHasRole'
<1> TypeOK /\ RequestKind
  BY DEF AccountsInv
<1> SUFFICES ASSUME NEW u \in User, acct'[u].status # "none"
             PROVE  FirstRole(u) \in member' \/ Broken(u)'
  BY DEF AccountHasRole, Broken, FirstRole, Known
<1>0. /\ UserOf' = UserOf /\ member \subseteq member' /\ UserOf[r] \in User
      /\ req'[r].op = req[r].op
      /\ \A q \in Request \ {r} : req'[q] = req[q]
      /\ KindOf(req[r])
  BY MovesFrame, RequestType DEF Moves, Goes
<1>1. Known(u) => FirstRole(u) \in member \/ Broken(u)
  BY DEF AccountsInv, AccountHasRole, Broken, FirstRole
<1>2. CASE AssignRole(r)
  <2>1. req[r].pc = "member" /\ req[r].todo # <<>> /\ req[r].todo \in Seq(Role)
    BY <1>2, TodoSound DEF AssignRole
  <2>2. /\ member' = member \cup {<<UserOf[r], Head(req[r].todo)>>} /\ Committed(r)
    BY <1>2, <2>1, AssignRoleGoes
  <2>3. CASE u = UserOf[r]
    <3>1. req[r].todo = RolesOf[u] \/ FirstRole(u) \in member
      BY <2>1, <2>3 DEF AccountsInv, RolesAssigned, ToAssign
    <3>2. Head(RolesOf[u]) = RolesOf[u][1]
      BY AccountsAssumption
    <3> QED BY <2>2, <2>3, <3>1, <3>2 DEF FirstRole
  <2>4. CASE u # UserOf[r]
    <3>1. Known(u)
      BY <2>2, <2>4 DEF Committed, Known
    <3>2. CASE Broken(u)
      <4>1. PICK q \in Request : /\ UserOf[q] = u /\ req[q].op = "register" /\ req[q].created
                                 /\ req[q].pc \in {"member", "failed"}
        BY <3>2 DEF Broken
      <4>2. q # r
        BY <2>4, <4>1
      <4>3. Broken(u)'
        BY <1>0, <4>1, <4>2 DEF Broken
      <4> QED BY <4>3
    <3> QED BY <1>0, <1>1, <3>1, <3>2
  <2> QED BY <2>3, <2>4
<1>3. CASE CreateRole(r)
  <2>1. CASE Goes(r, "failed") /\ UNCHANGED <<acct, roles>>
    <3>1. CASE Broken(u)
      <4>1. PICK q \in Request : /\ UserOf[q] = u /\ req[q].op = "register" /\ req[q].created
                                 /\ req[q].pc \in {"member", "failed"}
        BY <3>1 DEF Broken
      <4>2. q # r
        BY <1>3, <4>1, CreateRoleGoes
      <4> QED BY <1>0, <4>1, <4>2 DEF Broken
    <3> QED BY <1>0, <1>1, <2>1, <3>1 DEF Known
  <2>2. CASE /\ Goes(r, "member") /\ Committed(r) /\ req'[r].created
    <3>1. CASE u = UserOf[r]
      BY <1>0, <1>3, <2>2, <3>1, CreateRoleGoes DEF Broken, Goes
    <3>2. CASE u # UserOf[r]
      <4>1. Known(u)
        BY <2>2, <3>2 DEF Committed, Known
      <4>2. CASE Broken(u)
        <5>1. PICK q \in Request : /\ UserOf[q] = u /\ req[q].op = "register" /\ req[q].created
                                   /\ req[q].pc \in {"member", "failed"}
          BY <4>2 DEF Broken
        <5>2. q # r
          BY <3>2, <5>1
        <5> QED BY <1>0, <5>1, <5>2 DEF Broken
      <4> QED BY <1>0, <1>1, <4>1, <4>2
    <3> QED BY <3>1, <3>2
  <2> QED BY <1>3, <2>1, <2>2, CreateRoleGoes
<1>4. CASE ~AssignRole(r) /\ ~CreateRole(r)
  <2>1. Known(u)
    <3>1. CASE InsertUser(r) \/ FindRole(r) \/ IssueCode(r)
      BY <3>1, InsertUserGoes, FindRoleGoes, IssueCodeGoes DEF Known
    <3>2. CASE RecordAudit(r) \/ Abort(r)
      BY <3>2, RecordAuditGoes, AbortGoes DEF Known
    <3>3. CASE Refuse(r) \/ Accept(r)
      <4>1. acct'[u].status = acct[u].status
        BY <3>3, RefuseGoes, AcceptGoes
      <4> QED BY <4>1 DEF Known
    <3>4. CASE ConsumeCode(r)
      <4>1. CASE u # UserOf[r]
        BY <3>4, <4>1, ConsumeCodeGoes DEF Known
      <4>2. CASE u = UserOf[r]
        <5>1. req[r].op \in {"verify", "reset"} /\ req[r].code \in Request
          BY <3>4, ConsumeCodeGoes, RequestType DEF RequestState
        <5> QED BY <4>2, <5>1 DEF AccountsInv, CodesConsumed, CodesHaveAccount
      <4> QED BY <4>1, <4>2
    <3> QED BY <1>4, <3>1, <3>2, <3>3, <3>4 DEF Step
  <2>2. CASE Broken(u)
    <3>1. PICK q \in Request : /\ UserOf[q] = u /\ req[q].op = "register" /\ req[q].created
                               /\ req[q].pc \in {"member", "failed"}
      BY <2>2 DEF Broken
    <3>2. CASE q # r
      BY <1>0, <3>1, <3>2 DEF Broken
    <3>3. CASE q = r
      <4>1. Abort(r)
        <5>1. ~RecordAudit(r) /\ ~Refuse(r) /\ ~Accept(r) /\ ~ConsumeCode(r)
          BY <3>1, <3>3 DEF RecordAudit, Refuse, Accept, ConsumeCode, Recording
        <5>2. ~InsertUser(r) /\ ~FindRole(r) /\ ~IssueCode(r)
          BY <3>1, <3>3 DEF InsertUser, FindRole, IssueCode
        <5> QED BY <1>4, <5>1, <5>2 DEF Step
      <4>2. req'[r].pc = "failed" /\ req'[r].created = req[r].created
        BY <4>1, AbortGoes DEF Goes
      <4> QED BY <1>0, <3>1, <3>3, <4>2 DEF Broken
    <3> QED BY <3>2, <3>3
  <2> QED BY <1>0, <1>1, <2>1, <2>2
<1> QED BY <1>2, <1>3, <1>4

-----------------------------------------------------------------------------
(* A request that begins.                                                  *)

LEMMA StartInv ==
    ASSUME AccountsInv, NEW r \in Request, Start(r)
    PROVE  AccountsInv'
<1> TypeOK /\ RequestKind
  BY DEF AccountsInv
<1> USE DEF history
<1> DEFINE Where == {"insert", "code", "consume", "refuse", "accept", "done", "failed"}
<1>1. UNCHANGED <<UserOf, now, acct, roles, member, code, event, refused, streak>>
  BY StartBegins DEF Unread
<1>2. PICK op \in Op, c \in Request : \E where \in Where : Begun(r, op, where, c)
  BY StartBegins
<1>3. PICK where \in Where : Begun(r, op, where, c)
  BY <1>2
<1> DEFINE pc == Recorded(op, where)
           Joined == {{r, q} : q \in {q \in Request : UnderWay(q) /\ UserOf[q] = UserOf[r]}}
<1>4. /\ req[r].pc = "idle"
      /\ req' \in [Request -> RequestState] /\ RequestKind'
      /\ \A q \in Request \ {r} : req'[q] = req[q]
      /\ req'[r].op = op /\ req'[r].pc = pc /\ req'[r].code = c
      /\ pc \in {"refuse", "accept"} =>
           req'[r].failed = acct[UserOf[r]].failed /\ req'[r].locked = acct[UserOf[r]].locked
      /\ together' = together \cup Joined
  BY <1>3 DEF Begun, Starts
<1>5. /\ pc \in {"insert", "code", "consume", "refuse", "accept"} \cup Answer \cup Recording
      /\ pc \in Answer => op = "resend" /\ pc = where
      /\ pc = "record done" => where = "done"
      /\ pc \in {"insert", "code", "consume", "refuse", "accept"} => pc = where
  BY DEF Recorded, Answer, Recording
<1>6. /\ op = "register" => where \in {"insert", "failed"}
      /\ op \in {"verify", "reset"} =>
           /\ UserOf[c] = UserOf[r] /\ code[c].state # "none"
           /\ where \in {"consume", "failed"}
           /\ where = "consume" => code[c].state = "issued"
  BY <1>3 DEF Begun
<1> HIDE DEF pc, Joined, Where
<1>7. /\ op \in {"register", "verify", "reset"} => ~Succeeded(r)'
      /\ req[r].op = "none" /\ code[r].state = "none" /\ event[r] # "success"
      /\ req'[r].pc \notin {"role", "newrole", "member", "idle"}
  <2>1. op \in {"register", "verify", "reset"} => pc \notin {"record done", "done"}
    BY <1>5, <1>6 DEF Answer
  <2>2. req[r].op = "none"
    BY <1>4 DEF RequestKind, KindOf
  <2>3. code[r].state = "none"
    BY <1>4 DEF AccountsInv, CodesHaveAccount, Recording, Answer
  <2>4. event[r] # "success"
    BY <1>4 DEF AccountsInv, SuccessAnswered
  <2>5. pc \notin {"role", "newrole", "member", "idle"}
    BY <1>5 DEF Recording, Answer
  <2> QED BY <1>4, <2>1, <2>2, <2>3, <2>4, <2>5 DEF Succeeded
<1>8. TypeOK'
  <2>1. Joined \subseteq SUBSET Request
    BY DEF Joined
  <2> QED BY <1>1, <1>4, <2>1 DEF TypeOK
<1>9. TogetherUnderWay'
  <2> SUFFICES ASSUME NEW p \in Request, NEW q \in Request,
                      p # q, UnderWay(p)', UnderWay(q)', UserOf[p] = UserOf[q]
               PROVE  {p, q} \in together'
    BY <1>1 DEF TogetherUnderWay
  <2>1. \A x \in Request \ {r} : UnderWay(x)' => UnderWay(x)
    BY <1>4 DEF UnderWay
  <2>2. CASE p = r
    <3>1. {r, q} \in Joined
      BY <2>1, <2>2 DEF Joined
    <3> QED BY <1>4, <2>2, <3>1
  <2>3. CASE q = r
    <3>1. {r, p} \in Joined
      BY <2>1, <2>3 DEF Joined
    <3>2. {p, q} = {r, p}
      BY <2>3
    <3> QED BY <1>4, <3>1, <3>2
  <2>4. CASE p # r /\ q # r
    BY <1>4, <2>1, <2>4 DEF AccountsInv, TogetherUnderWay
  <2> QED BY <2>2, <2>3, <2>4
<1>10. ASSUME NEW u, Overlapped(u)
       PROVE  Overlapped(u)'
  <2>1. PICK p \in Request, q \in Request :
           /\ p # q /\ {p, q} \in together /\ UserOf[p] = u /\ UserOf[q] = u
           /\ req[p].op = "login" /\ req[q].op = "login"
    BY <1>10 DEF Overlapped
  <2>2. p # r /\ q # r
    BY <1>7, <2>1
  <2> QED BY <1>1, <1>4, <2>1, <2>2 DEF Overlapped
<1>11. CountersEarned' /\ LockedOnlyAfterFailures' /\ ReadIsCurrent' /\ CounterIsStreak'
  <2>1. UserOf[r] \in User
    BY RequestType
  <2>2. CountersEarned' /\ LockedOnlyAfterFailures'
    BY <1>1, <1>4, <2>1 DEF AccountsInv, CountersEarned, LockedOnlyAfterFailures
  <2>3. ReadIsCurrent'
    BY <1>1, <1>4, <1>10 DEF AccountsInv, ReadIsCurrent
  <2>4. CounterIsStreak'
    <3>1. \A u \in User : Overlapped(u) \/ StreakCounted(u)
      BY StreakByOverlap DEF AccountsInv
    <3>2. \A u \in User : StreakCounted(u) => StreakCounted(u)'
      BY <1>1 DEF StreakCounted
    <3>3. CounterIsStreak' <=> \A u \in User : Overlapped(u)' \/ StreakCounted(u)'
      BY DEF CounterIsStreak, Overlapped, StreakCounted
    <3> QED BY <1>10, <3>1, <3>2, <3>3
  <2> QED BY <2>2, <2>3, <2>4
<1>12. CodesHaveAccount' /\ SuccessAnswered'
  <2>1. \A q \in Request : (code[q].state # "none" \/ event[q] = "success") => req'[q] = req[q]
    BY <1>4, <1>7
  <2> QED BY <1>1, <2>1 DEF AccountsInv, CodesHaveAccount, SuccessAnswered, Known
<1>13. CodesConsumed'
  <2> SUFFICES ASSUME NEW q \in Request, req'[q].op \in {"verify", "reset"}
               PROVE  /\ UserOf[req'[q].code] = UserOf[q]
                      /\ code[req'[q].code].state # "none"
                      /\ Succeeded(q)' => code[req'[q].code].state = "consumed"
                      /\ Succeeded(q)' /\ req'[q].op = "verify" => acct[UserOf[q]].verified
    BY <1>1 DEF CodesConsumed
  <2>1. CASE q = r
    BY <1>4, <1>6, <1>7, <2>1
  <2>2. CASE q # r
    <3>1. req'[q] = req[q] /\ (Succeeded(q)' => Succeeded(q))
      BY <1>4, <2>2 DEF Succeeded
    <3> QED BY <3>1 DEF AccountsInv, CodesConsumed
  <2> QED BY <2>1, <2>2
<1>14. UsersTogether'
  <2>1. ASSUME NEW q \in Request, q # r, Uses(q)', Uses(r)', req'[q].code = req'[r].code
        PROVE  {r, q} \in together'
    <3>1. Uses(q) /\ req[q].code = c
      BY <1>4, <2>1 DEF Uses, Succeeded
    <3>2. op \in {"verify", "reset"} /\ pc = "consume"
      BY <1>4, <1>7, <2>1 DEF Uses
    <3>3. code[c].state = "issued" /\ UserOf[c] = UserOf[r]
      BY <1>5, <1>6, <3>2
    <3>4. req[q].pc = "consume" /\ UserOf[q] = UserOf[r]
      BY <3>1, <3>3 DEF Uses, AccountsInv, CodesConsumed
    <3>5. {r, q} \in Joined
      BY <3>4 DEF UnderWay, Answer, Joined
    <3> QED BY <1>4, <3>5
  <2>2. ASSUME NEW p \in Request, NEW q \in Request, p # r, q # r,
               Uses(p)', Uses(q)', req'[p].code = req'[q].code
        PROVE  p = q \/ {p, q} \in together'
    <3>1. Uses(p) /\ Uses(q) /\ req[p].code = req[q].code
      BY <1>4, <2>2 DEF Uses, Succeeded
    <3> QED BY <1>4, <3>1 DEF AccountsInv, UsersTogether
  <2>3. \A p, q \in Request : {p, q} = {q, p}
    OBVIOUS
  <2> QED BY <2>1, <2>2, <2>3 DEF UsersTogether
<1>15. RolesAssigned' /\ HeadInRoles'
  <2>1. \A q \in Request \ {r} : /\ ToAssign(q)' <=> ToAssign(q)
                                 /\ Succeeded(q)' <=> Succeeded(q)
                                 /\ AllAssigned(UserOf[q])' <=> AllAssigned(UserOf[q])
    <3> SUFFICES ASSUME NEW q \in Request \ {r}
                 PROVE  /\ ToAssign(q)' <=> ToAssign(q)
                        /\ Succeeded(q)' <=> Succeeded(q)
                        /\ AllAssigned(UserOf[q])' <=> AllAssigned(UserOf[q])
      OBVIOUS
    <3>1. req'[q] = req[q]
      BY <1>4
    <3>2. ToAssign(q)' <=> ToAssign(q)
      BY <1>1, <3>1 DEF ToAssign, Known, Wanted, FirstRole
    <3>3. Succeeded(q)' <=> Succeeded(q)
      BY <3>1 DEF Succeeded
    <3>4. AllAssigned(UserOf[q])' <=> AllAssigned(UserOf[q])
      BY <1>1 DEF AllAssigned, Known, Wanted
    <3> QED BY <3>2, <3>3, <3>4
  <2>2. op = "register" => pc # "code" /\ ~Succeeded(r)'
    BY <1>5, <1>6, <1>7
  <2> QED BY <1>1, <1>4, <1>7, <2>1, <2>2 DEF AccountsInv, RolesAssigned, HeadInRoles
<1>16. AccountHasRole'
  <2>1. \A p \in Request : req[p].op = "register" => req'[p] = req[p]
    BY <1>4, <1>7
  <2> QED BY <1>1, <2>1 DEF AccountsInv, AccountHasRole, Known
<1> QED BY <1>4, <1>8, <1>9, <1>11, <1>12, <1>13, <1>14, <1>15, <1>16 DEF AccountsInv

-----------------------------------------------------------------------------
(* Every step.                                                             *)

LEMMA NextInv == AccountsInv /\ [Next]_vars => AccountsInv'
<1> SUFFICES ASSUME AccountsInv, [Next]_vars PROVE AccountsInv'
  OBVIOUS
<1>1. CASE Tick \/ UNCHANGED vars
  <2>1. UNCHANGED <<UserOf, acct, roles, member, code, req, event, refused, streak, together>>
    BY <1>1 DEF Tick, vars, history
  <2>2. now' \in 0 .. MaxNow
    <3>1. now \in 0 .. MaxNow /\ MaxNow \in Nat
      BY AccountsAssumption DEF AccountsInv, TypeOK
    <3>2. now' = now \/ (now < MaxNow /\ now' = now + 1)
      BY <1>1 DEF Tick, vars
    <3> QED BY <3>1, <3>2
  <2>3. TypeOK'
    BY <2>1, <2>2 DEF AccountsInv, TypeOK
  <2>4. (RequestKind /\ TogetherUnderWay /\ CountersEarned /\ LockedOnlyAfterFailures
           /\ ReadIsCurrent /\ CounterIsStreak)'
    BY <2>1 DEF AccountsInv, RequestKind, TogetherUnderWay, UnderWay, CountersEarned,
                LockedOnlyAfterFailures, ReadIsCurrent, Overlapped, CounterIsStreak
  <2>5. (CodesHaveAccount /\ CodesConsumed /\ UsersTogether /\ SuccessAnswered)'
    BY <2>1 DEF AccountsInv, CodesHaveAccount, CodesConsumed, UsersTogether, Uses, Succeeded,
                SuccessAnswered, Known
  <2>6. (RolesAssigned /\ HeadInRoles /\ AccountHasRole)'
    <3>1. \A r \in Request : /\ ToAssign(r)' <=> ToAssign(r)
                             /\ AllAssigned(UserOf[r])' <=> AllAssigned(UserOf[r])
      BY <2>1 DEF ToAssign, AllAssigned, Known, Wanted, FirstRole
    <3>2. RolesAssigned' /\ HeadInRoles'
      BY <2>1, <3>1 DEF AccountsInv, RolesAssigned, Succeeded, HeadInRoles
    <3>3. AccountHasRole'
      BY <2>1 DEF AccountsInv, AccountHasRole, Known
    <3> QED BY <3>2, <3>3
  <2> QED BY <2>3, <2>4, <2>5, <2>6 DEF AccountsInv
<1>2. ASSUME NEW r \in Request, Start(r)
      PROVE  AccountsInv'
  BY <1>2, StartInv
<1>3. ASSUME NEW r \in Request, Step(r) \/ Abort(r)
      PROVE  AccountsInv'
  <2>1. Moves(r)
    BY <1>3, StepMoves
  <2> QED BY <1>3, <2>1, MovesType, MovesTogether, MovesCodes, MovesUsers, MovesCounters,
             MovesRoles, MovesHasRole DEF AccountsInv, Counters
<1> QED BY <1>1, <1>2, <1>3 DEF Next

LEMMA Invariance == Spec => []AccountsInv
BY InitInv, NextInv, PTL DEF Spec

-----------------------------------------------------------------------------
(* The theorems.                                                           *)

\* Addresses, accounts, roles, codes and requests have their types in every
\* reachable state of AuthService and AuthRepository.
THEOREM AccountsTypeCorrect == Spec => []TypeOK
<1>1. AccountsInv => TypeOK
  BY DEF AccountsInv
<1> QED BY <1>1, Invariance, PTL

\* authenticate counts failures by writing back what it has read; however
\* that overwrites, no account is locked before it has had its failures.
THEOREM LocksAreEarned == Spec => []LockedOnlyAfterFailures
<1>1. AccountsInv => LockedOnlyAfterFailures
  BY DEF AccountsInv
<1> QED BY <1>1, Invariance, PTL

\* Without overlapping logins the counter of authenticate is the streak of
\* refused passwords, and the account is locked by it.
THEOREM CountersAreStreaks == Spec => []CounterIsStreak
<1>1. AccountsInv => CounterIsStreak
  BY DEF AccountsInv
<1> QED BY <1>1, Invariance, PTL

\* verify_email and reset_password read a code and consume it in two steps;
\* only requests that were under way together can have used the same one.
THEOREM CodesAreUsedOnce == Spec => []CodeUsedOnce
<1>1. AccountsInv => CodeUsedOnce
  BY DEF AccountsInv, UsersTogether, Uses, Succeeded, CodeUsedOnce
<1> QED BY <1>1, Invariance, PTL

\* register commits an account with its first role, unless create_role has
\* committed it before and the role is still to be assigned, or never was.
THEOREM AccountsHaveRoles == Spec => []AccountHasRole
<1>1. AccountsInv => AccountHasRole
  BY DEF AccountsInv
<1> QED BY <1>1, Invariance, PTL

\* record_audit runs after the commit of what it records, so that an event
\* of success is about a committed effect.
THEOREM SuccessesAreCommitted == Spec => []SuccessIsCommitted
<1>1. AccountsInv => SuccessIsCommitted
  <2> SUFFICES ASSUME AccountsInv, NEW r \in Request, event[r] = "success"
               PROVE  /\ req[r].op = "register" =>
                           /\ AllAssigned(UserOf[r])
                           /\ "verification" \in Enabled => code[r].state # "none"
                      /\ req[r].op \in {"verify", "reset"} => code[req[r].code].state = "consumed"
                      /\ req[r].op = "verify" => acct[UserOf[r]].verified
    BY DEF SuccessIsCommitted, AllAssigned
  <2>1. Succeeded(r)
    BY DEF AccountsInv, SuccessAnswered, Succeeded
  <2> QED BY <2>1 DEF AccountsInv, RolesAssigned, CodesConsumed
<1> QED BY <1>1, Invariance, PTL
=============================================================================
