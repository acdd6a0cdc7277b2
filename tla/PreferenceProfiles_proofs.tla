--------------------- MODULE PreferenceProfiles_proofs ---------------------
(***************************************************************************)
(* The active profile is the latest one, for any number of users and of    *)
(* concurrent updates and deletions, provided that the primary key of a    *)
(* deleted user does not come back: with bearer tokens, or if nobody is    *)
(* deleted.                                                                *)
(*                                                                         *)
(* The argument: versions have no gap, and the version a transaction is    *)
(* about to insert has only committed predecessors.  If the row gets past  *)
(* the unique index, its version is not there, hence it is the next one;   *)
(* and from then on no other transaction of the user passes the index.     *)
(***************************************************************************)
EXTENDS PreferenceProfiles, FiniteSetTheorems, TLAPS

USE DEF stored

-----------------------------------------------------------------------------
(* The inductive invariant.                                                *)

Writing == {"reference", "commit"}

\* Row c can be in the table only if its transaction has committed.
UncommittedAbsent ==
    \A c \in Request : profile[c] # "none" => txn[c].pc \in {"refresh"} \cup Answer

\* Versions of a user: positive, each once, none left out.
NoGap ==
    \A c \in Request : profile[c] \in {"active", "inactive"} =>
        /\ txn[c].version > 0
        /\ \A n \in 1..txn[c].version : \E d \in Rows(UserOf[c]) : txn[d].version = n

\* The version read by a transaction comes after versions that are there
\* still, unless the user is gone.
Predecessors ==
    \A c \in Request :
        /\ txn[c].pc \in {"deactivate", "lockrow", "insert"} \cup Writing
        /\ UserOf[c] \in users \/ ~tokenRequired
        => \A n \in 1..(txn[c].version - 1) : \E d \in Rows(UserOf[c]) : txn[d].version = n

RowsHaveUser ==
    \A c \in Request :
        /\ profile[c] \in {"active", "inactive"} => UserOf[c] \in users
        /\ txn[c].pc = "commit" => UserOf[c] \in users \/ txn[c].newuser
        /\ txn[c].pc = "commit" => ~BeingDeleted(UserOf[c])
        /\ tokenRequired => ~txn[c].newuser /\ txn[c].pc \notin {"find", "adduser"}

LockedRows ==
    \A c \in Request :
        /\ txn[c].pc = "lockrow" =>
             txn[c].target \in Request /\ UserOf[txn[c].target] = UserOf[c]
        /\ txn[c].held # NoRow =>
             /\ txn[c].pc \in {"insert"} \cup Writing
             /\ UserOf[txn[c].held] = UserOf[c]
             /\ profile[txn[c].held] = "active"
             /\ \A d \in Rivals(c) : txn[d].held # txn[c].held

\* A transaction past the unique indexes has them for itself.
SoleWriter ==
    \A c \in Request : txn[c].pc \in Writing =>
        /\ \A d \in Rivals(c) : txn[d].held = NoRow /\ txn[d].pc \notin Writing
        /\ ~SameVersion(c)
        /\ ~OtherActive(c)

KindOfProcess ==
    /\ \A c \in Request : txn[c].pc \notin {"lockuser", "cascade"}
    /\ \A d \in Deletion : /\ txn[d].pc \in {"idle", "lockuser", "cascade"} \cup Answer
                           /\ txn[d].held = NoRow

\* Without tokens nobody deletes.
DeletionsWithTokens == tokenRequired \/ \A d \in Deletion : txn[d].pc = "idle"

ProfilesInv ==
    /\ TypeOK /\ DeletionsWithTokens /\ KindOfProcess /\ UncommittedAbsent /\ NoGap /\ Predecessors
    /\ RowsHaveUser /\ LockedRows /\ SoleWriter /\ LatestIsActive

-----------------------------------------------------------------------------
(* Steps of an update that change its transaction only.                    *)

Numbered == {"deactivate", "lockrow", "insert"} \cup Writing

\* The record t can be the transaction of c in the current state.
Fits(c, t) ==
    /\ t \in Txn
    /\ t.pc \notin {"lockuser", "cascade"}
    /\ t.pc \in Numbered \cup {"refresh"} => t.version > 0
    /\ profile[c] # "none" =>
         t.pc \in {"refresh"} \cup Answer /\ t.version = txn[c].version
    /\ t.pc \in Numbered /\ (UserOf[c] \in users \/ ~tokenRequired) =>
         \A n \in 1..(t.version - 1) : \E d \in Rows(UserOf[c]) : txn[d].version = n
    /\ t.pc = "commit" => (UserOf[c] \in users \/ t.newuser) /\ ~BeingDeleted(UserOf[c])
    /\ tokenRequired => ~t.newuser /\ t.pc \notin {"find", "adduser"}
    /\ t.pc = "lockrow" => t.target \in Request /\ UserOf[t.target] = UserOf[c]
    /\ t.held # NoRow =>
         /\ t.pc \in {"insert"} \cup Writing
         /\ UserOf[t.held] = UserOf[c]
         /\ profile[t.held] = "active"
         /\ \A d \in Rivals(c) : txn[d].held # t.held /\ txn[d].pc \notin Writing
    /\ t.pc \in Writing =>
         /\ \A d \in Rivals(c) : txn[d].held = NoRow /\ txn[d].pc \notin Writing
         /\ \A d \in Rows(UserOf[c]) :
              txn[d].version # t.version /\ (profile[d] = "active" => d = t.held)

LEMMA LocalStep ==
    ASSUME ProfilesInv, NEW c \in Request, NEW t, Fits(c, t),
           txn' = [txn EXCEPT ![c] = t], UNCHANGED stored
    PROVE  ProfilesInv'
<1>0. /\ users \subseteq User /\ profile \in [Request -> ProfileState]
      /\ txn \in [Process -> Txn] /\ c \in Process /\ t \in Txn
  BY DEF ProfilesInv, TypeOK, Process, Fits
<1>1. /\ txn'[c] = t
      /\ \A d \in Process : d # c => txn'[d] = txn[d]
      /\ txn' \in [Process -> Txn]
  BY <1>0
<1>2. \A u : Rows(u)' = Rows(u)
  BY DEF Rows
<1>3. \A u : \A d \in Rows(u) : d \in Request /\ d \in Process /\ UserOf[d] = u
  BY DEF Rows, Process
<1>4. \A u : \A d \in Rows(u) : txn'[d].version = txn[d].version
  BY <1>1, <1>3 DEF Rows, Fits
<1>5. \A d \in Deletion : d \in Process /\ d # c
  BY ProfilesAssumption DEF Process
<1>6. \A u : BeingDeleted(u)' = BeingDeleted(u)
  BY <1>1, <1>5 DEF BeingDeleted
<1>7. \A d \in Request : d \in Process /\ Rivals(d)' = Rivals(d)
  BY DEF Rivals, Process
<1>8. TypeOK'
  BY <1>0, <1>1 DEF ProfilesInv, TypeOK, Fits, Numbered, Writing
<1>9. KindOfProcess'
  BY <1>1, <1>5, <1>7 DEF ProfilesInv, KindOfProcess, Fits
<1>10. UncommittedAbsent'
  BY <1>1, <1>7 DEF ProfilesInv, UncommittedAbsent, Fits
<1>11. NoGap'
  <2> SUFFICES ASSUME NEW d \in Request, profile[d] \in {"active", "inactive"}
               PROVE  /\ txn'[d].version > 0
                      /\ \A n \in 1..txn'[d].version :
                           \E e \in Rows(UserOf[d]) : txn'[e].version = n
    BY <1>2 DEF NoGap
  <2>1. d \in Rows(UserOf[d])
    BY DEF Rows
  <2>2. txn'[d].version = txn[d].version
    BY <2>1, <1>4
  <2> QED BY <2>2, <1>4 DEF ProfilesInv, NoGap
<1>12. Predecessors'
  <2> SUFFICES ASSUME NEW d \in Request, txn'[d].pc \in Numbered,
                      UserOf[d] \in users \/ ~tokenRequired
               PROVE  \A n \in 1..(txn'[d].version - 1) :
                        \E e \in Rows(UserOf[d]) : txn'[e].version = n
    BY <1>2 DEF Predecessors, Numbered, Rows
  <2>1. CASE d = c
    BY <2>1, <1>1, <1>4 DEF Fits
  <2>2. CASE d # c
    BY <2>2, <1>1, <1>4, <1>7 DEF ProfilesInv, Predecessors, Numbered
  <2> QED BY <2>1, <2>2
<1>13. RowsHaveUser'
  <2> SUFFICES ASSUME NEW d \in Request
               PROVE  /\ profile[d] \in {"active", "inactive"} => UserOf[d] \in users
                      /\ txn'[d].pc = "commit" => UserOf[d] \in users \/ txn'[d].newuser
                      /\ txn'[d].pc = "commit" => ~BeingDeleted(UserOf[d])
                      /\ tokenRequired =>
                           ~txn'[d].newuser /\ txn'[d].pc \notin {"find", "adduser"}
    BY <1>6 DEF RowsHaveUser
  <2>1. CASE d = c
    BY <2>1, <1>1 DEF Fits, ProfilesInv, RowsHaveUser
  <2>2. CASE d # c
    BY <2>2, <1>1, <1>7 DEF ProfilesInv, RowsHaveUser
  <2> QED BY <2>1, <2>2
<1>14. LockedRows'
  <2> SUFFICES ASSUME NEW d \in Request
               PROVE  /\ txn'[d].pc = "lockrow" =>
                           txn'[d].target \in Request /\ UserOf[txn'[d].target] = UserOf[d]
                      /\ txn'[d].held # NoRow =>
                           /\ txn'[d].pc \in {"insert"} \cup Writing
                           /\ UserOf[txn'[d].held] = UserOf[d]
                           /\ profile[txn'[d].held] = "active"
                           /\ \A e \in Rivals(d) : txn'[e].held # txn'[d].held
    BY <1>7 DEF LockedRows
  <2>1. CASE d = c
    <3>1. \A e \in Rivals(c) : txn'[e] = txn[e]
      BY <1>1, <1>7 DEF Rivals
    <3> QED BY <2>1, <3>1, <1>1 DEF Fits
  <2>2. CASE d # c
    <3>1. txn'[d] = txn[d]
      BY <2>2, <1>1, <1>7
    <3>2. UserOf[d] = UserOf[c] => d \in Rivals(c)
      BY <2>2 DEF Rivals
    <3>3. \A e \in Rivals(d) : e # c => txn'[e] = txn[e]
      BY <1>1, <1>7 DEF Rivals
    <3>4. c \in Rivals(d) /\ txn[d].held # NoRow => t.held # txn[d].held
      BY <3>2 DEF Rivals, Fits
    <3> QED BY <3>1, <3>3, <3>4, <1>1 DEF ProfilesInv, LockedRows
  <2> QED BY <2>1, <2>2
<1>15. SoleWriter'
  <2> SUFFICES ASSUME NEW d \in Request, txn'[d].pc \in Writing
               PROVE  /\ \A e \in Rivals(d) : txn'[e].held = NoRow /\ txn'[e].pc \notin Writing
                      /\ \A e \in Rows(UserOf[d]) : txn'[e].version # txn'[d].version
                      /\ \A e \in Rows(UserOf[d]) : profile[e] = "active" => e = txn'[d].held
    BY <1>2, <1>7 DEF SoleWriter, SameVersion, OtherActive
  <2>1. CASE d = c
    <3>1. \A e \in Rivals(c) : txn'[e] = txn[e]
      BY <1>1, <1>7 DEF Rivals
    <3> QED BY <2>1, <3>1, <1>1, <1>4 DEF Fits
  <2>2. CASE d # c
    <3>1. txn'[d] = txn[d]
      BY <2>2, <1>1, <1>7
    <3>2. \A e \in Rivals(d) : e # c => txn'[e] = txn[e]
      BY <1>1, <1>7 DEF Rivals
    <3>3. c \in Rivals(d) => t.held = NoRow /\ t.pc \notin Writing
      BY <2>2, <3>1 DEF Rivals, Fits
    <3>4. /\ \A e \in Rivals(d) : txn[e].held = NoRow /\ txn[e].pc \notin Writing
          /\ ~SameVersion(d)
          /\ ~OtherActive(d)
      BY <3>1 DEF ProfilesInv, SoleWriter
    <3> QED BY <3>1, <3>2, <3>3, <3>4, <1>1, <1>4 DEF SameVersion, OtherActive
  <2> QED BY <2>1, <2>2
<1>16. LatestIsActive'
  BY <1>2, <1>4 DEF ProfilesInv, LatestIsActive
<1>17. DeletionsWithTokens'
  BY <1>1, <1>5 DEF ProfilesInv, DeletionsWithTokens
<1> QED BY <1>8, <1>9, <1>10, <1>11, <1>12, <1>13, <1>14, <1>15, <1>16, <1>17 DEF ProfilesInv

\* The steps of an update up to its commit, and what may end it.
LEMMA UpdateStep ==
    ASSUME ProfilesInv, NEW c \in Request,
           \/ Authenticate(c) \/ Identify(c) \/ FindUser(c) \/ AddUser(c) \/ ReadVersion(c)
           \/ FindActive(c) \/ LockRow(c) \/ Insert(c) \/ Reference(c) \/ Refresh(c)
           \/ Abort(c)
    PROVE  ProfilesInv'
<1>0. /\ users \subseteq User /\ profile \in [Request -> ProfileState]
      /\ txn \in [Process -> Txn] /\ c \in Process /\ txn[c] \in Txn
      /\ UserOf \in [Process -> User] /\ NoRow \notin Request
  BY ProfilesAssumption DEF ProfilesInv, TypeOK, Process
<1>f. Fits(c, txn[c])
  <2>1. /\ txn[c].pc \notin {"lockuser", "cascade"}
        /\ txn[c].pc \in Numbered \cup {"refresh"} => txn[c].version > 0
        /\ profile[c] # "none" => txn[c].pc \in {"refresh"} \cup Answer
    BY <1>0 DEF ProfilesInv, TypeOK, KindOfProcess, UncommittedAbsent, Numbered, Writing
  <2>2. txn[c].pc \in Numbered /\ (UserOf[c] \in users \/ ~tokenRequired) =>
          \A n \in 1..(txn[c].version - 1) : \E d \in Rows(UserOf[c]) : txn[d].version = n
    BY DEF ProfilesInv, Predecessors, Numbered
  <2>3. /\ txn[c].pc = "commit" =>
             (UserOf[c] \in users \/ txn[c].newuser) /\ ~BeingDeleted(UserOf[c])
        /\ tokenRequired => ~txn[c].newuser /\ txn[c].pc \notin {"find", "adduser"}
    BY DEF ProfilesInv, RowsHaveUser
  <2>4. \A d \in Rivals(c) : d \in Request /\ c \in Rivals(d)
    BY DEF Rivals
  <2>5. txn[c].held # NoRow => \A d \in Rivals(c) : txn[d].pc \notin Writing
    BY <2>4 DEF ProfilesInv, SoleWriter
  <2>6. txn[c].pc \in Writing =>
          /\ \A d \in Rivals(c) : txn[d].held = NoRow /\ txn[d].pc \notin Writing
          /\ \A d \in Rows(UserOf[c]) :
               txn[d].version # txn[c].version /\ (profile[d] = "active" => d = txn[c].held)
    BY DEF ProfilesInv, SoleWriter, SameVersion, OtherActive
  <2>7. LockedRows
    BY DEF ProfilesInv
  <2> QED BY <1>0, <2>1, <2>2, <2>3, <2>5, <2>6, <2>7 DEF Fits, LockedRows
<1>g. Rows(UserOf[c]) \subseteq Request /\ \A d \in Rows(UserOf[c]) : UserOf[d] = UserOf[c]
  BY DEF Rows
<1>h. \A d \in Request : txn[d] \in Txn /\ txn[d].version \in Nat
  BY <1>0 DEF Process, Txn
<1>e. ASSUME NEW answer \in Answer, txn[c].pc \notin {"idle", "refresh"} \cup Answer
      PROVE  Fits(c, [txn[c] EXCEPT !.pc = answer, !.target = NoRow,
                                    !.held = NoRow, !.newuser = FALSE])
  BY <1>0, <1>f DEF Fits, Txn, Numbered, Writing, Answer, Pc, ProfilesInv, UncommittedAbsent
<1>1. CASE Authenticate(c) \/ Identify(c) \/ FindUser(c)
  <2>1. PICK where \in {"version", "find", "adduser"} :
          /\ txn' = [txn EXCEPT ![c].pc = where]
          /\ tokenRequired => where = "version"
    BY <1>1, <1>f DEF Authenticate, Identify, FindUser, Goto, Fits
  <2>2. txn[c].pc \in {"idle", "find"} /\ UNCHANGED stored
    BY <1>1 DEF Authenticate, Identify, FindUser
  <2>3. Fits(c, [txn[c] EXCEPT !.pc = where])
    BY <1>0, <1>f, <2>1, <2>2 DEF Fits, Txn, Numbered, Writing, Answer, Pc
  <2> QED BY <2>1, <2>2, <2>3, LocalStep
<1>2. CASE AddUser(c)
  <2>1. CASE UserOf[c] \in users
    <3>1. /\ txn' = [txn EXCEPT ![c].pc = "conflict", ![c].target = NoRow,
                               ![c].held = NoRow, ![c].newuser = FALSE]
          /\ UNCHANGED stored
      BY <1>2, <2>1 DEF AddUser, End
    <3>2. Fits(c, [txn[c] EXCEPT !.pc = "conflict", !.target = NoRow,
                                 !.held = NoRow, !.newuser = FALSE])
      BY <1>2, <1>e DEF AddUser, Answer
    <3> QED BY <3>1, <3>2, LocalStep
  <2>2. CASE UserOf[c] \notin users
    <3>1. txn' = [txn EXCEPT ![c].pc = "version", ![c].newuser = TRUE]
      BY <1>2, <2>2 DEF AddUser
    <3>2. Fits(c, [txn[c] EXCEPT !.pc = "version", !.newuser = TRUE])
      BY <1>0, <1>f, <1>2 DEF AddUser, Fits, Txn, Numbered, Writing, Answer, Pc
    <3> QED BY <1>2, <3>1, <3>2, LocalStep DEF AddUser
  <2> QED BY <2>1, <2>2
<1>3. CASE ReadVersion(c)
  <2>1. PICK n \in {0} \cup {txn[d].version : d \in Rows(UserOf[c])} :
          /\ \A d \in Rows(UserOf[c]) : txn[d].version <= n
          /\ txn' = [txn EXCEPT ![c].pc = "deactivate", ![c].version = n + 1]
    BY <1>3 DEF ReadVersion
  <2>2. n \in Nat
    BY <1>g, <1>h, <2>1
  <2>3. \A k \in 1..n : \E d \in Rows(UserOf[c]) : txn[d].version = k
    <3>1. CASE n = 0
      BY <3>1
    <3>2. CASE \E d \in Rows(UserOf[c]) : n = txn[d].version
      BY <3>2, <1>g DEF ProfilesInv, NoGap, Rows
    <3> QED BY <2>1, <3>1, <3>2
  <2>4. (n + 1) - 1 = n /\ n + 1 \in Nat /\ n + 1 > 0
    BY <2>2
  <2>5. Fits(c, [txn[c] EXCEPT !.pc = "deactivate", !.version = n + 1])
    BY <1>0, <1>f, <1>3, <2>3, <2>4
       DEF ReadVersion, Fits, Txn, Numbered, Writing, Answer, Pc
  <2>6. UNCHANGED stored
    BY <1>3 DEF ReadVersion
  <2> DEFINE t == [txn[c] EXCEPT !.pc = "deactivate", !.version = n + 1]
  <2>7. txn' = [txn EXCEPT ![c] = t] /\ Fits(c, t)
    BY <1>0, <2>1, <2>5
  <2> HIDE DEF t
  <2> QED BY <2>6, <2>7, LocalStep
<1>4. CASE FindActive(c)
  <2>0. txn[c].pc = "deactivate" /\ UNCHANGED stored
    BY <1>4 DEF FindActive
  <2>1. CASE Goto(c, "insert")
    <3>1. Fits(c, [txn[c] EXCEPT !.pc = "insert"])
      BY <1>0, <1>f, <2>0 DEF Fits, Txn, Numbered, Writing, Answer, Pc
    <3> QED BY <2>0, <2>1, <3>1, LocalStep DEF Goto
  <2>2. CASE \E d \in Rows(UserOf[c]) :
               txn' = [txn EXCEPT ![c].pc = "lockrow", ![c].target = d]
    <3>1. PICK d \in Rows(UserOf[c]) :
            txn' = [txn EXCEPT ![c].pc = "lockrow", ![c].target = d]
      BY <2>2
    <3>2. Fits(c, [txn[c] EXCEPT !.pc = "lockrow", !.target = d])
      BY <1>0, <1>f, <1>g, <2>0 DEF Fits, Txn, Numbered, Writing, Answer, Pc
    <3> QED BY <2>0, <3>1, <3>2, LocalStep
  <2> QED BY <1>4, <2>1, <2>2 DEF FindActive
<1>5. CASE LockRow(c)
  <2>1. PICK r \in Request \cup {NoRow} :
          /\ txn' = [txn EXCEPT ![c].pc = "insert", ![c].target = NoRow, ![c].held = r]
          /\ r # NoRow => r = txn[c].target /\ profile[r] = "active"
    BY <1>0, <1>5 DEF LockRow, Txn
  <2>2. r # NoRow => /\ r \in Rows(UserOf[c])
                     /\ \A d \in Rivals(c) : txn[d].held # r
    BY <1>5, <1>f, <2>1 DEF LockRow, Fits, Rows
  <2>3. r # NoRow => \A d \in Rivals(c) : txn[d].pc \notin Writing
    <3> SUFFICES ASSUME r # NoRow, NEW d \in Rivals(c), txn[d].pc \in Writing
                 PROVE  FALSE
      OBVIOUS
    <3>1. d \in Request /\ UserOf[d] = UserOf[c]
      BY DEF Rivals
    <3>2. ~OtherActive(d)
      BY <3>1 DEF ProfilesInv, SoleWriter
    <3> QED BY <2>1, <2>2, <3>1, <3>2 DEF OtherActive
  <2>4. Fits(c, [txn[c] EXCEPT !.pc = "insert", !.target = NoRow, !.held = r])
    BY <1>0, <1>f, <1>5, <2>1, <2>2, <2>3
       DEF LockRow, Fits, Txn, Numbered, Writing, Answer, Pc, Rows
  <2>5. UNCHANGED stored
    BY <1>5 DEF LockRow
  <2> DEFINE t == [txn[c] EXCEPT !.pc = "insert", !.target = NoRow, !.held = r]
  <2>6. txn' = [txn EXCEPT ![c] = t] /\ Fits(c, t)
    BY <1>0, <2>1, <2>4
  <2> HIDE DEF t
  <2> QED BY <2>5, <2>6, LocalStep
<1>6. CASE Insert(c)
  <2>1. CASE SameVersion(c) \/ OtherActive(c)
    <3>1. /\ txn' = [txn EXCEPT ![c].pc = "conflict", ![c].target = NoRow,
                               ![c].held = NoRow, ![c].newuser = FALSE]
          /\ UNCHANGED stored
      BY <1>6, <2>1 DEF Insert, End
    <3>2. Fits(c, [txn[c] EXCEPT !.pc = "conflict", !.target = NoRow,
                                 !.held = NoRow, !.newuser = FALSE])
      BY <1>6, <1>e DEF Insert, Answer
    <3> QED BY <3>1, <3>2, LocalStep
  <2>2. CASE ~(SameVersion(c) \/ OtherActive(c))
    <3>1. txn' = [txn EXCEPT ![c].pc = "reference"]
      BY <1>6, <2>2 DEF Insert, Goto
    <3>2. Fits(c, [txn[c] EXCEPT !.pc = "reference"])
      BY <1>0, <1>f, <1>6, <2>2 DEF Insert, Fits, Txn, Numbered, Writing, Answer, Pc,
         SameVersion, OtherActive, Rivals
    <3> QED BY <1>6, <3>1, <3>2, LocalStep DEF Insert
  <2> QED BY <2>1, <2>2
<1>7. CASE Reference(c)
  <2>1. CASE ~(UserOf[c] \in users \/ txn[c].newuser)
    <3>1. /\ txn' = [txn EXCEPT ![c].pc = "failed", ![c].target = NoRow,
                               ![c].held = NoRow, ![c].newuser = FALSE]
          /\ UNCHANGED stored
      BY <1>7, <2>1 DEF Reference, End
    <3>2. Fits(c, [txn[c] EXCEPT !.pc = "failed", !.target = NoRow,
                                 !.held = NoRow, !.newuser = FALSE])
      BY <1>7, <1>e DEF Reference, Answer
    <3> QED BY <3>1, <3>2, LocalStep
  <2>2. CASE UserOf[c] \in users \/ txn[c].newuser
    <3>1. txn' = [txn EXCEPT ![c].pc = "commit"]
      BY <1>7, <2>2 DEF Reference, Goto
    <3>2. Fits(c, [txn[c] EXCEPT !.pc = "commit"])
      BY <1>0, <1>f, <1>7, <2>2 DEF Reference, Fits, Txn, Numbered, Writing, Answer, Pc
    <3> QED BY <1>7, <3>1, <3>2, LocalStep DEF Reference
  <2> QED BY <2>1, <2>2
<1>8. CASE Refresh(c)
  <2>1. PICK where \in Answer : txn' = [txn EXCEPT ![c].pc = where]
    BY <1>8 DEF Refresh, Goto, Answer
  <2>2. Fits(c, [txn[c] EXCEPT !.pc = where])
    BY <1>0, <1>f, <1>8, <2>1 DEF Refresh, Fits, Txn, Numbered, Writing, Answer, Pc
  <2> QED BY <1>8, <2>1, <2>2, LocalStep DEF Refresh
<1>9. CASE Abort(c)
  <2> DEFINE t == [txn[c] EXCEPT !.pc = "failed", !.target = NoRow,
                                 !.held = NoRow, !.newuser = FALSE]
  <2>1. UNCHANGED stored /\ txn' = [txn EXCEPT ![c] = t]
    BY <1>9 DEF Abort, End
  <2>2. Fits(c, t)
    BY <1>9, <1>e DEF Abort, Answer
  <2> HIDE DEF t
  <2> QED BY <2>1, <2>2, LocalStep
<1> QED BY <1>1, <1>2, <1>3, <1>4, <1>5, <1>6, <1>7, <1>8, <1>9

-----------------------------------------------------------------------------
(* Commits.                                                                *)

\* What an update changes when it commits: its own row and transaction, and
\* the row it has deactivated.
Effect(c, answer) ==
    /\ txn'[c] = [txn[c] EXCEPT !.pc = answer, !.target = NoRow,
                                !.held = NoRow, !.newuser = FALSE]
    /\ \A d \in Process : d # c => txn'[d] = txn[d]
    /\ \A d \in Process : txn'[d].version = txn[d].version
    /\ txn' \in [Process -> Txn]
    /\ txn'[c].pc = answer /\ txn'[c].held = NoRow /\ txn'[c].newuser = FALSE
    /\ txn'[c].version = txn[c].version
    /\ tokenRequired' = tokenRequired
    /\ UserOf[c] \in users'
    /\ users \subseteq users' /\ users' \subseteq User
    /\ profile[c] = "none" /\ txn[c].version > 0 /\ txn[c].version \in Nat
    /\ profile'[c] = "active"
    /\ \A d \in Request : d # c =>
         \/ profile'[d] = profile[d] /\ d # txn[c].held
         \/ /\ profile[d] = "active" /\ profile'[d] = "inactive"
            /\ UserOf[d] = UserOf[c] /\ d = txn[c].held
    /\ profile' \in [Request -> ProfileState]
    /\ \A u : Rows(u)' = IF u = UserOf[c] THEN Rows(u) \cup {c} ELSE Rows(u)
    /\ \A n \in 1..(txn[c].version - 1) : \E d \in Rows(UserOf[c]) : txn[d].version = n

LEMMA CommitEffect ==
    ASSUME ProfilesInv, NEW c \in Request, NEW answer \in {"refresh", "failed"},
           txn[c].pc = "commit", Apply(c), End(c, answer)
    PROVE  Effect(c, answer)
<1>0. /\ users \subseteq User /\ profile \in [Request -> ProfileState]
      /\ txn \in [Process -> Txn] /\ c \in Process /\ txn[c] \in Txn
      /\ UserOf \in [Process -> User] /\ NoRow \notin Request
  BY ProfilesAssumption DEF ProfilesInv, TypeOK, Process
<1>1. /\ txn'[c] = [txn[c] EXCEPT !.pc = answer, !.target = NoRow,
                                  !.held = NoRow, !.newuser = FALSE]
      /\ \A d \in Process : d # c => txn'[d] = txn[d]
      /\ \A d \in Process : txn'[d].version = txn[d].version
      /\ txn' \in [Process -> Txn]
  BY <1>0 DEF End, Txn, Pc, Answer
<1>2. /\ txn'[c].pc = answer /\ txn'[c].held = NoRow /\ txn'[c].newuser = FALSE
      /\ txn'[c].version = txn[c].version
  BY <1>0, <1>1 DEF Txn
<1>3. /\ UserOf[c] \in users' /\ tokenRequired' = tokenRequired
      /\ users \subseteq users' /\ users' \subseteq User
  BY <1>0 DEF ProfilesInv, RowsHaveUser, Apply
<1>4. /\ profile[c] = "none" /\ txn[c].version > 0 /\ txn[c].version \in Nat
  BY <1>0 DEF ProfilesInv, UncommittedAbsent, TypeOK, Answer, ProfileState, Txn
<1>5. /\ profile'[c] = "active"
      /\ \A d \in Request : d # c =>
           \/ profile'[d] = profile[d] /\ d # txn[c].held
           \/ /\ profile[d] = "active" /\ profile'[d] = "inactive"
              /\ UserOf[d] = UserOf[c] /\ d = txn[c].held
      /\ profile' \in [Request -> ProfileState]
  BY <1>0, <1>4 DEF Apply, ProfilesInv, LockedRows, ProfileState, Txn
<1>6. \A u : Rows(u)' = IF u = UserOf[c] THEN Rows(u) \cup {c} ELSE Rows(u)
  <2>1. ASSUME NEW d \in Request, d # c
        PROVE  profile'[d] \in {"active", "inactive"} <=> profile[d] \in {"active", "inactive"}
    BY <2>1, <1>5
  <2>2. ASSUME NEW u, NEW d
        PROVE  d \in Rows(u)' <=> d \in Rows(u) \/ (u = UserOf[c] /\ d = c)
    BY <2>1, <1>4, <1>5 DEF Rows
  <2> QED BY <2>2
<1>7. \A n \in 1..(txn[c].version - 1) : \E d \in Rows(UserOf[c]) : txn[d].version = n
  BY DEF ProfilesInv, Predecessors, RowsHaveUser, Writing
<1> QED BY <1>1, <1>2, <1>3, <1>4, <1>5, <1>6, <1>7 DEF Effect

\* The transaction of c takes effect, whether it is answered or not.
LEMMA CommitStep ==
    ASSUME ProfilesInv, NEW c \in Request, NEW answer \in {"refresh", "failed"},
           txn[c].pc = "commit", Apply(c), End(c, answer)
    PROVE  ProfilesInv'
<1>e. Effect(c, answer)
  BY CommitEffect
<1>0. /\ users \subseteq User /\ profile \in [Request -> ProfileState]
      /\ txn \in [Process -> Txn] /\ c \in Process /\ txn[c] \in Txn
      /\ UserOf \in [Process -> User] /\ NoRow \notin Request
  BY ProfilesAssumption DEF ProfilesInv, TypeOK, Process
<1>1. /\ txn'[c] = [txn[c] EXCEPT !.pc = answer, !.target = NoRow,
                                  !.held = NoRow, !.newuser = FALSE]
      /\ \A d \in Process : d # c => txn'[d] = txn[d]
      /\ \A d \in Process : txn'[d].version = txn[d].version
      /\ txn' \in [Process -> Txn]
  BY <1>e DEF Effect
<1>2. /\ txn'[c].pc = answer /\ txn'[c].held = NoRow /\ txn'[c].newuser = FALSE
      /\ txn'[c].version = txn[c].version
  BY <1>e DEF Effect
<1>3. /\ UserOf[c] \in users' /\ tokenRequired' = tokenRequired
      /\ users \subseteq users' /\ users' \subseteq User
  BY <1>e DEF Effect
<1>4. /\ profile[c] = "none" /\ txn[c].version > 0 /\ txn[c].version \in Nat
  BY <1>e DEF Effect
<1>5. /\ profile'[c] = "active"
      /\ \A d \in Request : d # c =>
           \/ profile'[d] = profile[d] /\ d # txn[c].held
           \/ /\ profile[d] = "active" /\ profile'[d] = "inactive"
              /\ UserOf[d] = UserOf[c] /\ d = txn[c].held
      /\ profile' \in [Request -> ProfileState]
  BY <1>e DEF Effect
<1>6. \A u : Rows(u)' = IF u = UserOf[c] THEN Rows(u) \cup {c} ELSE Rows(u)
  BY <1>e DEF Effect
<1>7. /\ \A d \in Request : d \in Process /\ Rivals(d)' = Rivals(d)
      /\ \A u : \A d \in Rows(u) : d \in Request /\ d \in Process /\ UserOf[d] = u
  BY DEF Rivals, Process, Rows
<1>8. /\ \A d \in Deletion : d \in Process /\ d # c
      /\ \A u : BeingDeleted(u)' = BeingDeleted(u)
  BY <1>1, ProfilesAssumption DEF Process, BeingDeleted
<1>9. /\ \A d \in Rivals(c) : /\ d \in Request /\ d # c /\ c \in Rivals(d)
                              /\ txn[d].held = NoRow /\ txn[d].pc \notin Writing
      /\ \A d \in Rows(UserOf[c]) : txn[d].version # txn[c].version
      /\ \A d \in Rows(UserOf[c]) : profile[d] = "active" => d = txn[c].held
  BY DEF ProfilesInv, SoleWriter, SameVersion, OtherActive, Writing, Rivals
<1>10. TypeOK'
  <2>1. \A d \in Process : txn'[d].pc \in {"deactivate", "lockrow", "insert", "reference",
                                           "commit", "refresh"} => txn'[d].version > 0
    BY <1>1, <1>2, <1>4 DEF ProfilesInv, TypeOK
  <2> QED BY <1>1, <1>3, <1>5, <2>1 DEF ProfilesInv, TypeOK
<1>11. KindOfProcess'
  <2>1. KindOfProcess
    BY DEF ProfilesInv
  <2>2. ASSUME NEW d \in Request
        PROVE  txn'[d].pc \notin {"lockuser", "cascade"}
    <3>1. CASE d = c
      BY <1>2, <3>1
    <3>2. CASE d # c
      BY <1>1, <1>7, <2>1, <3>2 DEF KindOfProcess
    <3> QED BY <3>1, <3>2
  <2>3. ASSUME NEW d \in Deletion
        PROVE  txn'[d] = txn[d]
    BY <1>1, <1>8
  <2> QED BY <2>1, <2>2, <2>3 DEF KindOfProcess
<1>12. UncommittedAbsent'
  <2> SUFFICES ASSUME NEW d \in Request, profile'[d] # "none", d # c
               PROVE  txn[d].pc \in {"refresh"} \cup Answer
    BY <1>1, <1>2, <1>7 DEF UncommittedAbsent, Answer
  <2>1. profile[d] # "none"
    BY <1>5
  <2> QED BY <2>1 DEF ProfilesInv, UncommittedAbsent
<1>13. \A n \in 1..(txn[c].version - 1) : \E d \in Rows(UserOf[c]) : txn[d].version = n
  BY <1>e DEF Effect
<1>14. NoGap'
  <2> SUFFICES ASSUME NEW d \in Request, profile'[d] \in {"active", "inactive"}
               PROVE  /\ txn[d].version > 0
                      /\ \A n \in 1..txn[d].version :
                           \E e \in Rows(UserOf[d])' : txn[e].version = n
    BY <1>1, <1>6, <1>7 DEF NoGap
  <2>1. CASE d = c
    <3>1. c \in Rows(UserOf[c])' /\ Rows(UserOf[c]) \subseteq Rows(UserOf[c])'
      BY <1>6
    <3>2. \A n \in 1..txn[c].version : n = txn[c].version \/ n \in 1..(txn[c].version - 1)
      BY <1>4
    <3> QED BY <2>1, <3>1, <3>2, <1>4, <1>13
  <2>2. CASE d # c
    <3>1. profile[d] \in {"active", "inactive"}
      BY <2>2, <1>5
    <3> QED BY <3>1, <1>6 DEF ProfilesInv, NoGap
  <2> QED BY <2>1, <2>2
<1>15. Predecessors'
  <2> SUFFICES ASSUME NEW d \in Request, d # c,
                      txn[d].pc \in {"deactivate", "lockrow", "insert"} \cup Writing,
                      UserOf[d] \in users' \/ ~tokenRequired
               PROVE  \A n \in 1..(txn[d].version - 1) :
                        \E e \in Rows(UserOf[d]) : txn[e].version = n
    <3>1. \A d \in Request : Rows(UserOf[d]) \subseteq Rows(UserOf[d])'
      BY <1>6
    <3>2. \A n : \A d \in Request : \A e \in Rows(UserOf[d]) :
            txn[e].version = n => txn'[e].version = n
      BY <1>1, <1>7
    <3>3. \A d \in Request : d # c => txn'[d] = txn[d]
      BY <1>1, <1>7
    <3> QED BY <1>2, <1>3, <3>1, <3>2, <3>3 DEF Predecessors, Writing
  <2>1. UserOf[d] \in users \/ ~tokenRequired
    BY DEF Apply, ProfilesInv, RowsHaveUser
  <2> QED BY <2>1 DEF ProfilesInv, Predecessors
<1>16. RowsHaveUser'
  <2> SUFFICES ASSUME NEW d \in Request
               PROVE  /\ profile'[d] \in {"active", "inactive"} => UserOf[d] \in users'
                      /\ (d # c /\ txn[d].pc = "commit") => UserOf[d] \in users' \/ txn[d].newuser
                      /\ txn[d].pc = "commit" => ~BeingDeleted(UserOf[d])
                      /\ tokenRequired =>
                           ~txn[d].newuser /\ txn[d].pc \notin {"find", "adduser"}
    BY <1>1, <1>2, <1>3, <1>7, <1>8 DEF RowsHaveUser
  <2>1. profile'[d] \in {"active", "inactive"} => UserOf[d] \in users'
    BY <1>3, <1>5 DEF ProfilesInv, RowsHaveUser
  <2> QED BY <2>1, <1>3 DEF ProfilesInv, RowsHaveUser
<1>17. LockedRows'
  <2> SUFFICES ASSUME NEW d \in Request, d # c
               PROVE  /\ txn[d].pc = "lockrow" =>
                           txn[d].target \in Request /\ UserOf[txn[d].target] = UserOf[d]
                      /\ txn[d].held # NoRow =>
                           /\ txn[d].pc \in {"insert"} \cup Writing
                           /\ UserOf[txn[d].held] = UserOf[d]
                           /\ profile'[txn[d].held] = "active"
                           /\ \A e \in Rivals(d) : txn'[e].held # txn[d].held
    <3>1. \A d \in Request : d # c => txn'[d] = txn[d]
      BY <1>1, <1>7
    <3> QED BY <1>2, <1>7, <3>1 DEF LockedRows, Answer
  <2>1. LockedRows
    BY DEF ProfilesInv
  <2>2. CASE UserOf[d] = UserOf[c]
    <3>1. txn[d].held = NoRow
      BY <2>2, <1>9 DEF Rivals
    <3> QED BY <2>1, <3>1 DEF LockedRows
  <2>3. CASE UserOf[d] # UserOf[c]
    <3>1. \A e \in Rivals(d) : txn'[e] = txn[e]
      BY <2>3, <1>1, <1>7 DEF Rivals
    <3>2. txn[d].held # NoRow => /\ txn[d].held \in Request
                                 /\ txn[d].held # c
                                 /\ txn[d].held # txn[c].held
      BY <2>1, <2>3, <1>0, <1>5, <1>7 DEF LockedRows, Txn
    <3> QED BY <2>1, <3>1, <3>2, <1>5 DEF LockedRows
  <2> QED BY <2>2, <2>3
<1>18. SoleWriter'
  <2> SUFFICES ASSUME NEW d \in Request, d # c, txn[d].pc \in Writing
               PROVE  /\ \A e \in Rivals(d) : txn'[e].held = NoRow /\ txn'[e].pc \notin Writing
                      /\ \A e \in Rows(UserOf[d])' : txn[e].version # txn[d].version
                      /\ \A e \in Rows(UserOf[d])' : profile'[e] = "active" => e = txn[d].held
    <3>1. \A d \in Request : d # c => txn'[d] = txn[d]
      BY <1>1, <1>7
    <3>2. \A d \in Request : \A e \in Rows(UserOf[d])' : txn'[e].version = txn[e].version
      BY <1>0, <1>1, <1>6, <1>7
    <3> QED BY <1>2, <1>7, <3>1, <3>2 DEF SoleWriter, SameVersion, OtherActive, Writing
  <2>1. UserOf[d] # UserOf[c]
    BY <1>9 DEF Rivals
  <2>2. Rows(UserOf[d])' = Rows(UserOf[d])
    BY <2>1, <1>6
  <2>3. \A e \in Rivals(d) : txn'[e] = txn[e]
    BY <2>1, <1>1, <1>7 DEF Rivals
  <2>4. \A e \in Rows(UserOf[d]) : profile'[e] = profile[e]
    BY <2>1, <1>5, <1>7
  <2>5. /\ \A e \in Rivals(d) : txn[e].held = NoRow /\ txn[e].pc \notin Writing
        /\ ~SameVersion(d) /\ ~OtherActive(d)
    BY DEF ProfilesInv, SoleWriter
  <2> QED BY <2>2, <2>3, <2>4, <2>5 DEF SameVersion, OtherActive
<1>19. LatestIsActive'
  <2> SUFFICES ASSUME NEW u \in User, NEW d \in Rows(u)', NEW e \in Rows(u)'
               PROVE  /\ txn[d].version = txn[e].version => d = e
                      /\ profile'[d] = "active" <=>
                           \A f \in Rows(u)' : txn[f].version <= txn[d].version
    BY <1>1, <1>6, <1>7 DEF LatestIsActive
  <2>1. CASE u # UserOf[c]
    <3>1. Rows(u)' = Rows(u) /\ \A f \in Rows(u) : profile'[f] = profile[f]
      BY <2>1, <1>5, <1>6, <1>7
    <3> QED BY <3>1 DEF ProfilesInv, LatestIsActive
  <2>2. CASE u = UserOf[c]
    <3>1. Rows(u)' = Rows(u) \cup {c}
      BY <2>2, <1>6
    <3>2. \A f \in Rows(u) : txn[f].version \in Nat
      BY <1>0, <1>7 DEF Txn
    <3>3. \A f \in Rows(u) : txn[f].version < txn[c].version
      <4> SUFFICES ASSUME NEW f \in Rows(u), txn[f].version >= txn[c].version
                   PROVE  FALSE
        BY <1>4, <3>2
      <4>1. txn[c].version \in 1..txn[f].version
        BY <1>4, <3>2
      <4>2. \E g \in Rows(u) : txn[g].version = txn[c].version
        BY <4>1, <1>7 DEF ProfilesInv, NoGap, Rows
      <4> QED BY <2>2, <4>2, <1>9
    <3>4. \A f \in Rows(u) : f # c /\ profile'[f] # "active"
      BY <2>2, <1>4, <1>5, <1>7, <1>9 DEF Rows
    <3>5. txn[d].version = txn[e].version => d = e
      BY <3>1, <3>2, <3>3, <1>4 DEF ProfilesInv, LatestIsActive
    <3>6. CASE d = c
      BY <3>6, <3>1, <3>2, <3>3, <1>4, <1>5, <3>5
    <3>7. CASE d # c
      <4>1. d \in Rows(u) /\ ~(txn[c].version <= txn[d].version)
        BY <3>7, <3>1, <3>2, <3>3, <1>4
      <4> QED BY <4>1, <3>1, <3>4, <3>5
    <3> QED BY <3>6, <3>7
  <2> QED BY <2>1, <2>2
<1>20. DeletionsWithTokens'
  BY <1>1, <1>3, <1>8 DEF ProfilesInv, DeletionsWithTokens
<1> QED BY <1>10, <1>11, <1>12, <1>14, <1>15, <1>16, <1>17, <1>18, <1>19, <1>20 DEF ProfilesInv

-----------------------------------------------------------------------------
(* Deletions.                                                              *)

\* A deletion that starts, locks the user or is rolled back.
LEMMA DeletionStep ==
    ASSUME ProfilesInv, NEW d \in Deletion,
           StartDeletion(d) \/ LockUser(d) \/ Abort(d),
           StartDeletion(d) => tokenRequired
    PROVE  ProfilesInv'
<1>0. /\ users \subseteq User /\ profile \in [Request -> ProfileState]
      /\ txn \in [Process -> Txn] /\ d \in Process /\ txn[d] \in Txn
      /\ UserOf \in [Process -> User] /\ txn[d].held = NoRow
      /\ txn[d].pc \in {"idle", "lockuser", "cascade"} \cup Answer
  BY ProfilesAssumption DEF ProfilesInv, TypeOK, Process, KindOfProcess
<1>1. /\ UNCHANGED stored
      /\ txn' \in [Process -> Txn]
      /\ \A c \in Process : c # d => txn'[c] = txn[c]
      /\ txn'[d].held = NoRow
      /\ txn'[d].pc \in {"lockuser", "cascade"} \cup Answer
      /\ txn'[d].pc = "cascade" =>
           \A c \in Request : UserOf[c] = UserOf[d] => txn[c].pc # "commit"
  BY <1>0 DEF StartDeletion, LockUser, Abort, Goto, End, Txn, Pc, Answer
<1>2. \A c \in Request : c \in Process /\ c # d /\ txn'[c] = txn[c]
  BY <1>1, ProfilesAssumption DEF Process
<1>3. \A e \in Deletion : e \in Process
  BY DEF Process
<1>4. /\ \A u : Rows(u)' = Rows(u)
      /\ \A u : \A c \in Rows(u) : c \in Request
      /\ \A c : Rivals(c)' = Rivals(c) /\ Rivals(c) \subseteq Request
  BY <1>1 DEF Rows, Rivals
<1>5. TypeOK'
  BY <1>0, <1>1 DEF ProfilesInv, TypeOK, Answer
<1>6. KindOfProcess'
  BY <1>1, <1>2, <1>3 DEF ProfilesInv, KindOfProcess
<1>7. UncommittedAbsent' /\ NoGap' /\ Predecessors'
  BY <1>1, <1>2, <1>4 DEF ProfilesInv, UncommittedAbsent, NoGap, Predecessors
<1>8. RowsHaveUser'
  <2>1. \A c \in Request : txn[c].pc = "commit" => ~BeingDeleted(UserOf[c])'
    <3> SUFFICES ASSUME NEW c \in Request, txn[c].pc = "commit", NEW e \in Deletion,
                        UserOf[e] = UserOf[c], txn'[e].pc = "cascade"
                 PROVE  FALSE
      BY DEF BeingDeleted
    <3>1. CASE e = d
      BY <3>1, <1>1
    <3>2. CASE e # d
      BY <3>2, <1>1, <1>3 DEF ProfilesInv, RowsHaveUser, BeingDeleted
    <3> QED BY <3>1, <3>2
  <2> QED BY <1>1, <1>2, <2>1 DEF ProfilesInv, RowsHaveUser
<1>9. LockedRows' /\ SoleWriter'
  BY <1>1, <1>2, <1>4 DEF ProfilesInv, LockedRows, SoleWriter, SameVersion, OtherActive
<1>10. LatestIsActive'
  BY <1>1, <1>2, <1>4 DEF ProfilesInv, LatestIsActive
<1>11. DeletionsWithTokens'
  BY <1>1 DEF ProfilesInv, DeletionsWithTokens, LockUser, Abort
<1> QED BY <1>5, <1>6, <1>7, <1>8, <1>9, <1>10, <1>11 DEF ProfilesInv

\* A deletion commits: the user's row and profiles are gone.
LEMMA CascadeStep ==
    ASSUME ProfilesInv, NEW d \in Deletion, Cascade(d)
    PROVE  ProfilesInv'
<1>0. /\ users \subseteq User /\ profile \in [Request -> ProfileState]
      /\ txn \in [Process -> Txn] /\ d \in Process /\ txn[d] \in Txn
      /\ UserOf \in [Process -> User] /\ tokenRequired /\ tokenRequired'
  BY ProfilesAssumption DEF ProfilesInv, TypeOK, Process, DeletionsWithTokens, Cascade
<1>1. /\ txn' \in [Process -> Txn] /\ txn'[d].pc = "done" /\ txn'[d].held = txn[d].held
      /\ \A c \in Process : c # d => txn'[c] = txn[c]
  BY <1>0 DEF Cascade, Goto, Txn, Pc, Answer
<1>2. \A c \in Request : c \in Process /\ c # d /\ txn'[c] = txn[c]
  BY <1>1, ProfilesAssumption DEF Process
<1>3. /\ users' = users \ {UserOf[d]}
      /\ \A c \in Request : UserOf[c] = UserOf[d] =>
           /\ txn[c].held = NoRow
           /\ profile'[c] \notin {"active", "inactive"}
           /\ profile'[c] # profile[c] => profile[c] \in {"active", "inactive"}
      /\ \A c \in Request : UserOf[c] # UserOf[d] => profile'[c] = profile[c]
      /\ profile' \in [Request -> ProfileState]
  BY <1>0 DEF Cascade, Rows, ProfileState
<1>4. /\ \A u : u # UserOf[d] => Rows(u)' = Rows(u)
      /\ Rows(UserOf[d])' = {}
      /\ \A u : \A c \in Rows(u) : c \in Request /\ UserOf[c] = u
      /\ \A c : Rivals(c)' = Rivals(c)
      /\ \A c : \A e \in Rivals(c) : e \in Request /\ UserOf[e] = UserOf[c]
  BY <1>3 DEF Rows, Rivals
<1>5. TypeOK'
  BY <1>0, <1>1, <1>3 DEF ProfilesInv, TypeOK
<1>6. KindOfProcess'
  BY <1>1, <1>2 DEF ProfilesInv, KindOfProcess, Process, Answer
<1>7. UncommittedAbsent'
  BY <1>2, <1>3 DEF ProfilesInv, UncommittedAbsent
<1>8. NoGap'
  BY <1>2, <1>3, <1>4 DEF ProfilesInv, NoGap
<1>9. Predecessors'
  BY <1>0, <1>2, <1>3, <1>4 DEF ProfilesInv, Predecessors
<1>10. RowsHaveUser'
  <2> SUFFICES ASSUME NEW c \in Request
               PROVE  /\ profile'[c] \in {"active", "inactive"} => UserOf[c] \in users'
                      /\ txn[c].pc = "commit" => UserOf[c] \in users' \/ txn[c].newuser
                      /\ txn[c].pc = "commit" => ~BeingDeleted(UserOf[c])'
                      /\ tokenRequired =>
                           ~txn[c].newuser /\ txn[c].pc \notin {"find", "adduser"}
    BY <1>0, <1>2 DEF RowsHaveUser
  <2>1. txn[c].pc = "commit" => UserOf[c] # UserOf[d] /\ ~BeingDeleted(UserOf[c])
    BY DEF ProfilesInv, RowsHaveUser, BeingDeleted, Cascade
  <2>2. BeingDeleted(UserOf[c])' => BeingDeleted(UserOf[c])
    BY <1>1 DEF BeingDeleted, Process
  <2> QED BY <1>3, <2>1, <2>2 DEF ProfilesInv, RowsHaveUser
<1>11. LockedRows'
  <2> SUFFICES ASSUME NEW c \in Request, txn[c].held # NoRow
               PROVE  profile'[txn[c].held] = "active"
    BY <1>2, <1>4 DEF ProfilesInv, LockedRows
  <2>1. txn[c].held \in Request
    BY <1>2, <1>0 DEF Txn
  <2> QED BY <2>1, <1>3 DEF ProfilesInv, LockedRows
<1>12. SoleWriter'
  <2> SUFFICES ASSUME NEW c \in Request, txn[c].pc \in Writing
               PROVE  /\ \A e \in Rivals(c) : txn[e].held = NoRow /\ txn[e].pc \notin Writing
                      /\ ~SameVersion(c)'
                      /\ ~OtherActive(c)'
    BY <1>2, <1>4 DEF SoleWriter
  <2>1. ~SameVersion(c)'
    BY <1>2, <1>4 DEF ProfilesInv, SoleWriter, SameVersion
  <2>2. ~OtherActive(c)'
    BY <1>2, <1>3, <1>4 DEF ProfilesInv, SoleWriter, OtherActive
  <2> QED BY <2>1, <2>2 DEF ProfilesInv, SoleWriter
<1>13. LatestIsActive'
  BY <1>2, <1>3, <1>4 DEF ProfilesInv, LatestIsActive
<1>14. DeletionsWithTokens'
  BY <1>0 DEF DeletionsWithTokens
<1> QED BY <1>5, <1>6, <1>7, <1>8, <1>9, <1>10, <1>11, <1>12, <1>13, <1>14 DEF ProfilesInv

\* A deadlock is broken by rolling back one of its two transactions.
LEMMA DeadlockStep ==
    ASSUME ProfilesInv, NEW c \in Request, NEW d \in Deletion, BreakDeadlock(c, d)
    PROVE  ProfilesInv'
<1>1. Abort(c) \/ Abort(d)
  BY DEF BreakDeadlock, Deadlock, Abort, Answer
<1>2. ~StartDeletion(d)
  BY DEF BreakDeadlock, Deadlock, StartDeletion
<1> QED BY <1>1, <1>2, UpdateStep, DeletionStep

-----------------------------------------------------------------------------
LEMMA ProfilesInit == Init => ProfilesInv
<1> SUFFICES ASSUME Init PROVE ProfilesInv
  OBVIOUS
<1>1. /\ \A c \in Process : txn[c] = [pc |-> "idle", version |-> 0, target |-> NoRow,
                                      held |-> NoRow, newuser |-> FALSE]
      /\ \A c \in Request : c \in Process /\ profile[c] = "none"
      /\ \A c \in Deletion : c \in Process
      /\ \A u : Rows(u) = {}
  BY DEF Init, Process, Rows
<1>2. TypeOK
  BY <1>1 DEF Init, TypeOK, ProfileState, Txn, Pc
<1>3. KindOfProcess /\ UncommittedAbsent /\ NoGap /\ Predecessors
  BY <1>1 DEF KindOfProcess, UncommittedAbsent, NoGap, Predecessors, Writing
<1>4. RowsHaveUser /\ LockedRows /\ SoleWriter /\ LatestIsActive
  BY <1>1 DEF RowsHaveUser, LockedRows, SoleWriter, LatestIsActive, Writing
<1>5. DeletionsWithTokens
  BY <1>1 DEF DeletionsWithTokens
<1> QED BY <1>2, <1>3, <1>4, <1>5 DEF ProfilesInv

LEMMA ProfilesStep ==
    ASSUME ProfilesInv, [Next /\ UsersStayDeleted]_vars
    PROVE  ProfilesInv'
<1>1. CASE UNCHANGED vars
  BY <1>1 DEF vars, ProfilesInv, TypeOK, DeletionsWithTokens, KindOfProcess, UncommittedAbsent, NoGap,
     Predecessors, RowsHaveUser, LockedRows, SoleWriter, LatestIsActive, Rows, Rivals,
     BeingDeleted, SameVersion, OtherActive
<1>2. ASSUME NEW c \in Request, Commit(c) \/ CommitUnanswered(c)
      PROVE  ProfilesInv'
  BY <1>2, CommitStep DEF Commit, CommitUnanswered
<1>3. ASSUME NEW c \in Request, Authenticate(c) \/ Identify(c) \/ Update(c)
      PROVE  ProfilesInv'
  BY <1>2, <1>3, UpdateStep DEF Update
<1>4. ASSUME NEW d \in Deletion, StartDeletion(d) \/ Delete(d), UsersStayDeleted
      PROVE  ProfilesInv'
  <2>1. StartDeletion(d) => tokenRequired
    BY <1>4 DEF UsersStayDeleted
  <2> QED BY <1>4, <2>1, DeletionStep, CascadeStep DEF Delete
<1>5. ASSUME NEW c \in Process, Abort(c)
      PROVE  ProfilesInv'
  <2>1. ~StartDeletion(c)
    BY <1>5 DEF Abort, StartDeletion
  <2> QED BY <1>5, <2>1, UpdateStep, DeletionStep DEF Process
<1> QED BY <1>1, <1>2, <1>3, <1>4, <1>5, DeadlockStep DEF Next

LEMMA ProfilesInvariant == LastingSpec => []ProfilesInv
<1>1. ProfilesInv /\ [Next /\ UsersStayDeleted]_vars => ProfilesInv'
  BY ProfilesStep
<1> QED BY ProfilesInit, <1>1, PTL DEF LastingSpec

LEMMA TypeStep ==
    ASSUME TypeOK, [Next]_vars
    PROVE  TypeOK'
<1>0. /\ NoRow \notin Request
      /\ \A c \in Request : c \in Process
      /\ \A d \in Deletion : d \in Process
  BY ProfilesAssumption DEF Process
<1>1. ASSUME NEW c \in Process, NEW t \in Txn, txn' = [txn EXCEPT ![c] = t],
             users' \subseteq User, profile' \in [Request -> ProfileState], tokenRequired' \in BOOLEAN,
             t.pc \in {"deactivate", "lockrow", "insert", "reference", "commit", "refresh"}
               => t.version > 0
      PROVE  TypeOK'
  BY <1>1 DEF TypeOK
<1>2. ASSUME NEW c \in Process, NEW where \in Pc, Goto(c, where),
             users' \subseteq User, profile' \in [Request -> ProfileState], tokenRequired' \in BOOLEAN,
             \/ where \in {"find", "adduser", "version", "lockuser", "cascade"} \cup Answer
             \/ txn[c].pc \in {"deactivate", "lockrow", "insert", "reference", "commit"}
      PROVE  TypeOK'
  <2>1. [txn[c] EXCEPT !.pc = where] \in Txn
    BY DEF TypeOK, Txn
  <2> QED BY <1>1, <1>2, <2>1 DEF Goto, TypeOK, Txn, Pc, Answer
<1>3. ASSUME NEW c \in Process, NEW where \in {"refresh"} \cup Answer, End(c, where),
             users' \subseteq User, profile' \in [Request -> ProfileState], tokenRequired' \in BOOLEAN,
             where = "refresh" => txn[c].pc = "commit"
      PROVE  TypeOK'
  <2>1. [txn[c] EXCEPT !.pc = where, !.target = NoRow, !.held = NoRow, !.newuser = FALSE] \in Txn
    BY DEF TypeOK, Txn, Pc, Answer
  <2> QED BY <1>1, <1>3, <2>1 DEF End, TypeOK, Txn, Answer
<1>4. CASE UNCHANGED vars
  BY <1>4 DEF vars, TypeOK
<1>5. ASSUME NEW c \in Request, Authenticate(c) \/ Identify(c) \/ FindUser(c) \/ Refresh(c)
      PROVE  TypeOK'
  BY <1>0, <1>2, <1>5 DEF Authenticate, Identify, FindUser, Refresh, Pc, Answer, TypeOK
<1>6. ASSUME NEW c \in Request, Insert(c) \/ Reference(c)
      PROVE  TypeOK'
  BY <1>0, <1>2, <1>3, <1>6 DEF Insert, Reference, Pc, Answer, TypeOK
<1>7. ASSUME NEW c \in Request, AddUser(c)
      PROVE  TypeOK'
  <2>1. CASE UserOf[c] \in users
    BY <1>0, <1>3, <1>7, <2>1 DEF AddUser, Answer, TypeOK
  <2>2. CASE UserOf[c] \notin users
    <3>1. [txn[c] EXCEPT !.pc = "version", !.newuser = TRUE] \in Txn
      BY <1>0 DEF TypeOK, Txn, Pc
    <3>2. txn' = [txn EXCEPT ![c] = [txn[c] EXCEPT !.pc = "version", !.newuser = TRUE]]
      BY <1>7, <2>2 DEF AddUser
    <3>3. [txn[c] EXCEPT !.pc = "version", !.newuser = TRUE].pc = "version"
      BY <1>0 DEF TypeOK, Txn
    <3>4. /\ users' \subseteq User /\ profile' \in [Request -> ProfileState]
          /\ tokenRequired' \in BOOLEAN
      BY <1>7 DEF AddUser, TypeOK
    <3> QED BY <1>0, <1>1, <3>1, <3>2, <3>3, <3>4
  <2> QED BY <2>1, <2>2
<1>8. ASSUME NEW c \in Request, ReadVersion(c)
      PROVE  TypeOK'
  <2>1. PICK n \in {0} \cup {txn[d].version : d \in Rows(UserOf[c])} :
          txn' = [txn EXCEPT ![c].pc = "deactivate", ![c].version = n + 1]
    BY <1>8 DEF ReadVersion
  <2>2. n \in Nat
    BY <1>0, <2>1 DEF Rows, TypeOK, Txn
  <2>3. n + 1 \in Nat /\ n + 1 > 0
    BY <2>2
  <2>4. [txn[c] EXCEPT !.pc = "deactivate", !.version = n + 1] \in Txn
    BY <1>0, <2>3 DEF TypeOK, Txn, Pc
  <2> QED BY <1>0, <1>1, <1>8, <2>1, <2>3, <2>4 DEF ReadVersion, TypeOK, Txn
<1>9. ASSUME NEW c \in Request, FindActive(c)
      PROVE  TypeOK'
  <2>1. CASE Goto(c, "insert")
    BY <1>0, <1>2, <1>9, <2>1 DEF FindActive, Pc, TypeOK
  <2>2. CASE \E d \in Rows(UserOf[c]) :
               txn' = [txn EXCEPT ![c].pc = "lockrow", ![c].target = d]
    <3>1. PICK d \in Rows(UserOf[c]) :
            txn' = [txn EXCEPT ![c].pc = "lockrow", ![c].target = d]
      BY <2>2
    <3>2. [txn[c] EXCEPT !.pc = "lockrow", !.target = d] \in Txn
      BY <1>0 DEF TypeOK, Txn, Pc, Rows
    <3>3. [txn[c] EXCEPT !.pc = "lockrow", !.target = d].version > 0
      BY <1>0, <1>9 DEF FindActive, TypeOK, Txn
    <3>4. /\ users' \subseteq User /\ profile' \in [Request -> ProfileState]
          /\ tokenRequired' \in BOOLEAN
      BY <1>9 DEF FindActive, TypeOK
    <3>5. txn' = [txn EXCEPT ![c] = [txn[c] EXCEPT !.pc = "lockrow", !.target = d]]
      BY <3>1
    <3> QED BY <1>0, <1>1, <3>2, <3>3, <3>4, <3>5
  <2> QED BY <1>9, <2>1, <2>2 DEF FindActive
<1>10. ASSUME NEW c \in Request, LockRow(c)
       PROVE  TypeOK'
  <2>1. PICK r \in Request \cup {NoRow} :
          txn' = [txn EXCEPT ![c].pc = "insert", ![c].target = NoRow, ![c].held = r]
    BY <1>0, <1>10 DEF LockRow, TypeOK, Txn
  <2>2. [txn[c] EXCEPT !.pc = "insert", !.target = NoRow, !.held = r] \in Txn
    BY <1>0 DEF TypeOK, Txn, Pc
  <2>3. [txn[c] EXCEPT !.pc = "insert", !.target = NoRow, !.held = r].version > 0
    BY <1>0, <1>10 DEF LockRow, TypeOK, Txn
  <2>4. /\ users' \subseteq User /\ profile' \in [Request -> ProfileState]
        /\ tokenRequired' \in BOOLEAN
    BY <1>10 DEF LockRow, TypeOK
  <2>5. txn' = [txn EXCEPT ![c] =
                  [txn[c] EXCEPT !.pc = "insert", !.target = NoRow, !.held = r]]
    BY <2>1
  <2> QED BY <1>0, <1>1, <2>2, <2>3, <2>4, <2>5
<1>11. ASSUME NEW c \in Request, Commit(c) \/ CommitUnanswered(c)
       PROVE  TypeOK'
  <2>1. /\ users' \subseteq User /\ profile' \in [Request -> ProfileState]
        /\ tokenRequired' \in BOOLEAN
    BY <1>0, <1>11, ProfilesAssumption
       DEF Commit, CommitUnanswered, Apply, TypeOK, ProfileState, Process
  <2> QED BY <1>0, <1>3, <1>11, <2>1 DEF Commit, CommitUnanswered, Answer
<1>12. ASSUME NEW d \in Deletion, StartDeletion(d) \/ LockUser(d)
       PROVE  TypeOK'
  BY <1>0, <1>2, <1>12 DEF StartDeletion, LockUser, Pc, Answer, TypeOK
<1>13. ASSUME NEW d \in Deletion, Cascade(d)
       PROVE  TypeOK'
  <2>1. /\ users' \subseteq User /\ profile' \in [Request -> ProfileState]
        /\ tokenRequired' \in BOOLEAN
    BY <1>13 DEF Cascade, TypeOK, ProfileState
  <2> QED BY <1>0, <1>2, <1>13, <2>1 DEF Cascade, Pc, Answer
<1>14. ASSUME NEW c \in Process, NEW where \in Answer, End(c, where), UNCHANGED stored
       PROVE  TypeOK'
  BY <1>3, <1>14 DEF Answer, TypeOK
<1>15. ASSUME NEW c \in Process, Abort(c)
       PROVE  TypeOK'
  BY <1>14, <1>15 DEF Abort, Answer
<1>16. ASSUME NEW c \in Request, NEW d \in Deletion, BreakDeadlock(c, d)
       PROVE  TypeOK'
  BY <1>0, <1>14, <1>16 DEF BreakDeadlock, Answer
<1> QED BY <1>4, <1>5, <1>6, <1>7, <1>8, <1>9, <1>10, <1>11, <1>12, <1>13, <1>15, <1>16
        DEF Next, Update, Delete

\* The variables have their types, whoever asks for whatever, and a
\* transaction that inserts has numbered its row from 1.
THEOREM ProfilesTypeCorrect == Spec => []TypeOK
<1>1. Init => TypeOK
  BY ProfilesInit DEF ProfilesInv
<1> QED BY <1>1, TypeStep, PTL DEF Spec

\* Whatever updates, rollbacks and deletions do concurrently, a user's active
\* profile is the one with the latest version and there is no second one.
THEOREM OneLatestActive == LastingSpec => []LatestIsActive
BY ProfilesInvariant, PTL DEF ProfilesInv

\* A user's versions have no gap: no accepted update is lost, and none has
\* been numbered after an update that was refused.
THEOREM VersionsHaveNoGap == LastingSpec => []NoGap
BY ProfilesInvariant, PTL DEF ProfilesInv

-----------------------------------------------------------------------------
(* The profiles of a user are a history of versions: the view of the       *)
(* abstract specification is a refinement mapping.                         *)

History == [u \in User |-> {<<txn[c].version, c>> : c \in Rows(u)}]

Current == [u \in User |-> {c \in Rows(u) : profile[c] = "active"}]

Accepted == {c \in Request : profile[c] # "none"}

\* A step that leaves the profiles and their versions alone is a stutter of
\* the abstract specification.
LEMMA ViewFrame ==
    ASSUME UNCHANGED profile,
           \A c \in Request : profile[c] # "none" => txn'[c].version = txn[c].version
    PROVE  UNCHANGED <<History, Current, Accepted>>
<1>1. \A u : Rows(u)' = Rows(u)
  BY DEF Rows
<1>2. \A u : \A c \in Rows(u) : txn'[c].version = txn[c].version
  BY DEF Rows
<1>3. History' = History
  BY <1>1, <1>2 DEF History
<1>4. Current' = Current /\ Accepted' = Accepted
  BY <1>1 DEF Current, Accepted
<1> QED BY <1>3, <1>4

\* A transaction about to commit has the number of the user's versions plus 1.
LEMMA NextVersion ==
    ASSUME ProfilesInv, NEW c \in Request, txn[c].pc = "commit"
    PROVE  txn[c].version = Cardinality({<<txn[d].version, d>> : d \in Rows(UserOf[c])}) + 1
<1> DEFINE R == Rows(UserOf[c])
           S == {<<txn[d].version, d>> : d \in R}
           n == txn[c].version - 1
<1>1. /\ txn[c].version \in Nat /\ txn[c].version > 0 /\ n \in Nat
      /\ \A d \in R : d \in Request /\ UserOf[d] = UserOf[c] /\ txn[d].version \in Nat
  <2>1. \A d \in Request : txn[d].version \in Nat
    BY DEF ProfilesInv, TypeOK, Process, Txn
  <2>2. txn[c].version > 0
    BY DEF ProfilesInv, TypeOK, Process
  <2> QED BY <2>1, <2>2 DEF Rows
<1>2. \A k \in 1..n : \E d \in R : txn[d].version = k
  BY DEF ProfilesInv, Predecessors, RowsHaveUser, Writing
<1>3. \A d \in R : txn[d].version \in 1..n
  <2> SUFFICES ASSUME NEW d \in R PROVE txn[d].version \in 1..n
    OBVIOUS
  <2>1. txn[d].version > 0 /\ \A k \in 1..txn[d].version : \E e \in R : txn[e].version = k
    BY <1>1 DEF ProfilesInv, NoGap, Rows
  <2>2. \A e \in R : txn[e].version # txn[c].version
    BY DEF ProfilesInv, SoleWriter, SameVersion, Writing
  <2>3. ~(txn[c].version \in 1..txn[d].version)
    BY <2>1, <2>2
  <2> QED BY <1>1, <2>1, <2>3
<1>4. \A d, e \in R : txn[d].version = txn[e].version => d = e
  <2>1. UserOf[c] \in User
    BY ProfilesAssumption DEF Process
  <2> QED BY <2>1 DEF ProfilesInv, LatestIsActive
<1>5. ExistsBijection(1..n, S)
  <2> DEFINE row(k) == CHOOSE d \in R : txn[d].version = k
             f == [k \in 1..n |-> <<k, row(k)>>]
  <2>1. \A k \in 1..n : row(k) \in R /\ txn[row(k)].version = k
    BY <1>2
  <2>2. \A k \in 1..n : <<k, row(k)>> \in S
    BY <2>1
  <2>3. f \in [1..n -> S]
    BY <2>2
  <2>4. \A j, k \in 1..n : f[j] = f[k] => j = k
    OBVIOUS
  <2>5. \A x \in S : \E k \in 1..n : f[k] = x
    <3> SUFFICES ASSUME NEW x \in S PROVE \E k \in 1..n : f[k] = x
      OBVIOUS
    <3>0. PICK d \in R : x = <<txn[d].version, d>>
      OBVIOUS
    <3>1. txn[d].version \in 1..n
      BY <1>3
    <3>2. row(txn[d].version) = d
      BY <1>4, <2>1, <3>1
    <3> QED BY <3>0, <3>1, <3>2
  <2> HIDE DEF f, S
  <2>6. f \in Bijection(1..n, S)
    BY <2>3, <2>4, <2>5 DEF Bijection, Injection, Surjection, IsInjective
  <2> QED BY <2>6 DEF ExistsBijection
<1>6. Cardinality(S) = n
  <2> HIDE DEF S, n
  <2> QED BY <1>1, <1>5, FS_CountingElements
<1> QED BY <1>1, <1>6

\* A commit appends the next version and makes it current.
LEMMA ViewAccept ==
    ASSUME ProfilesInv, NEW c \in Request, Commit(c) \/ CommitUnanswered(c)
    PROVE  VersionedProfile!Next
<1> DEFINE u == UserOf[c]
<1>0. PICK answer \in {"refresh", "failed"} :
        txn[c].pc = "commit" /\ Apply(c) /\ End(c, answer)
  BY DEF Commit, CommitUnanswered
<1>e. Effect(c, answer)
  BY <1>0, CommitEffect
<1>1. /\ \A d \in Request : txn'[d].version = txn[d].version
      /\ profile[c] = "none" /\ profile'[c] = "active"
      /\ \A d \in Request : d # c =>
           \/ profile'[d] = profile[d] /\ d # txn[c].held
           \/ /\ profile[d] = "active" /\ profile'[d] = "inactive"
              /\ UserOf[d] = UserOf[c] /\ d = txn[c].held
      /\ \A v : Rows(v)' = IF v = u THEN Rows(v) \cup {c} ELSE Rows(v)
  BY <1>e DEF Effect, Process
<1>2. /\ u \in User
      /\ \A v : \A d \in Rows(v) : d \in Request /\ UserOf[d] = v
      /\ \A d \in Rows(u) : profile[d] = "active" => d = txn[c].held
  BY <1>0, ProfilesAssumption DEF Process, Rows, ProfilesInv, SoleWriter, OtherActive, Writing
<1>3. txn[c].version = Cardinality(History[u]) + 1
  BY <1>0, <1>2, NextVersion DEF History
<1>4. c \notin Accepted /\ Accepted' = Accepted \cup {c}
  BY <1>1 DEF Accepted
<1>5. History' = [History EXCEPT ![u] = @ \cup {<<Cardinality(@) + 1, c>>}]
  <2>1. History'[u] = History[u] \cup {<<txn[c].version, c>>}
    BY <1>1, <1>2 DEF History
  <2>2. \A v \in User : v # u => History'[v] = History[v]
    BY <1>1, <1>2 DEF History
  <2>3. /\ History = [v \in User |-> History[v]]
        /\ History' = [v \in User |-> History'[v]]
    BY DEF History
  <2> HIDE DEF u
  <2> QED BY <1>2, <1>3, <2>1, <2>2, <2>3
<1>6. Current' = [Current EXCEPT ![u] = {c}]
  <2>1. Current'[u] = {c}
    BY <1>1, <1>2 DEF Current
  <2>2. \A v \in User : v # u => Current'[v] = Current[v]
    BY <1>1, <1>2 DEF Current
  <2>3. /\ Current = [v \in User |-> Current[v]]
        /\ Current' = [v \in User |-> Current'[v]]
    BY DEF Current
  <2> HIDE DEF u
  <2> QED BY <1>2, <2>1, <2>2, <2>3
<1>7. \A T : VersionedProfile!Cardinality(T) = Cardinality(T)
  BY DEF VersionedProfile!Cardinality, Cardinality
<1>8. VersionedProfile!Accept(u, c)
  BY <1>7, <1>4, <1>5, <1>6 DEF VersionedProfile!Accept, History, Current, Accepted
<1> QED BY <1>2, <1>8 DEF VersionedProfile!Next

\* A cascade erases the history of its user.
LEMMA ViewErase ==
    ASSUME ProfilesInv, NEW d \in Deletion, Cascade(d)
    PROVE  VersionedProfile!Next
<1> DEFINE u == UserOf[d]
<1>1. /\ \A c \in Request : c \in Process /\ c # d
      /\ d \in Process /\ u \in User
  BY ProfilesAssumption DEF Process
<1>2. \A c \in Request : txn'[c].version = txn[c].version
  BY <1>1 DEF Cascade, Goto, ProfilesInv, TypeOK
<1>3. \A c \in Request : profile'[c] = IF c \in Rows(u) THEN "deleted" ELSE profile[c]
  BY DEF Cascade
<1>4. /\ Rows(u)' = {}
      /\ \A v : v # u => Rows(v)' = Rows(v)
      /\ \A v : \A c \in Rows(v) : c \in Request /\ UserOf[c] = v
  BY <1>3 DEF Rows
<1>5. Accepted' = Accepted
  BY <1>3 DEF Accepted, Rows
<1>6. History' = [History EXCEPT ![u] = {}]
  <2>1. History'[u] = {} /\ \A v \in User : v # u => History'[v] = History[v]
    BY <1>1, <1>2, <1>4 DEF History
  <2>2. /\ History = [v \in User |-> History[v]]
        /\ History' = [v \in User |-> History'[v]]
    BY DEF History
  <2> HIDE DEF u
  <2> QED BY <1>1, <2>1, <2>2
<1>7. Current' = [Current EXCEPT ![u] = {}]
  <2>1. Current'[u] = {} /\ \A v \in User : v # u => Current'[v] = Current[v]
    BY <1>1, <1>3, <1>4 DEF Current
  <2>2. /\ Current = [v \in User |-> Current[v]]
        /\ Current' = [v \in User |-> Current'[v]]
    BY DEF Current
  <2> HIDE DEF u
  <2> QED BY <1>1, <2>1, <2>2
<1>8. VersionedProfile!Erase(u)
  BY <1>5, <1>6, <1>7 DEF VersionedProfile!Erase, History, Current, Accepted
<1> QED BY <1>1, <1>8 DEF VersionedProfile!Next

\* Every other step is a stutter: only ReadVersion numbers a transaction, and
\* the profile of that transaction is not there yet.
LEMMA ViewStutter ==
    ASSUME ProfilesInv,
           \/ UNCHANGED vars
           \/ \E c \in Request :
                \/ Authenticate(c) \/ Identify(c) \/ FindUser(c) \/ AddUser(c) \/ ReadVersion(c)
                \/ FindActive(c) \/ LockRow(c) \/ Insert(c) \/ Reference(c) \/ Refresh(c)
           \/ \E d \in Deletion : StartDeletion(d) \/ LockUser(d)
           \/ \E c \in Request, d \in Deletion : BreakDeadlock(c, d)
           \/ \E c \in Process : Abort(c)
    PROVE  UNCHANGED <<History, Current, Accepted>>
<1>0. /\ \A c \in Request : c \in Process
      /\ \A d \in Deletion : d \in Process
      /\ txn \in [Process -> Txn]
  BY DEF ProfilesInv, TypeOK, Process
<1>1. UNCHANGED profile
  BY DEF vars, Authenticate, Identify, FindUser, AddUser, ReadVersion, FindActive, LockRow,
         Insert, Reference, Refresh, StartDeletion, LockUser, BreakDeadlock, Abort
<1>2. ASSUME NEW c \in Process, NEW where \in Pc, Goto(c, where) \/ End(c, where)
      PROVE  \A d \in Request : txn'[d].version = txn[d].version
  BY <1>0, <1>2 DEF Goto, End, Txn
<1>3. ASSUME NEW c \in Request, NEW d \in Request,
             \/ Authenticate(c) \/ Identify(c) \/ FindUser(c) \/ Insert(c) \/ Reference(c)
             \/ Refresh(c)
      PROVE  txn'[d].version = txn[d].version
  BY <1>0, <1>2, <1>3
     DEF Authenticate, Identify, FindUser, Insert, Reference, Refresh, Pc, Answer
<1>4. ASSUME NEW c \in Request, NEW d \in Request, AddUser(c) \/ FindActive(c) \/ LockRow(c)
      PROVE  txn'[d].version = txn[d].version
  <2>1. CASE \E where \in Pc : Goto(c, where) \/ End(c, where)
    BY <1>0, <1>2, <2>1
  <2>2. CASE txn' = [txn EXCEPT ![c].pc = "version", ![c].newuser = TRUE]
    BY <1>0, <2>2 DEF Txn
  <2>3. CASE \E e \in Rows(UserOf[c]) :
               txn' = [txn EXCEPT ![c].pc = "lockrow", ![c].target = e]
    BY <1>0, <2>3 DEF Txn
  <2>4. CASE LockRow(c)
    BY <1>0, <2>4 DEF LockRow, Txn
  <2> QED BY <1>4, <2>1, <2>2, <2>3, <2>4 DEF AddUser, FindActive, Pc, Answer
<1>5. ASSUME NEW c \in Request, NEW d \in Request, profile[d] # "none", ReadVersion(c)
      PROVE  txn'[d].version = txn[d].version
  <2>1. d # c
    BY <1>5 DEF ReadVersion, ProfilesInv, UncommittedAbsent, Answer
  <2> QED BY <1>0, <1>5, <2>1 DEF ReadVersion
<1>6. ASSUME NEW c \in Process, StartDeletion(c) \/ LockUser(c) \/ Abort(c)
      PROVE  \A d \in Request : txn'[d].version = txn[d].version
  BY <1>2, <1>6 DEF StartDeletion, LockUser, Abort, Pc, Answer
<1>7. ASSUME NEW c \in Request, NEW e \in Deletion, BreakDeadlock(c, e)
      PROVE  \A d \in Request : txn'[d].version = txn[d].version
  BY <1>0, <1>2, <1>7 DEF BreakDeadlock, Pc, Answer
<1>8. \A d \in Request : profile[d] # "none" => txn'[d].version = txn[d].version
  BY <1>0, <1>3, <1>4, <1>5, <1>6, <1>7 DEF vars
<1> QED BY <1>1, <1>8, ViewFrame

\* Every step maps to a step of the abstract specification or to a stutter.
LEMMA ViewStep ==
    ASSUME ProfilesInv, [Next /\ UsersStayDeleted]_vars
    PROVE  VersionedProfile!Next \/ UNCHANGED <<History, Current, Accepted>>
<1>1. ASSUME NEW c \in Request,
             Authenticate(c) \/ Identify(c) \/ Update(c) \/ CommitUnanswered(c)
      PROVE  VersionedProfile!Next \/ UNCHANGED <<History, Current, Accepted>>
  BY <1>1, ViewAccept, ViewStutter DEF Update
<1>2. ASSUME NEW d \in Deletion, StartDeletion(d) \/ Delete(d)
      PROVE  VersionedProfile!Next \/ UNCHANGED <<History, Current, Accepted>>
  BY <1>2, ViewErase, ViewStutter DEF Delete
<1>3. CASE \/ UNCHANGED vars
           \/ \E c \in Request, d \in Deletion : BreakDeadlock(c, d)
           \/ \E c \in Process : Abort(c)
  BY <1>3, ViewStutter
<1> QED BY <1>1, <1>2, <1>3 DEF Next

\* If no primary key of a deleted user comes back, the statements of all the
\* requests together implement the plain history of versions: an accepted
\* request adds the next version and makes it current in one step, a
\* deletion erases the history in one step, and nothing else is ever seen.
THEOREM ProfilesAreHistories == LastingSpec => ImplementsVersionedProfile
<1>1. Init => VersionedProfile!Init
  BY DEF Init, VersionedProfile!Init, Rows
<1>2. ProfilesInv /\ [Next /\ UsersStayDeleted]_vars => ProfilesInv'
  BY ProfilesStep
<1>3. ProfilesInv /\ [Next /\ UsersStayDeleted]_vars => [VersionedProfile!Next]_(VersionedProfile!vars)
  BY ViewStep DEF VersionedProfile!vars, History, Current, Accepted
<1> QED BY <1>1, <1>2, <1>3, ProfilesInit, PTL DEF LastingSpec, VersionedProfile!Spec, ImplementsVersionedProfile
=============================================================================
