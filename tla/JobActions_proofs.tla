-------------------------- MODULE JobActions_proofs --------------------------
(***************************************************************************)
(* Theorems about JobActions, for any users, requests, profiles and        *)
(* contents of the job.                                                    *)
(***************************************************************************)
EXTENDS JobActions, TLAPS

-----------------------------------------------------------------------------
(* The inductive invariant.                                                *)

\* What a request is, and holds, where it is.
KindOf(x) ==
    /\ x.pc \in {"job", "profile"} => x.op = "match"
    /\ x.pc = "feedback" => x.op = "feedback"
    /\ x.pc \in {"delivery", "create", "send"} => x.op = "deliver"
    /\ x.op = "match" /\ x.pc = "save" => x.profile \in Profile
    /\ x.op = "deliver" /\ x.pc # "idle" => x.profile \in Profile
    /\ x.op = "deliver" /\ x.pc \in {"send", "save"} => x.found \in Delivery
    /\ x.op = "feedback" /\ x.pc # "idle" => x.data \in Feedback
    /\ x.op = "feedback" /\ x.pc = "save" => x.found \in Feedback \cup {None}

RequestKind == \A r \in Request : KindOf(req[r])

\* Some content that the job has had passes the exclusions of profile p.
Admitted(p) == \E c \in had : Concerns(c, Config[p]) = {}

\* What a match request is about to evaluate.
ReadWasHad ==
    \A r \in Request :
        req[r].op = "match" /\ req[r].pc \in {"profile", "save"} => req[r].content \in had

\* A match that decided to notify evaluated such a content, and only such a
\* match begins a delivery.
NotifiesAdmitted ==
    /\ ReadWasHad
    /\ \A r \in Request :
         match[r] # None /\ match[r].decision = "notify" => Admitted(match[r].profile)
    /\ \A r \in Request : req[r].op = "deliver" /\ UnderWay(r) => Admitted(req[r].profile)
    /\ ExclusionsAbsolute

Gone(p) == Owner[p] \notin users

Delivered(row) == row # None /\ row.status = "delivered"

\* One delivery at a time, and what it has sent is recorded, is about to be,
\* or has gone with the user: only a delivery that has sent nothing sends.
SingleDelivery(p) ==
    /\ \A q, r \in Delivering(p) : q = r
    /\ sent[p] \in {0, 1}
    /\ sent[p] = 1 => \/ Gone(p) \/ Delivered(delivery[p])
                      \/ \E q \in Delivering(p) : req[q].pc = "save"
    /\ \A q \in Delivering(p) :
         /\ req[q].pc = "send" => sent[p] = 0
         /\ req[q].pc \in {"send", "save"} => delivery[p] # None \/ Gone(p)
         /\ req[q].pc = "save" /\ sent[p] = 1 => Delivered(req[q].found)

DeliveriesSingle == \A p \in Profile \ excused : SingleDelivery(p)

\* No other feedback of the user overlaps that of request r or comes after.
Alone(r) ==
    \A q \in Request \ {r} :
        req[q].op = "feedback" /\ req[q].user = req[r].user /\ req[q].pc # "idle"
          => q \in req[r].after

AfterAreOver == \A r \in Request : \A q \in req[r].after : Over(q)

\* What request r has read is stored still, and so is what it has written.
FeedbackOfAlone ==
    \A r \in Request :
        req[r].op = "feedback" /\ req[r].user \in users /\ Alone(r) =>
          /\ req[r].pc = "save" => req[r].found = feedback[req[r].user]
          /\ req[r].pc = "done" => feedback[req[r].user] = req[r].data

JobInv ==
    /\ TypeOK /\ RequestKind /\ NotifiesAdmitted /\ DeliveriesSingle
    /\ AfterAreOver /\ FeedbackOfAlone

-----------------------------------------------------------------------------
(* The initial states.                                                     *)

LEMMA UnreadType ==
    ASSUME Content # {}
    PROVE  Unread \in Content
BY DEF Unread

LEMMA InitInv == Init => JobInv
<1> SUFFICES ASSUME Init PROVE JobInv
  OBVIOUS
<1>1. Unread \in Content /\ (CHOOSE u \in User : TRUE) \in User
  BY UnreadType, JobActionsAssumption DEF Init
<1>2. TypeOK
  <2>1. req \in [Request -> RequestState]
    BY <1>1 DEF Init, RequestState, Answer
  <2> QED BY <2>1, JobActionsAssumption DEF Init, TypeOK
<1>3. RequestKind
  BY DEF Init, RequestKind, KindOf
<1>4. NotifiesAdmitted
  BY DEF Init, NotifiesAdmitted, ReadWasHad, UnderWay, ExclusionsAbsolute
<1>5. DeliveriesSingle
  <2>1. \A p \in Profile : Delivering(p) = {}
    BY DEF Init, Delivering, UnderWay
  <2> QED BY <2>1 DEF Init, DeliveriesSingle, SingleDelivery
<1>6. AfterAreOver /\ FeedbackOfAlone
  BY DEF Init, AfterAreOver, FeedbackOfAlone
<1> QED BY <1>2, <1>3, <1>4, <1>5, <1>6 DEF JobInv

-----------------------------------------------------------------------------
(* Types, and what a request is where.                                     *)

\* Request r becomes e, and no other changes.
Becomes(r, e) ==
    /\ req' = [req EXCEPT ![r] = e]
    /\ e \in RequestState /\ KindOf(e)

LEMMA BecomesType ==
    ASSUME TypeOK, RequestKind, NEW r \in Request, NEW e, Becomes(r, e)
    PROVE  /\ req' \in [Request -> RequestState] /\ RequestKind'
           /\ req'[r] = e /\ \A q \in Request \ {r} : req'[q] = req[q]
BY DEF TypeOK, RequestKind, Becomes

LEMMA RequestType ==
    ASSUME TypeOK, RequestKind, NEW r \in Request
    PROVE  req[r] \in RequestState /\ KindOf(req[r])
BY DEF TypeOK, RequestKind

\* The record of a request that begins, ...
Started(r, op, u, where, p, data) ==
    [req[r] EXCEPT !.op = op, !.pc = where, !.user = u, !.profile = p, !.data = data,
                   !.after = {q \in Request : Over(q)}]

LEMMA BeginBecomes ==
    ASSUME TypeOK, RequestKind, NEW r \in Request,
           NEW op \in {"match", "feedback", "deliver"}, NEW u \in User,
           NEW where \in {"job", "feedback", "delivery", "skipped"},
           NEW p \in Profile \cup {None}, NEW data \in Feedback \cup {None},
           where = "job" => op = "match",
           where = "feedback" => op = "feedback" /\ data \in Feedback,
           where \in {"delivery", "skipped"} => op = "deliver" /\ p \in Profile,
           Begin(r, op, u, where, p, data)
    PROVE  LET e == Started(r, op, u, where, p, data) IN
             /\ Becomes(r, e)
             /\ e.op = op /\ e.pc = where /\ e.user = u /\ e.profile = p /\ e.data = data
             /\ e.after = {q \in Request : Over(q)}
<1> DEFINE e == Started(r, op, u, where, p, data)
<1>1. req[r] \in RequestState
  BY RequestType
<1>2. e \in RequestState
  BY <1>1 DEF RequestState, Answer, Started
<1>3. /\ e.op = op /\ e.pc = where /\ e.user = u /\ e.profile = p /\ e.data = data
      /\ e.after = {q \in Request : Over(q)}
  BY <1>1 DEF RequestState, Started
<1>4. req' = [req EXCEPT ![r] = e]
  BY DEF Begin, Started
<1>5. KindOf(e)
  BY <1>3 DEF KindOf
<1> QED BY <1>2, <1>3, <1>4, <1>5 DEF Becomes

\* ... goes on, ...
Moved(r, where, p, content, found) ==
    [req[r] EXCEPT !.pc = where, !.profile = p, !.content = content, !.found = found]

LEMMA MoveFields ==
    ASSUME TypeOK, RequestKind, NEW r \in Request,
           NEW where, NEW p, NEW content, NEW found
    PROVE  LET e == Moved(r, where, p, content, found) IN
             /\ e.pc = where /\ e.profile = p /\ e.found = found /\ e.content = content
             /\ e.op = req[r].op /\ e.user = req[r].user /\ e.data = req[r].data
             /\ e.after = req[r].after
<1>1. req[r] \in RequestState
  BY RequestType
<1> QED BY <1>1 DEF RequestState, Moved

LEMMA MoveBecomes ==
    ASSUME TypeOK, RequestKind, NEW r \in Request,
           NEW where \in {"profile", "delivery", "create", "send", "save", "done", "failed"},
           NEW p \in Profile \cup {None}, NEW content \in Content,
           NEW found \in Feedback \cup Delivery \cup {None},
           req' = [req EXCEPT ![r] = Moved(r, where, p, content, found)],
           KindOf(Moved(r, where, p, content, found))
    PROVE  Becomes(r, Moved(r, where, p, content, found))
<1>1. req[r] \in RequestState
  BY RequestType
<1>2. Moved(r, where, p, content, found) \in RequestState
  BY <1>1 DEF RequestState, Answer, Moved
<1> QED BY <1>2 DEF Becomes

\* ... or ends.
Ended(r, answer) == Moved(r, answer, req[r].profile, Unread, None)

LEMMA EndBecomes ==
    ASSUME TypeOK, RequestKind, NEW r \in Request, NEW answer \in {"done", "failed"},
           req[r].pc # "idle", End(r, answer)
    PROVE  /\ Becomes(r, Ended(r, answer))
           /\ req'[r].pc = answer /\ req'[r].profile = req[r].profile
           /\ req'[r].op = req[r].op /\ req'[r].user = req[r].user
           /\ req'[r].data = req[r].data /\ req'[r].after = req[r].after
           /\ \A q \in Request \ {r} : req'[q] = req[q]
<1>1. /\ req[r] \in RequestState /\ KindOf(req[r]) /\ Unread \in Content
      /\ req[r].profile \in Profile \cup {None}
  BY RequestType, UnreadType DEF TypeOK, RequestState
<1>2. req' = [req EXCEPT ![r] = Ended(r, answer)]
  BY <1>1 DEF End, TypeOK, RequestState, Moved, Ended
<1>3. LET e == Ended(r, answer) IN
        /\ e.op = req[r].op /\ e.pc = answer /\ e.profile = req[r].profile
        /\ e.data = req[r].data /\ e.user = req[r].user /\ e.after = req[r].after
  BY MoveFields DEF Ended
<1>4. KindOf(Ended(r, answer))
  BY <1>1, <1>3 DEF KindOf
<1>5. Becomes(r, Ended(r, answer))
  BY <1>1, <1>2, <1>4, MoveBecomes DEF Ended
<1> QED BY <1>3, <1>5, BecomesType

\* Request r goes on to pc, which changes nothing of what it is.
Goes(r, pc) ==
    /\ req' \in [Request -> RequestState] /\ RequestKind'
    /\ \A q \in Request \ {r} : req'[q] = req[q]
    /\ req'[r].pc = pc /\ pc # "idle"
    /\ req'[r].op = req[r].op /\ req'[r].user = req[r].user
    /\ req'[r].data = req[r].data /\ req'[r].after = req[r].after
    /\ req[r].op # "match" => req'[r].profile = req[r].profile

LEMMA EndGoes ==
    ASSUME TypeOK, RequestKind, NEW r \in Request, NEW answer \in {"done", "failed"},
           req[r].pc # "idle", End(r, answer)
    PROVE  Goes(r, answer)
BY EndBecomes, BecomesType DEF Goes

LEMMA CommittedGoes ==
    ASSUME TypeOK, RequestKind, NEW r \in Request, req[r].pc # "idle", Committed(r)
    PROVE  Goes(r, "done") \/ Goes(r, "failed")
BY EndGoes DEF Committed

LEMMA MoveGoes ==
    ASSUME TypeOK, RequestKind, NEW r \in Request,
           NEW where \in {"profile", "delivery", "create", "send", "save"},
           NEW p \in Profile \cup {None}, NEW content \in Content,
           NEW found \in Feedback \cup Delivery \cup {None},
           req[r].op # "match" => p = req[r].profile,
           req' = [req EXCEPT ![r] = Moved(r, where, p, content, found)],
           KindOf(Moved(r, where, p, content, found))
    PROVE  Goes(r, where) /\ req'[r] = Moved(r, where, p, content, found)
<1> DEFINE e == Moved(r, where, p, content, found)
<1>1. Becomes(r, e)
  BY MoveBecomes
<1>2. /\ e.pc = where /\ e.profile = p
      /\ e.op = req[r].op /\ e.user = req[r].user /\ e.data = req[r].data
      /\ e.after = req[r].after
  BY MoveFields
<1> HIDE DEF e
<1>3. /\ req' \in [Request -> RequestState] /\ RequestKind'
      /\ req'[r] = e /\ \A q \in Request \ {r} : req'[q] = req[q]
  BY <1>1, BecomesType
<1> QED BY <1>2, <1>3 DEF Goes, e

LEMMA ReadJobGoes ==
    ASSUME TypeOK, RequestKind, NEW r \in Request, ReadJob(r)
    PROVE  Goes(r, "profile")
<1> DEFINE e == Moved(r, "profile", req[r].profile, job, req[r].found)
<1>1. req[r] \in RequestState /\ KindOf(req[r])
  BY RequestType
<1>2. req' = [req EXCEPT ![r] = e]
  BY <1>1 DEF ReadJob, TypeOK, RequestState, Moved
<1>3. e.pc = "profile" /\ e.op = req[r].op
  BY MoveFields
<1>4. e.op = "match"
  BY <1>1, <1>3 DEF KindOf, ReadJob
<1>5. KindOf(e)
  BY <1>3, <1>4 DEF KindOf
<1>6. /\ req[r].profile \in Profile \cup {None} /\ job \in Content
      /\ req[r].found \in Feedback \cup Delivery \cup {None}
  BY <1>1 DEF TypeOK, RequestState
<1> QED BY <1>2, <1>5, <1>6, MoveGoes

LEMMA ReadProfileGoes ==
    ASSUME TypeOK, RequestKind, NEW r \in Request, ReadProfile(r)
    PROVE  /\ Goes(r, "failed") \/ Goes(r, "save")
           /\ req[r].op = "match"
<1>1. req[r] \in RequestState /\ KindOf(req[r])
  BY RequestType
<1>2. req[r].op = "match" /\ req[r].user \in User /\ req[r].pc # "idle"
  BY <1>1 DEF KindOf, ReadProfile, RequestState
<1> DEFINE p == active[req[r].user]
           e == Moved(r, "save", p, req[r].content, req[r].found)
<1>3. CASE p = None
  BY <1>2, <1>3, EndGoes DEF ReadProfile
<1>4. CASE p # None
  <2>1. p \in Profile
    BY <1>2, <1>4 DEF TypeOK
  <2>2. req' = [req EXCEPT ![r] = e]
    BY <1>1, <1>4 DEF ReadProfile, TypeOK, RequestState, Moved
  <2>3. e.pc = "save" /\ e.op = "match" /\ e.profile = p
    BY <1>2, MoveFields
  <2>4. KindOf(e)
    BY <2>1, <2>3 DEF KindOf
  <2>5. req[r].content \in Content /\ req[r].found \in Feedback \cup Delivery \cup {None}
    BY <1>1 DEF RequestState
  <2> QED BY <1>2, <2>1, <2>2, <2>4, <2>5, MoveGoes
<1> QED BY <1>2, <1>3, <1>4

LEMMA ReadFeedbackGoes ==
    ASSUME TypeOK, RequestKind, NEW r \in Request, ReadFeedback(r)
    PROVE  \/ Goes(r, "failed")
           \/ /\ Goes(r, "save") /\ req'[r].found = feedback[req[r].user]
              /\ req[r].user \in users
<1>1. req[r] \in RequestState /\ KindOf(req[r])
  BY RequestType
<1>2. req[r].op = "feedback" /\ req[r].user \in User /\ req[r].pc # "idle"
  BY <1>1 DEF ReadFeedback, RequestState
<1> DEFINE f == feedback[req[r].user]
           e == Moved(r, "save", req[r].profile, req[r].content, f)
<1>3. CASE req[r].user \in users
  <2>1. f \in Feedback \cup {None}
    BY <1>2 DEF TypeOK
  <2>2. req' = [req EXCEPT ![r] = e]
    BY <1>1, <1>3 DEF ReadFeedback, TypeOK, RequestState, Moved
  <2>3. e.pc = "save" /\ e.op = "feedback" /\ e.found = f /\ e.data = req[r].data
    BY <1>2, MoveFields
  <2>4. req[r].data \in Feedback
    BY <1>1, <1>2 DEF KindOf
  <2>5. KindOf(e)
    BY <2>1, <2>3, <2>4 DEF KindOf
  <2>6. /\ req[r].content \in Content /\ req[r].profile \in Profile \cup {None}
        /\ f \in Feedback \cup Delivery \cup {None}
    BY <1>1, <2>1 DEF RequestState
  <2>7. Goes(r, "save") /\ req'[r] = e
    <3> HIDE DEF f
    <3> QED BY <2>2, <2>5, <2>6, MoveGoes
  <2> QED BY <1>3, <2>3, <2>7
<1>4. CASE req[r].user \notin users
  BY <1>2, <1>4, EndGoes DEF ReadFeedback
<1> QED BY <1>3, <1>4

\* A delivery goes on, with the row it has found.
LEMMA DeliveryGoes ==
    ASSUME TypeOK, RequestKind, NEW r \in Request, req[r].op = "deliver",
           req[r].pc \in {"delivery", "create", "send"},
           NEW where \in {"create", "send", "save"}, NEW found \in Feedback \cup Delivery \cup {None},
           where \in {"send", "save"} => found \in Delivery,
           req' = [req EXCEPT ![r] = Moved(r, where, req[r].profile, req[r].content, found)]
    PROVE  Goes(r, where) /\ req'[r].found = found
<1> DEFINE e == Moved(r, where, req[r].profile, req[r].content, found)
<1>1. req[r] \in RequestState /\ KindOf(req[r])
  BY RequestType
<1>2. /\ e.pc = where /\ e.op = "deliver" /\ e.profile = req[r].profile /\ e.found = found
  BY MoveFields
<1>3. req[r].profile \in Profile
  BY <1>1 DEF KindOf
<1>4. KindOf(e)
  BY <1>2, <1>3 DEF KindOf
<1>5. req[r].content \in Content /\ req[r].profile \in Profile \cup {None}
  BY <1>1 DEF RequestState
<1>6. Goes(r, where) /\ req'[r] = e
  <2>1. where \in {"profile", "delivery", "create", "send", "save"}
    OBVIOUS
  <2> QED BY <1>4, <1>5, <2>1, MoveGoes, ZenonT(60)
<1> QED BY <1>2, <1>6

LEMMA FindDeliveryGoes ==
    ASSUME TypeOK, RequestKind, NEW r \in Request, FindDelivery(r)
    PROVE  /\ req[r].op = "deliver" /\ req[r].profile \in Profile
           /\ \/ Goes(r, "done")
              \/ Goes(r, "send") /\ ~Delivered(delivery[req[r].profile])
<1>1. req[r] \in RequestState /\ KindOf(req[r])
  BY RequestType
<1>2. req[r].op = "deliver" /\ req[r].profile \in Profile
  BY <1>1 DEF KindOf, FindDelivery
<1> DEFINE found == delivery[req[r].profile]
<1>3. CASE found.status = "delivered"
  <2>1. End(r, "done") /\ req[r].pc # "idle"
    BY <1>3 DEF FindDelivery
  <2> QED BY <1>2, <2>1, EndGoes
<1>4. CASE found.status # "delivered"
  <2>1. found \in Delivery
    BY <1>2 DEF FindDelivery, TypeOK
  <2>2. req' = [req EXCEPT ![r] = Moved(r, "send", req[r].profile, req[r].content, found)]
    BY <1>1, <1>4 DEF FindDelivery, TypeOK, RequestState, Moved
  <2>3. req[r].pc = "delivery"
    BY DEF FindDelivery
  <2>4. Goes(r, "send")
    <3> HIDE DEF found
    <3> QED BY <1>2, <2>1, <2>2, <2>3, DeliveryGoes
  <2> QED BY <1>2, <1>4, <2>4 DEF Delivered
<1> QED BY <1>3, <1>4

LEMMA MissDeliveryGoes ==
    ASSUME TypeOK, RequestKind, NEW r \in Request, MissDelivery(r)
    PROVE  Goes(r, "create") /\ req[r].op = "deliver" /\ req[r].profile \in Profile
<1>1. req[r] \in RequestState /\ KindOf(req[r])
  BY RequestType
<1>2. req[r].op = "deliver" /\ req[r].profile \in Profile /\ req[r].pc = "delivery"
  BY <1>1 DEF KindOf, MissDelivery
<1>3. req' = [req EXCEPT ![r] = Moved(r, "create", req[r].profile, req[r].content, req[r].found)]
  BY <1>1 DEF MissDelivery, Goto, TypeOK, RequestState, Moved
<1>4. req[r].found \in Feedback \cup Delivery \cup {None}
  BY <1>1 DEF RequestState
<1> QED BY <1>2, <1>3, <1>4, DeliveryGoes

NewDelivery == [status |-> "pending", attempts |-> 0]

LEMMA NewDeliveryType == NewDelivery \in Delivery /\ NewDelivery # None
BY JobActionsAssumption DEF NewDelivery, Delivery, Status

LEMMA CreateDeliveryGoes ==
    ASSUME TypeOK, RequestKind, NEW r \in Request, CreateDelivery(r)
    PROVE  /\ req[r].op = "deliver" /\ req[r].profile \in Profile
           /\ \/ Goes(r, "failed") /\ UNCHANGED delivery
              \/ /\ Goes(r, "failed") \/ Goes(r, "send")
                 /\ req[r].profile \in profiles /\ delivery[req[r].profile] = None
                 /\ delivery' = [delivery EXCEPT ![req[r].profile] = NewDelivery]
<1>1. req[r] \in RequestState /\ KindOf(req[r])
  BY RequestType
<1>2. req[r].op = "deliver" /\ req[r].profile \in Profile /\ req[r].pc = "create"
  BY <1>1 DEF KindOf, CreateDelivery
<1> DEFINE p == req[r].profile
<1>3. CASE ~(p \in profiles /\ delivery[p] = None)
  <2>1. End(r, "failed") /\ UNCHANGED delivery
    BY <1>3 DEF CreateDelivery
  <2> QED BY <1>2, <2>1, EndGoes
<1>4. CASE p \in profiles /\ delivery[p] = None
  <2>1. /\ delivery' = [delivery EXCEPT ![p] = NewDelivery]
        /\ \/ req' = [req EXCEPT ![r].found = NewDelivery, ![r].pc = "send"]
           \/ End(r, "failed")
    BY <1>4 DEF CreateDelivery, NewDelivery
  <2>2. CASE req' = [req EXCEPT ![r].found = NewDelivery, ![r].pc = "send"]
    <3>1. req' = [req EXCEPT ![r] = Moved(r, "send", p, req[r].content, NewDelivery)]
      BY <1>1, <2>2 DEF TypeOK, RequestState, Moved
    <3>2. Goes(r, "send")
      BY <1>2, <3>1, NewDeliveryType, DeliveryGoes
    <3> QED BY <1>2, <1>4, <2>1, <3>2
  <2>3. CASE End(r, "failed")
    BY <1>2, <1>4, <2>1, <2>3, EndGoes
  <2> QED BY <2>1, <2>2, <2>3
<1> QED BY <1>3, <1>4

LEMMA SendGoes ==
    ASSUME TypeOK, RequestKind, NEW r \in Request, Send(r)
    PROVE  /\ req[r].op = "deliver" /\ req[r].profile \in Profile
           /\ Goes(r, "save")
           /\ \/ UNCHANGED <<sent, excused>>
              \/ /\ sent' = [sent EXCEPT ![req[r].profile] = @ + 1]
                 /\ \/ excused' = excused \cup {req[r].profile}
                    \/ excused' = excused /\ Delivered(req'[r].found)
<1>1. req[r] \in RequestState /\ KindOf(req[r])
  BY RequestType
<1>2. req[r].op = "deliver" /\ req[r].profile \in Profile /\ req[r].pc = "send" /\ req[r].found \in Delivery
  BY <1>1 DEF KindOf, Send
<1> DEFINE p == req[r].profile
<1>3. PICK reached \in BOOLEAN, status \in {"delivered", "retryable", "failed"} :
        /\ status = "delivered" => reached
        /\ sent' = IF reached THEN [sent EXCEPT ![p] = @ + 1] ELSE sent
        /\ excused' = IF reached /\ status # "delivered" THEN excused \cup {p} ELSE excused
        /\ req' = [req EXCEPT ![r].pc = "save",
                              ![r].found = [status |-> status, attempts |-> @.attempts + 1]]
  BY DEF Send
<1> DEFINE new == [status |-> status, attempts |-> req[r].found.attempts + 1]
<1>4. new \in Delivery /\ new.status = status
  BY <1>2 DEF Delivery, Status
<1>5. req' = [req EXCEPT ![r] = Moved(r, "save", p, req[r].content, new)]
  BY <1>1, <1>3 DEF TypeOK, RequestState, Moved
<1> HIDE DEF new
<1>6. Goes(r, "save") /\ req'[r].found = new
  BY <1>2, <1>4, <1>5, DeliveryGoes
<1>7. status = "delivered" => Delivered(new)
  BY <1>4, JobActionsAssumption DEF Delivered
<1>8. CASE reached
  BY <1>2, <1>3, <1>6, <1>7, <1>8
<1>9. CASE ~reached
  BY <1>2, <1>3, <1>6, <1>9
<1> QED BY <1>8, <1>9

LEMMA SaveMatchGoes ==
    ASSUME TypeOK, RequestKind, NEW r \in Request, SaveMatch(r)
    PROVE  /\ req[r].op = "match"
           /\ Goes(r, "done") \/ Goes(r, "failed")
           /\ \/ UNCHANGED match
              \/ \E m \in Match :
                   /\ match' = [match EXCEPT ![r] = m]
                   /\ m.profile \in profiles
                   /\ m.decision = "notify" => Concerns(req[r].content, Config[m.profile]) = {}
<1>1. req[r] \in RequestState /\ KindOf(req[r]) /\ req[r].pc # "idle"
  BY RequestType DEF SaveMatch
<1> DEFINE p == req[r].profile
           c == req[r].content
           m == [profile |-> p, decision |-> Evaluate(c, Config[p]).decision]
<1>2. CASE p \notin profiles
  BY <1>1, <1>2, EndGoes DEF SaveMatch
<1>3. CASE p \in profiles
  <2>1. match' = [match EXCEPT ![r] = m] /\ Committed(r)
    BY <1>3 DEF SaveMatch
  <2>2. p \in Profile /\ c \in Content
    BY <1>1, <1>3 DEF TypeOK, RequestState
  <2>3. /\ Evaluate(c, Config[p]).decision \in {"notify", "review", "reject"}
        /\ Evaluate(c, Config[p]).decision = "notify" => Concerns(c, Config[p]) = {}
    BY DEF Evaluate
  <2>4. m \in Match
    BY <2>2, <2>3 DEF Match
  <2>5. m.profile \in profiles /\ (m.decision = "notify" => Concerns(c, Config[m.profile]) = {})
    BY <1>3, <2>2, <2>3
  <2> HIDE DEF m
  <2> QED BY <1>1, <2>1, <2>4, <2>5, CommittedGoes DEF SaveMatch
<1> QED BY <1>2, <1>3

LEMMA UpdateFeedbackGoes ==
    ASSUME TypeOK, RequestKind, NEW r \in Request, UpdateFeedback(r)
    PROVE  LET u == req[r].user IN
           /\ req[r].op = "feedback" /\ u \in User
           /\ \/ Goes(r, "failed") /\ UNCHANGED feedback
              \/ /\ Goes(r, "done") \/ Goes(r, "failed")
                 /\ feedback[u] # None
                 /\ \E row \in Feedback :
                      /\ feedback' = [feedback EXCEPT ![u] = row]
                      /\ req[r].found = feedback[u] => row = req[r].data
<1> DEFINE u == req[r].user
           row == Changed(feedback[u], req[r].found, req[r].data)
<1>1. req[r] \in RequestState /\ KindOf(req[r]) /\ req[r].pc # "idle"
  BY RequestType DEF UpdateFeedback
<1>2. req[r].op = "feedback" /\ u \in User /\ req[r].data \in Feedback
  BY <1>1 DEF UpdateFeedback, KindOf, RequestState
<1>3. CASE feedback[u] = None
  BY <1>1, <1>2, <1>3, EndGoes DEF UpdateFeedback
<1>4. CASE feedback[u] # None
  <2>1. feedback' = [feedback EXCEPT ![u] = row] /\ Committed(r)
    BY <1>4 DEF UpdateFeedback
  <2>2. feedback[u] \in Feedback
    BY <1>2, <1>4 DEF TypeOK
  <2>3. row \in Feedback
    BY <1>2, <2>2 DEF Feedback, Changed
  <2>4. ASSUME req[r].found = feedback[u] PROVE row = req[r].data
    <3>1. row = [label |-> req[r].data.label, note |-> req[r].data.note]
      BY <2>4 DEF Changed
    <3> QED BY <1>2, <3>1 DEF Feedback
  <2> HIDE DEF row
  <2> QED BY <1>1, <1>2, <1>4, <2>1, <2>3, <2>4, CommittedGoes
<1> QED BY <1>3, <1>4

LEMMA InsertFeedbackGoes ==
    ASSUME TypeOK, RequestKind, NEW r \in Request, InsertFeedback(r)
    PROVE  LET u == req[r].user IN
           /\ req[r].op = "feedback" /\ u \in User
           /\ \/ Goes(r, "failed") /\ UNCHANGED feedback
              \/ /\ Goes(r, "done") \/ Goes(r, "failed")
                 /\ u \in users /\ req[r].data \in Feedback
                 /\ feedback' = [feedback EXCEPT ![u] = req[r].data]
<1>1. req[r] \in RequestState /\ KindOf(req[r]) /\ req[r].pc # "idle"
  BY RequestType DEF InsertFeedback
<1>2. req[r].op = "feedback" /\ req[r].user \in User /\ req[r].data \in Feedback
  BY <1>1 DEF InsertFeedback, KindOf, RequestState
<1>3. CASE req[r].user \in users /\ feedback[req[r].user] = None
  BY <1>1, <1>2, <1>3, CommittedGoes DEF InsertFeedback
<1>4. CASE ~(req[r].user \in users /\ feedback[req[r].user] = None)
  BY <1>1, <1>2, <1>4, EndGoes DEF InsertFeedback
<1> QED BY <1>3, <1>4

LEMMA RecordDeliveryGoes ==
    ASSUME TypeOK, RequestKind, NEW r \in Request, RecordDelivery(r)
    PROVE  LET p == req[r].profile IN
           /\ req[r].op = "deliver" /\ p \in Profile
           /\ Goes(r, "done") \/ Goes(r, "failed")
           /\ \/ delivery[p] = None /\ UNCHANGED delivery
              \/ /\ delivery[p] # None /\ req[r].found \in Delivery
                 /\ delivery' = [delivery EXCEPT ![p] = req[r].found]
<1>1. req[r] \in RequestState /\ KindOf(req[r]) /\ req[r].pc # "idle"
  BY RequestType DEF RecordDelivery
<1>2. req[r].op = "deliver" /\ req[r].profile \in Profile /\ req[r].found \in Delivery
  BY <1>1 DEF RecordDelivery, KindOf
<1>3. CASE delivery[req[r].profile] # None
  BY <1>1, <1>2, <1>3, CommittedGoes DEF RecordDelivery
<1>4. CASE delivery[req[r].profile] = None
  BY <1>1, <1>2, <1>4, EndGoes DEF RecordDelivery
<1> QED BY <1>3, <1>4

LEMMA AbortGoes ==
    ASSUME TypeOK, RequestKind, NEW r \in Request, Abort(r)
    PROVE  Goes(r, "failed")
BY EndGoes DEF Abort, UnderWay

\* Request r begins as op, for user u and profile p, and goes to pc.
Starts(r, op, u, pc, p) ==
    /\ req' \in [Request -> RequestState] /\ RequestKind'
    /\ \A q \in Request \ {r} : req'[q] = req[q]
    /\ req[r].pc = "idle"
    /\ req'[r].op = op /\ req'[r].user = u /\ req'[r].pc = pc /\ req'[r].profile = p
    /\ req'[r].after = {q \in Request : Over(q)}

LEMMA StartedStarts ==
    ASSUME TypeOK, RequestKind, NEW r \in Request,
           NEW op \in {"match", "feedback", "deliver"}, NEW u \in User,
           NEW where \in {"job", "feedback", "delivery", "skipped"},
           NEW p \in Profile \cup {None}, NEW data \in Feedback \cup {None},
           where = "job" => op = "match",
           where = "feedback" => op = "feedback" /\ data \in Feedback,
           where \in {"delivery", "skipped"} => op = "deliver" /\ p \in Profile,
           Begin(r, op, u, where, p, data)
    PROVE  Starts(r, op, u, where, p)
<1> DEFINE e == Started(r, op, u, where, p, data)
<1>1. /\ Becomes(r, e)
      /\ e.op = op /\ e.pc = where /\ e.user = u /\ e.profile = p
      /\ e.after = {q \in Request : Over(q)}
  BY BeginBecomes
<1> HIDE DEF e
<1>2. /\ req' \in [Request -> RequestState] /\ RequestKind'
      /\ req'[r] = e /\ \A q \in Request \ {r} : req'[q] = req[q]
  BY <1>1, BecomesType
<1> QED BY <1>1, <1>2 DEF Starts, Begin

LEMMA BeginStarts ==
    ASSUME TypeOK, RequestKind, NEW r \in Request
    PROVE  /\ BeginMatch(r) => \E u \in users : Starts(r, "match", u, "job", None)
           /\ BeginFeedback(r) => \E u \in users : Starts(r, "feedback", u, "feedback", None)
           /\ BeginDeliver(r) => \E m \in Request :
                /\ match[m] # None /\ match[m].profile \in profiles
                /\ LET p == match[m].profile IN
                     /\ \/ match[m].decision = "notify" /\ Starts(r, "deliver", Owner[p], "delivery", p)
                        \/ Starts(r, "deliver", Owner[p], "skipped", p)
                     /\ excused' = IF Delivering(p) # {} THEN excused \cup {p} ELSE excused
<1>1. ASSUME BeginMatch(r) PROVE \E u \in users : Starts(r, "match", u, "job", None)
  <2>1. PICK u \in users : Begin(r, "match", u, "job", None, None)
    BY <1>1 DEF BeginMatch
  <2>2. u \in User
    BY DEF TypeOK
  <2>3. Starts(r, "match", u, "job", None)
    BY <2>1, <2>2, StartedStarts
  <2> QED BY <2>3
<1>2. ASSUME BeginFeedback(r) PROVE \E u \in users : Starts(r, "feedback", u, "feedback", None)
  <2>1. PICK u \in users, data \in Feedback : Begin(r, "feedback", u, "feedback", None, data)
    BY <1>2 DEF BeginFeedback
  <2>2. u \in User
    BY DEF TypeOK
  <2>3. Starts(r, "feedback", u, "feedback", None)
    BY <2>1, <2>2, StartedStarts
  <2> QED BY <2>3
<1>3. ASSUME NEW m \in Request, match[m] # None,
             Begin(r, "deliver", Owner[match[m].profile],
                   IF match[m].decision = "notify" THEN "delivery" ELSE "skipped",
                   match[m].profile, None)
      PROVE  /\ match[m].profile \in profiles
             /\ LET p == match[m].profile IN
                  \/ match[m].decision = "notify" /\ Starts(r, "deliver", Owner[p], "delivery", p)
                  \/ Starts(r, "deliver", Owner[p], "skipped", p)
  <2> DEFINE p == match[m].profile
             where == IF match[m].decision = "notify" THEN "delivery" ELSE "skipped"
  <2>1. p \in profiles /\ p \in Profile /\ Owner[p] \in User
    BY <1>3, JobActionsAssumption DEF TypeOK
  <2>2. where \in {"delivery", "skipped"}
    OBVIOUS
  <2>3. where = "delivery" => match[m].decision = "notify"
    OBVIOUS
  <2>4. Begin(r, "deliver", Owner[p], where, p, None)
    BY <1>3
  <2> HIDE DEF p, where
  <2>5. Starts(r, "deliver", Owner[p], where, p)
    BY <2>1, <2>2, <2>4, StartedStarts
  <2> QED BY <2>1, <2>2, <2>3, <2>5 DEF p
<1> QED BY <1>1, <1>2, <1>3 DEF BeginDeliver

\* A profile of a user who is there, and one that has gone.
LEMMA SaveProfileType ==
    ASSUME TypeOK, RequestKind, NEW p \in Profile, SaveProfile(p)
    PROVE  TypeOK' /\ RequestKind'
<1>1. profiles' = profiles \cup {p} /\ active' = [active EXCEPT ![Owner[p]] = p]
      /\ UNCHANGED <<job, had, users, match, feedback, delivery, req, sent, excused>>
      /\ Owner[p] \in users
  BY DEF SaveProfile, rows, history
<1>2. Owner[p] \in User
  BY JobActionsAssumption
<1> QED BY <1>1, <1>2 DEF TypeOK, RequestKind

LEMMA DeleteUserType ==
    ASSUME TypeOK, RequestKind, NEW u \in User, DeleteUser(u)
    PROVE  TypeOK' /\ RequestKind'
<1> DEFINE gone == {p \in Profile : Owner[p] = u}
<1>1. /\ users' = users \ {u} /\ profiles' = profiles \ gone
      /\ active' = [active EXCEPT ![u] = None]
      /\ match' = [r \in Request |->
                      IF match[r] # None /\ match[r].profile \in gone THEN None ELSE match[r]]
      /\ feedback' = [feedback EXCEPT ![u] = None]
      /\ delivery' = [p \in Profile |-> IF p \in gone THEN None ELSE delivery[p]]
      /\ UNCHANGED <<job, had, req, sent, excused>>
  BY DEF DeleteUser, history
<1>2. profiles' \subseteq Profile /\ \A p \in profiles' : Owner[p] \in users'
  BY <1>1 DEF TypeOK
<1>3. /\ active' \in [User -> profiles' \cup {None}]
      /\ \A v \in User : active'[v] # None => Owner[active'[v]] = v
  <2>1. ASSUME NEW v \in User, v # u
        PROVE  active[v] \in profiles' \cup {None}
    BY <1>1, <2>1 DEF TypeOK
  <2> QED BY <1>1, <2>1 DEF TypeOK
<1>4. /\ match' \in [Request -> Match \cup {None}]
      /\ \A r \in Request : match'[r] # None => match'[r].profile \in profiles'
  BY <1>1 DEF TypeOK
<1>5. /\ feedback' \in [User -> Feedback \cup {None}]
      /\ \A v \in User : feedback'[v] # None => v \in users'
  BY <1>1 DEF TypeOK
<1>6. /\ delivery' \in [Profile -> Delivery \cup {None}]
      /\ \A p \in Profile : delivery'[p] # None => p \in profiles'
  BY <1>1 DEF TypeOK
<1>7. /\ had' \subseteq Content /\ job' \in had' /\ users' \subseteq User /\ req' \in [Request -> RequestState]
      /\ sent' \in [Profile -> Nat] /\ excused' \subseteq Profile
  BY <1>1 DEF TypeOK
<1>8. RequestKind'
  BY <1>1 DEF RequestKind
<1> QED BY <1>2, <1>3, <1>4, <1>5, <1>6, <1>7, <1>8 DEF TypeOK

LEMMA TypeStep ==
    ASSUME TypeOK, RequestKind, [Next]_vars
    PROVE  TypeOK' /\ RequestKind'
<1> USE DEF rows, context, history
<1>1. ASSUME NEW r \in Request, BeginMatch(r) \/ BeginFeedback(r)
      PROVE  TypeOK' /\ RequestKind'
  BY <1>1, BeginStarts DEF BeginMatch, BeginFeedback, Starts, TypeOK
<1>2. ASSUME NEW r \in Request, BeginDeliver(r)
      PROVE  TypeOK' /\ RequestKind'
  <2>1. UNCHANGED <<context, rows, sent>>
    BY <1>2 DEF BeginDeliver
  <2>2. PICK m \in Request :
          /\ match[m].profile \in profiles
          /\ excused' = IF Delivering(match[m].profile) # {} THEN excused \cup {match[m].profile}
                                                           ELSE excused
          /\ req' \in [Request -> RequestState] /\ RequestKind'
    BY <1>2, BeginStarts DEF Starts
  <2> QED BY <2>1, <2>2 DEF TypeOK
<1>3. ASSUME NEW r \in Request, ReadJob(r) \/ ReadProfile(r) \/ ReadFeedback(r)
      PROVE  TypeOK' /\ RequestKind'
  BY <1>3, ReadJobGoes, ReadProfileGoes, ReadFeedbackGoes
     DEF ReadJob, ReadProfile, ReadFeedback, Goes, TypeOK
<1>4. ASSUME NEW r \in Request, SaveMatch(r)
      PROVE  TypeOK' /\ RequestKind'
  <2>1. UNCHANGED <<context, feedback, delivery, history>>
    BY <1>4 DEF SaveMatch
  <2>2. req' \in [Request -> RequestState] /\ RequestKind'
    BY <1>4, SaveMatchGoes DEF Goes
  <2>3. CASE UNCHANGED match
    BY <2>1, <2>2, <2>3 DEF TypeOK
  <2>4. ASSUME NEW m \in Match, match' = [match EXCEPT ![r] = m], m.profile \in profiles
        PROVE  TypeOK'
    BY <2>1, <2>2, <2>4 DEF TypeOK
  <2> QED BY <1>4, <2>2, <2>3, <2>4, SaveMatchGoes
<1>5. ASSUME NEW r \in Request, UpdateFeedback(r)
      PROVE  TypeOK' /\ RequestKind'
  <2>1. UNCHANGED <<context, match, delivery, history>>
    BY <1>5 DEF UpdateFeedback
  <2>2. req' \in [Request -> RequestState] /\ RequestKind' /\ req[r].user \in User
    BY <1>5, UpdateFeedbackGoes DEF Goes
  <2>3. CASE UNCHANGED feedback
    BY <2>1, <2>2, <2>3 DEF TypeOK
  <2>4. ASSUME NEW row \in Feedback, feedback' = [feedback EXCEPT ![req[r].user] = row],
               feedback[req[r].user] # None
        PROVE  TypeOK'
    BY <2>1, <2>2, <2>4 DEF TypeOK
  <2> QED BY <1>5, <2>2, <2>3, <2>4, UpdateFeedbackGoes
<1>6. ASSUME NEW r \in Request, InsertFeedback(r)
      PROVE  TypeOK' /\ RequestKind'
  <2>1. UNCHANGED <<context, match, delivery, history>>
    BY <1>6 DEF InsertFeedback
  <2>2. req' \in [Request -> RequestState] /\ RequestKind' /\ req[r].user \in User
    BY <1>6, InsertFeedbackGoes DEF Goes
  <2>3. CASE UNCHANGED feedback
    BY <2>1, <2>2, <2>3 DEF TypeOK
  <2>4. ASSUME req[r].user \in users, req[r].data \in Feedback,
               feedback' = [feedback EXCEPT ![req[r].user] = req[r].data]
        PROVE  TypeOK'
    BY <2>1, <2>2, <2>4 DEF TypeOK
  <2> QED BY <1>6, <2>2, <2>3, <2>4, InsertFeedbackGoes
<1>7. ASSUME NEW r \in Request, FindDelivery(r) \/ MissDelivery(r)
      PROVE  TypeOK' /\ RequestKind'
  BY <1>7, FindDeliveryGoes, MissDeliveryGoes DEF FindDelivery, MissDelivery, Goes, TypeOK
<1>8. ASSUME NEW r \in Request, CreateDelivery(r)
      PROVE  TypeOK' /\ RequestKind'
  <2>1. UNCHANGED <<context, match, feedback, history>>
    BY <1>8 DEF CreateDelivery
  <2>2. req' \in [Request -> RequestState] /\ RequestKind' /\ req[r].profile \in Profile
    BY <1>8, CreateDeliveryGoes DEF Goes
  <2>3. CASE UNCHANGED delivery
    BY <2>1, <2>2, <2>3 DEF TypeOK
  <2>4. ASSUME req[r].profile \in profiles,
               delivery' = [delivery EXCEPT ![req[r].profile] = NewDelivery]
        PROVE  TypeOK'
    BY <2>1, <2>2, <2>4, NewDeliveryType DEF TypeOK
  <2> QED BY <1>8, <2>2, <2>3, <2>4, CreateDeliveryGoes
<1>9. ASSUME NEW r \in Request, Send(r)
      PROVE  TypeOK' /\ RequestKind'
  <2>1. UNCHANGED <<context, rows>>
    BY <1>9 DEF Send
  <2>2. req' \in [Request -> RequestState] /\ RequestKind' /\ req[r].profile \in Profile
    BY <1>9, SendGoes DEF Goes
  <2>3. sent' \in [Profile -> Nat] /\ excused' \subseteq Profile
    BY <1>9, <2>2, SendGoes DEF TypeOK
  <2> QED BY <2>1, <2>2, <2>3 DEF TypeOK
<1>10. ASSUME NEW r \in Request, RecordDelivery(r)
       PROVE  TypeOK' /\ RequestKind'
  <2>1. UNCHANGED <<context, match, feedback, history>>
    BY <1>10 DEF RecordDelivery
  <2>2. req' \in [Request -> RequestState] /\ RequestKind' /\ req[r].profile \in Profile
    BY <1>10, RecordDeliveryGoes DEF Goes
  <2>3. CASE UNCHANGED delivery
    BY <2>1, <2>2, <2>3 DEF TypeOK
  <2>4. ASSUME delivery[req[r].profile] # None, req[r].found \in Delivery,
               delivery' = [delivery EXCEPT ![req[r].profile] = req[r].found]
        PROVE  TypeOK'
    BY <2>1, <2>2, <2>4 DEF TypeOK
  <2> QED BY <1>10, <2>2, <2>3, <2>4, RecordDeliveryGoes
<1>11. ASSUME NEW r \in Request, Abort(r)
       PROVE  TypeOK' /\ RequestKind'
  <2>1. UNCHANGED <<context, rows, sent>> /\ UnderWay(r)
    BY <1>11 DEF Abort
  <2>2. req' \in [Request -> RequestState] /\ RequestKind'
    BY <1>11, AbortGoes DEF Goes
  <2>3. req[r].op = "deliver" => req[r].profile \in Profile
    BY <2>1 DEF RequestKind, KindOf, UnderWay
  <2>4. excused' \subseteq Profile
    BY <1>11, <2>3 DEF Abort, TypeOK
  <2> QED BY <2>1, <2>2, <2>4 DEF TypeOK
<1>12. CASE UpdateJob
  BY <1>12 DEF UpdateJob, TypeOK, RequestKind
<1>13. CASE UNCHANGED vars
  BY <1>13 DEF vars, TypeOK, RequestKind
<1> QED BY <1>1, <1>2, <1>3, <1>4, <1>5, <1>6, <1>7, <1>8, <1>9, <1>10, <1>11, <1>12, <1>13,
           SaveProfileType, DeleteUserType DEF Next, Step

-----------------------------------------------------------------------------
(* Exclusions.                                                             *)

LEMMA StepGoes ==
    ASSUME TypeOK, RequestKind, NEW r \in Request, Step(r) \/ Abort(r)
    PROVE  UnderWay(r) /\ \E pc : Goes(r, pc)
<1>1. UnderWay(r)
  BY DEF Step, Abort, UnderWay, Over, Answer, ReadJob, ReadProfile, SaveMatch, ReadFeedback,
         UpdateFeedback, InsertFeedback, FindDelivery, MissDelivery, CreateDelivery, Send,
         RecordDelivery
<1>2. \E pc : Goes(r, pc)
  BY ReadJobGoes, ReadProfileGoes, SaveMatchGoes, ReadFeedbackGoes, UpdateFeedbackGoes,
     InsertFeedbackGoes, FindDeliveryGoes, MissDeliveryGoes, CreateDeliveryGoes, SendGoes,
     RecordDeliveryGoes, AbortGoes DEF Step
<1> QED BY <1>1, <1>2

\* A request that is under way was so before, or begins.
LEMMA UnderWayBefore ==
    ASSUME TypeOK, RequestKind, NEW r \in Request, Step(r) \/ Abort(r)
    PROVE  \A q \in Request : (req[q].op = "deliver" /\ UnderWay(q))' =>
             /\ req[q].op = "deliver" /\ UnderWay(q) /\ req'[q].profile = req[q].profile
BY StepGoes DEF Goes, UnderWay, Over

\* The job keeps no content from the history, and no step takes one away.
LEMMA HadGrows ==
    ASSUME TypeOK, [Next]_vars
    PROVE  had \subseteq had' /\ \A p : Admitted(p) => Admitted(p)'
<1>1. had \subseteq had'
  BY DEF Next, vars, context, BeginMatch, BeginFeedback, BeginDeliver, Step, ReadJob, ReadProfile,
         SaveMatch, ReadFeedback, UpdateFeedback, InsertFeedback, FindDelivery, MissDelivery,
         CreateDelivery, Send, RecordDelivery, Abort, UpdateJob, SaveProfile, DeleteUser
<1> QED BY <1>1 DEF Admitted

\* What a match request has read, the job has had.
LEMMA ReadStep ==
    ASSUME TypeOK, RequestKind, ReadWasHad, [Next]_vars
    PROVE  ReadWasHad'
<1>1. had \subseteq had'
  BY HadGrows
<1>2. ASSUME NEW r \in Request, \A q \in Request \ {r} : req'[q] = req[q],
             req'[r].op = "match" /\ req'[r].pc \in {"profile", "save"} => req'[r].content \in had
      PROVE  ReadWasHad'
  BY <1>1, <1>2 DEF ReadWasHad
<1>3. ASSUME NEW r \in Request, BeginMatch(r) \/ BeginFeedback(r) \/ BeginDeliver(r)
      PROVE  ReadWasHad'
  <2>1. req'[r].pc \notin {"profile", "save"} /\ \A q \in Request \ {r} : req'[q] = req[q]
    BY <1>3, BeginStarts DEF Starts
  <2> QED BY <1>2, <2>1
<1>4. ASSUME NEW r \in Request, ReadJob(r)
      PROVE  ReadWasHad'
  <2>1. req'[r].content = job /\ \A q \in Request \ {r} : req'[q] = req[q]
    BY <1>4, RequestType DEF ReadJob, TypeOK, RequestState
  <2>2. job \in had
    BY DEF TypeOK
  <2> QED BY <1>2, <2>1, <2>2
<1>5. ASSUME NEW r \in Request, ReadProfile(r)
      PROVE  ReadWasHad'
  <2>1. req[r].op = "match" /\ req[r].pc = "profile"
    BY <1>5, ReadProfileGoes DEF ReadProfile
  <2>2. req[r].content \in had
    BY <2>1 DEF ReadWasHad
  <2>3. req'[r].pc = "failed" \/ req'[r].content = req[r].content
    BY <1>5, RequestType DEF ReadProfile, End, TypeOK, RequestState
  <2>4. \A q \in Request \ {r} : req'[q] = req[q]
    BY <1>5 DEF ReadProfile, End, TypeOK
  <2> QED BY <1>2, <2>2, <2>3, <2>4
<1>6. ASSUME NEW r \in Request, Step(r) \/ Abort(r), ~ReadJob(r), ~ReadProfile(r)
      PROVE  ReadWasHad'
  <2>1. PICK pc : Goes(r, pc)
    BY <1>6, StepGoes
  <2>2. req[r].op # "match" \/ req'[r].pc \in Answer
    <3>1. CASE SaveMatch(r) \/ Abort(r)
      BY <3>1, SaveMatchGoes, AbortGoes DEF Goes, Answer
    <3>2. CASE ~(SaveMatch(r) \/ Abort(r))
      BY <1>6, <3>2, RequestType
         DEF Step, KindOf, ReadFeedback, UpdateFeedback, InsertFeedback, FindDelivery,
             MissDelivery, CreateDelivery, Send, RecordDelivery
    <3> QED BY <3>1, <3>2
  <2> QED BY <1>2, <2>1, <2>2 DEF Goes, Answer
<1>7. CASE UpdateJob \/ (\E p \in Profile : SaveProfile(p)) \/ (\E u \in User : DeleteUser(u))
           \/ UNCHANGED vars
  <2>1. UNCHANGED req
    BY <1>7 DEF UpdateJob, SaveProfile, DeleteUser, vars
  <2> QED BY <1>1, <2>1 DEF ReadWasHad
<1> QED BY <1>3, <1>4, <1>5, <1>6, <1>7 DEF Next

LEMMA AdmittedStep ==
    ASSUME TypeOK, RequestKind, NotifiesAdmitted, [Next]_vars
    PROVE  NotifiesAdmitted'
<1> USE DEF rows, context, history
<1>0. ReadWasHad' /\ \A p : Admitted(p) => Admitted(p)'
  BY HadGrows, ReadStep DEF NotifiesAdmitted
<1>00. \A p \in Profile : sent[p] > 0 => Admitted(p)
  BY DEF NotifiesAdmitted, ExclusionsAbsolute, Admitted
<1>a. ASSUME \A q \in Request :
               match'[q] # None /\ match'[q].decision = "notify" => Admitted(match'[q].profile)
      PROVE  \A q \in Request : (match[q] # None /\ match[q].decision = "notify"
                                   => Admitted(match[q].profile))'
  BY <1>0, <1>a
<1>b. ASSUME \A q \in Request : (req[q].op = "deliver" /\ UnderWay(q))' => Admitted(req'[q].profile)
      PROVE  \A q \in Request : (req[q].op = "deliver" /\ UnderWay(q) => Admitted(req[q].profile))'
  BY <1>0, <1>b
<1>c. ASSUME \A p \in Profile : sent'[p] > 0 => Admitted(p)
      PROVE  ExclusionsAbsolute'
  <2>1. \A p \in Profile : sent'[p] > 0 => Admitted(p)'
    BY <1>0, <1>c
  <2> QED BY <2>1 DEF ExclusionsAbsolute, Admitted
<1>d. ASSUME \A q \in Request :
               match'[q] # None /\ match'[q].decision = "notify" => Admitted(match'[q].profile),
             \A q \in Request : (req[q].op = "deliver" /\ UnderWay(q))' => Admitted(req'[q].profile),
             \A p \in Profile : sent'[p] > 0 => Admitted(p)
      PROVE  NotifiesAdmitted'
  BY <1>0, <1>a, <1>b, <1>c, <1>d DEF NotifiesAdmitted
<1>1. ASSUME NEW r \in Request, BeginMatch(r) \/ BeginFeedback(r)
      PROVE  NotifiesAdmitted'
  <2>1. UNCHANGED <<match, sent>>
    BY <1>1 DEF BeginMatch, BeginFeedback
  <2>2. req'[r].op # "deliver" /\ \A q \in Request \ {r} : req'[q] = req[q]
    BY <1>1, BeginStarts DEF Starts
  <2>3. \A q \in Request : (req[q].op = "deliver" /\ UnderWay(q))' => Admitted(req'[q].profile)
    BY <2>2 DEF NotifiesAdmitted, UnderWay, Over
  <2> QED BY <1>00, <1>d, <2>1, <2>3 DEF NotifiesAdmitted
<1>2. ASSUME NEW r \in Request, BeginDeliver(r)
      PROVE  NotifiesAdmitted'
  <2>1. UNCHANGED <<match, sent>>
    BY <1>2 DEF BeginDeliver
  <2>2. /\ \A q \in Request \ {r} : req'[q] = req[q]
        /\ UnderWay(r)' => Admitted(req'[r].profile)
    BY <1>2, BeginStarts DEF Starts, UnderWay, Over, Answer, NotifiesAdmitted
  <2>3. \A q \in Request : (req[q].op = "deliver" /\ UnderWay(q))' => Admitted(req'[q].profile)
    BY <2>2 DEF NotifiesAdmitted, UnderWay, Over
  <2> QED BY <1>00, <1>d, <2>1, <2>3 DEF NotifiesAdmitted
<1>3. ASSUME NEW r \in Request, Step(r) \/ Abort(r), ~SaveMatch(r), ~Send(r)
      PROVE  NotifiesAdmitted'
  <2>1. UNCHANGED <<match, sent>>
    BY <1>3 DEF Step, Abort, ReadJob, ReadProfile, ReadFeedback, UpdateFeedback, InsertFeedback,
                FindDelivery, MissDelivery, CreateDelivery, RecordDelivery
  <2>2. \A q \in Request : (req[q].op = "deliver" /\ UnderWay(q))' => Admitted(req'[q].profile)
    BY <1>3, UnderWayBefore DEF NotifiesAdmitted
  <2> QED BY <1>00, <1>d, <2>1, <2>2 DEF NotifiesAdmitted
<1>4. ASSUME NEW r \in Request, SaveMatch(r)
      PROVE  NotifiesAdmitted'
  <2>1. UNCHANGED sent
    BY <1>4 DEF SaveMatch
  <2>2. \A q \in Request :
          match'[q] # None /\ match'[q].decision = "notify" => Admitted(match'[q].profile)
    <3>0. req[r].content \in had
      BY <1>4, SaveMatchGoes DEF SaveMatch, NotifiesAdmitted, ReadWasHad
    <3>1. CASE UNCHANGED match
      BY <3>1 DEF NotifiesAdmitted
    <3>2. ASSUME NEW m \in Match, match' = [match EXCEPT ![r] = m],
                 m.decision = "notify" => Admitted(m.profile)
          PROVE  \A q \in Request :
                   match'[q] # None /\ match'[q].decision = "notify" => Admitted(match'[q].profile)
      BY <3>2 DEF NotifiesAdmitted, TypeOK
    <3> QED BY <1>4, <3>0, <3>1, <3>2, SaveMatchGoes DEF Admitted
  <2>3. \A q \in Request : (req[q].op = "deliver" /\ UnderWay(q))' => Admitted(req'[q].profile)
    BY <1>4, UnderWayBefore DEF Step, NotifiesAdmitted
  <2> QED BY <1>00, <1>d, <2>1, <2>2, <2>3
<1>5. ASSUME NEW r \in Request, Send(r)
      PROVE  NotifiesAdmitted'
  <2>1. UNCHANGED match
    BY <1>5 DEF Send
  <2>2. req[r].op = "deliver" /\ req[r].profile \in Profile /\ UnderWay(r)
    BY <1>5, SendGoes DEF Send, UnderWay, Over, Answer
  <2>3. Admitted(req[r].profile)
    BY <2>2 DEF NotifiesAdmitted
  <2>4. \A p \in Profile : sent'[p] > 0 => Admitted(p)
    <3>1. UNCHANGED sent \/ sent' = [sent EXCEPT ![req[r].profile] = @ + 1]
      BY <1>5, SendGoes
    <3>3. \A p \in Profile : p # req[r].profile => sent'[p] = sent[p]
      BY <3>1 DEF TypeOK
    <3> QED BY <1>00, <2>3, <3>1, <3>3
  <2>5. \A q \in Request : (req[q].op = "deliver" /\ UnderWay(q))' => Admitted(req'[q].profile)
    BY <1>5, UnderWayBefore DEF Step, NotifiesAdmitted
  <2> QED BY <1>d, <2>1, <2>4, <2>5 DEF NotifiesAdmitted
<1>6. CASE UpdateJob \/ \E p \in Profile : SaveProfile(p)
  <2>1. UNCHANGED <<match, sent, req>>
    BY <1>6 DEF UpdateJob, SaveProfile
  <2> QED BY <1>00, <1>d, <2>1 DEF NotifiesAdmitted, UnderWay, Over
<1>7. ASSUME NEW u \in User, DeleteUser(u)
      PROVE  NotifiesAdmitted'
  <2>1. UNCHANGED <<req, sent>> /\ \A q \in Request : match'[q] \in {match[q], None}
    BY <1>7 DEF DeleteUser
  <2>2. \A q \in Request :
          match'[q] # None /\ match'[q].decision = "notify" => Admitted(match'[q].profile)
    BY <2>1 DEF NotifiesAdmitted
  <2> QED BY <1>00, <1>d, <2>1, <2>2 DEF NotifiesAdmitted, UnderWay, Over
<1>8. CASE UNCHANGED vars
  BY <1>00, <1>8, <1>d DEF vars, NotifiesAdmitted, UnderWay, Over
<1> QED BY <1>1, <1>2, <1>3, <1>4, <1>5, <1>6, <1>7, <1>8 DEF Next

-----------------------------------------------------------------------------
(* Feedback.                                                               *)

LEMMA AfterStep ==
    ASSUME TypeOK, RequestKind, AfterAreOver, [Next]_vars
    PROVE  AfterAreOver'
<1>1. ASSUME NEW r \in Request, BeginMatch(r) \/ BeginFeedback(r) \/ BeginDeliver(r)
      PROVE  AfterAreOver'
  <2>1. PICK op, u, pc, p : Starts(r, op, u, pc, p)
    BY <1>1, BeginStarts
  <2>2. ~Over(r) /\ r \notin {q \in Request : Over(q)}
    BY <2>1 DEF Starts, Over, Answer
  <2>3. \A q \in Request : Over(q) => Over(q)'
    BY <2>1, <2>2 DEF Starts, Over
  <2>4. \A q \in Request : req[q].after \subseteq Request
    BY DEF TypeOK, RequestState
  <2> QED BY <2>1, <2>3, <2>4 DEF AfterAreOver, Starts
<1>2. ASSUME NEW r \in Request, Step(r) \/ Abort(r)
      PROVE  AfterAreOver'
  <2>1. PICK pc : Goes(r, pc)
    BY <1>2, StepGoes
  <2>2. ~Over(r)
    BY <1>2, StepGoes DEF UnderWay
  <2>3. \A q \in Request : Over(q) => Over(q)'
    BY <2>1, <2>2 DEF Goes, Over
  <2>4. \A q \in Request : req[q].after \subseteq Request /\ req'[q].after = req[q].after
    BY <2>1 DEF TypeOK, RequestState, Goes
  <2> QED BY <2>3, <2>4 DEF AfterAreOver
<1>3. CASE UNCHANGED req
  BY <1>3 DEF AfterAreOver, Over
<1> QED BY <1>1, <1>2, <1>3 DEF Next, vars, UpdateJob, SaveProfile, DeleteUser

\* Who is alone was so before.
LEMMA AloneBefore ==
    ASSUME TypeOK, RequestKind, NEW r \in Request, Step(r) \/ Abort(r), NEW q \in Request
    PROVE  Alone(q)' => Alone(q)
<1>1. PICK pc : Goes(r, pc)
  BY StepGoes
<1> QED BY <1>1 DEF Alone, Goes

\* A step of request r that leaves the feedback of request q alone, or does
\* not matter for it.
LEMMA OthersFeedback ==
    ASSUME TypeOK, RequestKind, FeedbackOfAlone, NEW r \in Request, Step(r) \/ Abort(r),
           UNCHANGED users, NEW q \in Request \ {r},
           feedback'[req[q].user] = feedback[req[q].user],
           (req[q].op = "feedback" /\ req[q].user \in users /\ Alone(q))'
    PROVE  /\ req'[q].pc = "save" => req'[q].found = feedback'[req'[q].user]
           /\ req'[q].pc = "done" => feedback'[req'[q].user] = req'[q].data
<1>1. Alone(q) /\ req'[q] = req[q]
  BY AloneBefore, StepGoes DEF Goes
<1> QED BY <1>1 DEF FeedbackOfAlone

\* Request r writes the feedback of its user.
LEMMA WriterFeedback ==
    ASSUME TypeOK, RequestKind, AfterAreOver, FeedbackOfAlone, NEW r \in Request,
           UpdateFeedback(r) \/ InsertFeedback(r)
    PROVE  FeedbackOfAlone'
<1>1. Step(r) /\ UnderWay(r) /\ UNCHANGED users
  BY DEF Step, UpdateFeedback, InsertFeedback, UnderWay, Over, Answer, context
<1>2. req[r].op = "feedback" /\ req[r].user \in User /\ req[r].pc = "save"
  BY UpdateFeedbackGoes, InsertFeedbackGoes DEF UpdateFeedback, InsertFeedback
<1> DEFINE u == req[r].user
<1>3. \A v \in User \ {u} : feedback'[v] = feedback[v]
  BY <1>2, UpdateFeedbackGoes, InsertFeedbackGoes DEF TypeOK
<1>4. \A q \in Request : req[q].user \in User
  BY DEF TypeOK, RequestState
<1>5. ASSUME NEW q \in Request \ {r}, (req[q].op = "feedback" /\ Alone(q))'
      PROVE  req[q].user # u
  <2>1. req'[q] = req[q] /\ req[q].op = "feedback" /\ Alone(q)
    BY <1>1, <1>5, AloneBefore, StepGoes DEF Goes
  <2> QED BY <1>1, <1>2, <2>1 DEF Alone, AfterAreOver, UnderWay
<1>6. ASSUME NEW q \in Request \ {r}, (req[q].op = "feedback" /\ req[q].user \in users /\ Alone(q))'
      PROVE  /\ req'[q].pc = "save" => req'[q].found = feedback'[req'[q].user]
             /\ req'[q].pc = "done" => feedback'[req'[q].user] = req'[q].data
  BY <1>1, <1>3, <1>4, <1>5, <1>6, OthersFeedback
<1>7. ASSUME (req[r].op = "feedback" /\ req[r].user \in users /\ Alone(r))'
      PROVE  /\ req'[r].pc # "save"
             /\ req'[r].pc = "done" => feedback'[req'[r].user] = req'[r].data
  <2>1. Alone(r)
    BY <1>1, <1>7, AloneBefore
  <2>2. /\ Goes(r, "done") \/ Goes(r, "failed")
        /\ req'[r].user = u /\ req'[r].data = req[r].data
    BY UpdateFeedbackGoes, InsertFeedbackGoes DEF Goes
  <2>3. u \in users
    BY <1>1, <1>7, <2>2
  <2>4. req[r].found = feedback[u]
    BY <1>2, <2>1, <2>3 DEF FeedbackOfAlone
  <2>5. feedback'[u] = req[r].data \/ Goes(r, "failed")
    BY <1>2, <2>4, UpdateFeedbackGoes, InsertFeedbackGoes DEF TypeOK
  <2> QED BY <2>2, <2>5 DEF Goes
<1> QED BY <1>6, <1>7 DEF FeedbackOfAlone

LEMMA FeedbackStep ==
    ASSUME TypeOK, RequestKind, AfterAreOver, FeedbackOfAlone, [Next]_vars
    PROVE  FeedbackOfAlone'
<1> USE DEF rows, context, history
<1>1. ASSUME NEW r \in Request, BeginMatch(r) \/ BeginFeedback(r) \/ BeginDeliver(r)
      PROVE  FeedbackOfAlone'
  <2>1. PICK op, u, pc, p : Starts(r, op, u, pc, p) /\ pc \notin {"save", "done"}
    BY <1>1, BeginStarts
  <2>2. UNCHANGED <<feedback, users>>
    BY <1>1 DEF BeginMatch, BeginFeedback, BeginDeliver
  <2>3. \A q \in Request \ {r} : Alone(q)' => Alone(q)
    BY <2>1 DEF Starts, Alone
  <2> QED BY <2>1, <2>2, <2>3 DEF Starts, FeedbackOfAlone
<1>2. ASSUME NEW r \in Request, Step(r) \/ Abort(r), ~UpdateFeedback(r), ~InsertFeedback(r)
      PROVE  FeedbackOfAlone'
  <2>1. UNCHANGED <<feedback, users>>
    BY <1>2 DEF Step, Abort, ReadJob, ReadProfile, SaveMatch, ReadFeedback, FindDelivery,
       MissDelivery, CreateDelivery, Send, RecordDelivery
  <2>2. ASSUME NEW q \in Request \ {r},
               (req[q].op = "feedback" /\ req[q].user \in users /\ Alone(q))'
        PROVE  /\ req'[q].pc = "save" => req'[q].found = feedback'[req'[q].user]
               /\ req'[q].pc = "done" => feedback'[req'[q].user] = req'[q].data
    BY <1>2, <2>1, <2>2, OthersFeedback
  <2>3. ASSUME req'[r].op = "feedback"
        PROVE  /\ req'[r].pc = "save" => req'[r].found = feedback'[req'[r].user]
               /\ req'[r].pc # "done"
    <3>1. ReadFeedback(r) \/ Abort(r)
      <4>1. req[r].op = "feedback"
        BY <1>2, <2>3, StepGoes DEF Goes
      <4> QED BY <1>2, <4>1, ReadProfileGoes, SaveMatchGoes, FindDeliveryGoes, MissDeliveryGoes,
              CreateDeliveryGoes, SendGoes, RecordDeliveryGoes
              DEF Step, ReadJob, RequestKind, KindOf
    <3> QED BY <2>1, <3>1, ReadFeedbackGoes, AbortGoes DEF Goes
  <2> QED BY <2>2, <2>3 DEF FeedbackOfAlone
<1>3. ASSUME NEW u \in User, DeleteUser(u)
      PROVE  FeedbackOfAlone'
  <2>1. /\ UNCHANGED req /\ users' = users \ {u}
        /\ \A v \in User \ {u} : feedback'[v] = feedback[v]
    BY <1>3 DEF DeleteUser, TypeOK
  <2>2. users \subseteq User
    BY DEF TypeOK
  <2> QED BY <2>1, <2>2 DEF FeedbackOfAlone, Alone
<1>4. CASE UpdateJob \/ (\E p \in Profile : SaveProfile(p)) \/ UNCHANGED vars
  <2>1. UNCHANGED <<req, users, feedback>>
    BY <1>4 DEF UpdateJob, SaveProfile, vars
  <2> QED BY <2>1 DEF FeedbackOfAlone, Alone
<1> QED BY <1>1, <1>2, <1>3, <1>4, WriterFeedback DEF Next

-----------------------------------------------------------------------------
(* Deliveries.                                                             *)

\* A step that does nothing to the deliveries of profile p, ...
SameDelivery(p) ==
    /\ Delivering(p)' = Delivering(p) /\ \A q \in Delivering(p) : req'[q] = req[q]
    /\ sent'[p] = sent[p] /\ delivery'[p] = delivery[p]
    /\ users' \subseteq users

LEMMA SameSingle ==
    ASSUME NEW p \in Profile, SingleDelivery(p), SameDelivery(p)
    PROVE  SingleDelivery(p)'
BY DEF SameDelivery, SingleDelivery, Gone, Delivered

\* ... as no step of a request does that is not about it.
LEMMA OtherDelivery ==
    ASSUME TypeOK, RequestKind, NEW r \in Request, Step(r) \/ Abort(r),
           NEW p \in Profile, ~(req[r].op = "deliver" /\ req[r].profile = p)
    PROVE  SameDelivery(p) /\ (p \in excused => p \in excused')
<1> USE DEF rows, context, history
<1>1. PICK pc : Goes(r, pc)
  BY StepGoes
<1>2. Delivering(p)' = Delivering(p) /\ \A q \in Delivering(p) : req'[q] = req[q]
  BY <1>1 DEF Goes, Delivering, UnderWay, Over
<1>3. UNCHANGED users
  BY DEF Step, Abort, ReadJob, ReadProfile, SaveMatch, ReadFeedback, UpdateFeedback,
     InsertFeedback, FindDelivery, MissDelivery, CreateDelivery, Send, RecordDelivery
<1>4. CASE ~CreateDelivery(r) /\ ~Send(r) /\ ~RecordDelivery(r)
  BY <1>2, <1>3, <1>4 DEF SameDelivery, Step, Abort, ReadJob, ReadProfile, SaveMatch, ReadFeedback,
     UpdateFeedback, InsertFeedback, FindDelivery, MissDelivery
<1>5. CASE CreateDelivery(r)
  <2>1. req[r].profile # p /\ UNCHANGED <<sent, excused>>
    BY <1>5, CreateDeliveryGoes DEF CreateDelivery
  <2>2. delivery'[p] = delivery[p]
    BY <1>5, <2>1, CreateDeliveryGoes DEF TypeOK
  <2> QED BY <1>2, <1>3, <2>1, <2>2 DEF SameDelivery
<1>6. CASE Send(r)
  <2>1. req[r].profile # p /\ UNCHANGED delivery
    BY <1>6, SendGoes DEF Send
  <2>2. sent'[p] = sent[p] /\ (p \in excused => p \in excused')
    BY <1>6, <2>1, SendGoes DEF TypeOK
  <2> QED BY <1>2, <1>3, <2>1, <2>2 DEF SameDelivery
<1>7. CASE RecordDelivery(r)
  <2>1. req[r].profile # p /\ UNCHANGED <<sent, excused>>
    BY <1>7, RecordDeliveryGoes DEF RecordDelivery
  <2>2. delivery'[p] = delivery[p]
    BY <1>7, <2>1, RecordDeliveryGoes DEF TypeOK
  <2> QED BY <1>2, <1>3, <2>1, <2>2 DEF SameDelivery
<1> QED BY <1>4, <1>5, <1>6, <1>7

\* Request r delivers for profile p, alone: what it does to p.
Delivers(r, p) ==
    /\ req[r].op = "deliver" /\ req[r].profile = p /\ UnderWay(r)
    /\ SingleDelivery(p)

LEMMA OnlyDelivery ==
    ASSUME TypeOK, RequestKind, NEW p \in Profile, NEW r \in Request, Delivers(r, p),
           NEW pc, Goes(r, pc)
    PROVE  /\ Delivering(p) = {r}
           /\ Delivering(p)' = IF pc \in Answer THEN {} ELSE {r}
<1>1. Delivering(p) = {r}
  BY DEF Delivers, SingleDelivery, Delivering
<1>2. \A q \in Request : q \in Delivering(p)' <=> q = r /\ pc \notin Answer
  BY <1>1 DEF Goes, Delivers, Delivering, UnderWay, Over
<1>3. Delivering(p)' \subseteq Request
  BY DEF Delivering
<1> QED BY <1>1, <1>2, <1>3

\* It ends, and what was sent is recorded, or the user is gone.
LEMMA DeliveryEnds ==
    ASSUME TypeOK, RequestKind, NEW p \in Profile, NEW r \in Request, Delivers(r, p),
           NEW pc \in Answer, Goes(r, pc),
           UNCHANGED sent, UNCHANGED users,
           sent[p] = 1 => Gone(p) \/ Delivered(delivery'[p])
    PROVE  SingleDelivery(p)'
<1>1. Delivering(p)' = {}
  BY OnlyDelivery
<1> QED BY <1>1 DEF SingleDelivery, Delivers, Gone

\* It goes on.
LEMMA DeliveryGoesOn ==
    ASSUME TypeOK, RequestKind, NEW p \in Profile, NEW r \in Request, Delivers(r, p),
           NEW pc \in {"create", "send", "save"}, Goes(r, pc),
           UNCHANGED users, sent'[p] \in {0, 1},
           pc \in {"create", "send"} /\ sent'[p] = 1 => Gone(p) \/ Delivered(delivery'[p]),
           pc = "send" => sent'[p] = 0,
           pc \in {"send", "save"} => delivery'[p] # None \/ Gone(p),
           pc = "save" /\ sent'[p] = 1 => Delivered(req'[r].found)
    PROVE  SingleDelivery(p)'
<1>1. Delivering(p)' = {r} /\ req'[r].pc = pc
  BY OnlyDelivery DEF Answer, Goes
<1> QED BY <1>1 DEF SingleDelivery, Gone, Delivered

LEMMA DeliveryStep ==
    ASSUME TypeOK, RequestKind, NEW p \in Profile, NEW r \in Request, Delivers(r, p),
           Step(r) \/ Abort(r), p \notin excused'
    PROVE  SingleDelivery(p)'
<1> USE DEF rows, context, history
<1>1. /\ req[r].profile = p /\ req[r].op = "deliver" /\ r \in Delivering(p)
      /\ sent[p] \in {0, 1}
  BY DEF Delivers, Delivering, SingleDelivery
<1>2. Delivering(p) = {r}
  BY <1>1 DEF Delivers, SingleDelivery, Delivering
<1>3. req[r].pc # "save" /\ sent[p] = 1 => Gone(p) \/ Delivered(delivery[p])
  BY <1>2 DEF Delivers, SingleDelivery
<1>4. delivery[p] # None => ~Gone(p)
  BY DEF TypeOK, Gone
<1>5. CASE FindDelivery(r)
  <2>1. UNCHANGED <<users, sent, delivery>> /\ req[r].pc # "save" /\ delivery[p] # None
    BY <1>1, <1>5 DEF FindDelivery
  <2>2. CASE Goes(r, "done")
    BY <1>3, <2>1, <2>2, DeliveryEnds DEF Answer
  <2>3. CASE Goes(r, "send") /\ ~Delivered(delivery[p])
    <3>1. sent[p] = 0
      BY <1>1, <1>3, <1>4, <2>1, <2>3
    <3> QED BY <2>1, <2>3, <3>1, DeliveryGoesOn
  <2> QED BY <1>1, <1>5, <2>2, <2>3, FindDeliveryGoes
<1>6. CASE MissDelivery(r)
  <2>1. UNCHANGED <<users, sent, delivery>> /\ req[r].pc # "save"
    BY <1>6 DEF MissDelivery
  <2>2. Goes(r, "create")
    BY <1>6, MissDeliveryGoes
  <2> QED BY <1>1, <1>3, <2>1, <2>2, DeliveryGoesOn
<1>7. CASE CreateDelivery(r)
  <2>1. UNCHANGED <<users, profiles, sent>> /\ req[r].pc # "save"
    BY <1>7 DEF CreateDelivery
  <2>2. CASE Goes(r, "failed") /\ UNCHANGED delivery
    BY <1>3, <2>1, <2>2, DeliveryEnds DEF Answer
  <2>3. CASE /\ Goes(r, "failed") \/ Goes(r, "send")
             /\ p \in profiles /\ delivery[p] = None
             /\ delivery' = [delivery EXCEPT ![p] = NewDelivery]
    <3>1. ~Gone(p) /\ ~Delivered(delivery[p])
      BY <2>3 DEF TypeOK, Gone, Delivered
    <3>2. sent[p] = 0
      BY <1>1, <1>3, <2>1, <3>1
    <3>3. delivery'[p] # None
      BY <2>3, NewDeliveryType DEF TypeOK
    <3> QED BY <2>1, <2>3, <3>2, <3>3, DeliveryEnds, DeliveryGoesOn DEF Answer
  <2> QED BY <1>1, <1>7, <2>2, <2>3, CreateDeliveryGoes
<1>8. CASE Send(r)
  <2>1. UNCHANGED <<users, delivery>> /\ req[r].pc = "send"
    BY <1>8 DEF Send
  <2>2. sent[p] = 0 /\ (delivery[p] # None \/ Gone(p))
    BY <1>1, <2>1 DEF Delivers, SingleDelivery
  <2>3. Goes(r, "save")
    BY <1>8, SendGoes
  <2>4. sent'[p] = 0 \/ (sent'[p] = 1 /\ Delivered(req'[r].found))
    BY <1>1, <1>8, <2>2, SendGoes DEF TypeOK
  <2> QED BY <2>1, <2>2, <2>3, <2>4, DeliveryGoesOn
<1>9. CASE RecordDelivery(r)
  <2>1. UNCHANGED <<users, sent>> /\ req[r].pc = "save"
    BY <1>9 DEF RecordDelivery
  <2>2. /\ delivery[p] # None \/ Gone(p)
        /\ sent[p] = 1 => Delivered(req[r].found)
    BY <1>1, <2>1 DEF Delivers, SingleDelivery
  <2>3. sent[p] = 1 => Gone(p) \/ Delivered(delivery'[p])
    BY <1>1, <1>9, <2>2, RecordDeliveryGoes DEF TypeOK
  <2> QED BY <1>9, <2>1, <2>3, RecordDeliveryGoes, DeliveryEnds DEF Answer
<1>10. CASE Abort(r)
  <2>1. UNCHANGED <<users, sent, delivery>>
    BY <1>10 DEF Abort
  <2>2. req[r].pc # "save"
    BY <1>1, <1>10 DEF Abort
  <2> QED BY <1>3, <1>10, <2>1, <2>2, AbortGoes, DeliveryEnds DEF Answer
<1>11. ASSUME ReadJob(r) \/ ReadProfile(r) \/ SaveMatch(r) \/ ReadFeedback(r)
                \/ UpdateFeedback(r) \/ InsertFeedback(r)
       PROVE  FALSE
  BY <1>1, <1>11 DEF ReadJob, ReadProfile, SaveMatch, ReadFeedback, UpdateFeedback, InsertFeedback,
                     RequestKind, KindOf
<1> QED BY <1>5, <1>6, <1>7, <1>8, <1>9, <1>10, <1>11 DEF Step

LEMMA SingleStep ==
    ASSUME TypeOK, RequestKind, DeliveriesSingle, [Next]_vars
    PROVE  DeliveriesSingle'
<1> SUFFICES ASSUME NEW p \in Profile, p \notin excused'
             PROVE  SingleDelivery(p)'
  BY DEF DeliveriesSingle
<1> USE DEF rows, context, history
<1>1. ASSUME NEW r \in Request, BeginMatch(r) \/ BeginFeedback(r)
      PROVE  SingleDelivery(p)'
  <2>1. PICK op, u, pc, q : Starts(r, op, u, pc, q) /\ op # "deliver"
    BY <1>1, BeginStarts
  <2>2. UNCHANGED <<users, sent, delivery, excused>>
    BY <1>1 DEF BeginMatch, BeginFeedback
  <2>3. SameDelivery(p)
    BY <2>1, <2>2 DEF SameDelivery, Starts, Delivering, UnderWay, Over
  <2> QED BY <2>2, <2>3, SameSingle DEF DeliveriesSingle
<1>2. ASSUME NEW r \in Request, BeginDeliver(r)
      PROVE  SingleDelivery(p)'
  <2>1. UNCHANGED <<users, sent, delivery>>
    BY <1>2 DEF BeginDeliver
  <2>2. PICK q, u, pc :
          /\ Starts(r, "deliver", u, pc, q) /\ pc \in {"delivery", "skipped"}
          /\ excused' = IF Delivering(q) # {} THEN excused \cup {q} ELSE excused
    <3>1. PICK m \in Request :
            LET o == match[m].profile IN
              /\ \/ Starts(r, "deliver", Owner[o], "delivery", o)
                 \/ Starts(r, "deliver", Owner[o], "skipped", o)
              /\ excused' = IF Delivering(o) # {} THEN excused \cup {o} ELSE excused
      BY <1>2, BeginStarts
    <3> QED BY <3>1
  <2>3. SingleDelivery(p)
    BY <2>2 DEF DeliveriesSingle
  <2>4. CASE q # p
    <3>1. SameDelivery(p)
      BY <2>1, <2>2, <2>4 DEF SameDelivery, Starts, Delivering, UnderWay, Over
    <3> QED BY <2>3, <3>1, SameSingle
  <2>5. CASE q = p
    <3>1. Delivering(p) = {}
      BY <2>2, <2>5
    <3>2. \A o \in Delivering(p)' : o = r /\ req'[o].pc = pc
      BY <2>2, <3>1 DEF Starts, Delivering, UnderWay, Over
    <3> QED BY <2>1, <2>2, <2>3, <3>1, <3>2 DEF SingleDelivery, Gone, Delivered
  <2> QED BY <2>4, <2>5
<1>3. ASSUME NEW r \in Request, Step(r) \/ Abort(r)
      PROVE  SingleDelivery(p)'
  <2>1. CASE req[r].op = "deliver" /\ req[r].profile = p
    <3>1. p \notin excused
      BY <1>3, <2>1 DEF Step, Abort, ReadJob, ReadProfile, SaveMatch, ReadFeedback, UpdateFeedback,
         InsertFeedback, FindDelivery, MissDelivery, CreateDelivery, Send, RecordDelivery
    <3>2. Delivers(r, p)
      BY <1>3, <2>1, <3>1, StepGoes DEF Delivers, DeliveriesSingle
    <3> QED BY <1>3, <3>2, DeliveryStep
  <2>2. CASE ~(req[r].op = "deliver" /\ req[r].profile = p)
    BY <1>3, <2>2, OtherDelivery, SameSingle DEF DeliveriesSingle
  <2> QED BY <2>1, <2>2
<1>4. ASSUME NEW u \in User, DeleteUser(u)
      PROVE  SingleDelivery(p)'
  <2>1. /\ UNCHANGED <<req, sent, excused>> /\ users' = users \ {u}
        /\ delivery'[p] = IF Owner[p] = u THEN None ELSE delivery[p]
    BY <1>4 DEF DeleteUser
  <2>2. SingleDelivery(p)
    BY <2>1 DEF DeliveriesSingle
  <2>3. Delivering(p)' = Delivering(p)
    BY <2>1 DEF Delivering, UnderWay, Over
  <2>4. CASE Owner[p] = u
    BY <2>1, <2>2, <2>3, <2>4 DEF SingleDelivery, Gone
  <2>5. CASE Owner[p] # u
    <3>1. SameDelivery(p)
      BY <2>1, <2>3, <2>5 DEF SameDelivery
    <3> QED BY <2>2, <3>1, SameSingle
  <2> QED BY <2>4, <2>5
<1>5. CASE UpdateJob \/ (\E q \in Profile : SaveProfile(q)) \/ UNCHANGED vars
  <2>1. UNCHANGED <<req, sent, excused, users, delivery>>
    BY <1>5 DEF UpdateJob, SaveProfile, vars
  <2>2. SameDelivery(p)
    BY <2>1 DEF SameDelivery, Delivering, UnderWay, Over
  <2> QED BY <2>1, <2>2, SameSingle DEF DeliveriesSingle
<1> QED BY <1>1, <1>2, <1>3, <1>4, <1>5 DEF Next

-----------------------------------------------------------------------------
(* Theorems.                                                               *)

LEMMA StepInv == JobInv /\ [Next]_vars => JobInv'
BY TypeStep, AdmittedStep, SingleStep, AfterStep, FeedbackStep DEF JobInv

LEMMA Invariance == Spec => []JobInv
BY InitInv, StepInv, PTL DEF Spec

\* Every variable keeps its type, a request refers to rows of its kind, and
\* rows of a profile or user disappear with it.
THEOREM JobActionsTypeCorrect == Spec => []TypeOK
<1>1. JobInv => TypeOK
  BY DEF JobInv
<1> QED BY <1>1, Invariance, PTL

\* NotificationService.deliver: a second message for a profile needs
\* deliveries that overlap, or one that ends between sending and recording or
\* whose provider raises for what it has accepted.
THEOREM NotificationsAreSentOnce == Spec => []SentOnce
<1>1. JobInv => SentOnce
  BY DEF JobInv, DeliveriesSingle, SingleDelivery, SentOnce, TypeOK
<1> QED BY <1>1, Invariance, PTL

\* evaluate_rules and the reads of match_job: no notification is sent for a
\* profile that excludes a term of every content the job has had until then,
\* whatever contents it has later, or could have.
THEOREM ExclusionsHold == Spec => []ExclusionsAbsolute
<1>1. JobInv => ExclusionsAbsolute
  BY DEF JobInv, NotifiesAdmitted
<1> QED BY <1>1, Invariance, PTL

\* JobQueryService.feedback: what the last request wrote is stored, all of it,
\* unless another one of the user overlapped it or came after.
THEOREM FeedbackIsKept == Spec => []FeedbackIsLast
<1>1. JobInv => FeedbackIsLast
  BY DEF JobInv, FeedbackOfAlone, Alone, FeedbackIsLast
<1> QED BY <1>1, Invariance, PTL
=============================================================================
