----------------------------- MODULE JobActions -----------------------------
(***************************************************************************)
(* What is done with a job: requests that match it against the active      *)
(* profile of a user, store the user's feedback, or deliver a notification *)
(* about a match, while ingestion changes the job, profiles are saved and  *)
(* users are deleted.  Every operation reads in one statement what it      *)
(* writes in a later one, at READ COMMITTED and without a lock.            *)
(*                                                                         *)
(* There is one job and one channel.  A match bears the name of the        *)
(* request that made it.                                                   *)
(***************************************************************************)
EXTENDS RuleEngine

CONSTANTS
    User, Request, Profile,
    Owner,      \* Owner[p]: whose profile p is
    Config,     \* Config[p]: its preferences, which never change
    Content,    \* what the job may be, as records with its description_hash
    Label, Note,    \* what FeedbackInput may hold
    None        \* no profile, no row

Feedback == [label : Label, note : Note]

Status == {"pending", "delivered", "retryable", "failed"}

Delivery == [status : Status, attempts : Nat]

ASSUME JobActionsAssumption ==
    /\ User # {}
    /\ Owner \in [Profile -> User]
    /\ None \notin Profile \cup Feedback \cup Delivery

VARIABLES
    job,        \* row of the job
    users,      \* rows of users
    profiles,   \* rows of profiles
    active,     \* active[u]: active profile of u
    match,      \* match[r]: row of the match request r made
    feedback,   \* feedback[u]: row of the feedback of u on the job
    delivery,   \* delivery[p]: row of the delivery of profile p and its owner
    req,        \* req[r]: the request
    had,        \* history: contents the job has had
    sent,       \* history: sent[p] notifications have reached the provider
    excused     \* history: profiles with deliveries that overlapped, or ended
                \* between sending and recording what was sent

rows    == <<match, feedback, delivery>>
context == <<job, had, users, profiles, active>>
history == <<sent, excused>>
vars    == <<job, had, users, profiles, active, match, feedback, delivery, req, sent, excused>>

-----------------------------------------------------------------------------
Unread == CHOOSE c \in Content : TRUE

Answer == {"done", "skipped", "failed"}

Match == [profile : Profile, decision : {"notify", "review", "reject"}]

RequestState ==
    [op : {"match", "feedback", "deliver"},
     pc : {"idle", "job", "profile", "feedback", "delivery", "create", "send", "save"} \cup Answer,
     user    : User,
     profile : Profile \cup {None},
     content : Content,                             \* job as read
     data    : Feedback \cup {None},                \* as submitted
     found   : Feedback \cup Delivery \cup {None},  \* row as read
     after   : SUBSET Request]                      \* history: over before r began

TypeOK ==
    /\ had \subseteq Content /\ job \in had
    /\ users \subseteq User
    /\ profiles \subseteq Profile /\ \A p \in profiles : Owner[p] \in users
    /\ active \in [User -> profiles \cup {None}]
    /\ \A u \in User : active[u] # None => Owner[active[u]] = u
    /\ match \in [Request -> Match \cup {None}]
    /\ \A r \in Request : match[r] # None => match[r].profile \in profiles
    /\ feedback \in [User -> Feedback \cup {None}]
    /\ \A u \in User : feedback[u] # None => u \in users
    /\ delivery \in [Profile -> Delivery \cup {None}]
    /\ \A p \in Profile : delivery[p] # None => p \in profiles
    /\ req \in [Request -> RequestState]
    /\ sent \in [Profile -> Nat]
    /\ excused \subseteq Profile

Init ==
    /\ job \in Content /\ had = {job}
    /\ users = User
    /\ profiles = {}
    /\ active = [u \in User |-> None]
    /\ match = [r \in Request |-> None]
    /\ feedback = [u \in User |-> None]
    /\ delivery = [p \in Profile |-> None]
    /\ req = [r \in Request |->         \* what a request is, it says when it begins
                [op |-> "match", pc |-> "idle", user |-> CHOOSE u \in User : TRUE,
                 profile |-> None, content |-> Unread, data |-> None, found |-> None,
                 after |-> {}]]
    /\ sent = [p \in Profile |-> 0]
    /\ excused = {}

-----------------------------------------------------------------------------
(* Helpers.                                                                *)

Over(r) == req[r].pc \in Answer

UnderWay(r) == req[r].pc # "idle" /\ ~Over(r)

Goto(r, where) == req' = [req EXCEPT ![r].pc = where]

\* The request ends, and what it has read is forgotten.
End(r, answer) ==
    req' = [req EXCEPT ![r].pc = answer, ![r].content = Unread, ![r].found = None]

\* The request begins, by reading the row of its user.
Begin(r, op, u, where, p, data) ==
    /\ req[r].pc = "idle"
    /\ req' = [req EXCEPT ![r] = [@ EXCEPT !.op = op, !.pc = where, !.user = u, !.profile = p,
                                           !.data = data,
                                           !.after = {q \in Request : Over(q)}]]

\* The transaction of request r has been committed, or the commit is lost:
\* commit_session or refresh_session raises although it was done.
Committed(r) == \E answer \in {"done", "failed"} : End(r, answer)

\* A row of the feedback table with the columns of data that differ from what
\* was read: the object-relational mapper updates no others.
Changed(row, found, data) ==
    [label |-> IF data.label # found.label THEN data.label ELSE row.label,
     note  |-> IF data.note # found.note THEN data.note ELSE row.note]

-----------------------------------------------------------------------------
(* MatchingService.match_job.                                              *)

BeginMatch(r) ==
    /\ \E u \in users : Begin(r, "match", u, "job", None, None)
    /\ UNCHANGED <<context, rows, history>>

ReadJob(r) ==
    /\ req[r].pc = "job"
    /\ req' = [req EXCEPT ![r].pc = "profile", ![r].content = job]
    /\ UNCHANGED <<context, rows, history>>

\* Without an active profile the request fails.
ReadProfile(r) ==
    /\ req[r].pc = "profile"
    /\ LET p == active[req[r].user] IN
         IF p = None THEN End(r, "failed")
         ELSE req' = [req EXCEPT ![r].profile = p, ![r].pc = "save"]
    /\ UNCHANGED <<context, rows, history>>

\* The foreign key fails if the profile has been deleted.
SaveMatch(r) ==
    /\ req[r].op = "match" /\ req[r].pc = "save"
    /\ LET p == req[r].profile IN
         IF p \in profiles
         THEN /\ match' = [match EXCEPT ![r] =
                     [profile |-> p, decision |-> Evaluate(req[r].content, Config[p]).decision]]
              /\ Committed(r)
         ELSE End(r, "failed") /\ UNCHANGED match
    /\ UNCHANGED <<context, feedback, delivery, history>>

-----------------------------------------------------------------------------
(* JobQueryService.feedback.                                               *)

BeginFeedback(r) ==
    /\ \E u \in users, data \in Feedback : Begin(r, "feedback", u, "feedback", None, data)
    /\ UNCHANGED <<context, rows, history>>

\* The job is not found if the user is gone, and the user's sources with them.
ReadFeedback(r) ==
    /\ req[r].op = "feedback" /\ req[r].pc = "feedback"
    /\ IF req[r].user \in users
       THEN req' = [req EXCEPT ![r].found = feedback[req[r].user], ![r].pc = "save"]
       ELSE End(r, "failed")
    /\ UNCHANGED <<context, rows, history>>

\* A variant, no part of the specification: a later label keeps the note.
UpdateLabelOnly(r) ==
    /\ req[r].op = "feedback" /\ req[r].pc = "save" /\ req[r].found # None
    /\ LET u == req[r].user IN
         IF feedback[u] # None
         THEN /\ feedback' = [feedback EXCEPT ![u].label = req[r].data.label]
              /\ Committed(r)
         ELSE End(r, "failed") /\ UNCHANGED feedback
    /\ UNCHANGED <<context, match, delivery, history>>

\* The row that was found is updated; if it is gone, the UPDATE or the
\* refresh fails ...
UpdateFeedback(r) ==
    /\ req[r].op = "feedback" /\ req[r].pc = "save" /\ req[r].found # None
    /\ LET u == req[r].user IN
         IF feedback[u] # None
         THEN /\ feedback' = [feedback EXCEPT ![u] = Changed(@, req[r].found, req[r].data)]
              /\ Committed(r)
         ELSE End(r, "failed") /\ UNCHANGED feedback
    /\ UNCHANGED <<context, match, delivery, history>>

\* ... or else a row is inserted, unless another has been meanwhile.
InsertFeedback(r) ==
    /\ req[r].op = "feedback" /\ req[r].pc = "save" /\ req[r].found = None
    /\ LET u == req[r].user IN
         IF u \in users /\ feedback[u] = None
         THEN feedback' = [feedback EXCEPT ![u] = req[r].data] /\ Committed(r)
         ELSE End(r, "failed") /\ UNCHANGED feedback
    /\ UNCHANGED <<context, match, delivery, history>>

-----------------------------------------------------------------------------
(* NotificationService.deliver.                                            *)

Delivering(p) == {q \in Request : req[q].op = "deliver" /\ req[q].profile = p /\ UnderWay(q)}

\* With a match that exists; nothing is done unless it decided to notify.
BeginDeliver(r) ==
    /\ \E m \in Request :
         /\ match[m] # None
         /\ LET p == match[m].profile IN
              /\ Begin(r, "deliver", Owner[p],
                       IF match[m].decision = "notify" THEN "delivery" ELSE "skipped", p, None)
              /\ excused' = IF Delivering(p) # {} THEN excused \cup {p} ELSE excused
    /\ UNCHANGED <<context, rows, sent>>

\* A variant, no part of the specification: any row is sent again.
FindDeliveryAgain(r) ==
    /\ req[r].pc = "delivery" /\ delivery[req[r].profile] # None
    /\ req' = [req EXCEPT ![r].found = delivery[req[r].profile], ![r].pc = "send"]
    /\ UNCHANGED <<context, rows, history>>

\* get_or_create finds a row ...
FindDelivery(r) ==
    /\ req[r].pc = "delivery" /\ delivery[req[r].profile] # None
    /\ LET found == delivery[req[r].profile] IN
         IF found.status = "delivered" THEN End(r, "done")
         ELSE req' = [req EXCEPT ![r].found = found, ![r].pc = "send"]
    /\ UNCHANGED <<context, rows, history>>

\* ... or finds none, ...
MissDelivery(r) ==
    /\ req[r].pc = "delivery" /\ delivery[req[r].profile] = None
    /\ Goto(r, "create")
    /\ UNCHANGED <<context, rows, history>>

\* ... and inserts and commits one; that fails if another has meanwhile, or
\* if the profile is gone.
CreateDelivery(r) ==
    /\ req[r].pc = "create"
    /\ LET p   == req[r].profile
           new == [status |-> "pending", attempts |-> 0]
       IN  IF p \in profiles /\ delivery[p] = None
           THEN /\ delivery' = [delivery EXCEPT ![p] = new]
                /\ \/ req' = [req EXCEPT ![r].found = new, ![r].pc = "send"]
                   \/ End(r, "failed")
           ELSE End(r, "failed") /\ UNCHANGED delivery
    /\ UNCHANGED <<context, match, feedback, history>>

\* provider.send: the message is sent, and its identifier returned; or it
\* raises an error, that is_retryable may be true of, before or after the
\* provider has accepted the message.
Send(r) ==
    /\ req[r].pc = "send"
    /\ LET p == req[r].profile IN
         \E reached \in BOOLEAN, status \in {"delivered", "retryable", "failed"} :
           /\ status = "delivered" => reached
           /\ sent' = IF reached THEN [sent EXCEPT ![p] = @ + 1] ELSE sent
           /\ excused' = IF reached /\ status # "delivered" THEN excused \cup {p} ELSE excused
           /\ req' = [req EXCEPT ![r].pc = "save",
                                 ![r].found = [status |-> status, attempts |-> @.attempts + 1]]
    /\ UNCHANGED <<context, rows>>

\* What was sent is recorded; if the row is gone, this fails.
RecordDelivery(r) ==
    /\ req[r].op = "deliver" /\ req[r].pc = "save"
    /\ LET p == req[r].profile IN
         IF delivery[p] # None
         THEN delivery' = [delivery EXCEPT ![p] = req[r].found] /\ Committed(r)
         ELSE End(r, "failed") /\ UNCHANGED delivery
    /\ UNCHANGED <<context, match, feedback, history>>

-----------------------------------------------------------------------------
(* The surroundings.                                                       *)

\* A statement of request r fails, or its process ends: it is rolled back.
Abort(r) ==
    /\ UnderWay(r)
    /\ End(r, "failed")
    /\ excused' = IF req[r].op = "deliver" /\ req[r].pc = "save"
                  THEN excused \cup {req[r].profile} ELSE excused
    /\ UNCHANGED <<context, rows, sent>>

\* Ingestion stores another content, if its description_hash is another.
UpdateJob ==
    /\ \E c \in Content : c.hash # job.hash /\ job' = c /\ had' = had \cup {c}
    /\ UNCHANGED <<users, profiles, active, rows, req, history>>

\* PreferenceService.update.
SaveProfile(p) ==
    /\ p \notin profiles /\ Owner[p] \in users
    /\ profiles' = profiles \cup {p}
    /\ active' = [active EXCEPT ![Owner[p]] = p]
    /\ UNCHANGED <<job, had, users, rows, req, history>>

\* UserDeletionService.delete: every row of the user goes with the user.
DeleteUser(u) ==
    /\ u \in users
    /\ users' = users \ {u}
    /\ LET gone == {p \in Profile : Owner[p] = u} IN
         /\ profiles' = profiles \ gone
         /\ active' = [active EXCEPT ![u] = None]
         /\ match' = [r \in Request |->
                         IF match[r] # None /\ match[r].profile \in gone THEN None ELSE match[r]]
         /\ feedback' = [feedback EXCEPT ![u] = None]
         /\ delivery' = [p \in Profile |-> IF p \in gone THEN None ELSE delivery[p]]
    /\ UNCHANGED <<job, had, req, history>>

Step(r) ==
    \/ ReadJob(r) \/ ReadProfile(r) \/ SaveMatch(r)
    \/ ReadFeedback(r) \/ UpdateFeedback(r) \/ InsertFeedback(r)
    \/ FindDelivery(r) \/ MissDelivery(r) \/ CreateDelivery(r) \/ Send(r) \/ RecordDelivery(r)

Next ==
    \/ \E r \in Request : BeginMatch(r) \/ BeginFeedback(r) \/ BeginDeliver(r) \/ Step(r) \/ Abort(r)
    \/ UpdateJob
    \/ \E p \in Profile : SaveProfile(p)
    \/ \E u \in User : DeleteUser(u)

Spec == Init /\ [][Next]_vars

-----------------------------------------------------------------------------
(* Properties.                                                             *)

\* specs/007: "duplicate-free".  A notification is sent once for a profile,
\* whatever is retried, unless deliveries overlapped, one ended between
\* sending and recording, or the provider raised for what it had accepted.
SentOnce == \A p \in Profile : sent[p] > 1 => p \in excused

\* evaluate_rules with the reads of match_job and of deliver: no notification
\* is sent for a profile that excludes a term of every content the job has had
\* until then, however many matches, changes and profiles come between.  (It
\* may be sent for one that excludes what the job is by now: deliver does not
\* evaluate again, so that specs/005, "Excluded frontend/support/PHP roles are
\* not notified", is not kept for a job that is changed after its match.)
ExclusionsAbsolute ==
    \A p \in Profile : sent[p] > 0 => \E c \in had : Concerns(c, Config[p]) = {}

\* The feedback of the last request that was answered is what is stored, label
\* and note, unless another request of the user overlapped it or came after.
FeedbackIsLast ==
    \A r \in Request :
        req[r].op = "feedback" /\ req[r].pc = "done" /\ req[r].user \in users =>
          \/ feedback[req[r].user] = req[r].data
          \/ \E q \in Request \ {r} :
               /\ req[q].op = "feedback" /\ req[q].user = req[r].user /\ req[q].pc # "idle"
               /\ q \notin req[r].after
=============================================================================
