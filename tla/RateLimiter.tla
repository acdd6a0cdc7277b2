---------------------------- MODULE RateLimiter ----------------------------
(***************************************************************************)
(* The fixed-window rate limiter: a request reads the clock, counts itself *)
(* in the Redis counter of its caller and window, and gives a new counter  *)
(* its expiry by a second command.  Redis may fail before or after it has  *)
(* carried out a command, and lose its memory.                             *)
(***************************************************************************)
EXTENDS Naturals, FiniteSets

CONSTANTS
    Request,
    Key,            \* callers, by token or address
    Kind,           \* "auth", "general": paths by the limit they have
    Limit,          \* Limit[kind]: requests of a caller in a window
    Window,         \* rate_limit_window_seconds
    FailOpen,       \* rate_limit_fail_open
    MaxNow,         \* bound of the clock
    MaxLosses       \* bound of the losses of Redis' memory

ASSUME RateLimiterAssumption ==
    /\ IsFiniteSet(Request) /\ Key # {} /\ Kind # {}
    /\ Limit \in [Kind -> Nat]
    /\ Window \in Nat \ {0}
    /\ FailOpen \in BOOLEAN
    /\ MaxNow \in Nat /\ MaxLosses \in Nat

Bucket == 0 .. MaxNow \div Window

VARIABLES
    now,        \* the clock
    counter,    \* counter[<<k, b>>]: the counter of caller k and window b; 0 is absent
    expiry,     \* expiry[<<k, b>>]: when it expires; 0 is never
    req,        \* req[r]: the request
    losses      \* history: how often Redis has lost its memory

vars == <<now, counter, expiry, req, losses>>

-----------------------------------------------------------------------------
\* The handler is called within the limit, or because Redis does not answer;
\* 429; 503.
Answer == {"allowed", "open", "refused", "unavailable"}

RequestState == [pc : {"idle", "incr", "expire"} \cup Answer,
                 kind : Kind, key : Key, bucket : Bucket,
                 counted : BOOLEAN,     \* INCR was carried out
                 late    : BOOLEAN,     \* after the window's end
                 broken  : BOOLEAN]     \* EXPIRE was not

TypeOK ==
    /\ now \in 0 .. MaxNow
    /\ counter \in [Key \X Bucket -> Nat]
    /\ expiry \in [Key \X Bucket -> Nat]
    /\ req \in [Request -> RequestState]
    /\ losses \in 0 .. MaxLosses

Init ==
    /\ now = 0
    /\ counter = [x \in Key \X Bucket |-> 0]
    /\ expiry = [x \in Key \X Bucket |-> 0]
    \* What a request is, it says when it arrives.
    /\ LET kind == CHOOSE x \in Kind : TRUE
           key  == CHOOSE x \in Key : TRUE
       IN  req = [r \in Request |-> [pc |-> "idle", kind |-> kind, key |-> key, bucket |-> 0,
                                     counted |-> FALSE, late |-> FALSE, broken |-> FALSE]]
    /\ losses = 0

-----------------------------------------------------------------------------
(* Helpers.                                                                *)

Cell(r) == <<req[r].key, req[r].bucket>>

WindowEnd(b) == (b + 1) * Window

\* The counter of request r, when its INCR is carried out.
Count(r) == counter[Cell(r)] + 1

\* A variant, no part of the specification: the limit itself is refused.
DecisionStrict(r, count) == IF count < Limit[req[r].kind] THEN "allowed" ELSE "refused"

Decision(r, count) == IF count <= Limit[req[r].kind] THEN "allowed" ELSE "refused"

\* The answer if Redis fails.
OnError(r) == IF FailOpen /\ req[r].kind # "auth" THEN "open" ELSE "unavailable"

-----------------------------------------------------------------------------
(* Defective variants of actions below, each with one plausible mistake.   *)
(* They are no part of the specification.                                  *)

\* GET and SET in place of INCR: requests that come together count once.
IncrNotAtomic(r) ==
    /\ req[r].pc = "incr"
    /\ counter' = [counter EXCEPT ![Cell(r)] = IF @ = 0 THEN 1 ELSE @]
    /\ req' = [req EXCEPT ![r].pc = IF Count(r) = 1 THEN "expire" ELSE Decision(r, counter'[Cell(r)]),
                          ![r].counted = TRUE, ![r].late = now >= WindowEnd(req[r].bucket)]
    /\ UNCHANGED <<now, expiry, losses>>

\* INCR that gives no counter an expiry.
IncrOnly(r) ==
    /\ req[r].pc = "incr"
    /\ counter' = [counter EXCEPT ![Cell(r)] = Count(r)]
    /\ req' = [req EXCEPT ![r].pc = Decision(r, Count(r)), ![r].counted = TRUE,
                          ![r].late = now >= WindowEnd(req[r].bucket)]
    /\ UNCHANGED <<now, expiry, losses>>

-----------------------------------------------------------------------------
(* rate_limit_middleware and RateLimiter.check.                            *)

Arrive(r) ==
    /\ req[r].pc = "idle"
    /\ \E kind \in Kind, key \in Key :
         req' = [req EXCEPT ![r] = [@ EXCEPT !.pc = "incr", !.kind = kind, !.key = key,
                                             !.bucket = now \div Window]]
    /\ UNCHANGED <<now, counter, expiry, losses>>

Incr(r) ==
    /\ req[r].pc = "incr"
    /\ counter' = [counter EXCEPT ![Cell(r)] = Count(r)]
    /\ req' = [req EXCEPT ![r].pc = IF Count(r) = 1 THEN "expire" ELSE Decision(r, Count(r)),
                          ![r].counted = TRUE, ![r].late = now >= WindowEnd(req[r].bucket)]
    /\ UNCHANGED <<now, expiry, losses>>

\* EXPIRE has no effect on a counter that Redis has lost meanwhile.
Expire(r) ==
    /\ req[r].pc = "expire"
    /\ expiry' = [expiry EXCEPT ![Cell(r)] = IF counter[Cell(r)] = 0 THEN 0 ELSE now + Window]
    /\ req' = [req EXCEPT ![r].pc = Decision(r, 1)]
    /\ UNCHANGED <<now, counter, losses>>

\* RedisError from INCR, which has been carried out or has not, ...
IncrFails(r) ==
    /\ req[r].pc = "incr"
    /\ \E counted \in BOOLEAN :
         /\ counter' = IF counted THEN [counter EXCEPT ![Cell(r)] = Count(r)] ELSE counter
         /\ req' = [req EXCEPT ![r] = [@ EXCEPT !.pc = OnError(r), !.counted = counted,
                               !.late = counted /\ now >= WindowEnd(req[r].bucket),
                               !.broken = counted /\ Count(r) = 1]]
    /\ UNCHANGED <<now, expiry, losses>>

\* ... or from EXPIRE, likewise; a process lost between the two commands
\* leaves what an EXPIRE that was not carried out leaves.
ExpireFails(r) ==
    /\ req[r].pc = "expire"
    /\ \E set \in BOOLEAN :
         /\ expiry' = IF set /\ counter[Cell(r)] # 0 THEN [expiry EXCEPT ![Cell(r)] = now + Window]
                                                     ELSE expiry
         /\ req' = [req EXCEPT ![r].pc = OnError(r), ![r].broken = ~set]
    /\ UNCHANGED <<now, counter, losses>>

\* Time passes, and Redis removes what has expired.
Tick ==
    /\ now < MaxNow
    /\ now' = now + 1
    /\ LET Expired(x) == expiry[x] # 0 /\ expiry[x] <= now' IN
         /\ counter' = [x \in Key \X Bucket |-> IF Expired(x) THEN 0 ELSE counter[x]]
         /\ expiry'  = [x \in Key \X Bucket |-> IF Expired(x) THEN 0 ELSE expiry[x]]
    /\ UNCHANGED <<req, losses>>

LoseMemory ==
    /\ losses < MaxLosses
    /\ losses' = losses + 1
    /\ counter' = [x \in Key \X Bucket |-> 0]
    /\ expiry' = [x \in Key \X Bucket |-> 0]
    /\ UNCHANGED <<now, req>>

Next ==
    \/ Tick \/ LoseMemory
    \/ \E r \in Request : Arrive(r) \/ Incr(r) \/ Expire(r) \/ IncrFails(r) \/ ExpireFails(r)

Spec == Init /\ [][Next]_vars

-----------------------------------------------------------------------------
(* Properties.                                                             *)

\* Requests of caller k in window b that Redis has counted.
Counted(k, b) == {r \in Request : req[r].counted /\ req[r].key = k /\ req[r].bucket = b}

\* specs/020: the limit of a window is kept, however requests overlap and
\* whichever command fails, by those that are counted before the window ends.
\* (One that has read the clock before the end and is counted after it may
\* find its counter expired.)  A loss of Redis' memory grants one more limit.
WithinLimit ==
    \A k \in Key, b \in Bucket, kind \in Kind :
        Cardinality({r \in Counted(k, b) : req[r].kind = kind /\ req[r].pc = "allowed" /\ ~req[r].late})
          <= Limit[kind] * (1 + losses)

\* A counter lives at least as long as its window, even if it is created late.
CounterOutlivesWindow ==
    \A k \in Key, b \in Bucket : expiry[<<k, b>>] # 0 => expiry[<<k, b>>] >= WindowEnd(b)

\* A counter stays for ever only if its EXPIRE has failed.
ExpiresUnlessBroken ==
    \A k \in Key, b \in Bucket :
        counter[<<k, b>>] # 0 /\ expiry[<<k, b>>] = 0 =>
          \E r \in Counted(k, b) : req[r].pc = "expire" \/ req[r].broken

\* Who is refused has used up the limit of the kind of request it makes: more
\* requests of that kind were counted in the window, unless the caller has
\* made others there too.  The exception is not in specs/020-rate-limiting,
\* which asks for an independent limit of authentication (spec.md:11, qa.md:26):
\* RateLimiter.check keeps one counter per caller for both, so that jobs that
\* were listed can use up the limit of the login.
RefusedIsFull ==
    \A r \in Request : req[r].pc = "refused" =>
        LET counted == Counted(req[r].key, req[r].bucket)
            alike   == {q \in counted : req[q].kind = req[r].kind}
        IN  alike = counted => Cardinality(alike) > Limit[req[r].kind]
=============================================================================
