------------------------- MODULE RateLimiter_proofs -------------------------
(***************************************************************************)
(* Theorems about RateLimiter, for any requests, callers, kinds of paths,  *)
(* limits and windows, and any number of losses of Redis' memory.          *)
(***************************************************************************)
EXTENDS RateLimiter, FiniteSetTheorems, TLAPS

-----------------------------------------------------------------------------
(* The inductive invariant.                                                *)

\* A request is counted by its INCR and not before, and only one that has
\* counted itself sets an expiry.
CountedByIncr ==
    \A r \in Request :
        /\ req[r].pc \in {"idle", "incr"} => ~req[r].counted
        /\ req[r].pc = "expire" => req[r].counted

\* A request's window has begun.
WindowHasBegun == \A r \in Request : req[r].bucket * Window <= now

\* No counter is higher than the number of requests it has counted.
CounterIsEarned ==
    \A k \in Key, b \in Bucket : counter[<<k, b>>] <= Cardinality(Counted(k, b))

\* Requests that were counted in time and are allowed, or will be if their
\* EXPIRE succeeds: they were the first of their counter.
Grants(k, b, kind) ==
    {r \in Counted(k, b) :
        /\ req[r].kind = kind /\ ~req[r].late
        /\ req[r].pc = "allowed" \/ (req[r].pc = "expire" /\ 1 <= Limit[kind])}

AtMost(n, limit) == IF n < limit THEN n ELSE limit

\* What the counter has granted since it was last lost: as many requests as
\* it has counted, up to the limit, until the window ends.
GrantedNow(k, b, kind) ==
    IF now < WindowEnd(b) THEN AtMost(counter[<<k, b>>], Limit[kind]) ELSE Limit[kind]

GrantsWithinQuota ==
    \A k \in Key, b \in Bucket, kind \in Kind :
        Cardinality(Grants(k, b, kind)) <= Limit[kind] * losses + GrantedNow(k, b, kind)

\* Who is refused finds more requests in its counter than its limit, of
\* whatever kind they are.
SharedLimitUsed ==
    \A r \in Request : req[r].pc = "refused" =>
        Cardinality(Counted(req[r].key, req[r].bucket)) > Limit[req[r].kind]

LimiterInv ==
    /\ TypeOK /\ CountedByIncr /\ WindowHasBegun /\ CounterOutlivesWindow
    /\ CounterIsEarned /\ GrantsWithinQuota /\ ExpiresUnlessBroken /\ SharedLimitUsed

-----------------------------------------------------------------------------
(* Arithmetic.                                                             *)

\* The windows of the clock: the current one is a bucket, and has begun.
LEMMA WindowOfClock ==
    ASSUME NEW t \in 0 .. MaxNow
    PROVE  /\ t \div Window \in Bucket
           /\ (t \div Window) * Window <= t
<1>1. Window \in Nat /\ Window > 0 /\ MaxNow \in Nat
  BY RateLimiterAssumption
<1>2. /\ t \div Window \in Int /\ MaxNow \div Window \in Int
      /\ (t \div Window) * Window <= t
      /\ t < (t \div Window) * Window + Window
      /\ MaxNow < (MaxNow \div Window) * Window + Window
  BY <1>1, Z3
<1>3. t \div Window >= 0 /\ t \div Window <= MaxNow \div Window
  BY <1>1, <1>2, Z3
<1> QED BY <1>2, <1>3 DEF Bucket

LEMMA LimitType ==
    ASSUME NEW kind \in Kind
    PROVE  Limit[kind] \in Nat
BY RateLimiterAssumption

\* What a limit grants over one loss more.
LEMMA QuotaOfLosses ==
    ASSUME NEW limit \in Nat, NEW n \in Nat
    PROVE  /\ limit * n \in Nat
           /\ limit * (n + 1) = limit * n + limit
           /\ limit * (1 + n) = limit * n + limit
OBVIOUS

LEMMA WindowEndType ==
    ASSUME NEW b \in Bucket
    PROVE  WindowEnd(b) \in Nat /\ b \in Nat /\ WindowEnd(b) = b * Window + Window
BY RateLimiterAssumption DEF WindowEnd, Bucket

-----------------------------------------------------------------------------
(* Sets of requests and their sizes.                                       *)

LEMMA CountedFinite ==
    ASSUME NEW k, NEW b
    PROVE  /\ IsFiniteSet(Counted(k, b))
           /\ Cardinality(Counted(k, b)) \in Nat
<1>1. Counted(k, b) \in SUBSET Request
  BY DEF Counted
<1> QED BY <1>1, RateLimiterAssumption, FS_Subset, FS_CardinalityType

LEMMA AddRequest ==
    ASSUME NEW S, IsFiniteSet(S), NEW r
    PROVE  /\ Cardinality(S \cup {r}) \in Nat /\ Cardinality(S) \in Nat
           /\ Cardinality(S \cup {r}) >= Cardinality(S)
<1>1. Cardinality(S) \in Nat
  BY FS_CardinalityType
<1>2. Cardinality(S \cup {r}) = IF r \in S THEN Cardinality(S) ELSE Cardinality(S) + 1
  BY FS_AddElement
<1> QED BY <1>1, <1>2

LEMMA GrantsFinite ==
    ASSUME NEW k, NEW b, NEW kind
    PROVE  /\ IsFiniteSet(Grants(k, b, kind))
           /\ Cardinality(Grants(k, b, kind)) \in Nat
<1>1. Grants(k, b, kind) \in SUBSET Counted(k, b)
  BY DEF Grants
<1> QED BY <1>1, CountedFinite, FS_Subset, FS_CardinalityType

LEMMA GrantedNowType ==
    ASSUME TypeOK, NEW k \in Key, NEW b \in Bucket, NEW kind \in Kind
    PROVE  /\ GrantedNow(k, b, kind) \in Nat
           /\ GrantedNow(k, b, kind) <= Limit[kind]
<1>1. counter[<<k, b>>] \in Nat /\ now \in Nat
  BY RateLimiterAssumption DEF TypeOK, RequestState
<1> QED BY <1>1, LimitType, WindowEndType DEF GrantedNow, AtMost

\* A step of a request that counts nothing and grants nothing new.
LEMMA QuietRequest ==
    ASSUME LimiterInv, NEW r \in Request,
           UNCHANGED <<now, counter, losses>>,
           \A q \in Request \ {r} : req'[q] = req[q],
           req'[r].counted = req[r].counted,
           req[r].counted =>
             /\ req'[r].kind = req[r].kind /\ req'[r].key = req[r].key
             /\ req'[r].bucket = req[r].bucket /\ req'[r].late = req[r].late
             /\ req'[r].pc = "allowed" => req[r].pc = "expire" /\ 1 <= Limit[req[r].kind]
             /\ req'[r].pc # "expire"
    PROVE  /\ \A k, b : Counted(k, b)' = Counted(k, b)
           /\ CounterIsEarned' /\ GrantsWithinQuota'
<1>1. ASSUME NEW k, NEW b
      PROVE  Counted(k, b)' = Counted(k, b)
  BY DEF Counted
<1>2. CounterIsEarned'
  BY <1>1 DEF LimiterInv, CounterIsEarned
<1>3. ASSUME NEW k \in Key, NEW b \in Bucket, NEW kind \in Kind
      PROVE  Cardinality(Grants(k, b, kind)') <= (Limit[kind] * losses + GrantedNow(k, b, kind))'
  <2>1. Grants(k, b, kind)' \in SUBSET Grants(k, b, kind)
    BY <1>1 DEF Grants, Counted
  <2>2. /\ Cardinality(Grants(k, b, kind)') <= Cardinality(Grants(k, b, kind))
        /\ Cardinality(Grants(k, b, kind)') \in Nat
    BY <2>1, GrantsFinite, FS_Subset, FS_CardinalityType
  <2>3. GrantedNow(k, b, kind)' = GrantedNow(k, b, kind)
    BY DEF GrantedNow, WindowEnd
  <2>4. Cardinality(Grants(k, b, kind)) <= Limit[kind] * losses + GrantedNow(k, b, kind)
    BY DEF LimiterInv, GrantsWithinQuota
  <2>5. /\ Limit[kind] * losses \in Nat /\ GrantedNow(k, b, kind) \in Nat
        /\ Cardinality(Grants(k, b, kind)) \in Nat
    BY QuotaOfLosses, LimitType, GrantedNowType, GrantsFinite DEF LimiterInv, TypeOK, RequestState
  <2> QED BY <2>2, <2>3, <2>4, <2>5
<1> QED BY <1>1, <1>2, <1>3 DEF GrantsWithinQuota

\* A step of a request that increments its counter.
LEMMA CountingRequest ==
    ASSUME LimiterInv, NEW r \in Request, req[r].pc = "incr",
           UNCHANGED <<now, losses>>,
           counter' = [counter EXCEPT ![Cell(r)] = Count(r)],
           \A q \in Request \ {r} : req'[q] = req[q],
           req'[r].counted, req'[r].kind = req[r].kind, req'[r].key = req[r].key,
           req'[r].bucket = req[r].bucket,
           req'[r].late <=> now >= WindowEnd(req[r].bucket),
           req'[r].pc = "allowed" => Count(r) <= Limit[req[r].kind],
           req'[r].pc = "expire" => Count(r) = 1
    PROVE  /\ \A k, b : Counted(k, b)' =
                 IF k = req[r].key /\ b = req[r].bucket THEN Counted(k, b) \cup {r} ELSE Counted(k, b)
           /\ \A k, b : k = req[r].key /\ b = req[r].bucket => Cardinality(Counted(k, b)') >= Count(r)
           /\ CounterIsEarned' /\ GrantsWithinQuota'
<1> DEFINE key == req[r].key
           bucket == req[r].bucket
<1>1. /\ key \in Key /\ bucket \in Bucket /\ req[r].kind \in Kind
      /\ ~req[r].counted /\ counter[<<key, bucket>>] \in Nat
      /\ Count(r) = counter[<<key, bucket>>] + 1 /\ now \in Nat /\ losses \in Nat
  BY RateLimiterAssumption DEF LimiterInv, TypeOK, RequestState, CountedByIncr, Count, Cell
<1>2. ASSUME NEW k, NEW b
      PROVE  Counted(k, b)' = IF k = key /\ b = bucket THEN Counted(k, b) \cup {r} ELSE Counted(k, b)
  BY <1>1 DEF Counted
<1>3. \A k \in Key, b \in Bucket :
         counter'[<<k, b>>] = IF k = key /\ b = bucket THEN counter[<<k, b>>] + 1 ELSE counter[<<k, b>>]
  BY <1>1 DEF LimiterInv, TypeOK, RequestState, Cell
<1>4. r \notin Counted(key, bucket)
  BY <1>1 DEF Counted
<1>5. Cardinality(Counted(key, bucket)') = Cardinality(Counted(key, bucket)) + 1
  BY <1>2, <1>4, CountedFinite, FS_AddElement
<1>6. CounterIsEarned'
  <2> SUFFICES ASSUME NEW k \in Key, NEW b \in Bucket
               PROVE  counter'[<<k, b>>] <= Cardinality(Counted(k, b)')
    BY DEF CounterIsEarned
  <2>1. /\ counter[<<k, b>>] <= Cardinality(Counted(k, b))
        /\ counter[<<k, b>>] \in Nat /\ Cardinality(Counted(k, b)) \in Nat
    BY CountedFinite DEF LimiterInv, TypeOK, RequestState, CounterIsEarned
  <2>2. CASE k = key /\ b = bucket
    BY <1>3, <1>5, <2>1, <2>2
  <2>3. CASE ~(k = key /\ b = bucket)
    BY <1>2, <1>3, <2>1, <2>3
  <2> QED BY <2>2, <2>3
<1>7. \A k, b : k = key /\ b = bucket => Cardinality(Counted(k, b)') >= Count(r)
  BY <1>1, <1>3, <1>6 DEF CounterIsEarned
<1>8. ASSUME NEW k \in Key, NEW b \in Bucket, NEW kind \in Kind
      PROVE  Cardinality(Grants(k, b, kind)') <= (Limit[kind] * losses + GrantedNow(k, b, kind))'
  <2>1. /\ Cardinality(Grants(k, b, kind)) <= Limit[kind] * losses + GrantedNow(k, b, kind)
        /\ Limit[kind] * losses \in Nat /\ GrantedNow(k, b, kind) \in Nat
        /\ Cardinality(Grants(k, b, kind)) \in Nat /\ IsFiniteSet(Grants(k, b, kind))
        /\ Limit[kind] \in Nat /\ counter[<<k, b>>] \in Nat /\ WindowEnd(b) \in Nat
    BY <1>1, QuotaOfLosses, LimitType, GrantedNowType, GrantsFinite, WindowEndType
    DEF LimiterInv, TypeOK, RequestState, GrantsWithinQuota
  <2>2. GrantedNow(k, b, kind)' = IF now < WindowEnd(b) THEN AtMost(counter'[<<k, b>>], Limit[kind])
                                                        ELSE Limit[kind]
    BY DEF GrantedNow, WindowEnd
  <2>3. GrantedNow(k, b, kind)' \in Nat /\ GrantedNow(k, b, kind)' >= GrantedNow(k, b, kind)
    BY <1>1, <1>3, <2>1, <2>2 DEF GrantedNow, AtMost
  <2>4. CASE r \notin Grants(k, b, kind)'
    <3>1. Grants(k, b, kind)' = Grants(k, b, kind)
      BY <1>1, <1>2, <2>4 DEF Grants, Counted
    <3> QED BY <2>1, <2>3, <3>1
  <2>5. CASE r \in Grants(k, b, kind)'
    <3>1. /\ k = key /\ b = bucket /\ kind = req[r].kind
          /\ now < WindowEnd(b) /\ Count(r) <= Limit[kind]
      <4>1. /\ req'[r].key = k /\ req'[r].bucket = b /\ req'[r].kind = kind /\ ~req'[r].late
            /\ req'[r].pc = "allowed" \/ (req'[r].pc = "expire" /\ 1 <= Limit[kind])
        BY <2>5 DEF Grants, Counted
      <4> QED BY <1>1, <2>1, <4>1
    <3>2. Grants(k, b, kind)' = Grants(k, b, kind) \cup {r}
      <4>1. \A q \in Request \ {r} : q \in Grants(k, b, kind)' <=> q \in Grants(k, b, kind)
        BY DEF Grants, Counted
      <4>2. Grants(k, b, kind)' \subseteq Request /\ Grants(k, b, kind) \subseteq Request
        BY DEF Grants, Counted
      <4> QED BY <2>5, <4>1, <4>2
    <3>3. Cardinality(Grants(k, b, kind)') =
            IF r \in Grants(k, b, kind) THEN Cardinality(Grants(k, b, kind))
                                        ELSE Cardinality(Grants(k, b, kind)) + 1
      BY <2>1, <3>2, FS_AddElement
    <3>4. counter[<<k, b>>] + 1 <= Limit[kind] /\ counter'[<<k, b>>] = counter[<<k, b>>] + 1
      BY <1>1, <1>3, <2>1, <3>1
    <3>5. GrantedNow(k, b, kind)' = counter[<<k, b>>] + 1 /\ GrantedNow(k, b, kind) = counter[<<k, b>>]
      BY <2>1, <2>2, <3>1, <3>4 DEF GrantedNow, AtMost
    <3> QED BY <2>1, <3>3, <3>5
  <2> QED BY <2>4, <2>5
<1> QED BY <1>2, <1>6, <1>7, <1>8 DEF GrantsWithinQuota

-----------------------------------------------------------------------------
(* Type correctness.                                                       *)

LEMMA TypeInit == Init => TypeOK
<1> SUFFICES ASSUME Init PROVE TypeOK
  OBVIOUS
<1> DEFINE kind == CHOOSE x \in Kind : TRUE
           key == CHOOSE x \in Key : TRUE
<1>1. kind \in Kind /\ key \in Key
  BY RateLimiterAssumption
<1>2. 0 \in 0 .. MaxNow /\ 0 \div Window \in Bucket
  BY RateLimiterAssumption, WindowOfClock
<1>3. 0 \in Bucket
  BY <1>2, RateLimiterAssumption, Z3 DEF Bucket
<1>4. 0 \in 0 .. MaxLosses
  BY RateLimiterAssumption
<1> QED BY <1>1, <1>2, <1>3, <1>4 DEF Init, TypeOK, RequestState

\* The states of requests are updated by states.
LEMMA RequestStateStep ==
    ASSUME TypeOK, NEW r \in Request, NEW e \in RequestState, req' = [req EXCEPT ![r] = e]
    PROVE  req' \in [Request -> RequestState]
BY DEF TypeOK

LEMMA TypeStep == TypeOK /\ [Next]_vars => TypeOK'
<1> SUFFICES ASSUME TypeOK, [Next]_vars PROVE TypeOK'
  OBVIOUS
<1>1. ASSUME NEW r \in Request, Arrive(r)
      PROVE  TypeOK'
  <2>1. now \div Window \in Bucket
    BY WindowOfClock DEF TypeOK, RequestState
  <2>2. PICK kind \in Kind, key \in Key :
           req' = [req EXCEPT ![r] = [@ EXCEPT !.pc = "incr", !.kind = kind, !.key = key,
                                               !.bucket = now \div Window]]
    BY <1>1 DEF Arrive
  <2> DEFINE e == [req[r] EXCEPT !.pc = "incr", !.kind = kind, !.key = key,
                                 !.bucket = now \div Window]
  <2>3. e \in RequestState
    BY <2>1 DEF TypeOK, RequestState
  <2>4. req' = [req EXCEPT ![r] = e]
    BY <2>2, Zenon
  <2>5. UNCHANGED <<now, counter, expiry, losses>>
    BY <1>1 DEF Arrive
  <2> HIDE DEF e
  <2> QED BY <2>3, <2>4, <2>5, RequestStateStep DEF TypeOK
<1>2. ASSUME NEW r \in Request, Incr(r) \/ IncrFails(r)
      PROVE  TypeOK'
  <2>1. Cell(r) \in Key \X Bucket /\ Count(r) \in Nat
    BY DEF TypeOK, RequestState, Cell, Count
  <2>2. \A n : Decision(r, n) \in Answer
    BY DEF Decision, Answer
  <2>3. OnError(r) \in Answer
    BY DEF OnError, Answer
  <2>4. counter' \in [Key \X Bucket -> Nat]
    BY <1>2, <2>1 DEF Incr, IncrFails, TypeOK, RequestState
  <2>5. CASE Incr(r)
    <3> DEFINE pc == IF Count(r) = 1 THEN "expire" ELSE Decision(r, Count(r))
               late == now >= WindowEnd(req[r].bucket)
    <3>1. pc \in {"expire"} \cup Answer /\ late \in BOOLEAN
      BY <2>2
    <3>2. /\ req' = [req EXCEPT ![r].pc = pc, ![r].counted = TRUE, ![r].late = late]
          /\ UNCHANGED <<now, expiry, losses>>
      BY <2>5, Zenon DEF Incr
    <3> DEFINE e == [req[r] EXCEPT !.pc = pc, !.counted = TRUE, !.late = late]
    <3> HIDE DEF pc, late
    <3>3. e \in RequestState
      BY <3>1 DEF TypeOK, RequestState
    <3>4. req' = [req EXCEPT ![r] = e]
      BY <3>2 DEF TypeOK
    <3> HIDE DEF e
    <3> QED BY <2>4, <3>2, <3>3, <3>4, RequestStateStep DEF TypeOK
  <2>6. CASE IncrFails(r)
    <3>1. PICK counted \in BOOLEAN :
             req' = [req EXCEPT ![r] = [@ EXCEPT !.pc = OnError(r), !.counted = counted,
                               !.late = counted /\ now >= WindowEnd(req[r].bucket),
                               !.broken = counted /\ Count(r) = 1]]
      BY <2>6, Zenon DEF IncrFails
    <3> DEFINE late == counted /\ now >= WindowEnd(req[r].bucket)
               broken == counted /\ Count(r) = 1
               e == [req[r] EXCEPT !.pc = OnError(r), !.counted = counted, !.late = late,
                                   !.broken = broken]
    <3>2. late \in BOOLEAN /\ broken \in BOOLEAN
      OBVIOUS
    <3>3. req' = [req EXCEPT ![r] = e]
      BY <3>1, Zenon
    <3>4. UNCHANGED <<now, expiry, losses>>
      BY <2>6 DEF IncrFails
    <3> HIDE DEF late, broken
    <3>5. e \in RequestState
      BY <2>3, <3>2 DEF TypeOK, RequestState
    <3> HIDE DEF e
    <3> QED BY <2>4, <3>3, <3>4, <3>5, RequestStateStep DEF TypeOK
  <2> QED BY <1>2, <2>5, <2>6
<1>3. ASSUME NEW r \in Request, Expire(r) \/ ExpireFails(r)
      PROVE  TypeOK'
  <2>1. Cell(r) \in Key \X Bucket /\ now + Window \in Nat
    BY RateLimiterAssumption DEF TypeOK, RequestState, Cell
  <2>2. \A n : Decision(r, n) \in Answer
    BY DEF Decision, Answer
  <2>3. OnError(r) \in Answer
    BY DEF OnError, Answer
  <2>4. expiry' \in [Key \X Bucket -> Nat]
    BY <1>3, <2>1 DEF Expire, ExpireFails, TypeOK, RequestState
  <2>5. CASE Expire(r)
    BY <2>2, <2>4, <2>5 DEF Expire, TypeOK, RequestState
  <2>6. CASE ExpireFails(r)
    <3>1. PICK set \in BOOLEAN : req' = [req EXCEPT ![r].pc = OnError(r), ![r].broken = ~set]
      BY <2>6, Zenon DEF ExpireFails
    <3> DEFINE broken == ~set
    <3>2. broken \in BOOLEAN
      OBVIOUS
    <3>3. req' = [req EXCEPT ![r].pc = OnError(r), ![r].broken = broken]
      BY <3>1, Zenon
    <3>4. UNCHANGED <<now, counter, losses>>
      BY <2>6 DEF ExpireFails
    <3> HIDE DEF broken
    <3> QED BY <2>3, <2>4, <3>2, <3>3, <3>4 DEF TypeOK, RequestState
  <2> QED BY <1>3, <2>5, <2>6
<1>4. CASE Tick
  <2>1. now' \in 0 .. MaxNow
    BY <1>4, RateLimiterAssumption DEF Tick, TypeOK, RequestState
  <2> QED BY <1>4, <2>1 DEF Tick, TypeOK, RequestState
<1>5. CASE LoseMemory
  <2>1. losses' \in 0 .. MaxLosses
    BY <1>5, RateLimiterAssumption DEF LoseMemory, TypeOK, RequestState
  <2> QED BY <1>5, <2>1 DEF LoseMemory, TypeOK, RequestState
<1>6. CASE UNCHANGED vars
  BY <1>6 DEF vars, TypeOK, RequestState
<1> QED BY <1>1, <1>2, <1>3, <1>4, <1>5, <1>6 DEF Next

-----------------------------------------------------------------------------
(* The steps preserve the invariant.                                       *)

LEMMA ArriveStep ==
    ASSUME LimiterInv, TypeOK', NEW r \in Request, Arrive(r)
    PROVE  LimiterInv'
<1>1. /\ UNCHANGED <<now, counter, expiry, losses>>
      /\ req[r].pc = "idle" /\ ~req[r].counted
      /\ \A q \in Request \ {r} : req'[q] = req[q]
      /\ req'[r].pc = "incr" /\ req'[r].counted = req[r].counted
      /\ req'[r].bucket = now \div Window
  BY DEF Arrive, LimiterInv, TypeOK, RequestState, CountedByIncr
<1>2. /\ \A k, b : Counted(k, b)' = Counted(k, b)
      /\ CounterIsEarned' /\ GrantsWithinQuota'
  BY <1>1, QuietRequest
<1>3. CountedByIncr' /\ CounterOutlivesWindow'
  BY <1>1 DEF LimiterInv, CountedByIncr, CounterOutlivesWindow, WindowEnd
<1>4. WindowHasBegun'
  BY <1>1, WindowOfClock DEF LimiterInv, TypeOK, RequestState, WindowHasBegun
<1>5. ExpiresUnlessBroken'
  BY <1>1, <1>2 DEF LimiterInv, ExpiresUnlessBroken, Counted
<1>6. SharedLimitUsed'
  BY <1>1, <1>2 DEF LimiterInv, SharedLimitUsed
<1> QED BY <1>2, <1>3, <1>4, <1>5, <1>6 DEF LimiterInv

LEMMA IncrStep ==
    ASSUME LimiterInv, TypeOK', NEW r \in Request, Incr(r)
    PROVE  LimiterInv'
<1>1. /\ UNCHANGED <<now, expiry, losses>>
      /\ req[r].pc = "incr" /\ ~req[r].counted
      /\ counter' = [counter EXCEPT ![Cell(r)] = Count(r)]
      /\ \A q \in Request \ {r} : req'[q] = req[q]
      /\ req'[r].counted /\ req'[r].kind = req[r].kind /\ req'[r].key = req[r].key
      /\ req'[r].bucket = req[r].bucket /\ req'[r].broken = req[r].broken
      /\ req'[r].late <=> now >= WindowEnd(req[r].bucket)
      /\ req'[r].pc = IF Count(r) = 1 THEN "expire" ELSE Decision(r, Count(r))
  BY DEF Incr, LimiterInv, TypeOK, RequestState, CountedByIncr
<1>2. /\ req[r].key \in Key /\ req[r].bucket \in Bucket /\ Limit[req[r].kind] \in Nat
      /\ Count(r) \in Nat /\ Count(r) = counter[<<req[r].key, req[r].bucket>>] + 1
  BY LimitType DEF LimiterInv, TypeOK, RequestState, Count, Cell
<1>3. /\ req'[r].pc = "allowed" => Count(r) <= Limit[req[r].kind]
      /\ req'[r].pc = "expire" <=> Count(r) = 1
      /\ req'[r].pc = "refused" => ~(Count(r) <= Limit[req[r].kind])
      /\ req'[r].pc \in {"allowed", "refused", "expire"}
  BY <1>1 DEF Decision
<1>4. /\ \A k, b : Counted(k, b)' =
             IF k = req[r].key /\ b = req[r].bucket THEN Counted(k, b) \cup {r} ELSE Counted(k, b)
      /\ \A k, b : k = req[r].key /\ b = req[r].bucket => Cardinality(Counted(k, b)') >= Count(r)
      /\ CounterIsEarned' /\ GrantsWithinQuota'
  BY <1>1, <1>3, CountingRequest
<1>5. CountedByIncr' /\ WindowHasBegun' /\ CounterOutlivesWindow'
  BY <1>1, <1>3 DEF LimiterInv, CountedByIncr, WindowHasBegun, CounterOutlivesWindow, WindowEnd
<1>6. ExpiresUnlessBroken'
  <2> SUFFICES ASSUME NEW k \in Key, NEW b \in Bucket,
                      counter'[<<k, b>>] # 0, expiry[<<k, b>>] = 0
               PROVE  \E q \in Counted(k, b)' : req'[q].pc = "expire" \/ req'[q].broken
    BY <1>1 DEF ExpiresUnlessBroken
  <2>1. CASE counter[<<k, b>>] = 0
    <3>1. k = req[r].key /\ b = req[r].bucket
      BY <1>1, <2>1 DEF LimiterInv, TypeOK, RequestState, Cell
    <3> QED BY <1>2, <1>3, <1>4, <2>1, <3>1
  <2>2. CASE counter[<<k, b>>] # 0
    <3>1. PICK q \in Counted(k, b) : req[q].pc = "expire" \/ req[q].broken
      BY <2>2 DEF LimiterInv, ExpiresUnlessBroken
    <3>2. q \in Request \ {r}
      BY <1>1, <3>1 DEF Counted
    <3> QED BY <1>1, <1>4, <3>1, <3>2
  <2> QED BY <2>1, <2>2
<1>7. SharedLimitUsed'
  <2> SUFFICES ASSUME NEW q \in Request, req'[q].pc = "refused",
                      NEW k, NEW b, k = req'[q].key, b = req'[q].bucket
               PROVE  Cardinality(Counted(k, b)') > Limit[req'[q].kind]
    BY DEF SharedLimitUsed, Counted
  <2>1. /\ Cardinality(Counted(k, b)) \in Nat /\ Cardinality(Counted(k, b) \cup {r}) \in Nat
        /\ Cardinality(Counted(k, b) \cup {r}) >= Cardinality(Counted(k, b))
    BY CountedFinite, AddRequest
  <2>2. /\ Cardinality(Counted(k, b)') >= Cardinality(Counted(k, b))
        /\ Cardinality(Counted(k, b)') \in Nat
    BY <1>4, <2>1
  <2>3. CASE q = r
    BY <1>1, <1>2, <1>3, <1>4, <2>1, <2>2, <2>3
  <2>4. CASE q # r
    <3>1. /\ k = req[q].key /\ b = req[q].bucket /\ req'[q] = req[q]
          /\ Limit[req[q].kind] \in Nat
      BY <1>1, <2>4, LimitType DEF LimiterInv, TypeOK, RequestState
    <3>2. Cardinality(Counted(k, b)) > Limit[req[q].kind]
      BY <3>1 DEF LimiterInv, SharedLimitUsed
    <3> QED BY <2>1, <2>2, <3>1, <3>2
  <2> QED BY <2>3, <2>4
<1> QED BY <1>4, <1>5, <1>6, <1>7 DEF LimiterInv

\* A failing INCR that was carried out counts, but grants nothing; one that
\* was not does neither.
LEMMA IncrFailsStep ==
    ASSUME LimiterInv, TypeOK', NEW r \in Request, IncrFails(r)
    PROVE  LimiterInv'
<1>1. /\ UNCHANGED <<now, expiry, losses>>
      /\ req[r].pc = "incr" /\ ~req[r].counted
      /\ \A q \in Request \ {r} : req'[q] = req[q]
      /\ req'[r].kind = req[r].kind /\ req'[r].key = req[r].key
      /\ req'[r].bucket = req[r].bucket
      /\ req'[r].pc \in {"open", "unavailable"}
  BY DEF IncrFails, OnError, LimiterInv, TypeOK, RequestState, CountedByIncr
<1>2. CountedByIncr' /\ WindowHasBegun' /\ CounterOutlivesWindow'
  BY <1>1 DEF LimiterInv, CountedByIncr, WindowHasBegun, CounterOutlivesWindow, WindowEnd
<1>3. PICK counted \in BOOLEAN :
         /\ counter' = IF counted THEN [counter EXCEPT ![Cell(r)] = Count(r)] ELSE counter
         /\ req' = [req EXCEPT ![r] = [@ EXCEPT !.pc = OnError(r), !.counted = counted,
                               !.late = counted /\ now >= WindowEnd(req[r].bucket),
                               !.broken = counted /\ Count(r) = 1]]
  BY Zenon DEF IncrFails
<1>4. /\ req'[r].counted = counted
      /\ counted => /\ req'[r].late <=> now >= WindowEnd(req[r].bucket)
                    /\ req'[r].broken <=> Count(r) = 1
  BY <1>3 DEF LimiterInv, TypeOK, RequestState
<1>5. /\ req[r].key \in Key /\ req[r].bucket \in Bucket
      /\ Count(r) \in Nat /\ Count(r) = counter[<<req[r].key, req[r].bucket>>] + 1
  BY DEF LimiterInv, TypeOK, RequestState, Count, Cell
<1>6. CASE counted
  <2>1. counter' = [counter EXCEPT ![Cell(r)] = Count(r)]
    BY <1>3, <1>6
  <2>2. /\ \A k, b : Counted(k, b)' =
               IF k = req[r].key /\ b = req[r].bucket THEN Counted(k, b) \cup {r} ELSE Counted(k, b)
        /\ CounterIsEarned' /\ GrantsWithinQuota'
    BY <1>1, <1>4, <1>6, <2>1, CountingRequest
  <2>3. ExpiresUnlessBroken'
    <3> SUFFICES ASSUME NEW k \in Key, NEW b \in Bucket,
                        counter'[<<k, b>>] # 0, expiry[<<k, b>>] = 0
                 PROVE  \E q \in Counted(k, b)' : req'[q].pc = "expire" \/ req'[q].broken
      BY <1>1 DEF ExpiresUnlessBroken
    <3>1. CASE counter[<<k, b>>] = 0
      <4>1. k = req[r].key /\ b = req[r].bucket
        BY <2>1, <3>1 DEF LimiterInv, TypeOK, Cell
      <4> QED BY <1>4, <1>5, <1>6, <2>2, <3>1, <4>1
    <3>2. CASE counter[<<k, b>>] # 0
      <4>1. PICK q \in Counted(k, b) : req[q].pc = "expire" \/ req[q].broken
        BY <3>2 DEF LimiterInv, ExpiresUnlessBroken
      <4>2. q \in Request \ {r}
        BY <1>1, <4>1 DEF Counted
      <4> QED BY <1>1, <2>2, <4>1, <4>2
    <3> QED BY <3>1, <3>2
  <2>4. SharedLimitUsed'
    <3> SUFFICES ASSUME NEW q \in Request, req'[q].pc = "refused",
                        NEW k, NEW b, k = req'[q].key, b = req'[q].bucket
                 PROVE  Cardinality(Counted(k, b)') > Limit[req'[q].kind]
      BY DEF SharedLimitUsed, Counted
    <3>1. /\ Cardinality(Counted(k, b)') >= Cardinality(Counted(k, b))
          /\ Cardinality(Counted(k, b)') \in Nat /\ Cardinality(Counted(k, b)) \in Nat
      <4>1. /\ Cardinality(Counted(k, b) \cup {r}) >= Cardinality(Counted(k, b))
            /\ Cardinality(Counted(k, b) \cup {r}) \in Nat /\ Cardinality(Counted(k, b)) \in Nat
        BY CountedFinite, AddRequest
      <4> QED BY <2>2, <4>1
    <3>2. /\ req'[q] = req[q] /\ k = req[q].key /\ b = req[q].bucket
          /\ Limit[req[q].kind] \in Nat
      BY <1>1, LimitType DEF LimiterInv, TypeOK, RequestState
    <3>3. Cardinality(Counted(k, b)) > Limit[req[q].kind]
      BY <3>2 DEF LimiterInv, SharedLimitUsed
    <3> QED BY <3>1, <3>2, <3>3
  <2> QED BY <1>2, <2>2, <2>3, <2>4 DEF LimiterInv
<1>7. CASE ~counted
  <2>1. UNCHANGED counter
    BY <1>3, <1>7
  <2>2. req'[r].counted = req[r].counted
    BY <1>1, <1>4, <1>7 DEF LimiterInv, TypeOK, RequestState
  <2>3. /\ \A k, b : Counted(k, b)' = Counted(k, b)
        /\ CounterIsEarned' /\ GrantsWithinQuota'
    BY <1>1, <2>1, <2>2, QuietRequest
  <2>4. ExpiresUnlessBroken'
    BY <1>1, <2>1, <2>3 DEF LimiterInv, ExpiresUnlessBroken, Counted
  <2>5. SharedLimitUsed'
    BY <1>1, <2>3 DEF LimiterInv, SharedLimitUsed
  <2> QED BY <1>2, <2>3, <2>4, <2>5 DEF LimiterInv
<1> QED BY <1>6, <1>7

\* What EXPIRE leaves of a counter: it lives to the end of its window.
LEMMA ExpireStep ==
    ASSUME LimiterInv, TypeOK', NEW r \in Request, Expire(r) \/ ExpireFails(r)
    PROVE  LimiterInv'
<1>1. /\ UNCHANGED <<now, counter, losses>>
      /\ req[r].pc = "expire" /\ req[r].counted
      /\ \A q \in Request \ {r} : req'[q] = req[q]
      /\ req'[r].kind = req[r].kind /\ req'[r].key = req[r].key
      /\ req'[r].bucket = req[r].bucket /\ req'[r].late = req[r].late
      /\ req'[r].counted = req[r].counted
      /\ req'[r].pc \in {"allowed", "refused", "open", "unavailable"}
      /\ req'[r].pc = "allowed" => 1 <= Limit[req[r].kind]
      /\ req'[r].pc = "refused" => ~(1 <= Limit[req[r].kind])
  BY DEF Expire, ExpireFails, Decision, OnError, LimiterInv, TypeOK, RequestState, CountedByIncr
<1>2. /\ req[r].key \in Key /\ req[r].bucket \in Bucket /\ Limit[req[r].kind] \in Nat
      /\ Cell(r) = <<req[r].key, req[r].bucket>>
      /\ now \in Nat /\ Window \in Nat /\ Window > 0 /\ now + Window # 0
  BY LimitType, RateLimiterAssumption DEF LimiterInv, TypeOK, RequestState, Cell
<1>3. /\ \A k, b : Counted(k, b)' = Counted(k, b)
      /\ CounterIsEarned' /\ GrantsWithinQuota'
  BY <1>1, QuietRequest
<1>4. CountedByIncr' /\ WindowHasBegun'
  BY <1>1 DEF LimiterInv, CountedByIncr, WindowHasBegun
<1>5. \/ expiry' = [expiry EXCEPT ![Cell(r)] = now + Window] /\ counter[Cell(r)] # 0
      \/ expiry' = [expiry EXCEPT ![Cell(r)] = 0] /\ counter[Cell(r)] = 0
      \/ expiry' = expiry /\ (counter[Cell(r)] = 0 \/ req'[r].broken)
  BY DEF Expire, ExpireFails, LimiterInv, TypeOK, RequestState
<1>6. CounterOutlivesWindow'
  <2> SUFFICES ASSUME NEW k \in Key, NEW b \in Bucket, expiry'[<<k, b>>] # 0
               PROVE  expiry'[<<k, b>>] >= WindowEnd(b)
    BY DEF CounterOutlivesWindow, WindowEnd
  <2>1. CASE expiry'[<<k, b>>] = expiry[<<k, b>>]
    BY <2>1 DEF LimiterInv, CounterOutlivesWindow
  <2>2. CASE expiry'[<<k, b>>] # expiry[<<k, b>>]
    <3>1. expiry'[<<k, b>>] = now + Window /\ b = req[r].bucket
      BY <1>2, <1>5, <2>2 DEF LimiterInv, TypeOK
    <3>2. b * Window <= now /\ b * Window \in Nat
      BY <1>2, <3>1, WindowEndType DEF LimiterInv, WindowHasBegun
    <3> QED BY <1>2, <3>1, <3>2, WindowEndType
  <2> QED BY <2>1, <2>2
<1>7. ExpiresUnlessBroken'
  <2> SUFFICES ASSUME NEW k \in Key, NEW b \in Bucket,
                      counter[<<k, b>>] # 0, expiry'[<<k, b>>] = 0
               PROVE  \E q \in Counted(k, b) : req'[q].pc = "expire" \/ req'[q].broken
    BY <1>1, <1>3 DEF ExpiresUnlessBroken
  <2>1. CASE k = req[r].key /\ b = req[r].bucket
    <3>1. req'[r].broken
      BY <1>2, <1>5, <2>1 DEF LimiterInv, TypeOK
    <3>2. r \in Counted(k, b)
      BY <1>1, <2>1 DEF Counted
    <3> QED BY <3>1, <3>2
  <2>2. CASE ~(k = req[r].key /\ b = req[r].bucket)
    <3>1. expiry[<<k, b>>] = 0
      BY <1>2, <1>5, <2>2 DEF LimiterInv, TypeOK
    <3>2. PICK q \in Counted(k, b) : req[q].pc = "expire" \/ req[q].broken
      BY <3>1 DEF LimiterInv, ExpiresUnlessBroken
    <3>3. q \in Request \ {r}
      BY <2>2, <3>2 DEF Counted
    <3> QED BY <1>1, <3>2, <3>3
  <2> QED BY <2>1, <2>2
<1>8. SharedLimitUsed'
  <2> SUFFICES ASSUME NEW q \in Request, req'[q].pc = "refused",
                      NEW k, NEW b, k = req'[q].key, b = req'[q].bucket
               PROVE  Cardinality(Counted(k, b)') > Limit[req'[q].kind]
    BY DEF SharedLimitUsed, Counted
  <2>1. CASE q = r
    <3>1. r \in Counted(k, b)
      BY <1>1, <2>1 DEF Counted
    <3>2. Cardinality(Counted(k, b)) # 0 /\ Cardinality(Counted(k, b)) \in Nat
      BY <3>1, CountedFinite, FS_EmptySet
    <3> QED BY <1>1, <1>2, <1>3, <2>1, <3>2
  <2>2. CASE q # r
    BY <1>1, <1>3, <2>2 DEF LimiterInv, SharedLimitUsed
  <2> QED BY <2>1, <2>2
<1> QED BY <1>3, <1>4, <1>6, <1>7, <1>8 DEF LimiterInv

\* A counter that expires does so after its window.
LEMMA TickStep ==
    ASSUME LimiterInv, TypeOK', Tick
    PROVE  LimiterInv'
<1>1. /\ UNCHANGED <<req, losses>> /\ now' = now + 1 /\ now \in Nat
      /\ \A k \in Key, b \in Bucket :
           \/ /\ counter'[<<k, b>>] = counter[<<k, b>>]
              /\ expiry'[<<k, b>>] = expiry[<<k, b>>]
           \/ /\ counter'[<<k, b>>] = 0 /\ expiry'[<<k, b>>] = 0
              /\ expiry[<<k, b>>] # 0 /\ expiry[<<k, b>>] <= now'
  BY RateLimiterAssumption DEF Tick, LimiterInv, TypeOK
<1>2. \A k, b : Counted(k, b)' = Counted(k, b)
  BY <1>1 DEF Counted
<1>3. CountedByIncr' /\ SharedLimitUsed'
  BY <1>1, <1>2 DEF LimiterInv, CountedByIncr, SharedLimitUsed
<1>4. WindowHasBegun'
  <2> SUFFICES ASSUME NEW r \in Request PROVE req[r].bucket * Window <= now + 1
    BY <1>1 DEF WindowHasBegun
  <2>1. req[r].bucket \in Bucket
    BY DEF LimiterInv, TypeOK, RequestState
  <2>2. req[r].bucket * Window \in Nat
    BY <2>1, WindowEndType, RateLimiterAssumption
  <2> QED BY <1>1, <2>2 DEF LimiterInv, WindowHasBegun
<1>5. CounterOutlivesWindow'
  BY <1>1 DEF LimiterInv, CounterOutlivesWindow, WindowEnd
<1>6. CounterIsEarned'
  <2> SUFFICES ASSUME NEW k \in Key, NEW b \in Bucket
               PROVE  counter'[<<k, b>>] <= Cardinality(Counted(k, b))
    BY <1>2 DEF CounterIsEarned
  <2> QED BY <1>1, CountedFinite DEF LimiterInv, CounterIsEarned
<1>7. GrantsWithinQuota'
  <2> SUFFICES ASSUME NEW k \in Key, NEW b \in Bucket, NEW kind \in Kind
               PROVE  Cardinality(Grants(k, b, kind)') <=
                        (Limit[kind] * losses + GrantedNow(k, b, kind))'
    BY DEF GrantsWithinQuota
  <2>1. Grants(k, b, kind)' = Grants(k, b, kind)
    BY <1>1, <1>2 DEF Grants
  <2>2. /\ Cardinality(Grants(k, b, kind)) <= Limit[kind] * losses + GrantedNow(k, b, kind)
        /\ Cardinality(Grants(k, b, kind)) \in Nat /\ Limit[kind] * losses \in Nat
        /\ GrantedNow(k, b, kind) \in Nat /\ GrantedNow(k, b, kind) <= Limit[kind]
        /\ Limit[kind] \in Nat /\ WindowEnd(b) \in Nat /\ expiry[<<k, b>>] \in Nat
    BY QuotaOfLosses, LimitType, GrantedNowType, GrantsFinite, WindowEndType
    DEF LimiterInv, TypeOK, GrantsWithinQuota
  <2>3. GrantedNow(k, b, kind)' = IF now' < WindowEnd(b)
                                  THEN AtMost(counter'[<<k, b>>], Limit[kind]) ELSE Limit[kind]
    BY DEF GrantedNow, WindowEnd
  <2>4. now' < WindowEnd(b) => counter'[<<k, b>>] = counter[<<k, b>>] /\ now < WindowEnd(b)
    BY <1>1, <2>2 DEF LimiterInv, CounterOutlivesWindow
  <2>5. GrantedNow(k, b, kind)' \in {GrantedNow(k, b, kind), Limit[kind]}
    BY <2>3, <2>4 DEF GrantedNow
  <2> QED BY <1>1, <2>1, <2>2, <2>5
<1>8. ExpiresUnlessBroken'
  BY <1>1, <1>2 DEF LimiterInv, ExpiresUnlessBroken
<1> QED BY <1>3, <1>4, <1>5, <1>6, <1>7, <1>8 DEF LimiterInv

\* A loss of memory takes the counters, and grants one limit more.
LEMMA LoseStep ==
    ASSUME LimiterInv, TypeOK', LoseMemory
    PROVE  LimiterInv'
<1>1. /\ UNCHANGED <<now, req>> /\ losses' = losses + 1 /\ losses \in Nat
      /\ \A k \in Key, b \in Bucket : counter'[<<k, b>>] = 0 /\ expiry'[<<k, b>>] = 0
  BY RateLimiterAssumption DEF LoseMemory, LimiterInv, TypeOK
<1>2. \A k, b : Counted(k, b)' = Counted(k, b)
  BY <1>1 DEF Counted
<1>3. CountedByIncr' /\ SharedLimitUsed' /\ WindowHasBegun' /\ CounterOutlivesWindow'
  BY <1>1, <1>2
  DEF LimiterInv, CountedByIncr, SharedLimitUsed, WindowHasBegun, CounterOutlivesWindow
<1>4. CounterIsEarned' /\ ExpiresUnlessBroken'
  BY <1>1, <1>2, CountedFinite DEF CounterIsEarned, ExpiresUnlessBroken
<1>5. GrantsWithinQuota'
  <2> SUFFICES ASSUME NEW k \in Key, NEW b \in Bucket, NEW kind \in Kind
               PROVE  Cardinality(Grants(k, b, kind)') <=
                        (Limit[kind] * losses + GrantedNow(k, b, kind))'
    BY DEF GrantsWithinQuota
  <2>1. Grants(k, b, kind)' = Grants(k, b, kind)
    BY <1>1, <1>2 DEF Grants
  <2>2. /\ Cardinality(Grants(k, b, kind)) <= Limit[kind] * losses + GrantedNow(k, b, kind)
        /\ Cardinality(Grants(k, b, kind)) \in Nat /\ Limit[kind] * losses \in Nat
        /\ GrantedNow(k, b, kind) \in Nat /\ GrantedNow(k, b, kind) <= Limit[kind]
        /\ Limit[kind] \in Nat
    BY <1>1, QuotaOfLosses, LimitType, GrantedNowType, GrantsFinite
    DEF LimiterInv, GrantsWithinQuota
  <2>3. GrantedNow(k, b, kind)' \in Nat
    BY <1>1, <2>2 DEF GrantedNow, AtMost, WindowEnd
  <2>4. Limit[kind] * losses' = Limit[kind] * losses + Limit[kind]
    BY <1>1, <2>2, QuotaOfLosses
  <2> QED BY <2>1, <2>2, <2>3, <2>4
<1> QED BY <1>3, <1>4, <1>5 DEF LimiterInv

LEMMA LimiterStep == LimiterInv /\ [Next]_vars => LimiterInv'
<1> SUFFICES ASSUME LimiterInv, [Next]_vars PROVE LimiterInv'
  OBVIOUS
<1>1. TypeOK'
  BY TypeStep DEF LimiterInv
<1>2. CASE UNCHANGED vars
  <2>1. UNCHANGED <<now, counter, expiry, req, losses>>
    BY <1>2 DEF vars
  <2> QED BY <1>1, <2>1
      DEF LimiterInv, CountedByIncr, WindowHasBegun, CounterOutlivesWindow, CounterIsEarned,
          GrantsWithinQuota, ExpiresUnlessBroken, SharedLimitUsed, Counted, Grants, GrantedNow,
          WindowEnd
<1>3. CASE Next
  BY <1>1, <1>3, ArriveStep, IncrStep, IncrFailsStep, ExpireStep, TickStep, LoseStep DEF Next
<1> QED BY <1>2, <1>3

LEMMA LimiterInit == Init => LimiterInv
<1> SUFFICES ASSUME Init PROVE LimiterInv
  OBVIOUS
<1>1. TypeOK
  BY TypeInit
<1>2. /\ now = 0 /\ losses = 0
      /\ \A x \in Key \X Bucket : counter[x] = 0 /\ expiry[x] = 0
      /\ \A r \in Request : req[r].pc = "idle" /\ req[r].bucket = 0 /\ ~req[r].counted
  BY DEF Init
<1>3. \A k, b : Counted(k, b) = {}
  BY <1>2 DEF Counted
<1>4. \A k, b, kind : Grants(k, b, kind) = {}
  BY <1>3 DEF Grants
<1>5. CountedByIncr /\ WindowHasBegun /\ CounterOutlivesWindow /\ ExpiresUnlessBroken /\ SharedLimitUsed
  BY <1>2, RateLimiterAssumption
  DEF CountedByIncr, WindowHasBegun, CounterOutlivesWindow, ExpiresUnlessBroken, SharedLimitUsed
<1>6. CounterIsEarned
  BY <1>2, <1>3, FS_EmptySet DEF CounterIsEarned
<1>7. GrantsWithinQuota
  <2> SUFFICES ASSUME NEW k \in Key, NEW b \in Bucket, NEW kind \in Kind
               PROVE  Cardinality(Grants(k, b, kind)) <= Limit[kind] * losses + GrantedNow(k, b, kind)
    BY DEF GrantsWithinQuota
  <2>1. Cardinality(Grants(k, b, kind)) = 0
    BY <1>4, FS_EmptySet
  <2>2. Limit[kind] * losses \in Nat /\ GrantedNow(k, b, kind) \in Nat
    BY <1>1, <1>2, QuotaOfLosses, LimitType, GrantedNowType
  <2> QED BY <2>1, <2>2
<1> QED BY <1>1, <1>5, <1>6, <1>7 DEF LimiterInv

LEMMA LimiterInvariant == Spec => []LimiterInv
BY LimiterInit, LimiterStep, PTL DEF Spec

-----------------------------------------------------------------------------
(* The theorems.                                                           *)

\* Every variable keeps its type, for any clock and any number of losses.
THEOREM LimiterTypeCorrect == Spec => []TypeOK
BY LimiterInvariant, PTL DEF LimiterInv

\* RateLimiter.check keeps the limit of every window: however many requests
\* come together and whichever commands fail, no more are allowed than the
\* limit, once and once more for every loss of Redis' memory.
THEOREM LimitIsKept == Spec => []WithinLimit
<1>1. LimiterInv => WithinLimit
  <2> SUFFICES ASSUME LimiterInv, NEW k \in Key, NEW b \in Bucket, NEW kind \in Kind
               PROVE  Cardinality({r \in Counted(k, b) : req[r].kind = kind /\ req[r].pc = "allowed"
                                                         /\ ~req[r].late})
                        <= Limit[kind] * (1 + losses)
    BY DEF WithinLimit
  <2> DEFINE S == {r \in Counted(k, b) : req[r].kind = kind /\ req[r].pc = "allowed" /\ ~req[r].late}
  <2>1. S \in SUBSET Grants(k, b, kind)
    BY DEF Grants
  <2>2. Cardinality(S) <= Cardinality(Grants(k, b, kind)) /\ Cardinality(S) \in Nat
    BY <2>1, GrantsFinite, FS_Subset, FS_CardinalityType
  <2>3. /\ Cardinality(Grants(k, b, kind)) <= Limit[kind] * losses + GrantedNow(k, b, kind)
        /\ GrantedNow(k, b, kind) \in Nat /\ GrantedNow(k, b, kind) <= Limit[kind]
        /\ Cardinality(Grants(k, b, kind)) \in Nat /\ Limit[kind] \in Nat /\ losses \in Nat
    BY LimitType, GrantedNowType, GrantsFinite, RateLimiterAssumption
    DEF LimiterInv, TypeOK, GrantsWithinQuota
  <2>4. /\ Limit[kind] * losses \in Nat
        /\ Limit[kind] * (1 + losses) = Limit[kind] * losses + Limit[kind]
    BY <2>3, QuotaOfLosses
  <2> QED BY <2>2, <2>3, <2>4
<1> QED BY <1>1, LimiterInvariant, PTL

\* rate_limit_middleware answers 429 to no caller whose requests of the window
\* are all of one kind and within its limit; the counter that both kinds share
\* may refuse one that has made both.
THEOREM RefusalsAreDue == Spec => []RefusedIsFull
<1>1. LimiterInv => RefusedIsFull
  BY DEF LimiterInv, SharedLimitUsed, RefusedIsFull
<1> QED BY <1>1, LimiterInvariant, PTL

\* A counter without expiry is one whose EXPIRE is to come or has failed.
THEOREM CountersExpire == Spec => []ExpiresUnlessBroken
BY LimiterInvariant, PTL DEF LimiterInv
=============================================================================
