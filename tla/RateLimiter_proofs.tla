------------------------- MODULE RateLimiter_proofs -------------------------
(***************************************************************************)
(* The bound on what a client is granted, for every burst, every number of *)
(* concurrent requests and every schedule of the clean-up.                 *)
(***************************************************************************)
EXTENDS RateLimiter, TLAPS

\* What an observer has counted, together with what the bucket in the map would give
\* now, is within the bound; with no bucket in the map there is room for a full one.
Budget ==
  IF listed = NoBucket THEN spent =< now - mark
                       ELSE spent + Refilled(listed) =< Burst + (now - mark)

\* No bucket is refilled later than now.
IInv == TypeOK /\ Budget /\ \A b \in Buckets : filledAt[b] =< now

\* Init establishes the invariant: nothing spent, no bucket.
LEMMA Initially == ASSUME RateLimiterAssumption PROVE Init => IInv
BY DEF RateLimiterAssumption, Init, IInv, TypeOK, Budget

\* A request that finds no bucket puts a full one there; it costs what the deleted
\* one would have been refilled to.
LEMMA LoadKeeps == ASSUME RateLimiterAssumption, IInv, NEW c \in Callers, Load(c) PROVE IInv'
<1>1. CASE listed # NoBucket
  BY <1>1 DEF RateLimiterAssumption, IInv, TypeOK, Budget, Load, Refilled
<1>2. CASE listed = NoBucket
  <2>1. PICK b \in Buckets \ used :
           /\ listed' = b /\ used' = used \cup {b}
           /\ level' = [level EXCEPT ![b] = Burst]
           /\ filledAt' = [filledAt EXCEPT ![b] = now]
           /\ holds' = [holds EXCEPT ![c] = b]
    BY <1>2 DEF Load
  <2>2. TypeOK'
    BY <2>1 DEF RateLimiterAssumption, IInv, TypeOK, Load
  <2>3. listed' # NoBucket /\ Refilled(listed)' = Burst
    BY <2>1 DEF RateLimiterAssumption, IInv, TypeOK, Load, Refilled
  <2>4. Budget'
    BY <1>2, <2>3 DEF RateLimiterAssumption, IInv, TypeOK, Budget, Load
  <2>5. \A x \in Buckets : filledAt'[x] =< now'
    BY <2>1 DEF IInv, TypeOK, Load
  <2>6. QED BY <2>2, <2>4, <2>5 DEF IInv
<1>3. QED BY <1>1, <1>2

\* The other steps of a request: a token is taken, or there is none.
LEMMA AllowKeeps == ASSUME RateLimiterAssumption, IInv, NEW c \in Callers, Allow(c) PROVE IInv'
<1> DEFINE b == holds[c]
<1>1. /\ b \in Buckets
      /\ level' = [level EXCEPT ![b] = Refilled(b) - Token]
      /\ filledAt' = [filledAt EXCEPT ![b] = now]
      /\ Refilled(b) \in Int /\ Refilled(b) >= Token /\ Refilled(b) =< Burst
  BY DEF RateLimiterAssumption, IInv, TypeOK, Allow, Refilled
<1>2. TypeOK'
  BY <1>1 DEF RateLimiterAssumption, IInv, TypeOK, Allow
<1>3. Budget'
  <2>1. CASE b = listed
    <3>1. spent' = spent + Token /\ listed' = listed /\ now' = now /\ mark' = mark
      BY <2>1 DEF Allow
    <3>2. Refilled(listed)' = Refilled(b) - Token
      BY <1>1, <2>1, <3>1 DEF RateLimiterAssumption, IInv, TypeOK, Refilled
    <3>3. QED BY <1>1, <2>1, <3>1, <3>2 DEF RateLimiterAssumption, IInv, TypeOK, Budget
  <2>2. CASE b # listed
    <3>1. spent' = spent /\ listed' = listed /\ now' = now /\ mark' = mark
      BY <2>2 DEF Allow
    <3>2. listed # NoBucket => Refilled(listed)' = Refilled(listed)
      BY <1>1, <2>2, <3>1 DEF IInv, TypeOK, Refilled
    <3>3. QED BY <3>1, <3>2 DEF IInv, Budget
  <2>3. QED BY <2>1, <2>2
<1>4. \A x \in Buckets : filledAt'[x] =< now'
  BY <1>1 DEF IInv, TypeOK, Allow
<1>5. QED BY <1>2, <1>3, <1>4 DEF IInv

LEMMA DenyKeeps == ASSUME RateLimiterAssumption, IInv, NEW c \in Callers, Deny(c) PROVE IInv'
<1> DEFINE b == holds[c]
<1>1. /\ b \in Buckets
      /\ level' = [level EXCEPT ![b] = Refilled(b)]
      /\ filledAt' = [filledAt EXCEPT ![b] = now]
      /\ Refilled(b) \in Nat /\ Refilled(b) =< Burst
  BY DEF RateLimiterAssumption, IInv, TypeOK, Deny, Refilled
<1>2. TypeOK'
  BY <1>1 DEF RateLimiterAssumption, IInv, TypeOK, Deny
<1>3. Budget'
  <2>1. spent' = spent /\ listed' = listed /\ now' = now /\ mark' = mark
    BY DEF Deny
  <2>2. listed # NoBucket => Refilled(listed)' = Refilled(listed)
    BY <1>1, <2>1 DEF RateLimiterAssumption, IInv, TypeOK, Refilled
  <2>3. QED BY <2>1, <2>2 DEF IInv, Budget
<1>4. \A x \in Buckets : filledAt'[x] =< now'
  BY <1>1 DEF IInv, TypeOK, Deny
<1>5. QED BY <1>2, <1>3, <1>4 DEF IInv

\* A bucket is deleted only when it has had the time to fill up.
LEMMA CleanupKeeps == ASSUME RateLimiterAssumption, IInv, Cleanup PROVE IInv'
<1>1. Refilled(listed) = Burst
  BY DEF RateLimiterAssumption, IInv, TypeOK, Cleanup, Refilled
<1>2. Budget'
  BY <1>1 DEF RateLimiterAssumption, IInv, TypeOK, Budget, Cleanup
<1>3. QED BY <1>2 DEF IInv, TypeOK, Cleanup

\* Time refills at most what it allows, and an observer begins with a full bucket.
LEMMA ClockKeeps == ASSUME RateLimiterAssumption, IInv, Tick \/ Mark PROVE IInv'
<1>1. CASE Tick
  <2>1. listed # NoBucket => Refilled(listed)' =< Refilled(listed) + 1
    BY <1>1 DEF RateLimiterAssumption, IInv, TypeOK, Tick, Refilled
  <2>2. listed # NoBucket => Refilled(listed) \in Int /\ Refilled(listed)' \in Int
    BY <1>1 DEF RateLimiterAssumption, IInv, TypeOK, Tick, Refilled
  <2>3. Budget'
    BY <1>1, <2>1, <2>2 DEF RateLimiterAssumption, IInv, TypeOK, Budget, Tick
  <2>4. QED BY <1>1, <2>3 DEF IInv, TypeOK, Tick
<1>2. CASE Mark
  BY <1>2 DEF RateLimiterAssumption, IInv, TypeOK, Budget, Mark, Refilled
<1>3. QED BY <1>1, <1>2

LEMMA StepKeeps == ASSUME RateLimiterAssumption, IInv, [Next]_limiterVars PROVE IInv'
<1>1. CASE Next
  BY <1>1, LoadKeeps, AllowKeeps, DenyKeeps, CleanupKeeps, ClockKeeps DEF Next
<1>2. CASE UNCHANGED limiterVars
  BY <1>2 DEF limiterVars, IInv, TypeOK, Budget, Refilled
<1>3. QED BY <1>1, <1>2

THEOREM Invariance == ASSUME RateLimiterAssumption PROVE Spec => []IInv
<1>1. Init => IInv BY Initially
<1>2. IInv /\ [Next]_limiterVars => IInv' BY StepKeeps
<1>3. QED BY <1>1, <1>2, PTL DEF Spec

\* The types of the limiter's state.
THEOREM TypeCorrect == ASSUME RateLimiterAssumption PROVE Spec => []TypeOK
<1>1. IInv => TypeOK BY DEF IInv
<1>2. QED BY <1>1, Invariance, PTL

\* Over every span of time a client is granted no more than a burst and the refill of
\* that span from the bucket in the map, however the clean-up interferes.
THEOREM BoundedGrants == ASSUME RateLimiterAssumption PROVE Spec => []GrantsAreBounded
<1>1. ASSUME IInv PROVE GrantsAreBounded
  <2>1. listed # NoBucket => Refilled(listed) \in Nat
    BY <1>1 DEF RateLimiterAssumption, IInv, TypeOK, Refilled
  <2>2. QED BY <1>1, <2>1 DEF RateLimiterAssumption, IInv, TypeOK, Budget, GrantsAreBounded
<1>2. QED BY <1>1, Invariance, PTL
=============================================================================
