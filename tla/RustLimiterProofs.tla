-------------------------- MODULE RustLimiterProofs --------------------------
(***************************************************************************)
(* Theorems about RustLimiter, for every set of tasks, every size of call  *)
(* and as long as it runs: the limit is not exceeded by more than one      *)
(* call, and no caller waits longer than the limit demands.                *)
(***************************************************************************)
EXTENDS RustLimiter, FiniteSetTheorems, TLAPS

-----------------------------------------------------------------------------
(* The inductive invariant *)

\* The waiting callers whose time has come at t, and the others.
Due(t) == {c \in Waiting : until[c] <= t}
Later(t) == {c \in Waiting : until[c] > t}

Types ==
  /\ n \in Sizes /\ now \in 0..MaxTime /\ passed \in Nat /\ next \in Nat
  /\ pc \in [Callers -> {"idle", "wait"}] /\ until \in [Callers -> Nat]

\* Everyone's time ends before the next one starts.
NextIsFree == \A c \in Waiting : until[c] + n <= next

\* Each request that got through or is waiting was given its time.
TimeGiven == passed + n * Cardinality(Waiting) <= next

\* What will have got through by any time to come.
LimitAhead ==
  \A t \in Nat : t >= now => passed + n * Cardinality(Due(t)) <= t + n

\* Time is not given away in vain: after any time to come there is no more of
\* it taken than the callers still waiting then need.
NoTimeWasted ==
  \A t \in Nat : t >= now =>
    /\ next <= t + n + n * Cardinality(Later(t))
    /\ \A c \in Waiting : until[c] <= t + n * Cardinality(Later(t))

RustInv ==
  Types /\ NextIsFree /\ SpacedEvenly /\ TimeGiven /\ LimitAhead /\ NoTimeWasted

-----------------------------------------------------------------------------
(* Counting callers *)

\* Multiples of a call's size.
LEMMA Multiples ==
  ASSUME NEW k \in Nat, NEW m \in Nat
  PROVE  k * m \in Nat /\ k * 0 = 0 /\ k * (m + 1) = k * m + k
OBVIOUS

\* More callers take more.
LEMMA MoreTakeMore ==
  ASSUME NEW k \in Nat, NEW l \in Nat, NEW m \in Nat, l <= m
  PROVE  k * l <= k * m
OBVIOUS

\* A call asks for one request at least.
LEMMA CallSize == Types => n \in Nat /\ n > 0 /\ now \in Nat
BY RustLimiterAssumption DEF Types

\* The sets of callers that are counted are finite.
LEMMA CallersFinite ==
  /\ IsFiniteSet(Waiting) /\ Cardinality(Waiting) \in Nat
  /\ Cardinality(Callers) \in Nat /\ Cardinality(Waiting) <= Cardinality(Callers)
  /\ \A t : /\ IsFiniteSet(Due(t)) /\ Cardinality(Due(t)) \in Nat
            /\ IsFiniteSet(Later(t)) /\ Cardinality(Later(t)) \in Nat
            /\ Cardinality(Due(t)) <= Cardinality(Waiting)
            /\ Cardinality(Later(t)) <= Cardinality(Waiting)
<1>1. IsFiniteSet(Callers) /\ Waiting \subseteq Callers
  BY RustLimiterAssumption DEF Waiting
<1>2. \A t : Due(t) \subseteq Waiting /\ Later(t) \subseteq Waiting
  BY DEF Due, Later
<1>3. \A S, T : IsFiniteSet(T) /\ S \subseteq T =>
        IsFiniteSet(S) /\ Cardinality(S) \in Nat /\ Cardinality(S) <= Cardinality(T)
  BY FS_Subset, FS_CardinalityType
<1>4. IsFiniteSet(Waiting)
  BY <1>1, <1>3
<1>. QED  BY <1>1, <1>2, <1>3, <1>4

-----------------------------------------------------------------------------
(* Steps *)

LEMMA RustInit == Init => RustInv
<1>. SUFFICES ASSUME Init PROVE RustInv
  OBVIOUS
<1>1. Types /\ n \in Nat
  BY RustLimiterAssumption DEF Init, Types
<1>2. Waiting = {} /\ \A t : Due(t) = {} /\ Later(t) = {}
  BY DEF Init, Waiting, Due, Later
<1>3. n * 0 = 0
  BY <1>1
<1>4. TimeGiven
  BY <1>2, <1>3, FS_EmptySet DEF Init, TimeGiven
<1>5. LimitAhead
  BY <1>1, <1>2, <1>3, FS_EmptySet DEF Init, LimitAhead
<1>6. NoTimeWasted
  BY <1>1, <1>2, <1>3, FS_EmptySet DEF Init, NoTimeWasted
<1>. QED  BY <1>1, <1>2, <1>4, <1>5, <1>6 DEF RustInv, NextIsFree, SpacedEvenly

\* A caller takes the next time.
LEMMA RustReserve ==
  ASSUME RustInv, NEW c \in Callers, Reserve(c) PROVE RustInv'
<1>0. n \in Nat /\ n > 0 /\ now \in Nat /\ next \in Nat /\ passed \in Nat /\ Types
  BY CallSize DEF RustInv, Types
<1>1. PICK at \in Nat :
        /\ at >= now /\ at >= next /\ (at = now \/ at = next)
        /\ until' = [until EXCEPT ![c] = at] /\ next' = at + n
  <2>1. PICK at : at = IF next > now THEN next ELSE now
    OBVIOUS
  <2>2. until' = [until EXCEPT ![c] = at] /\ next' = at + n
    BY <2>1 DEF Reserve
  <2>3. at \in Nat /\ at >= now /\ at >= next /\ (at = now \/ at = next)
    BY <2>1, <1>0
  <2>. QED  BY <2>2, <2>3
<1>2. UNCHANGED <<n, now, passed>> /\ pc[c] = "idle" /\ pc' = [pc EXCEPT ![c] = "wait"]
  BY DEF Reserve
<1>3. /\ c \notin Waiting /\ Waiting' = Waiting \cup {c}
      /\ until'[c] = at /\ \A d \in Waiting : until'[d] = until[d]
      /\ \A d \in Waiting : until[d] \in Nat /\ until[d] + n <= next
  BY <1>0, <1>1, <1>2 DEF Waiting, Types, RustInv, NextIsFree
<1>4. /\ Cardinality(Waiting) \in Nat
      /\ Cardinality(Waiting') = Cardinality(Waiting) + 1
  BY <1>3, CallersFinite, FS_AddElement
<1>5. Types'
  BY <1>0, <1>1, <1>2 DEF Types
<1>6. NextIsFree'
  BY <1>0, <1>1, <1>2, <1>3 DEF NextIsFree
<1>7. SpacedEvenly'
  BY <1>0, <1>1, <1>2, <1>3 DEF RustInv, SpacedEvenly
<1>8. n * Cardinality(Waiting)' = n * Cardinality(Waiting) + n
  BY <1>0, <1>4, Multiples
<1>9. n * Cardinality(Waiting) \in Nat /\ passed + n * Cardinality(Waiting) <= next
  BY <1>0, <1>4, Multiples DEF RustInv, TimeGiven
<1>10. TimeGiven'
  BY <1>0, <1>1, <1>2, <1>8, <1>9 DEF TimeGiven
<1>11. LimitAhead'
  <2>. SUFFICES ASSUME NEW t \in Nat, t >= now
                PROVE  passed + n * Cardinality(Due(t)') <= t + n
    BY <1>2 DEF LimitAhead
  <2>1. CASE t < at
    <3>1. Due(t)' = Due(t)
      BY <2>1, <1>1, <1>3 DEF Due
    <3>. QED  BY <3>1 DEF RustInv, LimitAhead
  <2>2. CASE t >= at
    <3>1. Due(t)' \subseteq Waiting' /\ IsFiniteSet(Waiting')
      BY <1>3, CallersFinite, FS_AddElement DEF Due
    <3>2. Cardinality(Due(t)') \in Nat /\ Cardinality(Due(t)') <= Cardinality(Waiting')
      BY <3>1, FS_Subset, FS_CardinalityType
    <3>3. n * Cardinality(Due(t)') <= n * Cardinality(Waiting) + n
      BY <3>2, <1>0, <1>4, MoreTakeMore, Multiples
    <3>4. n * Cardinality(Due(t)') \in Nat
      BY <3>2, <1>0, Multiples
    <3>. QED  BY <3>3, <3>4, <2>2, <1>0, <1>1, <1>9
  <2>. QED  BY <2>1, <2>2, <1>1
<1>12. NoTimeWasted'
  <2>. SUFFICES ASSUME NEW t \in Nat, t >= now
                PROVE  /\ at + n <= t + n + n * Cardinality(Later(t)')
                       /\ \A d \in Waiting' : until'[d] <= t + n * Cardinality(Later(t)')
    BY <1>1, <1>2 DEF NoTimeWasted
  <2>1. /\ Cardinality(Later(t)) \in Nat /\ n * Cardinality(Later(t)) \in Nat
        /\ next <= t + n + n * Cardinality(Later(t))
        /\ \A d \in Waiting : until[d] <= t + n * Cardinality(Later(t))
    BY <1>0, CallersFinite, Multiples DEF RustInv, NoTimeWasted
  <2>2. CASE at <= t
    <3>1. Later(t)' = Later(t)
      BY <2>2, <1>1, <1>3 DEF Later
    <3>. QED  BY <3>1, <2>1, <2>2, <1>0, <1>1, <1>3
  <2>3. CASE at > t
    <3>1. at = next
      BY <2>3, <1>0, <1>1
    <3>2. c \notin Later(t) /\ Later(t)' = Later(t) \cup {c}
      BY <2>3, <1>1, <1>3 DEF Later
    <3>3. Cardinality(Later(t)') = Cardinality(Later(t)) + 1
      BY <3>2, CallersFinite, FS_AddElement
    <3>4. n * Cardinality(Later(t)') = n * Cardinality(Later(t)) + n
      BY <3>3, <2>1, <1>0, Multiples
    <3>. QED  BY <3>1, <3>4, <2>1, <1>0, <1>1, <1>3
  <2>. QED  BY <2>2, <2>3, <1>1
<1>. QED  BY <1>5, <1>6, <1>7, <1>10, <1>11, <1>12 DEF RustInv

\* A caller whose time has come goes on.
LEMMA RustPass ==
  ASSUME RustInv, NEW c \in Callers, Pass(c) PROVE RustInv'
<1>0. n \in Nat /\ n > 0 /\ now \in Nat /\ next \in Nat /\ passed \in Nat /\ Types
  BY CallSize DEF RustInv, Types
<1>1. /\ UNCHANGED <<n, now, next, until>> /\ passed' = passed + n
      /\ pc[c] = "wait" /\ pc' = [pc EXCEPT ![c] = "idle"] /\ until[c] <= now
  BY DEF Pass
<1>2. c \in Waiting /\ Waiting' = Waiting \ {c} /\ until[c] \in Nat
  BY <1>0, <1>1 DEF Waiting, Types
<1>3. Types' /\ NextIsFree' /\ SpacedEvenly'
  BY <1>0, <1>1, <1>2 DEF Types, RustInv, NextIsFree, SpacedEvenly
<1>4. TimeGiven'
  <2>1. Cardinality(Waiting') \in Nat /\ Cardinality(Waiting) = Cardinality(Waiting') + 1
    <3>1. IsFiniteSet(Waiting) /\ Cardinality(Waiting) \in Nat
      BY CallersFinite
    <3>2. IsFiniteSet(Waiting') /\ Cardinality(Waiting') = Cardinality(Waiting) - 1
      BY <3>1, <1>2, FS_RemoveElement
    <3>. QED  BY <3>1, <3>2, FS_CardinalityType
  <2>2. n * Cardinality(Waiting) = n * Cardinality(Waiting') + n
    BY <2>1, <1>0, Multiples
  <2>3. n * Cardinality(Waiting') \in Nat
    BY <2>1, <1>0, Multiples
  <2>. QED  BY <2>2, <2>3, <1>0, <1>1 DEF RustInv, TimeGiven
<1>5. LimitAhead'
  <2>. SUFFICES ASSUME NEW t \in Nat, t >= now
                PROVE  passed + n + n * Cardinality(Due(t)') <= t + n
    BY <1>1 DEF LimitAhead
  <2>1. c \in Due(t) /\ Due(t)' = Due(t) \ {c}
    BY <1>0, <1>1, <1>2 DEF Due
  <2>2. Cardinality(Due(t)') \in Nat /\ Cardinality(Due(t)) = Cardinality(Due(t)') + 1
    <3>1. IsFiniteSet(Due(t)) /\ Cardinality(Due(t)) \in Nat
      BY CallersFinite
    <3>2. IsFiniteSet(Due(t)') /\ Cardinality(Due(t)') = Cardinality(Due(t)) - 1
      BY <3>1, <2>1, FS_RemoveElement
    <3>. QED  BY <3>1, <3>2, FS_CardinalityType
  <2>3. n * Cardinality(Due(t)) = n * Cardinality(Due(t)') + n
    BY <2>2, <1>0, Multiples
  <2>4. n * Cardinality(Due(t)') \in Nat
    BY <2>2, <1>0, Multiples
  <2>5. passed + n * Cardinality(Due(t)) <= t + n
    BY DEF RustInv, LimitAhead
  <2>. QED  BY <2>3, <2>4, <2>5, <1>0
<1>6. NoTimeWasted'
  <2>1. \A t \in Nat : t >= now => Later(t)' = Later(t)
    BY <1>0, <1>1, <1>2 DEF Later
  <2>. QED  BY <2>1, <1>1, <1>2 DEF RustInv, NoTimeWasted
<1>. QED  BY <1>3, <1>4, <1>5, <1>6 DEF RustInv

\* Each step keeps the invariant.
LEMMA RustStep == ASSUME RustInv, [Next]_vars PROVE RustInv'
<1>1. CASE Tick
  <2>1. now \in Nat /\ now' = now + 1 /\ UNCHANGED <<n, next, pc, until, passed>>
    BY <1>1, CallSize DEF Tick, RustInv
  <2>2. Waiting' = Waiting /\ \A t : Due(t)' = Due(t) /\ Later(t)' = Later(t)
    BY <2>1 DEF Waiting, Due, Later
  <2>3. \A t \in Nat : t >= now' => t >= now
    BY <2>1
  <2>4. Types'
    BY <1>1, RustLimiterAssumption DEF Tick, RustInv, Types
  <2>5. NextIsFree' /\ SpacedEvenly' /\ TimeGiven'
    BY <2>1, <2>2 DEF RustInv, NextIsFree, SpacedEvenly, TimeGiven
  <2>6. LimitAhead' /\ NoTimeWasted'
    BY <2>1, <2>2, <2>3 DEF RustInv, LimitAhead, NoTimeWasted
  <2>. QED  BY <2>4, <2>5, <2>6 DEF RustInv
<1>2. CASE UNCHANGED vars
  BY <1>2 DEF vars, RustInv, Types, NextIsFree, SpacedEvenly, TimeGiven, LimitAhead,
              NoTimeWasted, Waiting, Due, Later
<1>3. ASSUME NEW c \in Callers, Reserve(c) \/ Pass(c) PROVE RustInv'
  BY <1>3, RustReserve, RustPass
<1>. QED  BY <1>1, <1>2, <1>3 DEF Next, Stopped

LEMMA RustInvariant == Spec => []RustInv
<1>1. RustInv /\ [Next]_vars => RustInv'
  BY RustStep
<1>. QED  BY RustInit, <1>1, PTL DEF Spec

-----------------------------------------------------------------------------
(* Theorems *)

\* The types, and how far ahead next can be: one call of each caller and one
\* more, which bounds how long anyone sleeps.
THEOREM RustTypeCorrect == Spec => []TypeOK
<1>1. RustInv => TypeOK
  <2>. SUFFICES ASSUME RustInv PROVE TypeOK
    OBVIOUS
  <2>1. n \in Nat /\ now \in Nat /\ now <= MaxTime /\ MaxTime \in Nat /\ next \in Nat
    BY CallSize, RustLimiterAssumption DEF RustInv, Types
  <2>. DEFINE L == Cardinality(Later(now))
              K == Cardinality(Callers)
  <2>2. L \in Nat /\ K \in Nat /\ L <= K
    BY CallersFinite
  <2>3. n * L <= n * K /\ n * (K + 1) = n * K + n /\ n * L \in Nat /\ n * K \in Nat
    BY <2>1, <2>2, MoreTakeMore, Multiples
  <2>4. next <= now + n + n * L
    BY <2>1 DEF RustInv, NoTimeWasted
  <2>. HIDE DEF L, K
  <2>5. next <= MaxTime + n * (K + 1)
    BY <2>1, <2>3, <2>4
  <2>6. next \in 0..(MaxTime + n * (Cardinality(Callers) + 1))
    BY <2>1, <2>2, <2>3, <2>5 DEF K
  <2>. QED  BY <2>6 DEF RustInv, Types, TypeOK
<1>. QED  BY <1>1, RustInvariant, PTL

\* bench.rs:203-204: what gets through never runs ahead of the limit by more
\* than one call, however the tasks interleave and oversleep.
THEOREM RustLimitIsKept == Spec => []LimitKept
<1>1. RustInv => LimitKept
  <2>. SUFFICES ASSUME RustInv PROVE LimitKept
    OBVIOUS
  <2>1. n \in Nat /\ now \in Nat /\ passed \in Nat
    BY CallSize DEF RustInv, Types
  <2>2. n * Cardinality(Due(now)) \in Nat
    BY <2>1, CallersFinite, Multiples
  <2>3. passed + n * Cardinality(Due(now)) <= now + n
    BY <2>1 DEF RustInv, LimitAhead
  <2>. QED  BY <2>1, <2>2, <2>3 DEF LimitKept
<1>. QED  BY <1>1, RustInvariant, PTL

\* bench.rs:204, "spaced evenly": no two calls are given overlapping times.
THEOREM RustIsSpaced == Spec => []SpacedEvenly
<1>1. RustInv => SpacedEvenly
  BY DEF RustInv
<1>. QED  BY <1>1, RustInvariant, PTL

\* README.md:137-138: the limit is allowed in full: nobody sleeps longer than
\* the calls that are waiting take.
THEOREM RustAllowsLimit == Spec => []AllowsLimit
<1>1. RustInv => AllowsLimit
  <2>. SUFFICES ASSUME RustInv, NEW c \in Waiting
                PROVE  until[c] <= now + n * Cardinality(Waiting)
    BY DEF AllowsLimit
  <2>1. n \in Nat /\ now \in Nat /\ until[c] \in Nat
    BY CallSize DEF RustInv, Types, Waiting
  <2>2. n * Cardinality(Later(now)) <= n * Cardinality(Waiting)
    BY <2>1, CallersFinite, MoreTakeMore
  <2>3. n * Cardinality(Later(now)) \in Nat /\ n * Cardinality(Waiting) \in Nat
    BY <2>1, CallersFinite, Multiples
  <2>4. until[c] <= now + n * Cardinality(Later(now))
    BY <2>1 DEF RustInv, NoTimeWasted
  <2>. QED  BY <2>1, <2>2, <2>3, <2>4
<1>. QED  BY <1>1, RustInvariant, PTL

=============================================================================
