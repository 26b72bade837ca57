--------------------------- MODULE GoLimiterProofs ---------------------------
(***************************************************************************)
(* Theorems about GoLimiter, for every limit, every set of goroutines and  *)
(* every size of call: what the bucket lets through at most, and that its  *)
(* debt is slept off.                                                      *)
(***************************************************************************)
EXTENDS GoLimiter, FiniteSetTheorems, TLAPS

-----------------------------------------------------------------------------
(* The inductive invariant *)

\* The callers in limitFn, and those whose sleep is over at t.
Inside == {c \in Callers : pc[c] = "wait"}
Due(t) == {c \in Inside : until[c] <= t}

\* Each token that ever was is in the bucket, with a caller, or spent.
TokensGiven ==
  n <= Limit => passed + n * Cardinality(Inside) + tokens <= Limit + now

\* What will have got through by any second to come.
LimitAhead ==
  n <= Limit =>
    \A t \in Nat : t >= now => passed + n * Cardinality(Due(t)) <= Limit + t

GoInv == TypeOK /\ TokensGiven /\ LimitAhead /\ DebtIsOwed

-----------------------------------------------------------------------------
(* Counting callers *)

\* Multiples of a call's size.
LEMMA Multiples ==
  ASSUME NEW k \in Nat, NEW m \in Nat
  PROVE  k * m \in Nat /\ k * 0 = 0 /\ k * (m + 1) = k * m + k
OBVIOUS

\* More callers take more.
LEMMA MoreTakeMore ==
  ASSUME NEW k \in Nat, NEW l \in Nat, NEW m \in Nat, l <= m
  PROVE  k * l <= k * m
OBVIOUS

\* The numbers of a state.
LEMMA Numbers ==
  ASSUME TypeOK
  PROVE  /\ n \in Nat /\ n > 0 /\ now \in Nat /\ Limit \in Nat /\ tokens \in Int
         /\ passed \in Nat
BY GoLimiterAssumption DEF TypeOK

\* The sets of callers that are counted are finite.
LEMMA CallersFinite ==
  /\ IsFiniteSet(Inside) /\ Cardinality(Inside) \in Nat
  /\ \A t : /\ IsFiniteSet(Due(t)) /\ Cardinality(Due(t)) \in Nat
            /\ Cardinality(Due(t)) <= Cardinality(Inside)
<1>1. IsFiniteSet(Callers) /\ Inside \subseteq Callers
  BY GoLimiterAssumption DEF Inside
<1>2. \A t : Due(t) \subseteq Inside
  BY DEF Due
<1>3. \A S, T : IsFiniteSet(T) /\ S \subseteq T =>
        IsFiniteSet(S) /\ Cardinality(S) \in Nat /\ Cardinality(S) <= Cardinality(T)
  BY FS_Subset, FS_CardinalityType
<1>4. IsFiniteSet(Inside)
  BY <1>1, <1>3
<1>. QED  BY <1>2, <1>3, <1>4

-----------------------------------------------------------------------------
(* Types *)

LEMMA GoTypeInit == Init => TypeOK
BY GoLimiterAssumption DEF Init, TypeOK

\* Each step keeps the types.
LEMMA GoTypeStep == ASSUME TypeOK, [Next]_vars PROVE TypeOK'
<1>. USE GoLimiterAssumption DEF TypeOK
<1>1. CASE Tick
  BY <1>1 DEF Tick
<1>2. ASSUME NEW c \in Callers, Reserve(c) PROVE TypeOK'
  <2>1. n \in Nat /\ now \in Nat /\ tokens \in Int /\ n > 0
    BY Numbers
  <2>2. tokens' = tokens - n /\ tokens' \in Int /\ tokens' <= Limit
    BY <1>2, <2>1 DEF Reserve
  <2>3. PICK at : at = IF tokens' < 0 THEN now - tokens' ELSE now
    OBVIOUS
  <2>4. at \in Nat
    BY <2>1, <2>2, <2>3
  <2>5. until' = [until EXCEPT ![c] = at] /\ pc' = [pc EXCEPT ![c] = "wait"]
    BY <1>2, <2>3 DEF Reserve
  <2>. QED  BY <1>2, <2>2, <2>4, <2>5 DEF Reserve
<1>3. ASSUME NEW c \in Callers, Refused(c) PROVE TypeOK'
  BY <1>3, Numbers DEF Refused
<1>4. ASSUME NEW c \in Callers, Pass(c) PROVE TypeOK'
  BY <1>4, Numbers DEF Pass
<1>5. CASE UNCHANGED vars
  BY <1>5 DEF vars
<1>. QED  BY <1>1, <1>2, <1>3, <1>4, <1>5 DEF Next, Stopped

\* Every variable has its type.
THEOREM GoTypeCorrect == Spec => []TypeOK
<1>1. TypeOK /\ [Next]_vars => TypeOK'
  BY GoTypeStep
<1>. QED  BY GoTypeInit, <1>1, PTL DEF Spec

-----------------------------------------------------------------------------
(* Steps *)

LEMMA GoInit == Init => GoInv
<1>. SUFFICES ASSUME Init PROVE GoInv
  OBVIOUS
<1>1. TypeOK /\ n \in Nat /\ Limit \in Nat
  BY GoTypeInit, Numbers
<1>2. Inside = {} /\ \A t : Due(t) = {}
  BY DEF Init, Inside, Due
<1>3. n * 0 = 0
  BY <1>1
<1>4. TokensGiven
  BY <1>1, <1>2, <1>3, FS_EmptySet DEF Init, TokensGiven
<1>5. LimitAhead
  BY <1>1, <1>2, <1>3, FS_EmptySet DEF Init, LimitAhead
<1>6. DebtIsOwed
  BY <1>1 DEF Init, DebtIsOwed
<1>. QED  BY <1>1, <1>4, <1>5, <1>6 DEF GoInv

\* A caller takes its tokens, or goes into debt for them.
LEMMA GoReserve ==
  ASSUME GoInv, NEW c \in Callers, Reserve(c)
  PROVE  TokensGiven' /\ LimitAhead' /\ DebtIsOwed'
<1>0. /\ n \in Nat /\ n > 0 /\ now \in Nat /\ Limit \in Nat /\ tokens \in Int
      /\ passed \in Nat /\ n <= Limit
  BY Numbers DEF GoInv, Reserve
<1>1. PICK at : at = IF tokens' < 0 THEN now - tokens' ELSE now
  OBVIOUS
<1>2. /\ until' = [until EXCEPT ![c] = at] /\ pc' = [pc EXCEPT ![c] = "wait"]
      /\ pc[c] = "idle" /\ tokens' = tokens - n /\ UNCHANGED <<n, now, passed>>
  BY <1>1 DEF Reserve
<1>3. /\ at \in Nat /\ at >= now /\ at >= now - tokens'
      /\ tokens' < 0 => at = now - tokens' /\ at > now
  BY <1>0, <1>1, <1>2
<1>4. /\ c \notin Inside /\ Inside' = Inside \cup {c}
      /\ until'[c] = at /\ pc'[c] = "wait" /\ \A d \in Inside : until'[d] = until[d]
  BY <1>2 DEF Inside, GoInv, TypeOK
<1>5. Cardinality(Inside) \in Nat /\ Cardinality(Inside') = Cardinality(Inside) + 1
  BY <1>4, CallersFinite, FS_AddElement
<1>6. n * Cardinality(Inside') = n * Cardinality(Inside) + n
  BY <1>0, <1>5, Multiples
<1>7. /\ n * Cardinality(Inside) \in Nat
      /\ passed + n * Cardinality(Inside) + tokens <= Limit + now
  BY <1>0, <1>5, Multiples DEF GoInv, TokensGiven
<1>8. TokensGiven'
  BY <1>0, <1>2, <1>6, <1>7 DEF TokensGiven
<1>9. LimitAhead'
  <2>. SUFFICES ASSUME NEW t \in Nat, t >= now
                PROVE  passed + n * Cardinality(Due(t)') <= Limit + t
    BY <1>2 DEF LimitAhead
  <2>1. CASE t < at
    <3>1. Due(t)' = Due(t)
      BY <2>1, <1>3, <1>4 DEF Due
    <3>. QED  BY <3>1, <1>0 DEF GoInv, LimitAhead
  <2>2. CASE t >= at
    <3>1. Due(t)' \subseteq Inside' /\ IsFiniteSet(Inside')
      BY <1>4, CallersFinite, FS_AddElement DEF Due
    <3>2. Cardinality(Due(t)') \in Nat /\ Cardinality(Due(t)') <= Cardinality(Inside')
      BY <3>1, FS_Subset, FS_CardinalityType
    <3>3. n * Cardinality(Due(t)') <= n * Cardinality(Inside) + n
      BY <3>2, <1>0, <1>5, <1>6, MoreTakeMore
    <3>4. n * Cardinality(Due(t)') \in Nat
      BY <3>2, <1>0, Multiples
    <3>5. passed + n * Cardinality(Inside) + n <= Limit + now - tokens'
      BY <1>0, <1>2, <1>7
    <3>. QED  BY <3>3, <3>4, <3>5, <2>2, <1>0, <1>2, <1>3, <1>7
  <2>. QED  BY <2>1, <2>2, <1>3
<1>10. DebtIsOwed'
  BY <1>2, <1>3, <1>4 DEF DebtIsOwed, Asleep
<1>. QED  BY <1>8, <1>9, <1>10

\* A caller whose sleep is over goes on.
LEMMA GoPass ==
  ASSUME GoInv, NEW c \in Callers, Pass(c)
  PROVE  TokensGiven' /\ LimitAhead' /\ DebtIsOwed'
<1>0. /\ n \in Nat /\ n > 0 /\ now \in Nat /\ Limit \in Nat /\ tokens \in Int
      /\ passed \in Nat
  BY Numbers DEF GoInv
<1>1. /\ UNCHANGED <<n, now, tokens, until>> /\ passed' = passed + n
      /\ pc[c] = "wait" /\ pc' = [pc EXCEPT ![c] = "idle"] /\ until[c] <= now
      /\ until[c] \in Nat
  BY DEF Pass, GoInv, TypeOK
<1>2. c \in Inside /\ Inside' = Inside \ {c}
  BY <1>1 DEF Inside, GoInv, TypeOK
<1>3. TokensGiven'
  <2>1. IsFiniteSet(Inside) /\ Cardinality(Inside) \in Nat
    BY CallersFinite
  <2>2. IsFiniteSet(Inside') /\ Cardinality(Inside') = Cardinality(Inside) - 1
    BY <2>1, <1>2, FS_RemoveElement
  <2>3. Cardinality(Inside') \in Nat /\ Cardinality(Inside) = Cardinality(Inside') + 1
    BY <2>1, <2>2, FS_CardinalityType
  <2>4. n * Cardinality(Inside) = n * Cardinality(Inside') + n
    BY <2>3, <1>0, Multiples
  <2>5. n * Cardinality(Inside') \in Nat
    BY <2>3, <1>0, Multiples
  <2>. QED  BY <2>4, <2>5, <1>0, <1>1 DEF GoInv, TokensGiven
<1>4. LimitAhead'
  <2>. SUFFICES ASSUME NEW t \in Nat, t >= now, n <= Limit
                PROVE  passed + n + n * Cardinality(Due(t)') <= Limit + t
    BY <1>1 DEF LimitAhead
  <2>1. c \in Due(t) /\ Due(t)' = Due(t) \ {c}
    BY <1>0, <1>1, <1>2 DEF Due
  <2>2. IsFiniteSet(Due(t)) /\ Cardinality(Due(t)) \in Nat
    BY CallersFinite
  <2>3. IsFiniteSet(Due(t)') /\ Cardinality(Due(t)') = Cardinality(Due(t)) - 1
    BY <2>1, <2>2, FS_RemoveElement
  <2>4. Cardinality(Due(t)') \in Nat /\ Cardinality(Due(t)) = Cardinality(Due(t)') + 1
    BY <2>2, <2>3, FS_CardinalityType
  <2>5. n * Cardinality(Due(t)) = n * Cardinality(Due(t)') + n
    BY <2>4, <1>0, Multiples
  <2>6. n * Cardinality(Due(t)') \in Nat
    BY <2>4, <1>0, Multiples
  <2>7. passed + n * Cardinality(Due(t)) <= Limit + t
    BY DEF GoInv, LimitAhead
  <2>. QED  BY <2>5, <2>6, <2>7, <1>0
<1>5. DebtIsOwed'
  <2>. SUFFICES ASSUME tokens < 0
                PROVE  \E d \in Callers : Asleep(d)' /\ until[d] = now - tokens
    BY <1>1 DEF DebtIsOwed
  <2>1. PICK d \in Callers : Asleep(d) /\ until[d] = now - tokens
    BY DEF GoInv, DebtIsOwed
  <2>2. d # c /\ Asleep(d)'
    BY <2>1, <1>0, <1>1 DEF Asleep, GoInv, TypeOK
  <2>. QED  BY <2>1, <2>2
<1>. QED  BY <1>3, <1>4, <1>5

\* A second goes by.
LEMMA GoTick ==
  ASSUME GoInv, Tick PROVE TokensGiven' /\ LimitAhead' /\ DebtIsOwed'
<1>0. /\ n \in Nat /\ n > 0 /\ now \in Nat /\ Limit \in Nat /\ tokens \in Int
      /\ passed \in Nat /\ tokens <= Limit
  BY Numbers DEF GoInv, TypeOK
<1>1. /\ now' = now + 1 /\ UNCHANGED <<n, pc, until, passed>>
      /\ tokens' = (IF tokens < Limit THEN tokens + 1 ELSE Limit)
  BY DEF Tick
<1>2. Inside' = Inside /\ \A t : Due(t)' = Due(t)
  BY <1>1 DEF Inside, Due
<1>3. TokensGiven'
  <2>1. n * Cardinality(Inside) \in Nat
    BY <1>0, CallersFinite, Multiples
  <2>2. tokens' \in Int /\ tokens' <= tokens + 1
    BY <1>0, <1>1
  <2>. QED  BY <2>1, <2>2, <1>0, <1>1, <1>2 DEF GoInv, TokensGiven
<1>4. LimitAhead'
  <2>1. \A t \in Nat : t >= now' => t >= now
    BY <1>0, <1>1
  <2>. QED  BY <2>1, <1>1, <1>2 DEF GoInv, LimitAhead
<1>5. DebtIsOwed'
  <2>. SUFFICES ASSUME tokens' < 0
                PROVE  \E d \in Callers : Asleep(d)' /\ until[d] = now' - tokens'
    BY <1>1 DEF DebtIsOwed
  <2>1. tokens' = tokens + 1 /\ tokens < 0
    BY <1>0, <1>1
  <2>2. PICK d \in Callers : Asleep(d) /\ until[d] = now - tokens
    BY <2>1 DEF GoInv, DebtIsOwed
  <2>3. until[d] = now' - tokens' /\ until[d] > now'
    BY <2>1, <2>2, <1>0, <1>1
  <2>. QED  BY <2>2, <2>3, <1>1 DEF Asleep
<1>. QED  BY <1>3, <1>4, <1>5

\* Each step keeps the invariant; a call that is refused is none of its
\* business, since it only happens above the limit.
LEMMA GoStep == ASSUME GoInv, [Next]_vars PROVE GoInv'
<1>1. TypeOK'
  BY GoTypeStep DEF GoInv
<1>2. CASE Tick
  BY <1>1, <1>2, GoTick DEF GoInv
<1>3. ASSUME NEW c \in Callers, Reserve(c) PROVE GoInv'
  BY <1>1, <1>3, GoReserve DEF GoInv
<1>4. ASSUME NEW c \in Callers, Pass(c) PROVE GoInv'
  BY <1>1, <1>4, GoPass DEF GoInv
<1>5. ASSUME NEW c \in Callers, Refused(c) PROVE GoInv'
  <2>1. ~(n <= Limit) /\ UNCHANGED <<n, now, tokens, pc, until>>
    BY <1>5, Numbers DEF Refused, GoInv
  <2>2. TokensGiven' /\ LimitAhead'
    BY <2>1 DEF TokensGiven, LimitAhead
  <2>3. DebtIsOwed'
    BY <2>1 DEF GoInv, DebtIsOwed, Asleep
  <2>. QED  BY <1>1, <2>2, <2>3 DEF GoInv
<1>6. CASE UNCHANGED vars
  BY <1>1, <1>6
  DEF vars, GoInv, TokensGiven, LimitAhead, DebtIsOwed, Asleep, Inside, Due
<1>. QED  BY <1>2, <1>3, <1>4, <1>5, <1>6 DEF Next, Stopped

LEMMA GoInvariant == Spec => []GoInv
<1>1. GoInv /\ [Next]_vars => GoInv'
  BY GoStep
<1>. QED  BY GoInit, <1>1, PTL DEF Spec

-----------------------------------------------------------------------------
(* Theorems *)

\* client.go:50 and :61, as an upper bound: Limit requests, and one more each
\* second, are all that get through, as long as a call is no larger than Limit.
THEOREM GoLimitIsKept == Spec => []LimitKept
<1>1. GoInv => LimitKept
  <2>. SUFFICES ASSUME GoInv, n <= Limit PROVE passed <= Limit + now
    BY DEF LimitKept
  <2>1. n \in Nat /\ now \in Nat /\ passed \in Nat /\ Limit \in Nat
    BY Numbers DEF GoInv
  <2>2. n * Cardinality(Due(now)) \in Nat
    BY <2>1, CallersFinite, Multiples
  <2>3. passed + n * Cardinality(Due(now)) <= Limit + now
    BY <2>1 DEF GoInv, LimitAhead
  <2>. QED  BY <2>1, <2>2, <2>3
<1>. QED  BY <1>1, GoInvariant, PTL

\* The bucket's debt is always slept off by somebody, to the second.
THEOREM GoDebtIsOwed == Spec => []DebtIsOwed
<1>1. GoInv => DebtIsOwed
  BY DEF GoInv
<1>. QED  BY <1>1, GoInvariant, PTL

=============================================================================
