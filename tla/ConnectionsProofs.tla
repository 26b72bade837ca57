-------------------------- MODULE ConnectionsProofs --------------------------
(***************************************************************************)
(* Theorems about Connections, for every number of workers, connections,   *)
(* addresses and tries: its types, that no socket is left behind, that     *)
(* every call is counted once, and that the addresses share evenly.        *)
(***************************************************************************)
EXTENDS Connections, SequenceTheorems, FiniteSetTheorems, TLAPS

-----------------------------------------------------------------------------
(* The inductive invariant *)

\* The workers that are in a call, and those that wait for the GET's answer.
Busy == {w \in Workers : wpc[w] # "idle"}
Asking == {w \in Workers : wpc[w] = "get"}

\* The next dial is one that the call may still make.
TriesLeft == \A w \in Workers : wpc[w] = "next" => tries[w] < RetryTimes

\* Each call is to come, running, or counted.
CallsAddUp == left + Cardinality(Busy) + success + failed = NumConnections

\* Each connection kept is a call that succeeded.
KeptIsSuccess == Len(conns) = success

SocketsAddUp == sockets = Len(conns) + Cardinality(Asking)

ConnsInv == TypeOK /\ TriesLeft /\ CallsAddUp /\ KeptIsSuccess /\ SocketsAddUp

-----------------------------------------------------------------------------
(* Counting workers *)

\* The counted sets are finite.
LEMMA WorkersFinite ==
  /\ IsFiniteSet(Busy) /\ Cardinality(Busy) \in Nat
  /\ IsFiniteSet(Asking) /\ Cardinality(Asking) \in Nat
<1>1. Busy \subseteq Workers /\ Asking \subseteq Workers
  BY DEF Busy, Asking
<1>. QED  BY <1>1, ConnectionsAssumption, FS_Subset, FS_CardinalityType

\* A worker that comes to a set of workers, or leaves it, is one of it.
LEMMA OneMore ==
  ASSUME NEW S, NEW T, IsFiniteSet(S), NEW w, w \notin S, T = S \cup {w}
  PROVE  Cardinality(T) = Cardinality(S) + 1
BY FS_AddElement

LEMMA OneLess ==
  ASSUME NEW S, NEW T, IsFiniteSet(S), NEW w, w \in S, T = S \ {w}
  PROVE  Cardinality(T) = Cardinality(S) - 1
BY FS_RemoveElement

\* What a worker's move does to the counted sets.
LEMMA Counting ==
  ASSUME TypeOK, NEW w \in Workers,
         NEW to \in {"idle", "next", "dial", "get"},
         wpc' = [wpc EXCEPT ![w] = to]
  PROVE  /\ (to = "idle") = (wpc[w] = "idle") => Cardinality(Busy)' = Cardinality(Busy)
         /\ to # "idle" /\ wpc[w] = "idle" => Cardinality(Busy)' = Cardinality(Busy) + 1
         /\ to = "idle" /\ wpc[w] # "idle" => Cardinality(Busy)' = Cardinality(Busy) - 1
         /\ to # "get" /\ wpc[w] # "get" => Cardinality(Asking)' = Cardinality(Asking)
         /\ to = "get" /\ wpc[w] # "get" => Cardinality(Asking)' = Cardinality(Asking) + 1
         /\ to # "get" /\ wpc[w] = "get" => Cardinality(Asking)' = Cardinality(Asking) - 1
<1>1. wpc'[w] = to /\ \A v \in Workers \ {w} : wpc'[v] = wpc[v]
  BY DEF TypeOK
<1>2. ASSUME to # "idle", wpc[w] = "idle"
      PROVE  Cardinality(Busy)' = Cardinality(Busy) + 1
  <2>1. w \notin Busy /\ Busy' = Busy \cup {w}
    BY <1>1, <1>2 DEF Busy
  <2>. QED  BY <2>1, OneMore, WorkersFinite
<1>3. ASSUME to = "idle", wpc[w] # "idle"
      PROVE  Cardinality(Busy)' = Cardinality(Busy) - 1
  <2>1. w \in Busy /\ Busy' = Busy \ {w}
    BY <1>1, <1>3 DEF Busy
  <2>. QED  BY <2>1, OneLess, WorkersFinite
<1>4. ASSUME to # "get", wpc[w] # "get" PROVE Cardinality(Asking)' = Cardinality(Asking)
  <2>1. Asking' = Asking
    BY <1>1, <1>4 DEF Asking
  <2>. QED  BY <2>1
<1>5. ASSUME to = "get", wpc[w] # "get"
      PROVE  Cardinality(Asking)' = Cardinality(Asking) + 1
  <2>1. w \notin Asking /\ Asking' = Asking \cup {w}
    BY <1>1, <1>5 DEF Asking
  <2>. QED  BY <2>1, OneMore, WorkersFinite
<1>6. ASSUME to # "get", wpc[w] = "get"
      PROVE  Cardinality(Asking)' = Cardinality(Asking) - 1
  <2>1. w \in Asking /\ Asking' = Asking \ {w}
    BY <1>1, <1>6 DEF Asking
  <2>. QED  BY <2>1, OneLess, WorkersFinite
<1>7. ASSUME (to = "idle") = (wpc[w] = "idle")
      PROVE  Cardinality(Busy)' = Cardinality(Busy)
  <2>1. Busy' = Busy
    BY <1>1, <1>7 DEF Busy
  <2>. QED  BY <2>1
<1>. QED  BY <1>2, <1>3, <1>4, <1>5, <1>6, <1>7

-----------------------------------------------------------------------------
(* Steps *)

LEMMA ConnsInit == Init => ConnsInv
<1>. SUFFICES ASSUME Init PROVE ConnsInv
  OBVIOUS
<1>1. TypeOK
  <2>1. 0 \in Addrs /\ 0 \in 0..RetryTimes /\ conns \in Seq(Addrs)
    BY ConnectionsAssumption, EmptySeq DEF Addrs, Init
  <2>. QED  BY <2>1, ConnectionsAssumption DEF Init, TypeOK
<1>2. Busy = {} /\ Asking = {}
  BY DEF Init, Busy, Asking
<1>3. CallsAddUp /\ KeptIsSuccess /\ SocketsAddUp
  BY <1>2, FS_EmptySet, ConnectionsAssumption, EmptySeq
  DEF Init, CallsAddUp, KeptIsSuccess, SocketsAddUp
<1>. QED  BY <1>1, <1>3 DEF ConnsInv, TriesLeft, Init

\* A dial or a GET that failed gives the call another try or ends it.
LEMMA Retry ==
  ASSUME ConnsInv, NEW w \in Workers, RetryOrFail(w), wpc[w] \in {"dial", "get"},
         UNCHANGED <<left, success, serverIdx, conns, tries, addr>>,
         sockets' = sockets - (IF wpc[w] = "get" THEN 1 ELSE 0)
  PROVE  ConnsInv'
<1>1. PICK to \in {"next", "idle"} :
        /\ wpc' = [wpc EXCEPT ![w] = to]
        /\ failed' = failed + (IF to = "idle" THEN 1 ELSE 0)
        /\ to = "next" => tries[w] < RetryTimes
  BY DEF RetryOrFail, ConnsInv, TypeOK
<1>2. /\ left \in Nat /\ success \in Nat /\ failed \in Nat /\ sockets \in Nat
      /\ Len(conns) \in Nat
  BY LenProperties DEF ConnsInv, TypeOK
<1>3. /\ to = "idle" => Cardinality(Busy)' = Cardinality(Busy) - 1
      /\ to # "idle" => Cardinality(Busy)' = Cardinality(Busy)
      /\ wpc[w] = "get" => Cardinality(Asking)' = Cardinality(Asking) - 1
      /\ wpc[w] # "get" => Cardinality(Asking)' = Cardinality(Asking)
  BY <1>1, Counting DEF ConnsInv
<1>4. Cardinality(Busy) \in Nat /\ Cardinality(Asking) \in Nat
  BY WorkersFinite
<1>5. CallsAddUp' /\ KeptIsSuccess'
  BY <1>1, <1>2, <1>3, <1>4 DEF ConnsInv, CallsAddUp, KeptIsSuccess
<1>6. SocketsAddUp'
  BY <1>2, <1>3, <1>4 DEF ConnsInv, SocketsAddUp
<1>7. sockets' \in Nat
  <2>1. Cardinality(Asking') \in Nat
    BY ConnectionsAssumption, FS_Subset, FS_CardinalityType DEF Asking
  <2>. QED  BY <1>2, <1>6, <2>1 DEF SocketsAddUp
<1>8. TypeOK'
  BY <1>1, <1>2, <1>7 DEF ConnsInv, TypeOK
<1>9. TriesLeft'
  BY <1>1 DEF ConnsInv, TypeOK, TriesLeft
<1>. QED  BY <1>5, <1>6, <1>8, <1>9 DEF ConnsInv

\* Each step keeps the invariant.
LEMMA ConnsStep == ASSUME ConnsInv, [Next]_vars PROVE ConnsInv'
<1>0. /\ left \in Nat /\ success \in Nat /\ failed \in Nat /\ sockets \in Nat
      /\ serverIdx \in Nat /\ conns \in Seq(Addrs) /\ Len(conns) \in Nat
      /\ NumConnections \in Nat /\ RetryTimes \in Nat \ {0} /\ NumAddrs \in Nat \ {0}
  BY LenProperties, ConnectionsAssumption DEF ConnsInv, TypeOK
<1>1. ASSUME NEW w \in Workers, StartCall(w) PROVE ConnsInv'
  <2>1. /\ wpc[w] = "idle" /\ wpc' = [wpc EXCEPT ![w] = "next"]
        /\ left > 0 /\ left' = left - 1 /\ tries' = [tries EXCEPT ![w] = 0]
        /\ UNCHANGED <<success, failed, serverIdx, conns, addr, sockets>>
    BY <1>1 DEF StartCall, Move
  <2>2. Cardinality(Busy)' = Cardinality(Busy) + 1 /\ Cardinality(Asking)' = Cardinality(Asking)
    BY <2>1, Counting DEF ConnsInv
  <2>3. TypeOK'
    BY <1>0, <2>1 DEF ConnsInv, TypeOK
  <2>4. TriesLeft'
    BY <1>0, <2>1 DEF ConnsInv, TypeOK, TriesLeft
  <2>5. CallsAddUp' /\ KeptIsSuccess' /\ SocketsAddUp'
    BY <1>0, <2>1, <2>2, WorkersFinite
    DEF ConnsInv, CallsAddUp, KeptIsSuccess, SocketsAddUp
  <2>. QED  BY <2>3, <2>4, <2>5 DEF ConnsInv
<1>2. ASSUME NEW w \in Workers, PickAddr(w) PROVE ConnsInv'
  <2>1. /\ wpc[w] = "next" /\ wpc' = [wpc EXCEPT ![w] = "dial"]
        /\ serverIdx' = serverIdx + 1
        /\ addr' = [addr EXCEPT ![w] = serverIdx' % NumAddrs]
        /\ tries' = [tries EXCEPT ![w] = tries[w] + 1]
        /\ UNCHANGED <<left, success, failed, conns, sockets>>
    BY <1>2 DEF PickAddr, Move
  <2>2. Cardinality(Busy)' = Cardinality(Busy) /\ Cardinality(Asking)' = Cardinality(Asking)
    BY <2>1, Counting DEF ConnsInv
  <2>3. serverIdx' % NumAddrs \in Addrs /\ serverIdx' \in Nat
    BY <1>0, <2>1 DEF Addrs
  <2>4. tries[w] + 1 \in 0..RetryTimes
    BY <1>0, <2>1 DEF ConnsInv, TypeOK, TriesLeft
  <2>5. TypeOK'
    BY <1>0, <2>1, <2>3, <2>4 DEF ConnsInv, TypeOK
  <2>6. TriesLeft'
    BY <2>1 DEF ConnsInv, TypeOK, TriesLeft
  <2>7. CallsAddUp' /\ KeptIsSuccess' /\ SocketsAddUp'
    BY <2>1, <2>2 DEF ConnsInv, CallsAddUp, KeptIsSuccess, SocketsAddUp
  <2>. QED  BY <2>5, <2>6, <2>7 DEF ConnsInv
<1>3. ASSUME NEW w \in Workers, DialConnects(w) PROVE ConnsInv'
  <2>1. /\ wpc[w] = "dial" /\ wpc' = [wpc EXCEPT ![w] = "get"]
        /\ sockets' = sockets + 1
        /\ UNCHANGED <<left, success, failed, serverIdx, conns, tries, addr>>
    BY <1>3 DEF DialConnects, Move
  <2>2. Cardinality(Busy)' = Cardinality(Busy) /\ Cardinality(Asking)' = Cardinality(Asking) + 1
    BY <2>1, Counting DEF ConnsInv
  <2>3. TypeOK' /\ TriesLeft'
    BY <1>0, <2>1 DEF ConnsInv, TypeOK, TriesLeft
  <2>4. CallsAddUp' /\ KeptIsSuccess' /\ SocketsAddUp'
    BY <1>0, <2>1, <2>2, WorkersFinite DEF ConnsInv, CallsAddUp, KeptIsSuccess, SocketsAddUp
  <2>. QED  BY <2>3, <2>4 DEF ConnsInv
<1>4. ASSUME NEW w \in Workers, DialFails(w) PROVE ConnsInv'
  BY <1>0, <1>4, Retry DEF DialFails
<1>5. ASSUME NEW w \in Workers, GetFails(w) PROVE ConnsInv'
  BY <1>5, Retry DEF GetFails
<1>6. ASSUME NEW w \in Workers, GetAnswered(w) PROVE ConnsInv'
  <2>1. /\ wpc[w] = "get" /\ wpc' = [wpc EXCEPT ![w] = "idle"]
        /\ conns' = Append(conns, addr[w]) /\ success' = success + 1
        /\ UNCHANGED <<left, failed, serverIdx, tries, addr, sockets>>
    BY <1>6 DEF GetAnswered, Move
  <2>2. /\ Cardinality(Busy)' = Cardinality(Busy) - 1
        /\ Cardinality(Asking)' = Cardinality(Asking) - 1
    BY <2>1, Counting DEF ConnsInv
  <2>3. addr[w] \in Addrs
    BY DEF ConnsInv, TypeOK
  <2>4. conns' \in Seq(Addrs) /\ Len(conns') = Len(conns) + 1
    BY <1>0, <2>1, <2>3, AppendProperties
  <2>5. TypeOK' /\ TriesLeft'
    BY <1>0, <2>1, <2>4 DEF ConnsInv, TypeOK, TriesLeft
  <2>6. CallsAddUp'
    <3>1. left + Cardinality(Busy) + success + failed = NumConnections
      BY DEF ConnsInv, CallsAddUp
    <3>2. left + (Cardinality(Busy) - 1) + (success + 1) + failed = NumConnections
      BY <3>1, <1>0, WorkersFinite
    <3>3. left' = left /\ success' = success + 1 /\ failed' = failed
      BY <2>1
    <3>. QED  BY <3>2, <3>3, <2>2 DEF CallsAddUp
  <2>7. KeptIsSuccess'
    BY <1>0, <2>1, <2>4 DEF ConnsInv, KeptIsSuccess
  <2>8. SocketsAddUp'
    BY <1>0, <2>1, <2>2, <2>4, WorkersFinite DEF ConnsInv, SocketsAddUp
  <2>. QED  BY <2>5, <2>6, <2>7, <2>8 DEF ConnsInv
<1>7. CASE UNCHANGED vars
  BY <1>7 DEF vars, ConnsInv, TypeOK, TriesLeft, CallsAddUp, KeptIsSuccess, SocketsAddUp,
              Busy, Asking
<1>. QED  BY <1>1, <1>2, <1>3, <1>4, <1>5, <1>6, <1>7 DEF Next, Client, Terminated

LEMMA ConnsInvariant == Spec => []ConnsInv
<1>1. ConnsInv /\ [Next]_vars => ConnsInv'
  BY ConnsStep
<1>. QED  BY ConnsInit, <1>1, PTL DEF Spec

-----------------------------------------------------------------------------
(* Theorems *)

\* Every variable has its type; no call dials more than RetryTimes times.
THEOREM ConnsTypeCorrect == Spec => []TypeOK
<1>1. ConnsInv => TypeOK
  BY DEF ConnsInv
<1>. QED  BY <1>1, ConnsInvariant, PTL

\* Every open socket is a kept connection's or a running dial's, however many
\* dials and GETs fail.
THEOREM SocketsNeverLeak == Spec => []NoSocketLeaks
<1>1. ConnsInv => NoSocketLeaks
  BY DEF ConnsInv, SocketsAddUp, NoSocketLeaks, Asking
<1>. QED  BY <1>1, ConnsInvariant, PTL

\* At the end every call was counted as a success or a failure, once, and the
\* successes are the connections.
THEOREM CallsAllCounted == Spec => []AllCounted
<1>1. ConnsInv => AllCounted
  <2>. SUFFICES ASSUME ConnsInv, Over
                PROVE  success + failed = NumConnections /\ Len(conns) = success
    BY DEF AllCounted
  <2>1. left = 0 /\ Busy = {}
    BY DEF Over, Busy
  <2>2. Cardinality(Busy) = 0
    BY <2>1, FS_EmptySet
  <2>3. success \in Nat /\ failed \in Nat
    BY DEF ConnsInv, TypeOK
  <2>. QED  BY <2>1, <2>2, <2>3 DEF ConnsInv, CallsAddUp, KeptIsSuccess
<1>. QED  BY <1>1, ConnsInvariant, PTL

-----------------------------------------------------------------------------
(* The addresses share the connections evenly *)

InDial(w) == wpc[w] \in {"dial", "get"}

\* Every kept connection and every running dial has a turn of its own, which
\* gave it its address.
TurnsTaken ==
  \E kept \in [DOMAIN conns -> 1..serverIdx], mine \in [Workers -> 0..serverIdx] :
    /\ \A i, j \in DOMAIN conns : kept[i] = kept[j] => i = j
    /\ \A i \in DOMAIN conns : conns[i] = kept[i] % NumAddrs
    /\ \A w \in Workers : InDial(w) =>
         /\ mine[w] \in 1..serverIdx /\ addr[w] = mine[w] % NumAddrs
         /\ \A i \in DOMAIN conns : kept[i] # mine[w]
         /\ \A v \in Workers : InDial(v) /\ mine[v] = mine[w] => v = w

LEMMA TurnsInit == Init => TurnsTaken
<1>. SUFFICES ASSUME Init PROVE TurnsTaken
  OBVIOUS
<1>. DEFINE kept == [i \in {} |-> 1]
            mine == [w \in Workers |-> 0]
<1>1. DOMAIN conns = {} /\ serverIdx = 0 /\ \A w \in Workers : ~InDial(w)
  BY DEF Init, InDial
<1>2. kept \in [DOMAIN conns -> 1..serverIdx] /\ mine \in [Workers -> 0..serverIdx]
  BY <1>1
<1>. HIDE DEF kept, mine
<1>. QED  BY <1>1, <1>2 DEF TurnsTaken

\* A step that starts no dial and keeps no connection.
LEMMA TurnsUnmoved ==
  ASSUME TurnsTaken, UNCHANGED <<conns, serverIdx, addr>>,
         \A w \in Workers : InDial(w)' => InDial(w)
  PROVE  TurnsTaken'
BY DEF TurnsTaken

\* A new dial takes a turn that nobody has had.
LEMMA TurnsPick ==
  ASSUME ConnsInv, TurnsTaken, NEW w \in Workers, PickAddr(w)
  PROVE  TurnsTaken'
<1>1. PICK kept \in [DOMAIN conns -> 1..serverIdx], mine \in [Workers -> 0..serverIdx] :
        /\ \A i, j \in DOMAIN conns : kept[i] = kept[j] => i = j
        /\ \A i \in DOMAIN conns : conns[i] = kept[i] % NumAddrs
        /\ \A v \in Workers : InDial(v) =>
             /\ mine[v] \in 1..serverIdx /\ addr[v] = mine[v] % NumAddrs
             /\ \A i \in DOMAIN conns : kept[i] # mine[v]
             /\ \A u \in Workers : InDial(u) /\ mine[u] = mine[v] => u = v
  BY DEF TurnsTaken
<1>. DEFINE now == [mine EXCEPT ![w] = serverIdx + 1]
<1>2. /\ serverIdx \in Nat /\ serverIdx' = serverIdx + 1 /\ conns' = conns
      /\ addr' = [addr EXCEPT ![w] = serverIdx' % NumAddrs]
      /\ addr \in [Workers -> Addrs]
      /\ \A v \in Workers \ {w} : InDial(v)' = InDial(v)
  BY DEF PickAddr, Move, ConnsInv, TypeOK, InDial
<1>3. kept \in [DOMAIN conns' -> 1..serverIdx'] /\ now \in [Workers -> 0..serverIdx']
  BY <1>2
<1>4. /\ now[w] = serverIdx + 1 /\ addr'[w] = (serverIdx + 1) % NumAddrs
      /\ \A v \in Workers \ {w} : now[v] = mine[v] /\ addr'[v] = addr[v]
  BY <1>2
<1>5. \A i \in DOMAIN conns : kept[i] # serverIdx + 1
  BY <1>2
<1>6. \A v \in Workers : mine[v] # serverIdx + 1
  BY <1>2
<1>7. ASSUME NEW v \in Workers, InDial(v)'
      PROVE  /\ now[v] \in 1..serverIdx' /\ addr'[v] = now[v] % NumAddrs
             /\ \A i \in DOMAIN conns' : kept[i] # now[v]
             /\ \A u \in Workers : InDial(u)' /\ now[u] = now[v] => u = v
  <2>1. CASE v = w
    BY <1>2, <1>4, <1>5, <1>6, <2>1
  <2>2. CASE v # w
    <3>1. InDial(v) /\ mine[v] \in 1..serverIdx /\ addr[v] = mine[v] % NumAddrs
      BY <1>1, <1>2, <1>7, <2>2
    <3>2. \A u \in Workers : InDial(u)' /\ now[u] = now[v] => u = v
      BY <1>1, <1>2, <1>4, <1>6, <2>2, <3>1
    <3>3. \A i \in DOMAIN conns' : kept[i] # now[v]
      BY <1>1, <1>2, <1>4, <2>2, <3>1
    <3>4. now[v] \in 1..serverIdx' /\ addr'[v] = now[v] % NumAddrs
      BY <1>2, <1>4, <2>2, <3>1
    <3>. QED  BY <3>2, <3>3, <3>4
  <2>. QED  BY <2>1, <2>2
<1>8. /\ \A i, j \in DOMAIN conns' : kept[i] = kept[j] => i = j
      /\ \A i \in DOMAIN conns' : conns'[i] = kept[i] % NumAddrs
  BY <1>1, <1>2
<1>. HIDE DEF now
<1>. QED  BY <1>3, <1>7, <1>8 DEF TurnsTaken

\* A dial that is answered hands its turn to the connection.
LEMMA TurnsAnswered ==
  ASSUME ConnsInv, TurnsTaken, NEW w \in Workers, GetAnswered(w)
  PROVE  TurnsTaken'
<1>1. PICK kept \in [DOMAIN conns -> 1..serverIdx], mine \in [Workers -> 0..serverIdx] :
        /\ \A i, j \in DOMAIN conns : kept[i] = kept[j] => i = j
        /\ \A i \in DOMAIN conns : conns[i] = kept[i] % NumAddrs
        /\ \A v \in Workers : InDial(v) =>
             /\ mine[v] \in 1..serverIdx /\ addr[v] = mine[v] % NumAddrs
             /\ \A i \in DOMAIN conns : kept[i] # mine[v]
             /\ \A u \in Workers : InDial(u) /\ mine[u] = mine[v] => u = v
  BY DEF TurnsTaken
<1>. DEFINE last == Len(conns) + 1
            more == [i \in DOMAIN conns' |-> IF i = last THEN mine[w] ELSE kept[i]]
<1>2. /\ UNCHANGED <<serverIdx, addr>> /\ InDial(w) /\ ~InDial(w)'
      /\ \A v \in Workers \ {w} : InDial(v)' = InDial(v)
  BY DEF GetAnswered, Move, ConnsInv, TypeOK, InDial
<1>3. /\ DOMAIN conns' = DOMAIN conns \cup {last} /\ last \notin DOMAIN conns
      /\ conns'[last] = addr[w] /\ \A i \in DOMAIN conns : conns'[i] = conns[i]
  <2>1. conns \in Seq(Addrs) /\ addr[w] \in Addrs /\ conns' = Append(conns, addr[w])
    BY DEF GetAnswered, ConnsInv, TypeOK
  <2>2. /\ Len(conns') = last /\ conns' \in Seq(Addrs)
        /\ \A i \in 1..Len(conns) : conns'[i] = conns[i]
        /\ conns'[last] = addr[w]
    BY <2>1, AppendProperties
  <2>3. DOMAIN conns = 1..Len(conns) /\ DOMAIN conns' = 1..last /\ Len(conns) \in Nat
    BY <2>1, <2>2, LenProperties
  <2>. QED  BY <2>2, <2>3
<1>. HIDE DEF last
<1>4. /\ more[last] = mine[w] /\ \A i \in DOMAIN conns : more[i] = kept[i]
      /\ mine[w] \in 1..serverIdx
      /\ more \in [DOMAIN conns' -> 1..serverIdx]
  BY <1>1, <1>2, <1>3
<1>. HIDE DEF more
<1>5. \A i, j \in DOMAIN conns' : more[i] = more[j] => i = j
  BY <1>1, <1>2, <1>3, <1>4
<1>6. \A i \in DOMAIN conns' : conns'[i] = more[i] % NumAddrs
  BY <1>1, <1>2, <1>3, <1>4
<1>7. ASSUME NEW v \in Workers, InDial(v)'
      PROVE  /\ mine[v] \in 1..serverIdx' /\ addr'[v] = mine[v] % NumAddrs
             /\ \A i \in DOMAIN conns' : more[i] # mine[v]
             /\ \A u \in Workers : InDial(u)' /\ mine[u] = mine[v] => u = v
  <2>1. v # w /\ InDial(v) /\ \A u \in Workers : InDial(u)' => InDial(u)
    BY <1>2, <1>7
  <2>. QED  BY <1>1, <1>2, <1>3, <1>4, <2>1
<1>. QED  BY <1>2, <1>4, <1>5, <1>6, <1>7 DEF TurnsTaken

LEMMA TurnsStep ==
  ASSUME ConnsInv, TurnsTaken, [Next]_vars PROVE TurnsTaken'
<1>1. ASSUME NEW w \in Workers, StartCall(w) \/ DialConnects(w) \/ DialFails(w) \/ GetFails(w)
      PROVE  TurnsTaken'
  <2>1. UNCHANGED <<conns, serverIdx, addr>>
    BY <1>1 DEF StartCall, DialConnects, DialFails, GetFails
  <2>2. \A v \in Workers : InDial(v)' => InDial(v)
    BY <1>1 DEF StartCall, DialConnects, DialFails, GetFails, RetryOrFail, Move,
                InDial, ConnsInv, TypeOK
  <2>. QED  BY <2>1, <2>2, TurnsUnmoved
<1>2. CASE UNCHANGED vars
  BY <1>2, TurnsUnmoved DEF vars, InDial
<1>. QED
  BY <1>1, <1>2, TurnsPick, TurnsAnswered DEF Next, Client, Terminated

\* The turns among the first n that go to an address.
TurnsOf(a, n) == {k \in 1..n : k % NumAddrs = a}

\* Turns go round: what is left of a turn after the addresses were gone
\* through once is a turn of the same address.
LEMMA TurnBefore ==
  ASSUME NEW k \in Nat, k >= NumAddrs
  PROVE  (k - NumAddrs) % NumAddrs = k % NumAddrs
<1>. DEFINE q == k \div NumAddrs
            r == k % NumAddrs
<1>1. NumAddrs \in Nat \ {0}
  BY ConnectionsAssumption
<1>2. q \in Nat /\ r \in 0..(NumAddrs - 1) /\ k = NumAddrs * q + r
  BY <1>1
<1>. HIDE DEF q, r
<1>3. q >= 1
  BY <1>1, <1>2
<1>4. NumAddrs * (q - 1) = NumAddrs * q - NumAddrs
  BY <1>1, <1>2, <1>3
<1>5. k - NumAddrs = NumAddrs * (q - 1) + r
  <2>1. NumAddrs * q \in Int
    BY <1>1, <1>2
  <2>. QED  BY <1>1, <1>2, <1>4, <2>1
<1>6. \A p \in Nat : (NumAddrs * p + r) % NumAddrs = r
  BY <1>1, <1>2
<1>7. q - 1 \in Nat
  BY <1>2, <1>3
<1>. QED  BY <1>5, <1>6, <1>7 DEF r

\* The turns that follow go to the addresses that follow.
LEMMA NextTurns ==
  ASSUME NEW m \in Nat, NEW d \in Int, (m % NumAddrs) + d \in 0..(NumAddrs - 1)
  PROVE  (m + d) % NumAddrs = (m % NumAddrs) + d
<1>1. NumAddrs \in Nat \ {0}
  BY ConnectionsAssumption
<1>. QED  BY <1>1

\* Among the first n turns no address has two more than another: each turn of
\* the one but its first comes after one of the other.
LEMMA TurnsEven ==
  ASSUME NEW n \in Nat, NEW a \in Addrs, NEW b \in Addrs
  PROVE  /\ IsFiniteSet(TurnsOf(a, n))
         /\ Cardinality(TurnsOf(a, n)) <= Cardinality(TurnsOf(b, n)) + 1
<1>. DEFINE A == TurnsOf(a, n)
            B == TurnsOf(b, n)
            d == b - a - (IF b <= a THEN 0 ELSE NumAddrs)
            shift == [k \in A \ {a} |-> k + d]
<1>0. /\ NumAddrs \in Nat \ {0} /\ a \in 0..(NumAddrs - 1) /\ b \in 0..(NumAddrs - 1)
      /\ d \in Int /\ d <= 0
  BY ConnectionsAssumption DEF Addrs
<1>1. IsFiniteSet(A) /\ IsFiniteSet(B)
  <2>1. IsFiniteSet(1..n)
    BY FS_Interval
  <2>. QED  BY <2>1, FS_Subset DEF TurnsOf
<1>2. ASSUME NEW k \in A \ {a} PROVE k + d \in B
  <2>1. k \in 1..n /\ k % NumAddrs = a /\ k \in Nat
    BY DEF TurnsOf
  <2>2. k >= NumAddrs
    <3>1. k < NumAddrs => k % NumAddrs = k
      BY <1>0, <2>1
    <3>. QED  BY <1>0, <1>2, <2>1, <3>1
  <2>3. (k - NumAddrs) % NumAddrs = a /\ k - NumAddrs \in Nat
    BY <1>0, <2>1, <2>2, TurnBefore
  <2>4. \A m \in Nat : m % NumAddrs = a => (m + (b - a)) % NumAddrs = b
    <3>1. ASSUME NEW m \in Nat, m % NumAddrs = a
          PROVE  (m + (b - a)) % NumAddrs = b
      <4>1. b - a \in Int /\ a + (b - a) = b /\ b \in 0..(NumAddrs - 1)
        BY <1>0
      <4>2. (m % NumAddrs) + (b - a) = b
        BY <3>1, <4>1
      <4>. HIDE DEF d
      <4>3. (m + (b - a)) % NumAddrs = (m % NumAddrs) + (b - a)
        BY <4>1, <4>2, NextTurns
      <4>. QED  BY <4>2, <4>3
    <3>. QED  BY <3>1
  <2>5. CASE b <= a
    <3>1. d = b - a
      BY <2>5, <1>0
    <3>2. (k + (b - a)) % NumAddrs = b
      BY <2>1, <2>4
    <3>3. k + (b - a) \in 1..n
      <4>1. k # NumAddrs \/ a = 0
        <5>1. k = NumAddrs => (k - NumAddrs) % NumAddrs = 0
          BY <1>0
        <5>. QED  BY <2>3, <5>1
      <4>2. k + (b - a) >= 1
        BY <1>0, <2>1, <2>2
      <4>. QED  BY <1>0, <2>1, <2>5, <4>2
    <3>. QED  BY <3>1, <3>2, <3>3 DEF TurnsOf
  <2>6. CASE b > a
    <3>1. d = b - a - NumAddrs /\ k + d = (k - NumAddrs) + (b - a)
      BY <2>6, <1>0, <2>1
    <3>2. (k + d) % NumAddrs = b
      BY <2>3, <2>4, <3>1
    <3>3. k + d \in 1..n
      BY <1>0, <2>1, <2>2, <2>6, <3>1
    <3>. QED  BY <3>2, <3>3 DEF TurnsOf
  <2>. QED  BY <1>0, <2>5, <2>6
<1>3. shift \in Injection(A \ {a}, B)
  <2>1. A \ {a} \subseteq Int
    BY DEF TurnsOf
  <2>2. shift \in [A \ {a} -> B]
    BY <1>2
  <2>3. \A j, k \in A \ {a} : shift[j] = shift[k] => j = k
    BY <1>0, <2>1
  <2>. QED  BY <2>2, <2>3 DEF Injection, IsInjective
<1>. HIDE DEF shift, A, B
<1>4. Cardinality(A \ {a}) <= Cardinality(B)
  BY <1>1, <1>3, FS_Injection
<1>5. Cardinality(A \ {a}) = (IF a \in A THEN Cardinality(A) - 1 ELSE Cardinality(A))
  BY <1>1, FS_RemoveElement
<1>6. Cardinality(A) \in Nat /\ Cardinality(B) \in Nat
  BY <1>1, FS_CardinalityType
<1>7. Cardinality(A) <= Cardinality(B) + 1
  BY <1>4, <1>5, <1>6
<1>. QED  BY <1>1, <1>7 DEF A, B

\* connection.go:241, config.go:48-50: when no dial was retried, no address
\* has two connections more than another, however the workers interleave.
THEOREM AddrsShareEvenly == Spec => []EvenlySpread
<1>1. ConnsInv /\ TurnsTaken => EvenlySpread
  <2>. SUFFICES ASSUME ConnsInv, TurnsTaken, Over, serverIdx = success
                PROVE  \A a, b \in Addrs : Cardinality(ConnsTo(a)) <= Cardinality(ConnsTo(b)) + 1
    BY DEF EvenlySpread
  <2>. DEFINE N == 1..serverIdx
  <2>1. serverIdx \in Nat /\ DOMAIN conns = N
    BY LenProperties DEF ConnsInv, TypeOK, KeptIsSuccess
  <2>2. PICK kept \in [N -> N] :
          /\ \A i, j \in N : kept[i] = kept[j] => i = j
          /\ \A i \in N : conns[i] = kept[i] % NumAddrs
    <3>1. PICK kept \in [DOMAIN conns -> 1..serverIdx] :
            /\ \A i, j \in DOMAIN conns : kept[i] = kept[j] => i = j
            /\ \A i \in DOMAIN conns : conns[i] = kept[i] % NumAddrs
      BY DEF TurnsTaken
    <3>. QED  BY <2>1, <3>1
  <2>3. IsFiniteSet(N)
    BY <2>1, FS_Interval
  <2>4. kept \in Surjection(N, N)
    <3>1. kept \in Injection(N, N)
      BY <2>2 DEF Injection, IsInjective
    <3>. QED  BY <3>1, <2>3, FS_Injection
  <2>5. ASSUME NEW a \in Addrs
        PROVE  Cardinality(ConnsTo(a)) = Cardinality(TurnsOf(a, serverIdx))
    <3>. DEFINE C == ConnsTo(a)
                T == TurnsOf(a, serverIdx)
                turn == [i \in C |-> kept[i]]
    <3>1. C = {i \in N : kept[i] % NumAddrs = a} /\ T = {k \in N : k % NumAddrs = a}
      BY <2>1, <2>2 DEF ConnsTo, TurnsOf
    <3>. HIDE DEF C, T
    <3>2. turn \in Injection(C, T)
      BY <2>2, <3>1 DEF Injection, IsInjective
    <3>3. turn \in Surjection(C, T)
      <4>1. \A k \in T : \E i \in C : turn[i] = k
        BY <2>4, <3>1 DEF Surjection
      <4>. QED  BY <3>2, <4>1 DEF Surjection, Injection
    <3>4. IsFiniteSet(C)
      BY <2>3, <3>1, FS_Subset
    <3>. HIDE DEF turn
    <3>5. ExistsBijection(C, T)
      BY <3>2, <3>3 DEF ExistsBijection, Bijection
    <3>6. Cardinality(T) = Cardinality(C)
      BY <3>4, <3>5, FS_Bijection
    <3>. QED  BY <3>6 DEF C, T
  <2>. QED  BY <2>1, <2>5, TurnsEven
<1>2. ConnsInv /\ TurnsTaken /\ [Next]_vars => TurnsTaken'
  BY TurnsStep
<1>. QED  BY <1>1, <1>2, TurnsInit, ConnsInvariant, PTL DEF Spec

=============================================================================
