--------------------------- MODULE BenchEchoProofs ---------------------------
(***************************************************************************)
(* Theorems about BenchEcho, for every set of connections and of workers,  *)
(* every number of calls and every kind of fault: its types, that the      *)
(* channel and the workers share the connections out among them, that no   *)
(* stream mixes up two requests, that it implements ConnPool, and that it  *)
(* counts every call once.                                                 *)
(***************************************************************************)
EXTENDS BenchEcho, SequenceTheorems, FiniteSetTheorems, TLAPS

-----------------------------------------------------------------------------
(* The inductive invariant *)

\* The channel holds no connection twice, and none that a worker has; no two
\* workers have the same one; a worker inside a call has exactly one.
Apart ==
  /\ \A i, j \in DOMAIN ch : ch[i] = ch[j] => i = j
  /\ \A w \in Workers : \A i \in DOMAIN ch : ch[i] \notin held[w]
  /\ \A v, w \in Workers : v # w => held[v] \cap held[w] = {}

InCall ==
  \A w \in Workers :
    IF wpc[w] \in {"idle", "take"} THEN held[w] = {}
    ELSE \E c \in Conns : held[w] = {c}

\* No connection is lost.
Placed ==
  \A c \in Conns :
    (\E i \in DOMAIN ch : ch[i] = c) \/ (\E w \in Workers : c \in held[w])

\* A connection whose socket the client closed is broken and has no stream.
ClosedIsBroken ==
  \A c \in Conns : closed[c] =>
    broken[c] /\ ~open[c] /\ toServer[c] = 0 /\ toClient[c] = 0

\* A worker redials broken connections only, and uses the others only.
BrokenIsRedialed ==
  \A w \in Workers : \A c \in held[w] :
    /\ wpc[w] = "redial" => broken[c]
    /\ wpc[w] \in {"write", "read"} => ~broken[c]

StreamInv == ClosedIsBroken /\ BrokenIsRedialed /\ AlignedUnlessBroken /\ OneInFlight

EchoInv == TypeOK /\ Apart /\ InCall /\ Placed /\ StreamInv

-----------------------------------------------------------------------------
(* Types *)

\* The constants are numbers.
LEMMA ConstantTypes ==
  /\ Cardinality(Conns) \in Nat
  /\ WarmupTimes \in Nat /\ Total \in Nat
BY BenchEchoAssumption, FS_CardinalityType

\* init's channel is a sequence of connections.
LEMMA TypeInit == Init => TypeOK
<1>. SUFFICES ASSUME Init PROVE TypeOK
  OBVIOUS
<1>1. ch \in Seq(Conns)
  BY ConstantTypes, IsASeq DEF Init
<1>. QED  BY <1>1, ConstantTypes DEF Init, TypeOK

\* Each step keeps the types.
LEMMA TypeStep == ASSUME TypeOK, [Next]_vars PROVE TypeOK'
<1>. USE ConstantTypes DEF TypeOK, calcVars, workerVars, connVars, wireVars
<1>1. CASE PhaseEnds
  BY <1>1 DEF PhaseEnds
<1>2. ASSUME NEW w \in Workers, Worker(w) PROVE TypeOK'
  <2>1. CASE StartCall(w)
    BY <2>1 DEF StartCall
  <2>2. CASE TakeConn(w)
    <3>1. Head(ch) \in Conns /\ Tail(ch) \in Seq(Conns)
      BY <2>2, HeadTailProperties DEF TakeConn
    <3>. QED  BY <2>2, <3>1 DEF TakeConn
  <2>3. CASE Redial(w)
    <3>1. CASE RedialCloses(w)
      BY <3>1 DEF RedialCloses
    <3>2. CASE RedialSucceeds(w)
      BY <3>2 DEF RedialSucceeds
    <3>3. CASE RedialFails(w)
      BY <3>3 DEF RedialFails, Return
    <3>. QED  BY <2>3, <3>1, <3>2, <3>3 DEF Redial
  <2>4. CASE WriteRequest(w)
    BY <2>4 DEF WriteRequest
  <2>5. CASE WriteFails(w)
    BY <2>5 DEF WriteFails, Return
  <2>6. CASE ReadResponse(w)
    <3>1. PICK c \in held[w] :
            /\ toClient[c] > 0
            /\ toClient' = [toClient EXCEPT ![c] = @ - 1]
      BY <2>6 DEF ReadResponse
    <3>2. ok' \in [Workers -> BOOLEAN] /\ UNCHANGED held
      BY <2>6 DEF ReadResponse, Return
    <3>3. wpc' = [wpc EXCEPT ![w] = "put"]
      BY <2>6 DEF ReadResponse, Return
    <3>4. UNCHANGED <<calcVars, ch, connVars, open, toServer>>
      BY <2>6 DEF ReadResponse
    <3>. QED  BY <3>1, <3>2, <3>3, <3>4
  <2>7. CASE ReadFails(w)
    BY <2>7 DEF ReadFails, Return
  <2>8. CASE PutConn(w)
    <3>1. ch' \in Seq(Conns)
      BY <2>8, AppendProperties DEF PutConn
    <3>2. success' \in Nat /\ failed' \in Nat
      BY <2>8 DEF PutConn
    <3>. QED  BY <2>8, <3>1, <3>2 DEF PutConn
  <2>. QED  BY <1>2, <2>1, <2>2, <2>3, <2>4, <2>5, <2>6, <2>7, <2>8 DEF Worker
<1>3. ASSUME NEW c \in Conns, Serve(c) PROVE TypeOK'
  BY <1>3 DEF Serve
<1>4. ASSUME NEW c \in Conns, PeerCloses(c) PROVE TypeOK'
  BY <1>4 DEF PeerCloses
<1>5. CASE Terminated \/ UNCHANGED vars
  BY <1>5 DEF Terminated, vars
<1>. QED  BY <1>1, <1>2, <1>3, <1>4, <1>5 DEF Next

\* Every variable has its type, whatever the constants are.
THEOREM TypeCorrect == Spec => []TypeOK
<1>1. TypeOK /\ [Next]_vars => TypeOK'
  BY TypeStep
<1>. QED  BY TypeInit, <1>1, PTL DEF Spec

-----------------------------------------------------------------------------
(* Who has a connection *)

Sharing == Apart /\ InCall /\ Placed

\* Every connection starts in the channel, since the channel has as many
\* places as there are connections and holds none twice.
LEMMA SharingInit == Init => Sharing
<1>. SUFFICES ASSUME Init PROVE Sharing
  OBVIOUS
<1>1. Apart /\ InCall
  BY DEF Init, Apart, InCall
<1>2. Placed
  <2>. DEFINE N == 1..Cardinality(Conns)
  <2>1. ch \in Injection(N, Conns)
    BY DEF Init, Injection, IsInjective
  <2>2. Cardinality(N) = Cardinality(Conns)
    BY ConstantTypes, FS_Interval
  <2>3. ch \in Surjection(N, Conns)
    BY <2>1, <2>2, FS_Injection, BenchEchoAssumption
  <2>. QED  BY <2>3 DEF Placed, Surjection, Init
<1>. QED  BY <1>1, <1>2 DEF Sharing

\* A step in which a worker only moves on inside its call.
LEMMA SharingMoves ==
  ASSUME Sharing, TypeOK, UNCHANGED <<ch, held>>,
         NEW w \in Workers, wpc[w] \notin {"idle", "take"},
         NEW pc \in {"redial", "write", "read", "put"},
         wpc' = [wpc EXCEPT ![w] = pc]
  PROVE  Sharing'
BY DEF Sharing, Apart, InCall, Placed, TypeOK

\* A worker takes the connection at the head of the channel.
LEMMA SharingTake ==
  ASSUME Sharing, TypeOK, NEW w \in Workers, TakeConn(w) PROVE Sharing'
<1>. DEFINE c == Head(ch)
<1>1. /\ ch \in Seq(Conns) /\ ch # <<>> /\ c \in Conns /\ c = ch[1]
      /\ ch' = Tail(ch) /\ Len(ch') = Len(ch) - 1 /\ ch' \in Seq(Conns)
      /\ \A i \in 1..Len(ch') : ch'[i] = ch[i + 1]
  BY HeadTailProperties DEF TakeConn, TypeOK
<1>2. DOMAIN ch = 1..Len(ch) /\ DOMAIN ch' = 1..Len(ch') /\ Len(ch) \in Nat /\ Len(ch) > 0
  BY <1>1, LenProperties, EmptySeq
<1>3. /\ held' = [held EXCEPT ![w] = {c}] /\ held[w] = {}
      /\ held \in [Workers -> SUBSET Conns]
  BY DEF TakeConn, Sharing, InCall, TypeOK
<1>4. Apart'
  <2>1. ASSUME NEW i \in DOMAIN ch'
        PROVE  i + 1 \in DOMAIN ch /\ 1 \in DOMAIN ch /\ ch'[i] = ch[i + 1] /\ i + 1 # 1
    BY <1>1, <1>2
  <2>2. \A i, j \in DOMAIN ch' : ch'[i] = ch'[j] => i = j
    <3>. SUFFICES ASSUME NEW i \in DOMAIN ch', NEW j \in DOMAIN ch', ch'[i] = ch'[j]
                  PROVE  i = j
      OBVIOUS
    <3>1. i + 1 = j + 1
      BY <2>1 DEF Sharing, Apart
    <3>2. i \in Int /\ j \in Int
      BY <1>2
    <3>. QED  BY <3>1, <3>2
  <2>3. ASSUME NEW v \in Workers, NEW i \in DOMAIN ch' PROVE ch'[i] \notin held'[v]
    <3>1. ch'[i] # c /\ ch'[i] \notin held[v]
      BY <1>1, <2>1 DEF Sharing, Apart
    <3>. QED  BY <3>1, <1>3
  <2>4. ASSUME NEW u \in Workers, NEW v \in Workers, u # v
        PROVE  held'[u] \cap held'[v] = {}
    <3>1. c \notin held[u] /\ c \notin held[v] /\ held[u] \cap held[v] = {}
      BY <1>1, <1>2, <2>4 DEF Sharing, Apart
    <3>. QED  BY <3>1, <1>3, <2>4
  <2>. QED  BY <2>2, <2>3, <2>4 DEF Apart
<1>5. InCall'
  <2>1. PICK pc \in {"redial", "write"} : wpc' = [wpc EXCEPT ![w] = pc]
    BY DEF TakeConn
  <2>2. wpc \in [Workers -> {"idle", "take", "redial", "write", "read", "put"}]
    BY DEF TypeOK
  <2>3. ASSUME NEW v \in Workers, v # w PROVE wpc'[v] = wpc[v] /\ held'[v] = held[v]
    BY <2>1, <2>2, <2>3, <1>3
  <2>4. wpc'[w] \notin {"idle", "take"} /\ held'[w] = {c}
    BY <2>1, <2>2, <1>3
  <2>. QED  BY <2>3, <2>4, <1>1 DEF Sharing, InCall
<1>6. Placed'
  <2>. SUFFICES ASSUME NEW d \in Conns
                PROVE  (\E i \in DOMAIN ch' : ch'[i] = d) \/ (\E v \in Workers : d \in held'[v])
    BY DEF Placed
  <2>1. CASE d = c
    BY <2>1, <1>3
  <2>2. ASSUME NEW i \in DOMAIN ch, ch[i] = d, d # c
        PROVE  \E j \in DOMAIN ch' : ch'[j] = d
    <3>1. i - 1 \in DOMAIN ch' /\ ch'[i - 1] = ch[i]
      BY <2>2, <1>1, <1>2
    <3>. QED  BY <3>1, <2>2
  <2>3. ASSUME NEW v \in Workers, d \in held[v] PROVE d \in held'[v]
    BY <2>3, <1>3
  <2>. QED  BY <2>1, <2>2, <2>3 DEF Sharing, Placed
<1>. QED  BY <1>4, <1>5, <1>6 DEF Sharing

\* A worker puts its connection at the end of the channel.
LEMMA SharingPut ==
  ASSUME Sharing, TypeOK, NEW w \in Workers, PutConn(w) PROVE Sharing'
<1>1. PICK c \in Conns : held[w] = {c} /\ ch' = Append(ch, c)
  BY DEF PutConn, Sharing, InCall
<1>2. /\ ch \in Seq(Conns) /\ ch' \in Seq(Conns) /\ Len(ch') = Len(ch) + 1
      /\ \A i \in 1..Len(ch) : ch'[i] = ch[i]
      /\ ch'[Len(ch) + 1] = c
  BY <1>1, AppendProperties DEF TypeOK
<1>3. DOMAIN ch = 1..Len(ch) /\ DOMAIN ch' = 1..(Len(ch) + 1) /\ Len(ch) \in Nat
  BY <1>2, LenProperties
<1>4. /\ held' = [held EXCEPT ![w] = {}]
      /\ held \in [Workers -> SUBSET Conns]
  BY DEF PutConn, TypeOK
<1>5. Apart'
  BY <1>1, <1>2, <1>3, <1>4 DEF Sharing, Apart
<1>6. InCall'
  BY <1>4 DEF Sharing, InCall, PutConn, TypeOK
<1>7. Placed'
  <2>. SUFFICES ASSUME NEW d \in Conns
                PROVE  (\E i \in DOMAIN ch' : ch'[i] = d) \/ (\E v \in Workers : d \in held'[v])
    BY DEF Placed
  <2>1. CASE d = c
    BY <2>1, <1>2, <1>3
  <2>2. ASSUME NEW i \in DOMAIN ch, ch[i] = d PROVE i \in DOMAIN ch' /\ ch'[i] = d
    BY <2>2, <1>2, <1>3
  <2>3. ASSUME NEW v \in Workers, d \in held[v], d # c PROVE d \in held'[v]
    BY <2>3, <1>1, <1>4
  <2>. QED  BY <2>1, <2>2, <2>3 DEF Sharing, Placed
<1>. QED  BY <1>5, <1>6, <1>7 DEF Sharing

\* Each step keeps the connections shared out.
LEMMA SharingStep == ASSUME Sharing, TypeOK, [Next]_vars PROVE Sharing'
<1>. USE DEF workerVars
<1>1. ASSUME UNCHANGED <<ch, workerVars>> PROVE Sharing'
  BY <1>1 DEF Sharing, Apart, InCall, Placed
<1>2. ASSUME NEW w \in Workers, Worker(w) PROVE Sharing'
  <2>1. CASE StartCall(w)
    BY <2>1 DEF StartCall, Sharing, Apart, InCall, Placed, TypeOK
  <2>2. CASE TakeConn(w)
    BY <2>2, SharingTake
  <2>3. CASE PutConn(w)
    BY <2>3, SharingPut
  <2>4. CASE RedialCloses(w)
    BY <2>4, <1>1 DEF RedialCloses
  <2>5. CASE RedialSucceeds(w)
    BY <2>5, SharingMoves DEF RedialSucceeds
  <2>6. CASE RedialFails(w)
    BY <2>6, SharingMoves DEF RedialFails, Return
  <2>7. CASE WriteRequest(w)
    BY <2>7, SharingMoves DEF WriteRequest
  <2>8. CASE WriteFails(w)
    BY <2>8, SharingMoves DEF WriteFails, Return
  <2>9. CASE ReadResponse(w)
    BY <2>9, SharingMoves DEF ReadResponse, Return
  <2>10. CASE ReadFails(w)
    BY <2>10, SharingMoves DEF ReadFails, Return
  <2>. QED
    BY <1>2, <2>1, <2>2, <2>3, <2>4, <2>5, <2>6, <2>7, <2>8, <2>9, <2>10
    DEF Worker, Redial
<1>3. CASE PhaseEnds
  BY <1>3, <1>1 DEF PhaseEnds
<1>4. ASSUME NEW c \in Conns, Serve(c) \/ PeerCloses(c) PROVE Sharing'
  BY <1>4, <1>1 DEF Serve, PeerCloses
<1>5. CASE Terminated \/ UNCHANGED vars
  BY <1>5, <1>1 DEF Terminated, vars
<1>. QED  BY <1>2, <1>3, <1>4, <1>5 DEF Next

-----------------------------------------------------------------------------
(* What a connection's stream carries *)

\* A connection that a worker has is the only one it has, and nobody else's.
LEMMA OneOwner ==
  ASSUME Sharing, TypeOK, NEW w \in Workers, NEW c \in held[w]
  PROVE  /\ c \in Conns /\ held[w] = {c}
         /\ Holders(c) = {w}
         /\ \A v \in Workers : v # w => c \notin held[v]
<1>1. c \in Conns /\ held[w] = {c}
  BY DEF Sharing, InCall, TypeOK
<1>2. \A v \in Workers : v # w => c \notin held[v]
  BY DEF Sharing, Apart
<1>. QED  BY <1>1, <1>2 DEF Holders

\* The fresh connections carry nothing.
LEMMA StreamInit == Init => StreamInv
BY DEF Init, StreamInv, ClosedIsBroken, BrokenIsRedialed, AlignedUnlessBroken, OneInFlight

\* Each step of a worker keeps the streams in order.
LEMMA StreamWorker ==
  ASSUME TypeOK, Sharing, StreamInv, NEW w \in Workers, Worker(w) PROVE StreamInv'
<1>. USE DEF calcVars, workerVars, connVars, wireVars
<1>1. CASE StartCall(w)
  <2>1. held[w] = {}
    BY <1>1 DEF StartCall, Sharing, InCall
  <2>2. ASSUME NEW v \in Workers, NEW c \in held[v] PROVE wpc'[v] = wpc[v]
    BY <1>1, <2>1, <2>2 DEF StartCall, TypeOK
  <2>3. UNCHANGED <<held, connVars, wireVars>>
    BY <1>1 DEF StartCall
  <2>4. \A c \in Conns : Holders(c)' = Holders(c)
    BY <2>3 DEF Holders
  <2>. QED  BY <2>2, <2>3, <2>4
            DEF StreamInv, ClosedIsBroken, BrokenIsRedialed, AlignedUnlessBroken,
                OneInFlight, Holders
<1>2. CASE TakeConn(w)
  <2>. DEFINE c == Head(ch)
  <2>1. c \in Conns /\ c = ch[1] /\ 1 \in DOMAIN ch
    BY <1>2, HeadTailProperties, LenProperties, EmptySeq DEF TakeConn, TypeOK
  <2>2. held[w] = {} /\ \A v \in Workers : c \notin held[v]
    BY <1>2, <2>1 DEF TakeConn, Sharing, Apart, InCall
  <2>3. held' = [held EXCEPT ![w] = {c}] /\ UNCHANGED <<connVars, wireVars>>
    BY <1>2 DEF TakeConn
  <2>4. /\ \A v \in Workers \ {w} : wpc'[v] = wpc[v] /\ held'[v] = held[v]
        /\ wpc'[w] = (IF broken[c] THEN "redial" ELSE "write") /\ held'[w] = {c}
    BY <1>2, <2>3 DEF TakeConn, TypeOK
  <2>5. BrokenIsRedialed'
    BY <2>1, <2>3, <2>4 DEF StreamInv, BrokenIsRedialed
  <2>6. AlignedUnlessBroken'
    <3>1. ASSUME NEW d \in Conns, d # c PROVE Holders(d)' = Holders(d) /\ w \notin Holders(d)
      BY <3>1, <2>2, <2>4 DEF Holders
    <3>2. ~broken[c] => toServer[c] + toClient[c] = 0
      BY <2>1, <2>2 DEF StreamInv, AlignedUnlessBroken, Holders
    <3>. QED  BY <3>1, <3>2, <2>3, <2>4 DEF StreamInv, AlignedUnlessBroken, Holders
  <2>. QED  BY <2>3, <2>5, <2>6 DEF StreamInv, ClosedIsBroken, OneInFlight
<1>3. CASE PutConn(w)
  <2>1. PICK c \in Conns : held[w] = {c}
    BY <1>3 DEF PutConn, Sharing, InCall
  <2>2. UNCHANGED <<connVars, wireVars>> /\ wpc[w] = "put"
    BY <1>3 DEF PutConn
  <2>3. /\ \A v \in Workers \ {w} : wpc'[v] = wpc[v] /\ held'[v] = held[v]
        /\ held'[w] = {}
    BY <1>3 DEF PutConn, TypeOK
  <2>4. AlignedUnlessBroken'
    <3>1. ASSUME NEW d \in Conns, \A v \in Holders(d)' : wpc'[v] # "read"
          PROVE  \A v \in Holders(d) : wpc[v] # "read"
      BY <3>1, <2>2, <2>3 DEF Holders
    <3>. QED  BY <3>1, <2>2 DEF StreamInv, AlignedUnlessBroken
  <2>5. BrokenIsRedialed'
    BY <2>2, <2>3 DEF StreamInv, BrokenIsRedialed
  <2>. QED  BY <2>2, <2>4, <2>5 DEF StreamInv, ClosedIsBroken, OneInFlight
<1>4. ASSUME NEW c \in held[w], NEW pc \in {"redial", "write", "read", "put"},
             held' = held, wpc' = [wpc EXCEPT ![w] = pc],
             \A d \in Conns \ {c} :
               /\ broken'[d] = broken[d] /\ closed'[d] = closed[d] /\ open'[d] = open[d]
               /\ toServer'[d] = toServer[d] /\ toClient'[d] = toClient[d],
             closed'[c] =>
               broken'[c] /\ ~open'[c] /\ toServer'[c] = 0 /\ toClient'[c] = 0,
             pc = "redial" => broken'[c],
             pc \in {"write", "read"} => ~broken'[c],
             ~broken'[c] /\ pc # "read" => toServer'[c] + toClient'[c] = 0,
             toServer'[c] + toClient'[c] <= 1
      PROVE  StreamInv'
  <2>1. /\ c \in Conns /\ held[w] = {c} /\ Holders(c) = {w}
        /\ \A v \in Workers : v # w => c \notin held[v]
    BY OneOwner
  <2>2. wpc'[w] = pc /\ \A v \in Workers : v # w => wpc'[v] = wpc[v]
    BY <1>4 DEF TypeOK
  <2>3. \A d \in Conns : Holders(d)' = Holders(d)
    BY <1>4 DEF Holders
  <2>4. ClosedIsBroken' /\ OneInFlight'
    BY <1>4 DEF StreamInv, ClosedIsBroken, OneInFlight
  <2>5. BrokenIsRedialed'
    <3>. SUFFICES ASSUME NEW v \in Workers, NEW d \in held[v]
                  PROVE  /\ wpc'[v] = "redial" => broken'[d]
                         /\ wpc'[v] \in {"write", "read"} => ~broken'[d]
      BY <1>4 DEF BrokenIsRedialed
    <3>1. CASE v = w
      BY <3>1, <1>4, <2>1, <2>2
    <3>2. CASE v # w
      BY <3>2, <1>4, <2>1, <2>2 DEF StreamInv, BrokenIsRedialed, TypeOK
    <3>. QED  BY <3>1, <3>2
  <2>6. AlignedUnlessBroken'
    <3>. SUFFICES ASSUME NEW d \in Conns, ~broken'[d],
                         \A v \in Holders(d) : wpc'[v] # "read"
                  PROVE  toServer'[d] + toClient'[d] = 0
      BY <2>3 DEF AlignedUnlessBroken
    <3>1. CASE d = c
      BY <3>1, <1>4, <2>1, <2>2
    <3>2. CASE d # c
      <4>1. \A v \in Holders(d) : wpc[v] # "read"
        BY <3>2, <2>1, <2>2 DEF Holders
      <4>. QED  BY <3>2, <4>1, <1>4 DEF StreamInv, AlignedUnlessBroken
    <3>. QED  BY <3>1, <3>2
  <2>. QED  BY <2>4, <2>5, <2>6 DEF StreamInv
<1>5. CASE RedialCloses(w)
  <2>1. PICK c \in held[w] : RedialCloses(w)!(c)
    BY <1>5 DEF RedialCloses
  <2>2. c \in Conns
    BY OneOwner
  <2>3. held' = held /\ wpc' = [wpc EXCEPT ![w] = "redial"]
    BY <2>1 DEF TypeOK
  <2>. QED  BY <2>1, <2>2, <2>3, <1>4 DEF StreamInv, BrokenIsRedialed, TypeOK
<1>6. CASE RedialSucceeds(w)
  <2>1. PICK c \in held[w] : RedialSucceeds(w)!(c)
    BY <1>6 DEF RedialSucceeds
  <2>2. c \in Conns
    BY OneOwner
  <2>3. held' = held /\ wpc' = [wpc EXCEPT ![w] = "write"]
    BY <2>1 DEF TypeOK
  <2>4. toServer[c] = 0 /\ toClient[c] = 0 /\ UNCHANGED <<toServer, toClient>>
    BY <2>1, <2>2 DEF StreamInv, ClosedIsBroken
  <2>5. ~closed'[c] /\ ~broken'[c]
    BY <2>1, <2>2 DEF TypeOK
  <2>6. \A d \in Conns \ {c} :
          broken'[d] = broken[d] /\ closed'[d] = closed[d] /\ open'[d] = open[d]
    BY <2>1 DEF TypeOK
  <2>. QED  BY <2>2, <2>3, <2>4, <2>5, <2>6, <1>4
<1>7. CASE RedialFails(w)
  BY <1>7, <1>4, OneOwner
  DEF RedialFails, Return, StreamInv, ClosedIsBroken, BrokenIsRedialed, OneInFlight, TypeOK
<1>8. CASE WriteRequest(w)
  <2>1. PICK c \in held[w] : WriteRequest(w)!(c)
    BY <1>8 DEF WriteRequest
  <2>2. c \in Conns
    BY OneOwner
  <2>3. held' = held /\ wpc' = [wpc EXCEPT ![w] = "read"]
    BY <2>1 DEF TypeOK
  <2>4. ~closed[c] /\ ~broken[c] /\ UNCHANGED <<connVars, open, toClient>>
    BY <2>1 DEF StreamInv, BrokenIsRedialed
  <2>5. toServer[c] + toClient[c] = 0 /\ toServer[c] \in Nat /\ toClient[c] \in Nat
    BY <2>1, <2>2, <2>4, OneOwner DEF StreamInv, AlignedUnlessBroken, TypeOK
  <2>6. \A d \in Conns \ {c} : toServer'[d] = toServer[d]
    BY <2>1 DEF TypeOK
  <2>7. toServer'[c] + toClient'[c] <= 1
    BY <2>1, <2>2, <2>4, <2>5 DEF TypeOK
  <2>. QED  BY <2>2, <2>3, <2>4, <2>6, <2>7, <1>4
<1>9. CASE WriteFails(w)
  <2>1. PICK c \in held[w] : WriteFails(w)!(c)
    BY <1>9 DEF WriteFails
  <2>2. c \in Conns
    BY OneOwner
  <2>3. held' = held /\ wpc' = [wpc EXCEPT ![w] = "put"]
    BY <2>1 DEF TypeOK, Return
  <2>. QED  BY <2>1, <2>2, <2>3, <1>4 DEF StreamInv, ClosedIsBroken, OneInFlight, TypeOK
<1>10. CASE ReadResponse(w)
  BY <1>10, <1>4, OneOwner
  DEF ReadResponse, Return, StreamInv, ClosedIsBroken, OneInFlight, TypeOK
<1>11. CASE ReadFails(w)
  <2>1. PICK c \in held[w] : ReadFails(w)!(c)
    BY <1>11 DEF ReadFails
  <2>2. c \in Conns
    BY OneOwner
  <2>3. held' = held /\ wpc' = [wpc EXCEPT ![w] = "put"]
    BY <2>1 DEF TypeOK, Return
  <2>. QED  BY <2>1, <2>2, <2>3, <1>4 DEF StreamInv, ClosedIsBroken, OneInFlight, TypeOK
<1>. QED
  BY <1>1, <1>2, <1>3, <1>5, <1>6, <1>7, <1>8, <1>9, <1>10, <1>11 DEF Worker, Redial

\* So does each step of the server, of the peer and of the Calculator.
LEMMA StreamStep ==
  ASSUME TypeOK, Sharing, StreamInv, [Next]_vars PROVE StreamInv'
<1>. USE DEF calcVars, workerVars, connVars, wireVars
<1>1. ASSUME UNCHANGED <<workerVars, connVars, wireVars>> PROVE StreamInv'
  BY <1>1
  DEF StreamInv, ClosedIsBroken, BrokenIsRedialed, AlignedUnlessBroken, OneInFlight, Holders
<1>2. ASSUME UNCHANGED <<workerVars, connVars>>,
             \A c \in Conns :
               /\ open'[c] => open[c]
               /\ toServer'[c] \in Nat /\ toClient'[c] \in Nat
               /\ toServer'[c] + toClient'[c] <= toServer[c] + toClient[c]
      PROVE  StreamInv'
  <2>1. \A c \in Conns : toServer[c] \in Nat /\ toClient[c] \in Nat
    BY DEF TypeOK
  <2>2. ClosedIsBroken'
    <3>. SUFFICES ASSUME NEW c \in Conns, closed[c]
                  PROVE  broken[c] /\ ~open'[c] /\ toServer'[c] = 0 /\ toClient'[c] = 0
      BY <1>2 DEF ClosedIsBroken
    <3>1. broken[c] /\ ~open[c] /\ toServer[c] = 0 /\ toClient[c] = 0
      BY DEF StreamInv, ClosedIsBroken
    <3>. QED  BY <3>1, <1>2
  <2>3. AlignedUnlessBroken'
    BY <1>2, <2>1 DEF StreamInv, AlignedUnlessBroken, Holders
  <2>4. BrokenIsRedialed'
    BY <1>2 DEF StreamInv, BrokenIsRedialed
  <2>5. OneInFlight'
    BY <1>2, <2>1 DEF StreamInv, OneInFlight
  <2>. QED  BY <2>2, <2>3, <2>4, <2>5 DEF StreamInv
<1>3. ASSUME NEW w \in Workers, Worker(w) PROVE StreamInv'
  BY <1>3, StreamWorker
<1>4. ASSUME NEW c \in Conns, Serve(c) PROVE StreamInv'
  BY <1>4, <1>2 DEF Serve, TypeOK
<1>5. ASSUME NEW c \in Conns, PeerCloses(c) PROVE StreamInv'
  BY <1>5, <1>2 DEF PeerCloses, TypeOK
<1>6. CASE PhaseEnds \/ Terminated \/ UNCHANGED vars
  BY <1>6, <1>1 DEF PhaseEnds, Terminated, vars
<1>. QED  BY <1>3, <1>4, <1>5, <1>6 DEF Next

\* The whole invariant.
LEMMA EchoInvariant == Spec => []EchoInv
<1>1. Init => EchoInv
  BY TypeInit, SharingInit, StreamInit DEF EchoInv, Sharing
<1>2. EchoInv /\ [Next]_vars => EchoInv'
  BY TypeStep, SharingStep, StreamStep DEF EchoInv, Sharing
<1>. QED  BY <1>1, <1>2, PTL DEF Spec

\* A connection that is not broken carries nothing between two requests.
THEOREM StreamsAligned == Spec => []AlignedUnlessBroken
<1>1. EchoInv => AlignedUnlessBroken
  BY DEF EchoInv, StreamInv
<1>. QED  BY <1>1, EchoInvariant, PTL

\* README.md:80: one request in flight per connection.
THEOREM OneRequestInFlight == Spec => []OneInFlight
<1>1. EchoInv => OneInFlight
  BY DEF EchoInv, StreamInv
<1>. QED  BY <1>1, EchoInvariant, PTL

\* No worker writes to or reads from a socket that Redial has closed.
THEOREM NeverUsedAfterClose == Spec => []NoUseAfterClose
<1>1. EchoInv => NoUseAfterClose
  BY DEF EchoInv, StreamInv, ClosedIsBroken, BrokenIsRedialed, NoUseAfterClose
<1>. QED  BY <1>1, EchoInvariant, PTL

-----------------------------------------------------------------------------
(* No connection is lost, and no put waits *)

\* A connection has one place: an index of the channel, or a worker.
THEOREM ConnsConserved == Spec => []ConnConserved
<1>1. EchoInv => ConnConserved
  <2>. SUFFICES ASSUME EchoInv, NEW c \in Conns
                PROVE  Cardinality(InChannel(c)) + Cardinality(Holders(c)) = 1
    BY DEF ConnConserved
  <2>1. CASE \E w \in Workers : c \in held[w]
    <3>1. PICK w \in Workers : c \in held[w]
      BY <2>1
    <3>2. Holders(c) = {w}
      BY <3>1, OneOwner DEF EchoInv, Sharing
    <3>3. InChannel(c) = {}
      BY <3>1 DEF EchoInv, Apart, InChannel
    <3>4. Cardinality(Holders(c)) = 1
      BY <3>2, FS_Singleton
    <3>5. Cardinality(InChannel(c)) = 0
      BY <3>3, FS_EmptySet
    <3>. QED  BY <3>4, <3>5
  <2>2. CASE \A w \in Workers : c \notin held[w]
    <3>1. Holders(c) = {}
      BY <2>2 DEF Holders
    <3>2. PICK i \in DOMAIN ch : ch[i] = c
      BY <2>2 DEF EchoInv, Placed
    <3>3. InChannel(c) = {i}
      BY <3>2 DEF EchoInv, Apart, InChannel
    <3>4. Cardinality(Holders(c)) = 0
      BY <3>1, FS_EmptySet
    <3>5. Cardinality(InChannel(c)) = 1
      BY <3>3, FS_Singleton
    <3>. QED  BY <3>4, <3>5
  <2>. QED  BY <2>1, <2>2
<1>. QED  BY <1>1, EchoInvariant, PTL

\* While a worker has a connection the channel is short of it, so there is room
\* for the deferred send.
THEOREM PutsNeverBlock == Spec => []PutNeverBlocks
<1>1. EchoInv => PutNeverBlocks
  <2>. SUFFICES ASSUME EchoInv, NEW w \in Workers, wpc[w] = "put"
                PROVE  Len(ch) < Cardinality(Conns)
    BY DEF PutNeverBlocks
  <2>1. PICK c \in Conns : held[w] = {c}
    BY DEF EchoInv, InCall
  <2>. DEFINE N == 1..Len(ch)
              Rest == Conns \ {c}
  <2>2. Len(ch) \in Nat /\ DOMAIN ch = N /\ ch \in [N -> Conns]
    BY LenProperties DEF EchoInv, TypeOK
  <2>3. ch \in Injection(N, Rest)
    <3>1. \A i \in N : ch[i] \in Rest
      BY <2>1, <2>2 DEF EchoInv, Apart
    <3>2. ch \in [N -> Rest]
      BY <3>1, <2>2
    <3>. QED  BY <3>2, <2>2 DEF Injection, IsInjective, EchoInv, Apart
  <2>4. IsFiniteSet(Rest) /\ Cardinality(Rest) = Cardinality(Conns) - 1
    BY <2>1, FS_RemoveElement, BenchEchoAssumption
  <2>5. Cardinality(N) = Len(ch) /\ IsFiniteSet(N)
    BY <2>2, FS_Interval
  <2>6. Cardinality(N) <= Cardinality(Rest)
    BY <2>3, <2>4, FS_Injection
  <2>. QED  BY <2>2, <2>4, <2>5, <2>6, ConstantTypes
<1>. QED  BY <1>1, EchoInvariant, PTL

-----------------------------------------------------------------------------
(* The abstract pool *)

\* ConnPool's variables as functions of BenchEcho's.
Own == [c \in Conns |-> Holders(c)]
Pending == [c \in Conns |-> toServer[c] + toClient[c]]

\* A step that leaves holders and streams alone is invisible in the pool.
LEMMA PoolStutter ==
  ASSUME UNCHANGED <<held, wireVars>> PROVE UNCHANGED <<Own, Pending, open>>
BY DEF Own, Pending, Holders, wireVars

\* Taking a connection acquires it.
LEMMA PoolAcquire ==
  ASSUME EchoInv, NEW w \in Workers, TakeConn(w)
  PROVE  \E c \in Conns : Pool!Acquire(w, c)
<1>1. PICK c \in Conns : c = Head(ch) /\ c = ch[1] /\ 1 \in DOMAIN ch
  BY HeadTailProperties, LenProperties, EmptySeq DEF TakeConn, EchoInv, TypeOK
<1>2. held[w] = {} /\ \A v \in Workers : c \notin held[v]
  BY <1>1 DEF TakeConn, EchoInv, Apart, InCall
<1>3. /\ \A v \in Workers \ {w} : held'[v] = held[v]
      /\ held'[w] = {c} /\ UNCHANGED wireVars
  BY <1>1 DEF TakeConn, EchoInv, TypeOK
<1>4. Holders(c) = {} /\ \A d \in Conns : w \notin Holders(d)
  BY <1>2 DEF Holders
<1>5. Own' = [Own EXCEPT ![c] = {w}]
  <2>1. Holders(c)' = {w}
    BY <1>2, <1>3 DEF Holders
  <2>2. \A d \in Conns \ {c} : Holders(d)' = Holders(d)
    BY <1>2, <1>3 DEF Holders
  <2>. QED  BY <1>1, <2>1, <2>2 DEF Own
<1>6. UNCHANGED <<Pending, open>>
  BY <1>3 DEF Pending, wireVars
<1>. QED  BY <1>1, <1>4, <1>5, <1>6 DEF Pool!Acquire, Own, Pending

\* Putting it back releases it.
LEMMA PoolRelease ==
  ASSUME EchoInv, NEW w \in Workers, PutConn(w)
  PROVE  \E c \in Conns : Pool!Release(w, c)
<1>1. PICK c \in Conns : held[w] = {c}
  BY DEF PutConn, EchoInv, InCall
<1>2. Holders(c) = {w}
  BY <1>1, OneOwner DEF EchoInv, Sharing
<1>3. /\ \A v \in Workers \ {w} : held'[v] = held[v]
      /\ held'[w] = {} /\ UNCHANGED wireVars
  BY DEF PutConn, EchoInv, TypeOK
<1>4. Own' = [Own EXCEPT ![c] = {}]
  <2>1. Holders(c)' = {}
    BY <1>2, <1>3 DEF Holders
  <2>2. \A d \in Conns \ {c} : Holders(d)' = Holders(d)
    BY <1>1, <1>3 DEF Holders
  <2>. QED  BY <2>1, <2>2 DEF Own
<1>5. UNCHANGED <<Pending, open>>
  BY <1>3 DEF Pending, wireVars
<1>. QED  BY <1>1, <1>2, <1>4, <1>5 DEF Pool!Release, Own, Pending

\* Whatever a worker does in between, it does to its own connection, and it
\* sends on an empty stream only.
LEMMA PoolUse ==
  ASSUME EchoInv, NEW w \in Workers,
         Redial(w) \/ WriteRequest(w) \/ WriteFails(w) \/ ReadResponse(w) \/ ReadFails(w)
  PROVE  [Pool!PoolNext]_<<Own, Pending, open>>
<1>. USE DEF wireVars
<1>1. ASSUME NEW c \in held[w]
      PROVE  /\ c \in Conns /\ Own[c] = {w}
             /\ toServer[c] \in Nat /\ toClient[c] \in Nat
             /\ Pending[c] = toServer[c] + toClient[c]
             /\ Pending[c] <= 1
  BY OneOwner DEF EchoInv, Sharing, StreamInv, OneInFlight, TypeOK, Own, Pending
<1>2. ASSUME UNCHANGED held PROVE UNCHANGED Own
  BY <1>2 DEF Own, Holders
<1>3. CASE RedialCloses(w)
  <2>1. PICK c \in held[w] : RedialCloses(w)!(c)
    BY <1>3 DEF RedialCloses
  <2>2. open' = [open EXCEPT ![c] = FALSE] /\ UNCHANGED Own
    BY <2>1, <1>2 DEF workerVars
  <2>3. Pending' = [Pending EXCEPT ![c] = 0] /\ 0 \in 0..Pending[c]
    <3>1. toServer'[c] = 0 /\ toClient'[c] = 0
      BY <2>1, <1>1 DEF EchoInv, TypeOK
    <3>2. \A d \in Conns \ {c} : toServer'[d] = toServer[d] /\ toClient'[d] = toClient[d]
      BY <2>1 DEF EchoInv, TypeOK
    <3>. QED  BY <3>1, <3>2, <1>1 DEF Pending
  <2>4. Pool!Lose(c)
    BY <2>2, <2>3 DEF Pool!Lose, Own, Pending
  <2>. QED  BY <2>4, <1>1 DEF Pool!PoolNext
<1>4. CASE RedialSucceeds(w)
  <2>1. PICK c \in held[w] : RedialSucceeds(w)!(c)
    BY <1>4 DEF RedialSucceeds
  <2>2. Pending[c] = 0 /\ ~open[c]
    BY <2>1, <1>1 DEF EchoInv, StreamInv, ClosedIsBroken
  <2>3. UNCHANGED <<Own, Pending>> /\ open' = [open EXCEPT ![c] = TRUE]
    BY <2>1, <1>2 DEF Pending
  <2>4. Pool!Connect(w, c)
    BY <2>2, <2>3, <1>1 DEF Pool!Connect, Own, Pending
  <2>. QED  BY <2>4, <1>1 DEF Pool!PoolNext
<1>5. CASE RedialFails(w)
  BY <1>5, PoolStutter DEF RedialFails, Return
<1>6. CASE WriteRequest(w)
  <2>1. PICK c \in held[w] : WriteRequest(w)!(c)
    BY <1>6 DEF WriteRequest
  <2>2. CASE open[c]
    <3>1. ~broken[c] /\ wpc[w] = "write"
      BY <2>1 DEF EchoInv, StreamInv, BrokenIsRedialed
    <3>2. Pending[c] = 0
      BY <3>1, <1>1, OneOwner
      DEF EchoInv, Sharing, StreamInv, AlignedUnlessBroken
    <3>3. UNCHANGED <<Own, open>> /\ toServer' = [toServer EXCEPT ![c] = @ + 1]
      BY <2>1, <2>2, <1>2
    <3>4. Pending' = [Pending EXCEPT ![c] = 1]
      <4>1. toServer'[c] + toClient'[c] = 1
        BY <2>1, <3>2, <3>3, <1>1 DEF EchoInv, TypeOK
      <4>2. \A d \in Conns \ {c} : toServer'[d] = toServer[d] /\ toClient'[d] = toClient[d]
        BY <2>1, <3>3 DEF EchoInv, TypeOK
      <4>. QED  BY <4>1, <4>2, <1>1 DEF Pending
    <3>5. Pool!Send(w, c)
      BY <2>2, <3>2, <3>3, <3>4, <1>1 DEF Pool!Send, Own, Pending
    <3>. QED  BY <3>5, <1>1 DEF Pool!PoolNext
  <2>3. CASE ~open[c]
    <3>1. toServer' = toServer /\ UNCHANGED <<held, open, toClient>>
      BY <2>1, <2>3 DEF EchoInv, TypeOK
    <3>. QED  BY <3>1, PoolStutter
  <2>. QED  BY <2>2, <2>3
<1>7. CASE WriteFails(w)
  BY <1>7, PoolStutter DEF WriteFails, Return
<1>8. CASE ReadResponse(w)
  <2>1. PICK c \in held[w] :
          /\ toClient[c] > 0
          /\ toClient' = [toClient EXCEPT ![c] = @ - 1]
          /\ UNCHANGED <<held, open, toServer>>
    BY <1>8 DEF ReadResponse, Return
  <2>2. Pending[c] = 1
    BY <2>1, <1>1
  <2>3. Pending' = [Pending EXCEPT ![c] = 0]
    <3>1. toServer'[c] + toClient'[c] = 0
      BY <2>1, <2>2, <1>1 DEF EchoInv, TypeOK
    <3>2. \A d \in Conns \ {c} : toServer'[d] = toServer[d] /\ toClient'[d] = toClient[d]
      BY <2>1 DEF EchoInv, TypeOK
    <3>. QED  BY <3>1, <3>2, <1>1 DEF Pending
  <2>4. Pool!Receive(w, c)
    BY <2>1, <2>2, <2>3, <1>1, <1>2 DEF Pool!Receive, Own, Pending
  <2>. QED  BY <2>4, <1>1 DEF Pool!PoolNext
<1>9. CASE ReadFails(w)
  BY <1>9, PoolStutter DEF ReadFails, Return
<1>. QED  BY <1>3, <1>4, <1>5, <1>6, <1>7, <1>8, <1>9 DEF Redial

\* Each step is a step of the pool or none.
LEMMA PoolStep ==
  ASSUME EchoInv, [Next]_vars PROVE [Pool!PoolNext]_<<Own, Pending, open>>
<1>. USE DEF calcVars, workerVars, connVars, wireVars
<1>1. ASSUME NEW w \in Workers, Worker(w) PROVE [Pool!PoolNext]_<<Own, Pending, open>>
  <2>1. CASE StartCall(w)
    BY <2>1, PoolStutter DEF StartCall
  <2>2. CASE TakeConn(w)
    BY <2>2, PoolAcquire DEF Pool!PoolNext
  <2>3. CASE PutConn(w)
    BY <2>3, PoolRelease DEF Pool!PoolNext
  <2>4. CASE Redial(w) \/ WriteRequest(w) \/ WriteFails(w) \/ ReadResponse(w) \/ ReadFails(w)
    BY <2>4, PoolUse
  <2>. QED  BY <1>1, <2>1, <2>2, <2>3, <2>4 DEF Worker
<1>2. ASSUME NEW c \in Conns, Serve(c) PROVE UNCHANGED <<Own, Pending, open>>
  <2>1. UNCHANGED Own /\ UNCHANGED open
    BY <1>2 DEF Serve, Own, Holders
  <2>2. \A d \in Conns : toServer'[d] + toClient'[d] = toServer[d] + toClient[d]
    BY <1>2 DEF Serve, EchoInv, TypeOK
  <2>. QED  BY <2>1, <2>2 DEF Pending
<1>3. ASSUME NEW c \in Conns, PeerCloses(c) PROVE Pool!Lose(c)
  <2>1. UNCHANGED Own /\ open' = [open EXCEPT ![c] = FALSE]
    BY <1>3 DEF PeerCloses, Own, Holders
  <2>2. PICK kept \in {0, toClient[c]} : toClient' = [toClient EXCEPT ![c] = kept]
    BY <1>3 DEF PeerCloses
  <2>3. /\ toServer'[c] = 0 /\ toClient'[c] = kept
        /\ \A d \in Conns \ {c} : toServer'[d] = toServer[d] /\ toClient'[d] = toClient[d]
    BY <1>3, <2>2 DEF PeerCloses, EchoInv, TypeOK
  <2>4. /\ toServer[c] \in Nat /\ toClient[c] \in Nat /\ kept \in Nat
        /\ kept <= toServer[c] + toClient[c]
    BY <2>2 DEF EchoInv, TypeOK
  <2>5. Pending' = [Pending EXCEPT ![c] = kept]
    <3>1. toServer'[c] + toClient'[c] = kept
      BY <2>3, <2>4
    <3>. QED  BY <3>1, <2>3 DEF Pending
  <2>6. kept \in 0..Pending[c]
    BY <2>4 DEF Pending
  <2>. QED  BY <2>1, <2>5, <2>6 DEF Pool!Lose, Own, Pending
<1>4. CASE PhaseEnds \/ Terminated \/ UNCHANGED vars
  BY <1>4, PoolStutter DEF PhaseEnds, Terminated, vars
<1>. QED  BY <1>1, <1>2, <1>3, <1>4 DEF Next, Pool!PoolNext

\* The channel and the Broken flag implement ConnPool: one owner at a time, and
\* requests on empty streams only.
THEOREM PoolImplemented == Spec => ImplementsPool
<1>1. Init => Pool!PoolInit
  BY DEF Init, Pool!PoolInit, Holders
<1>2. EchoInv /\ [Next]_vars => [Pool!PoolNext]_(Pool!poolVars)
  BY PoolStep DEF Pool!poolVars, Own, Pending
<1>. QED  BY <1>1, <1>2, EchoInvariant, PTL DEF Spec, ImplementsPool, Pool!PoolSpec

-----------------------------------------------------------------------------
(* Every call is counted once *)

Busy == {w \in Workers : wpc[w] # "idle"}

\* A measured call is still to be started, in a worker, or in one counter.
CallsCounted ==
  /\ phase = "warmup" => success + failed = 0
  /\ phase # "warmup" => success + failed + left + Cardinality(Busy) = Total
  /\ phase = "done" => left = 0 /\ Busy = {}

\* A worker that starts or ends a call, and the size of Busy.
LEMMA BusyMoves ==
  ASSUME NEW w \in Workers, \A v \in Workers \ {w} : wpc'[v] = wpc[v]
  PROVE  /\ Cardinality(Busy) \in Nat
         /\ wpc[w] = "idle" /\ wpc'[w] # "idle" => Cardinality(Busy)' = Cardinality(Busy) + 1
         /\ wpc[w] # "idle" /\ wpc'[w] = "idle" => Cardinality(Busy)' = Cardinality(Busy) - 1
         /\ wpc[w] # "idle" /\ wpc'[w] # "idle" => Busy' = Busy
<1>1. IsFiniteSet(Busy) /\ Cardinality(Busy) \in Nat
  BY BenchEchoAssumption, FS_Subset, FS_CardinalityType DEF Busy
<1>2. CASE wpc[w] = "idle" /\ wpc'[w] # "idle"
  <2>1. Busy' = Busy \cup {w} /\ w \notin Busy
    BY <1>2 DEF Busy
  <2>2. Cardinality(Busy \cup {w}) = Cardinality(Busy) + 1
    BY <2>1, <1>1, FS_AddElement
  <2>. QED  BY <1>1, <1>2, <2>1, <2>2
<1>3. CASE wpc[w] # "idle" /\ wpc'[w] = "idle"
  <2>1. Busy' = Busy \ {w} /\ w \in Busy
    BY <1>3 DEF Busy
  <2>2. Cardinality(Busy \ {w}) = Cardinality(Busy) - 1
    BY <2>1, <1>1, FS_RemoveElement
  <2>. QED  BY <1>1, <1>3, <2>1, <2>2
<1>4. wpc[w] # "idle" /\ wpc'[w] # "idle" => Busy' = Busy
  BY DEF Busy
<1>. QED  BY <1>1, <1>2, <1>3, <1>4

LEMMA CallsCountedInit == Init => CallsCounted
BY DEF Init, CallsCounted

\* Each step keeps the count.
LEMMA CallsCountedStep ==
  ASSUME TypeOK, Sharing, CallsCounted, [Next]_vars PROVE CallsCounted'
<1>. USE DEF calcVars, workerVars
<1>1. ASSUME UNCHANGED <<calcVars, Busy>> PROVE CallsCounted'
  BY <1>1 DEF CallsCounted
<1>2. ASSUME UNCHANGED <<calcVars, wpc>> PROVE CallsCounted'
  BY <1>2, <1>1 DEF Busy
<1>3. CASE PhaseEnds
  <2>1. Busy = {} /\ Busy' = {} /\ left = 0 /\ UNCHANGED <<success, failed>>
    BY <1>3 DEF PhaseEnds, Busy
  <2>2. Cardinality({}) = 0
    BY FS_EmptySet
  <2>3. success \in Nat /\ failed \in Nat /\ Total \in Nat
    BY ConstantTypes DEF TypeOK
  <2>4. CASE phase = "warmup" /\ phase' = "bench" /\ left' = Total
    BY <2>1, <2>2, <2>3, <2>4 DEF CallsCounted
  <2>5. CASE phase = "bench" /\ phase' = "done" /\ left' = 0
    BY <2>1, <2>2, <2>3, <2>5 DEF CallsCounted
  <2>. QED  BY <1>3, <2>4, <2>5 DEF PhaseEnds
<1>4. ASSUME NEW w \in Workers, Worker(w) PROVE CallsCounted'
  <2>1. \A v \in Workers \ {w} : wpc'[v] = wpc[v]
    BY <1>4 DEF Worker, StartCall, TakeConn, Redial, RedialCloses, RedialSucceeds,
                RedialFails, WriteRequest, WriteFails, ReadResponse, ReadFails,
                PutConn, Return, TypeOK
  <2>2. CASE StartCall(w)
    <3>1. /\ wpc[w] = "idle" /\ wpc'[w] # "idle" /\ left' = left - 1
          /\ phase # "done" /\ UNCHANGED <<phase, success, failed>>
      BY <2>2 DEF StartCall, TypeOK
    <3>2. Cardinality(Busy)' = Cardinality(Busy) + 1 /\ Cardinality(Busy) \in Nat
      BY <2>1, <3>1, BusyMoves
    <3>. QED  BY <3>1, <3>2 DEF CallsCounted, TypeOK
  <2>3. CASE PutConn(w)
    <3>1. /\ wpc[w] # "idle" /\ wpc'[w] = "idle" /\ UNCHANGED <<phase, left>>
          /\ phase = "bench" => success' + failed' = success + failed + 1
          /\ phase # "bench" => success' = success /\ failed' = failed
      BY <2>3 DEF PutConn, TypeOK
    <3>2. Cardinality(Busy)' = Cardinality(Busy) - 1 /\ Cardinality(Busy) \in Nat
      BY <2>1, <3>1, BusyMoves
    <3>3. phase # "done"
      BY <3>1 DEF CallsCounted, Busy
    <3>4. success' \in Nat /\ failed' \in Nat
      BY TypeStep DEF TypeOK
    <3>5. CASE phase = "warmup"
      BY <3>1, <3>5 DEF CallsCounted
    <3>6. CASE phase = "bench"
      <4>1. success + failed + left + Cardinality(Busy) = Total
        BY <3>6 DEF CallsCounted
      <4>2. success' + failed' + left' + Cardinality(Busy)' = Total
        <5>1. success \in Nat /\ failed \in Nat /\ left \in Nat
          BY DEF TypeOK
        <5>2. (success + failed + 1) + left + (Cardinality(Busy) - 1) = Total
          BY <3>2, <4>1, <5>1
        <5>. QED  BY <3>1, <3>2, <3>6, <5>2
      <4>. QED  BY <3>1, <3>6, <4>2 DEF CallsCounted
    <3>. QED  BY <3>3, <3>5, <3>6 DEF TypeOK
  <2>4. CASE TakeConn(w) \/ Redial(w) \/ WriteRequest(w) \/ WriteFails(w)
               \/ ReadResponse(w) \/ ReadFails(w)
    <3>1. wpc[w] # "idle" /\ wpc'[w] # "idle" /\ UNCHANGED calcVars
      BY <2>4 DEF TakeConn, Redial, RedialCloses, RedialSucceeds, RedialFails,
                  WriteRequest, WriteFails, ReadResponse, ReadFails, Return, TypeOK
    <3>. QED  BY <2>1, <3>1, <1>1, BusyMoves
  <2>. QED  BY <1>4, <2>2, <2>3, <2>4 DEF Worker
<1>5. ASSUME NEW c \in Conns, Serve(c) \/ PeerCloses(c) PROVE CallsCounted'
  BY <1>5, <1>2 DEF Serve, PeerCloses
<1>6. CASE Terminated \/ UNCHANGED vars
  BY <1>6, <1>2 DEF Terminated, vars
<1>. QED  BY <1>3, <1>4, <1>5, <1>6 DEF Next

\* A channel that holds every connection is full.
LEMMA AllInChannel ==
  ASSUME TypeOK, Sharing, \A w \in Workers : held[w] = {}
  PROVE  Len(ch) = Cardinality(Conns)
<1>. DEFINE N == 1..Len(ch)
<1>1. Len(ch) \in Nat /\ DOMAIN ch = N /\ ch \in [N -> Conns]
  BY LenProperties DEF TypeOK
<1>2. ch \in Bijection(N, Conns)
  <2>1. ch \in Injection(N, Conns)
    BY <1>1 DEF Injection, IsInjective, Sharing, Apart
  <2>2. ch \in Surjection(N, Conns)
    BY <1>1 DEF Surjection, Sharing, Placed
  <2>. QED  BY <2>1, <2>2 DEF Bijection
<1>3. ExistsBijection(N, Conns)
  BY <1>2 DEF ExistsBijection
<1>4. IsFiniteSet(N) /\ Cardinality(N) = Len(ch)
  BY <1>1, FS_Interval
<1>5. Cardinality(Conns) = Cardinality(N)
  BY <1>3, <1>4, FS_Bijection
<1>. QED  BY <1>4, <1>5

\* benchecho.go:96, 244-248: when Benchmark has returned, each of its calls has
\* been counted as a success or as a failure, once, and every connection is
\* back in the channel for the next benchmark.
THEOREM CallsAllCounted == Spec => []AllCounted
<1>1. EchoInv /\ CallsCounted => AllCounted
  <2>. SUFFICES ASSUME EchoInv, CallsCounted, phase = "done"
                PROVE  success + failed = Total /\ Len(ch) = Cardinality(Conns)
    BY DEF AllCounted
  <2>1. left = 0 /\ Busy = {} /\ Cardinality(Busy) = 0
    BY FS_EmptySet DEF CallsCounted
  <2>2. success + failed = Total
    BY <2>1 DEF CallsCounted, EchoInv, TypeOK
  <2>3. \A w \in Workers : held[w] = {}
    BY <2>1 DEF Busy, EchoInv, InCall
  <2>. QED  BY <2>2, <2>3, AllInChannel DEF EchoInv, Sharing
<1>2. EchoInv /\ CallsCounted /\ [Next]_vars => CallsCounted'
  BY CallsCountedStep DEF EchoInv, Sharing
<1>. QED  BY <1>1, <1>2, CallsCountedInit, EchoInvariant, PTL DEF Spec

=============================================================================
