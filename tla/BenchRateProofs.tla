-------------------------- MODULE BenchRateProofs --------------------------
(***************************************************************************)
(* Theorems about BenchRate, for every number of connections, team count,  *)
(* batch size and kind of fault: its types, the bound on the requests a    *)
(* connection has unanswered, that a returned run's report is frozen, and  *)
(* how far what it reports can be from what was sent and answered.         *)
(***************************************************************************)
EXTENDS BenchRate, FiniteSetTheorems, TLAPS

-----------------------------------------------------------------------------
(* The inductive invariant behind the bound on unanswered requests *)

\* Before the goroutines start, nothing has moved.
Quiet ==
  pc = "prepare" =>
    /\ \A t \in Teams : wpc[t] = "idle"
    /\ \A p \in Pos : rpc[p] = "idle" /\ Unanswered(p) = 0

\* A writer inside doOnce is at a connection of its own team.
OwnConn ==
  \A t \in Teams : wpc[t] \in {"check", "write"} => at[t] \in Team(t)

\* What Check saw still holds while the batch is written: only this writer
\* adds to sendCnt, and recvCnt grows.
CheckHolds ==
  \A t \in Teams : wpc[t] = "write" =>
    sendCnt[at[t]] - recvCnt[at[t]] <= maxBatchesInFlight * Batch - 1

\* On a connection that still takes requests, each unanswered or counted
\* response belongs to a request that was counted or is being written.
Flow ==
  \A p \in Pos : open[p] =>
    Unanswered(p) + recvCnt[p] <= sendCnt[p] + written[p]

Bounded == \A p \in Pos : Unanswered(p) <= (maxBatchesInFlight + 1) * Batch - 1

\* Inductive together with TypeOK, which TypeCorrect gives.
FlowInv == Quiet /\ OwnConn /\ CheckHolds /\ Flow /\ Bounded

-----------------------------------------------------------------------------
(* Types *)

\* The constants are numbers.
LEMMA ConstantTypes ==
  /\ NumConns \in Nat /\ NumConns > 0 /\ Concurrency \in Nat
  /\ Batch \in Nat /\ Batch > 0 /\ MaxTicks \in Nat
BY BenchRateAssumption

\* The connections that take part are among those of br.Conns.
LEMMA UsedInPos == MainTypes => Used \subseteq Pos
BY ConstantTypes DEF MainTypes, Used, Pos

\* Where doOnce goes next is the start of the loop or a position of the team.
LEMMA NextOfTeamTypes ==
  ASSUME MainTypes, WriterTypes, NEW t \in Teams, NEW p, NextOfTeam(t, p)
  PROVE  /\ wpc' \in [Teams -> {"idle", "select", "check", "write", "done"}]
         /\ at' \in [Teams -> {0} \cup Pos]
         /\ \A u \in Teams : wpc'[u] \in {"check", "write"} => at'[u] \in Pos
BY UsedInPos DEF WriterTypes, NextOfTeam, Team

\* A step that leaves a group of variables alone leaves their types alone.
LEMMA TypesUnchanged ==
  /\ MainTypes /\ UNCHANGED mainVars => MainTypes'
  /\ WriterTypes /\ UNCHANGED writerVars => WriterTypes'
  /\ ReaderTypes /\ UNCHANGED readerVars => ReaderTypes'
  /\ WireTypes /\ UNCHANGED wireVars => WireTypes'
  /\ ConnTypes /\ UNCHANGED connVars => ConnTypes'
BY DEF MainTypes, WriterTypes, ReaderTypes, WireTypes, ConnTypes,
       mainVars, writerVars, readerVars, wireVars, connVars

\* Each step of Run keeps the types.
LEMMA MainTypesStep == ASSUME TypeOK, Main \/ DurationUp PROVE TypeOK'
<1>. USE ConstantTypes, TypesUnchanged DEF TypeOK, Goto
<1>1. CASE Include
  <2>1. MainTypes'
    BY <1>1 DEF Include, MainTypes, Pos
  <2>2. ConnTypes'
    BY <1>1 DEF Include, ConnTypes
  <2>. QED  BY <1>1, <2>1, <2>2 DEF Include
<1>2. CASE LeaveOut
  <2>1. MainTypes'
    BY <1>2 DEF LeaveOut, MainTypes
  <2>. QED  BY <1>2, <2>1 DEF LeaveOut
<1>3. CASE Start
  <2>1. MainTypes' /\ WriterTypes' /\ ReaderTypes'
    BY <1>3 DEF Start, MainTypes, WriterTypes, ReaderTypes
  <2>. QED  BY <1>3, <2>1 DEF Start
<1>4. CASE DurationUp
  BY <1>4 DEF DurationUp, MainTypes
<1>5. CASE WaitWriters
  BY <1>5 DEF WaitWriters, MainTypes
<1>6. CASE GraceCheck \/ GracePoll \/ GraceExpires
  BY <1>6 DEF GraceCheck, GracePoll, GraceExpires, MainTypes
<1>7. CASE LoadTimes \/ LoadBytes
  BY <1>7 DEF LoadTimes, LoadBytes, MainTypes, ReaderTypes
<1>8. CASE SetDeadlines
  BY <1>8 DEF SetDeadlines, MainTypes, ConnTypes
<1>9. CASE WaitReaders
  BY <1>9 DEF WaitReaders, MainTypes, ReaderTypes
<1>. QED  BY <1>1, <1>2, <1>3, <1>4, <1>5, <1>6, <1>7, <1>8, <1>9 DEF Main

\* Each step of a writer keeps the types.
LEMMA WriterTypesStep ==
  ASSUME TypeOK, NEW t \in Teams, Writer(t) PROVE TypeOK'
<1>. USE ConstantTypes, TypesUnchanged DEF TypeOK
<1>1. CASE TakeTick(t)
  BY <1>1, NextOfTeamTypes DEF TakeTick, WriterTypes
<1>2. CASE StopWriter(t)
  BY <1>2 DEF StopWriter, WriterTypes
<1>3. CASE Check(t)
  BY <1>3, NextOfTeamTypes DEF Check, WriterTypes
<1>4. CASE WriteRequest(t)
  <2>1. WriterTypes'
    BY <1>4 DEF WriteRequest, WriterTypes
  <2>2. WireTypes'
    BY <1>4 DEF WriteRequest, WireTypes, WriterTypes
  <2>. QED  BY <1>4, <2>1, <2>2 DEF WriteRequest
<1>5. CASE CountBatch(t)
  BY <1>5, NextOfTeamTypes DEF CountBatch, WriterTypes
<1>6. CASE WriteFails(t)
  BY <1>6, NextOfTeamTypes DEF WriteFails, WriterTypes
<1>. QED  BY <1>1, <1>2, <1>3, <1>4, <1>5, <1>6 DEF Writer

\* Each step of a reader, of the server or of the network keeps the types.
LEMMA ReaderTypesStep ==
  ASSUME TypeOK, NEW p \in Pos, Reader(p) \/ Serve(p) \/ PeerCloses(p)
  PROVE  TypeOK'
<1>. USE TypesUnchanged DEF TypeOK
<1>1. CASE ReadResponse(p)
  BY <1>1 DEF ReadResponse, ReaderTypes, WireTypes
<1>2. CASE ReadFails(p)
  BY <1>2 DEF ReadFails, ReaderEnds, ReaderTypes, ConnTypes
<1>3. CASE MalformedResponse(p)
  <2>1. ReaderTypes' /\ ConnTypes'
    BY <1>3 DEF MalformedResponse, ReaderEnds, ReaderTypes, ConnTypes
  <2>2. WireTypes'
    BY <1>3 DEF MalformedResponse, WireTypes
  <2>. QED  BY <1>3, <2>1, <2>2 DEF MalformedResponse
<1>4. CASE CountConn(p)
  BY <1>4 DEF CountConn, ReaderTypes
<1>5. CASE CountAnswered(p)
  BY <1>5 DEF CountAnswered, ReaderTypes
<1>6. CASE CountTimes(p) \/ CountBytes(p)
  BY <1>6 DEF CountTimes, CountBytes, ReaderTypes
<1>7. CASE Serve(p)
  BY <1>7 DEF Serve, WireTypes
<1>8. CASE PeerCloses(p)
  BY <1>8 DEF PeerCloses, WireTypes
<1>. QED  BY <1>1, <1>2, <1>3, <1>4, <1>5, <1>6, <1>7, <1>8 DEF Reader

\* Every state of the specification is well typed.
THEOREM TypeCorrect == Spec => []TypeOK
<1>1. Init => TypeOK
  <2>. SUFFICES ASSUME Init PROVE TypeOK
    OBVIOUS
  <2>. USE ConstantTypes DEF Init
  <2>1. MainTypes
    <3>1. conns \in Seq(Pos) /\ Len(conns) = 0
      OBVIOUS
    <3>2. scan \in 1..(NumConns + 1) /\ 0 < scan
      OBVIOUS
    <3>. QED  BY <3>1, <3>2 DEF MainTypes
  <2>2. WriterTypes
    BY DEF WriterTypes
  <2>3. ReaderTypes /\ WireTypes /\ ConnTypes
    BY DEF ReaderTypes, WireTypes, ConnTypes
  <2>. QED  BY <2>1, <2>2, <2>3 DEF TypeOK
<1>2. TypeOK /\ [Next]_vars => TypeOK'
  <2>. SUFFICES ASSUME TypeOK, [Next]_vars PROVE TypeOK'
    OBVIOUS
  <2>1. CASE UNCHANGED vars
    BY <2>1, TypesUnchanged DEF vars, TypeOK
  <2>. QED
    BY <2>1, MainTypesStep, WriterTypesStep, ReaderTypesStep
       DEF Next, Terminated
<1>. QED  BY <1>1, <1>2, PTL DEF Spec

-----------------------------------------------------------------------------
(* The bound on the requests a connection has unanswered *)

\* A writer that goes on is in the loop, at a connection of its team or back
\* at the select; the other writers stay where they are.
LEMMA NextOfTeamMoves ==
  ASSUME TypeOK, NEW t \in Teams, NEW p, NextOfTeam(t, p)
  PROVE  /\ wpc'[t] \in {"select", "check"}
         /\ wpc'[t] = "check" => at'[t] \in Team(t)
         /\ \A u \in Teams \ {t} : wpc'[u] = wpc[u] /\ at'[u] = at[u]
BY DEF TypeOK, WriterTypes, NextOfTeam

\* No two writers are at the same connection.
LEMMA OneWriter ==
  ASSUME OwnConn, NEW t \in Teams, NEW u \in Teams,
         wpc[t] \in {"check", "write"}, wpc[u] \in {"check", "write"},
         at[t] = at[u]
  PROVE  t = u
BY DEF OwnConn, Team

\* Initially nothing has been sent.
LEMMA FlowInvInit == Init => FlowInv
<1>. SUFFICES ASSUME Init PROVE FlowInv
  OBVIOUS
<1>1. \A p \in Pos : Unanswered(p) = 0
  BY DEF Init, Unanswered, InHand
<1>2. Quiet
  BY <1>1 DEF Init, Quiet
<1>3. OwnConn /\ CheckHolds
  BY DEF Init, OwnConn, CheckHolds
<1>4. Flow
  BY <1>1 DEF Init, Flow
<1>5. Bounded
  BY <1>1, ConstantTypes DEF Bounded, maxBatchesInFlight
<1>. QED  BY <1>2, <1>3, <1>4, <1>5 DEF FlowInv

\* A step that moves no request, no counter and no writer keeps it.
LEMMA FlowInvUnmoved ==
  ASSUME FlowInv, UNCHANGED <<conns, writerVars, wireVars, rpc, recvCnt>>,
         pc' = "prepare" => pc = "prepare"
  PROVE  FlowInv'
<1>. USE DEF writerVars, wireVars
<1>1. \A p : Unanswered(p)' = Unanswered(p)
  BY DEF Unanswered, InHand
<1>2. \A t : Team(t)' = Team(t)
  BY DEF Team, Used
<1>3. Quiet'
  BY <1>1 DEF FlowInv, Quiet
<1>4. OwnConn' /\ CheckHolds'
  BY <1>2 DEF FlowInv, OwnConn, CheckHolds
<1>5. Flow' /\ Bounded'
  BY <1>1 DEF FlowInv, Flow, Bounded
<1>. QED  BY <1>3, <1>4, <1>5 DEF FlowInv

\* The steps of Run: before Start there is no writer to be disturbed.
LEMMA FlowInvMain ==
  ASSUME TypeOK, FlowInv, Main \/ DurationUp PROVE FlowInv'
<1>. USE DEF Goto
<1>1. CASE Include
  <2>1. UNCHANGED <<pc, writerVars, wireVars, rpc, recvCnt>>
    BY <1>1 DEF Include, readerVars
  <2>2. \A p : Unanswered(p)' = Unanswered(p)
    BY <2>1 DEF Unanswered, InHand, wireVars
  <2>3. \A t \in Teams : wpc'[t] = "idle"
    BY <1>1, <2>1 DEF Include, FlowInv, Quiet, writerVars
  <2>4. Quiet' /\ OwnConn' /\ CheckHolds'
    BY <2>1, <2>2, <2>3 DEF FlowInv, Quiet, OwnConn, CheckHolds
  <2>5. Flow' /\ Bounded'
    BY <2>1, <2>2 DEF FlowInv, Flow, Bounded, writerVars, wireVars
  <2>. QED  BY <2>4, <2>5 DEF FlowInv
<1>2. CASE Start
  <2>1. pc' # "prepare" /\ UNCHANGED <<conns, wireVars, recvCnt, sendCnt, written>>
    BY <1>2 DEF Start
  <2>2. \A t \in Teams : wpc'[t] = "select"
    BY <1>2 DEF Start
  <2>3. \A p \in Pos : Unanswered(p)' = Unanswered(p)
    <3>1. \A p \in Pos : rpc[p] = "idle" /\ rpc'[p] # "conn"
      BY <1>2 DEF Start, FlowInv, Quiet
    <3>. QED  BY <2>1, <3>1 DEF Unanswered, InHand, wireVars
  <2>4. Quiet' /\ OwnConn' /\ CheckHolds'
    BY <2>1, <2>2 DEF Quiet, OwnConn, CheckHolds
  <2>5. Flow' /\ Bounded'
    BY <2>1, <2>3 DEF FlowInv, Flow, Bounded, wireVars
  <2>. QED  BY <2>4, <2>5 DEF FlowInv
<1>3. CASE LeaveOut \/ DurationUp
  BY <1>3, FlowInvUnmoved DEF LeaveOut, DurationUp, readerVars
<1>4. CASE WaitWriters \/ GraceCheck \/ GracePoll \/ GraceExpires
  BY <1>4, FlowInvUnmoved
     DEF WaitWriters, GraceCheck, GracePoll, GraceExpires, readerVars
<1>5. CASE LoadTimes \/ LoadBytes \/ SetDeadlines \/ WaitReaders
  BY <1>5, FlowInvUnmoved
     DEF LoadTimes, LoadBytes, SetDeadlines, WaitReaders, readerVars
<1>. QED  BY <1>1, <1>2, <1>3, <1>4, <1>5 DEF Main

\* The steps of a writer.  Quiet holds because a writer that moves has left
\* "idle", so Run is past "prepare".
LEMMA FlowInvWriter ==
  ASSUME TypeOK, FlowInv, NEW t \in Teams, Writer(t) PROVE FlowInv'
<1>. DEFINE p == at[t]
<1>1. pc # "prepare" /\ UNCHANGED <<pc, conns, rpc, recvCnt, toClient, open>>
  <2>1. wpc[t] # "idle"
    BY DEF Writer, TakeTick, StopWriter, Check, WriteRequest, CountBatch, WriteFails
  <2>2. UNCHANGED <<pc, conns, rpc, recvCnt, toClient, open>>
    BY DEF Writer, TakeTick, StopWriter, Check, WriteRequest, CountBatch,
           WriteFails, mainVars, readerVars, wireVars
  <2>. QED  BY <2>1, <2>2 DEF FlowInv, Quiet
<1>2. Quiet' /\ (\A u \in Teams : Team(u)' = Team(u))
  BY <1>1 DEF Quiet, Team, Used
<1>3. CASE TakeTick(t)
  <2>1. NextOfTeam(t, 0) /\ UNCHANGED <<sendCnt, written, wireVars>>
    BY <1>3 DEF TakeTick
  <2>2. OwnConn' /\ CheckHolds'
    BY <1>1, <1>2, <2>1, NextOfTeamMoves DEF FlowInv, OwnConn, CheckHolds
  <2>3. Flow' /\ Bounded'
    BY <1>1, <2>1 DEF FlowInv, Flow, Bounded, Unanswered, InHand, wireVars
  <2>. QED  BY <1>2, <2>2, <2>3 DEF FlowInv
<1>4. CASE StopWriter(t)
  <2>1. UNCHANGED <<at, sendCnt, written, wireVars>>
    BY <1>4 DEF StopWriter
  <2>2. wpc' = [wpc EXCEPT ![t] = "done"]
    BY <1>4 DEF StopWriter
  <2>3. OwnConn' /\ CheckHolds'
    BY <1>1, <1>2, <2>1, <2>2 DEF FlowInv, OwnConn, CheckHolds, TypeOK, WriterTypes
  <2>4. Flow' /\ Bounded'
    BY <1>1, <2>1 DEF FlowInv, Flow, Bounded, Unanswered, InHand, wireVars
  <2>. QED  BY <1>2, <2>3, <2>4 DEF FlowInv
<1>5. CASE Check(t)
  <2>1. wpc[t] = "check" /\ UNCHANGED <<sendCnt, written, wireVars>>
    BY <1>5 DEF Check
  <2>2. OwnConn' /\ CheckHolds'
    <3>1. CASE InFlightLimitReached(p) /\ NextOfTeam(t, p)
      BY <1>1, <1>2, <2>1, <3>1, NextOfTeamMoves DEF FlowInv, OwnConn, CheckHolds
    <3>2. CASE /\ ~InFlightLimitReached(p)
               /\ wpc' = [wpc EXCEPT ![t] = "write"] /\ UNCHANGED at
      <4>1. sendCnt[p] - recvCnt[p] <= maxBatchesInFlight * Batch - 1
        BY <2>1, <3>2, ConstantTypes
           DEF InFlightLimitReached, maxBatchesInFlight, TypeOK, WriterTypes,
               ReaderTypes
      <4>. QED
        BY <1>1, <1>2, <2>1, <3>2, <4>1
           DEF FlowInv, OwnConn, CheckHolds, TypeOK, WriterTypes
    <3>. QED  BY <1>5, <3>1, <3>2 DEF Check
  <2>3. Flow' /\ Bounded'
    BY <1>1, <2>1 DEF FlowInv, Flow, Bounded, Unanswered, InHand, wireVars
  <2>. QED  BY <1>2, <2>2, <2>3 DEF FlowInv
<1>6. CASE WriteRequest(t)
  <2>1. /\ wpc[t] = "write" /\ p \in Pos /\ written[p] < Batch
        /\ written' = [written EXCEPT ![p] = @ + 1]
        /\ \/ open[p] /\ toServer' = [toServer EXCEPT ![p] = @ + 1]
           \/ ~open[p] /\ UNCHANGED toServer
        /\ UNCHANGED <<wpc, at, sendCnt>>
    BY <1>6 DEF WriteRequest, TypeOK, WriterTypes
  <2>2. OwnConn' /\ CheckHolds'
    BY <1>1, <1>2, <2>1 DEF FlowInv, OwnConn, CheckHolds
  <2>3. \A q \in Pos \ {p} : Unanswered(q)' = Unanswered(q) /\ written'[q] = written[q]
    BY <1>1, <2>1 DEF Unanswered, InHand, TypeOK, WireTypes, WriterTypes
  <2>4. CASE ~open[p]
    <3>1. Unanswered(p)' = Unanswered(p)
      BY <1>1, <2>1, <2>4 DEF Unanswered, InHand
    <3>2. Flow' /\ Bounded'
      BY <1>1, <2>1, <2>3, <2>4, <3>1 DEF FlowInv, Flow, Bounded
    <3>. QED  BY <1>2, <2>2, <3>2 DEF FlowInv
  <2>5. CASE open[p]
    <3>1. Unanswered(p)' = Unanswered(p) + 1 /\ written'[p] = written[p] + 1
      BY <1>1, <2>1, <2>5 DEF Unanswered, InHand, TypeOK, WireTypes, WriterTypes
    <3>2. Unanswered(p) + recvCnt[p] <= sendCnt[p] + written[p]
      BY <2>1, <2>5 DEF FlowInv, Flow
    <3>3. sendCnt[p] - recvCnt[p] <= maxBatchesInFlight * Batch - 1
      BY <2>1 DEF FlowInv, CheckHolds
    <3>4. /\ sendCnt[p] \in Nat /\ recvCnt[p] \in Nat /\ written[p] \in Nat
          /\ Unanswered(p) \in Nat
      BY <2>1, ConstantTypes
         DEF TypeOK, WriterTypes, ReaderTypes, WireTypes, Unanswered, InHand
    <3>5. Unanswered(p)' <= (maxBatchesInFlight + 1) * Batch - 1
      BY <2>1, <3>1, <3>2, <3>3, <3>4, ConstantTypes DEF maxBatchesInFlight
    <3>6. Unanswered(p)' + recvCnt'[p] <= sendCnt'[p] + written'[p]
      BY <1>1, <2>1, <3>1, <3>2, <3>4
    <3>7. Flow'
      BY <1>1, <2>1, <2>3, <3>6 DEF FlowInv, Flow
    <3>8. Bounded'
      BY <2>1, <2>3, <3>5 DEF FlowInv, Bounded
    <3>. QED  BY <1>2, <2>2, <3>7, <3>8 DEF FlowInv
  <2>. QED  BY <2>4, <2>5
<1>7. CASE CountBatch(t)
  <2>1. /\ wpc[t] = "write" /\ p \in Pos /\ written[p] = Batch
        /\ written' = [written EXCEPT ![p] = 0]
        /\ sendCnt' = [sendCnt EXCEPT ![p] = @ + Batch]
        /\ NextOfTeam(t, p) /\ UNCHANGED wireVars
    BY <1>7 DEF CountBatch, TypeOK, WriterTypes
  <2>2. OwnConn'
    BY <1>1, <1>2, <2>1, NextOfTeamMoves DEF FlowInv, OwnConn
  <2>3. CheckHolds'
    <3>. SUFFICES ASSUME NEW u \in Teams, wpc'[u] = "write"
                  PROVE  sendCnt'[at'[u]] - recvCnt'[at'[u]]
                           <= maxBatchesInFlight * Batch - 1
      BY DEF CheckHolds
    <3>1. u # t /\ wpc[u] = "write" /\ at'[u] = at[u]
      BY <2>1, NextOfTeamMoves
    <3>2. at[u] # p
      BY <2>1, <3>1, OneWriter DEF FlowInv
    <3>3. sendCnt'[at[u]] = sendCnt[at[u]]
      BY <2>1, <3>1, <3>2 DEF TypeOK, WriterTypes
    <3>. QED  BY <1>1, <3>1, <3>3 DEF FlowInv, CheckHolds
  <2>4. Flow'
    BY <1>1, <2>1, ConstantTypes
       DEF FlowInv, Flow, Unanswered, InHand, TypeOK, WireTypes, WriterTypes,
           ReaderTypes, wireVars
  <2>5. Bounded'
    BY <1>1, <2>1 DEF FlowInv, Bounded, Unanswered, InHand, wireVars
  <2>. QED  BY <1>2, <2>2, <2>3, <2>4, <2>5 DEF FlowInv
<1>8. CASE WriteFails(t)
  <2>1. /\ wpc[t] = "write" /\ p \in Pos /\ ~open[p]
        /\ written' = [written EXCEPT ![p] = 0]
        /\ NextOfTeam(t, p) /\ UNCHANGED <<sendCnt, wireVars>>
    BY <1>8 DEF WriteFails, TypeOK, WriterTypes
  <2>2. OwnConn' /\ CheckHolds'
    BY <1>1, <1>2, <2>1, NextOfTeamMoves DEF FlowInv, OwnConn, CheckHolds
  <2>3. Flow' /\ Bounded'
    BY <1>1, <2>1
       DEF FlowInv, Flow, Bounded, Unanswered, InHand, TypeOK, WriterTypes, wireVars
  <2>. QED  BY <1>2, <2>2, <2>3 DEF FlowInv
<1>. QED
  BY <1>3, <1>4, <1>5, <1>6, <1>7, <1>8 DEF Writer

\* The steps of a reader, the server and the network.
LEMMA FlowInvReader ==
  ASSUME TypeOK, FlowInv, NEW p \in Pos, Reader(p) \/ Serve(p) \/ PeerCloses(p)
  PROVE  FlowInv'
<1>1. /\ UNCHANGED <<pc, conns, wpc, at, sendCnt, written>>
      /\ pc # "prepare" \/ (rpc[p] = "idle" /\ toServer[p] = 0 /\ toClient[p] = 0)
  <2>1. UNCHANGED <<pc, conns, wpc, at, sendCnt, written>>
    BY DEF Reader, ReadResponse, ReadFails, MalformedResponse, CountConn,
           CountAnswered, CountTimes, CountBytes, Serve, PeerCloses,
           mainVars, writerVars
  <2>2. pc = "prepare" => Unanswered(p) = 0 /\ rpc[p] = "idle"
    BY DEF FlowInv, Quiet
  <2>. QED  BY <2>1, <2>2 DEF Unanswered, InHand, TypeOK, WireTypes
<1>2. \A t \in Teams : Team(t)' = Team(t)
  BY <1>1 DEF Team, Used
<1>3. OwnConn'
  BY <1>1, <1>2 DEF FlowInv, OwnConn
\* What every step does to the connection's flow, and to no other's.
<1>4. /\ \A q \in Pos \ {p} : /\ UNCHANGED <<rpc[q], recvCnt[q], open[q]>>
                               /\ Unanswered(q)' = Unanswered(q)
      /\ recvCnt'[p] >= recvCnt[p]
      /\ Unanswered(p)' <= Unanswered(p)
      /\ open'[p] =>
           open[p] /\ Unanswered(p)' + recvCnt'[p] <= Unanswered(p) + recvCnt[p]
      /\ pc = "prepare" => rpc'[p] = "idle" /\ Unanswered(p)' = 0
  <2>. USE DEF TypeOK, ReaderTypes, WireTypes, Unanswered, InHand,
               readerVars, wireVars
  <2>1. CASE ReadResponse(p)
    BY <1>1, <2>1 DEF ReadResponse
  <2>2. CASE ReadFails(p)
    BY <1>1, <2>2 DEF ReadFails, ReaderEnds
  <2>3. CASE MalformedResponse(p)
    BY <1>1, <2>3 DEF MalformedResponse, ReaderEnds
  <2>4. CASE CountConn(p)
    BY <1>1, <2>4 DEF CountConn
  <2>5. CASE CountAnswered(p)
    BY <1>1, <2>5 DEF CountAnswered
  <2>6. CASE CountTimes(p) \/ CountBytes(p)
    BY <1>1, <2>6 DEF CountTimes, CountBytes
  <2>7. CASE Serve(p)
    BY <1>1, <2>7 DEF Serve
  <2>8. CASE PeerCloses(p)
    BY <1>1, <2>8 DEF PeerCloses
  <2>. QED
    BY <2>1, <2>2, <2>3, <2>4, <2>5, <2>6, <2>7, <2>8 DEF Reader
<1>5. \A q \in Pos : /\ Unanswered(q) \in Nat /\ Unanswered(q)' \in Nat
                     /\ recvCnt[q] \in Nat /\ recvCnt'[q] \in Nat
                     /\ sendCnt[q] \in Nat /\ written[q] \in Nat
  <2>1. TypeOK'
    BY ReaderTypesStep
  <2>. QED
    BY <2>1, ConstantTypes
       DEF TypeOK, ReaderTypes, WireTypes, WriterTypes, Unanswered, InHand
<1>6. Quiet'
  BY <1>1, <1>4 DEF FlowInv, Quiet
<1>7. CheckHolds'
  <2>. SUFFICES ASSUME NEW t \in Teams, wpc[t] = "write"
                PROVE  sendCnt[at[t]] - recvCnt'[at[t]]
                         <= maxBatchesInFlight * Batch - 1
    BY <1>1 DEF CheckHolds
  <2>1. at[t] \in Pos
    BY DEF TypeOK, WriterTypes
  <2>2. sendCnt[at[t]] - recvCnt[at[t]] <= maxBatchesInFlight * Batch - 1
    BY DEF FlowInv, CheckHolds
  <2>3. recvCnt'[at[t]] >= recvCnt[at[t]]
    BY <1>4, <1>5, <2>1
  <2>. QED
    BY <1>5, <2>1, <2>2, <2>3, ConstantTypes DEF maxBatchesInFlight
<1>8. Flow'
  <2>. SUFFICES ASSUME NEW q \in Pos, open'[q]
                PROVE  Unanswered(q)' + recvCnt'[q] <= sendCnt[q] + written[q]
    BY <1>1 DEF Flow
  <2>1. open[q] /\ Unanswered(q)' + recvCnt'[q] <= Unanswered(q) + recvCnt[q]
    BY <1>4, <1>5
  <2>2. Unanswered(q) + recvCnt[q] <= sendCnt[q] + written[q]
    BY <2>1 DEF FlowInv, Flow
  <2>. QED  BY <1>5, <2>1, <2>2
<1>9. Bounded'
  <2>. SUFFICES ASSUME NEW q \in Pos
                PROVE  Unanswered(q)' <= (maxBatchesInFlight + 1) * Batch - 1
    BY DEF Bounded
  <2>1. Unanswered(q)' <= Unanswered(q)
    BY <1>4, <1>5
  <2>2. Unanswered(q) <= (maxBatchesInFlight + 1) * Batch - 1
    BY DEF FlowInv, Bounded
  <2>. QED
    BY <1>5, <2>1, <2>2, ConstantTypes DEF maxBatchesInFlight
<1>. QED  BY <1>3, <1>6, <1>7, <1>8, <1>9 DEF FlowInv

\* FlowInv holds in every state.
LEMMA FlowInvHolds == Spec => []FlowInv
<1>1. TypeOK /\ FlowInv /\ [Next]_vars => FlowInv'
  <2>. SUFFICES ASSUME TypeOK, FlowInv, [Next]_vars PROVE FlowInv'
    OBVIOUS
  <2>1. CASE UNCHANGED vars
    BY <2>1, FlowInvUnmoved DEF vars, mainVars, readerVars
  <2>. QED
    BY <2>1, FlowInvMain, FlowInvWriter, FlowInvReader DEF Next, Terminated
<1>. QED  BY <1>1, FlowInvInit, TypeCorrect, PTL DEF Spec

\* README.md:87, as far as the code keeps it: a connection never has more
\* than five batches less one request unanswered, for any batch size, any
\* number of connections and teams, and any faults of the server.
THEOREM InFlightBounded == Spec => []InFlightBound
<1>1. TypeOK /\ FlowInv => InFlightBound
  BY UsedInPos DEF FlowInv, Bounded, InFlightBound, TypeOK
<1>. QED  BY <1>1, FlowInvHolds, TypeCorrect, PTL

-----------------------------------------------------------------------------
(* The report of a returned run is frozen *)

\* Past the wait for them no writer is left, past readers.Wait no reader is,
\* and connections that were left out never had one.
WritersGone ==
  pc \notin {"prepare", "writers"} => \A t \in Teams : wpc[t] = "done"
ReadersGone ==
  pc = "done" => \A p \in Pos : rpc[p] \in {"idle", "done"}
NoReader ==
  \A p \in Pos : pc = "prepare" \/ p \notin Used => rpc[p] = "idle"

EndInv == WritersGone /\ ReadersGone /\ NoReader

LEMMA EndInvInductive ==
  ASSUME TypeOK, EndInv, [Next]_vars PROVE EndInv'
<1>. USE DEF EndInv, WritersGone, ReadersGone, NoReader
<1>1. CASE UNCHANGED vars
  BY <1>1 DEF vars, mainVars, writerVars, readerVars, Used
<1>2. CASE Include \/ LeaveOut
  BY <1>2 DEF Include, LeaveOut, writerVars, readerVars
<1>3. CASE Start
  BY <1>3 DEF Start, Used
<1>4. CASE DurationUp
  BY <1>4 DEF DurationUp, writerVars, readerVars, Used
<1>5. CASE WaitWriters \/ GraceCheck \/ GracePoll \/ GraceExpires
  BY <1>5 DEF WaitWriters, GraceCheck, GracePoll, GraceExpires, Goto,
              writerVars, readerVars, Used
<1>6. CASE LoadTimes \/ LoadBytes \/ SetDeadlines
  BY <1>6 DEF LoadTimes, LoadBytes, SetDeadlines, Goto, writerVars,
              readerVars, Used
<1>7. CASE WaitReaders
  BY <1>7 DEF WaitReaders, ReadersEnded, Goto, writerVars, Used
<1>8. ASSUME NEW t \in Teams, Writer(t) PROVE EndInv'
  <2>1. wpc[t] # "done" /\ UNCHANGED <<pc, conns, rpc>>
    BY <1>8 DEF Writer, TakeTick, StopWriter, Check, WriteRequest, CountBatch,
                WriteFails, mainVars, readerVars
  <2>. QED  BY <2>1 DEF Used
<1>9. ASSUME NEW p \in Pos, Reader(p) \/ Serve(p) \/ PeerCloses(p)
      PROVE  EndInv'
  <2>1. UNCHANGED <<pc, conns, wpc>>
    BY <1>9 DEF Reader, ReadResponse, ReadFails, MalformedResponse, CountConn,
                CountAnswered, CountTimes, CountBytes, Serve, PeerCloses,
                mainVars, writerVars
  <2>2. \/ UNCHANGED rpc
        \/ /\ rpc[p] \notin {"idle", "done"}
           /\ \A q \in Pos \ {p} : rpc'[q] = rpc[q]
    BY <1>9 DEF Reader, ReadResponse, ReadFails, MalformedResponse, ReaderEnds,
                CountConn, CountAnswered, CountTimes, CountBytes, Serve,
                PeerCloses, readerVars, TypeOK, ReaderTypes
  <2>. QED  BY <2>1, <2>2 DEF Used
<1>. QED
  BY <1>1, <1>2, <1>3, <1>4, <1>5, <1>6, <1>7, <1>8, <1>9
     DEF Next, Main, Terminated

\* EndInv holds in every state.
LEMMA EndInvHolds == Spec => []EndInv
<1>1. Init => EndInv
  BY DEF Init, EndInv, WritersGone, ReadersGone, NoReader
<1>2. TypeOK /\ EndInv /\ [Next]_vars => EndInv'
  BY EndInvInductive
<1>. QED  BY <1>1, <1>2, TypeCorrect, PTL DEF Spec

\* benchrate.go:168-173: once Run has returned, no goroutine it started can
\* change what Report reports.
THEOREM ReportIsFrozen == Spec => ReportFrozen
<1>1. TypeOK /\ EndInv /\ [Next]_vars =>
        [pc = "done" => UNCHANGED <<recvTimes, recvBytes, sendTimes>>]_vars
  <2>. SUFFICES ASSUME EndInv, Next, pc = "done"
                PROVE  UNCHANGED <<recvTimes, recvBytes, sendTimes>>
    OBVIOUS
  <2>1. CASE Main \/ DurationUp \/ Terminated
    BY <2>1 DEF Main, Include, LeaveOut, Start, WaitWriters, GraceCheck,
                GracePoll, GraceExpires, LoadTimes, LoadBytes, SetDeadlines,
                WaitReaders, DurationUp, Goto, Terminated, vars, writerVars,
                readerVars
  <2>2. ASSUME NEW t \in Teams, Writer(t)
        PROVE  UNCHANGED <<recvTimes, recvBytes, sendTimes>>
    <3>1. wpc[t] = "done"
      BY DEF EndInv, WritersGone
    <3>. QED
      BY <2>2, <3>1 DEF Writer, TakeTick, StopWriter, Check, WriteRequest,
                        CountBatch, WriteFails
  <2>3. ASSUME NEW p \in Pos, Reader(p) \/ Serve(p) \/ PeerCloses(p)
        PROVE  UNCHANGED <<recvTimes, recvBytes, sendTimes>>
    <3>1. rpc[p] \in {"idle", "done"}
      BY DEF EndInv, ReadersGone
    <3>. QED
      BY <2>3, <3>1 DEF Reader, ReadResponse, ReadFails, MalformedResponse,
                        CountConn, CountAnswered, CountTimes, CountBytes,
                        Serve, PeerCloses, readerVars, writerVars
  <2>. QED  BY <2>1, <2>2, <2>3 DEF Next
<1>. QED  BY <1>1, EndInvHolds, TypeCorrect, PTL DEF Spec, ReportFrozen

-----------------------------------------------------------------------------
(* How far the report can be from what was sent *)

\* The counters of all connections together, as sets, whose sizes are their
\* sums: <<p, 0>>, <<p, 1>>, ... are what the counter of p has counted.
CountedIn(counter) == {x \in Pos \X Nat : x[2] < counter[x[1]]}

ReadersAt(places) == {p \in Pos : rpc[p] \in places}

\* The readers that have counted a response on their connection and may still
\* count it in recvTimes, that are about to, and that have yet to count its body.
Pending == Cardinality(ReadersAt({"answered", "times"}))
BeforeTimes == Cardinality(ReadersAt({"times"}))
BeforeBytes == Cardinality(ReadersAt({"bytes"}))

\* What a writer has done of a batch is its own, and gone with it.
WrittenByWriter ==
  \A p \in Pos : written[p] # 0 => \E t \in Teams : wpc[t] = "write" /\ at[t] = p

\* On a connection that the peer has closed, responses may belong to requests
\* of a batch that was never counted; but then not to all of its requests.
LateFlow ==
  \A p \in Pos : ~open[p] =>
    /\ p \in Used
    /\ Unanswered(p) + recvCnt[p] <=
         sendCnt[p] + (IF written[p] = Batch THEN Batch ELSE Batch - 1)

WriteInv == WrittenByWriter /\ LateFlow

\* A batch is counted on its connection and for the report.
SentCounted ==
  /\ IsFiniteSet(CountedIn(sendCnt))
  /\ Cardinality(CountedIn(sendCnt)) <= sendTimes

\* A response is counted on its connection first, for the report later.
ReceivedCounted ==
  /\ IsFiniteSet(CountedIn(recvCnt))
  /\ pc # "done" =>
       recvTimes + Pending <= Cardinality(CountedIn(recvCnt))
  /\ pc = "done" => recvTimes <= Cardinality(CountedIn(recvCnt))

\* Between two counters, the readers that have added to the one alone.
BytesCounted ==
  pc # "done" => recvTimes = recvBytes + BeforeBytes
AnsweredCounted ==
  "bad" \notin Faults /\ pc # "done" =>
    answered = recvTimes + BeforeTimes

\* The snapshot is of counters that only grow.
SnapshotTaken ==
  /\ pc \in {"loadBytes", "deadline", "readers"} => snapTimes <= recvTimes
  /\ pc \in {"deadline", "readers", "done"} => snapTimes <= snapBytes + Len(conns)

CountInv ==
  SentCounted /\ ReceivedCounted /\ BytesCounted /\ AnsweredCounted /\ SnapshotTaken

-----------------------------------------------------------------------------
(* Counting *)

LEMMA PosSubsetFinite ==
  ASSUME NEW S \in SUBSET Pos
  PROVE  IsFiniteSet(S) /\ Cardinality(S) \in Nat
<1>1. IsFiniteSet(Pos)
  BY ConstantTypes, FS_Interval DEF Pos
<1>. QED  BY <1>1, FS_Subset, FS_CardinalityType

\* There are as many connections in the run as conns is long.
LEMMA SizeOfUsed ==
  ASSUME TypeOK, NEW S \in SUBSET Used
  PROVE  Cardinality(S) <= Len(conns) /\ Len(conns) \in Nat
<1>1. Len(conns) \in Nat
  BY DEF TypeOK, MainTypes
<1>2. IsFiniteSet(Used) /\ Cardinality(Used) = Len(conns)
  BY <1>1, FS_Interval DEF Used
<1>. QED  BY <1>1, <1>2, FS_Subset

\* A reader that goes from one place to another leaves and joins sets of them.
LEMMA ReaderMoves ==
  ASSUME NEW p \in Pos, \A q \in Pos \ {p} : rpc'[q] = rpc[q], NEW places
  PROVE  Cardinality(ReadersAt(places))' =
           Cardinality(ReadersAt(places))
             - (IF rpc[p] \in places THEN 1 ELSE 0)
             + (IF rpc'[p] \in places THEN 1 ELSE 0)
<1>. DEFINE S == ReadersAt(places)
<1>1. IsFiniteSet(S) /\ Cardinality(S) \in Nat
  BY PosSubsetFinite DEF ReadersAt
<1>2. CASE rpc[p] \in places /\ rpc'[p] \in places
  <2>1. S' = S /\ p \in S
    BY <1>2 DEF ReadersAt
  <2>. QED  BY <2>1, <1>1, <1>2
<1>3. CASE rpc[p] \in places /\ rpc'[p] \notin places
  <2>1. S' = S \ {p} /\ p \in S
    BY <1>3 DEF ReadersAt
  <2>2. Cardinality(S \ {p}) = Cardinality(S) - 1
    BY <2>1, <1>1, FS_RemoveElement
  <2>. QED  BY <2>1, <2>2, <1>1, <1>3
<1>4. CASE rpc[p] \notin places /\ rpc'[p] \in places
  <2>1. S' = S \cup {p} /\ p \notin S
    BY <1>4 DEF ReadersAt
  <2>2. Cardinality(S \cup {p}) = Cardinality(S) + 1
    BY <2>1, <1>1, FS_AddElement
  <2>. QED  BY <2>1, <2>2, <1>1, <1>4
<1>5. CASE rpc[p] \notin places /\ rpc'[p] \notin places
  <2>1. S' = S
    BY <1>5 DEF ReadersAt
  <2>. QED  BY <2>1, <1>1, <1>5
<1>. QED  BY <1>2, <1>3, <1>4, <1>5

\* The same for the three sets that the counters differ by.
LEMMA CountsMove ==
  ASSUME NEW p \in Pos, \A q \in Pos \ {p} : rpc'[q] = rpc[q]
  PROVE  /\ Pending' = Pending - (IF rpc[p] \in {"answered", "times"} THEN 1 ELSE 0)
                               + (IF rpc'[p] \in {"answered", "times"} THEN 1 ELSE 0)
         /\ BeforeTimes' = BeforeTimes - (IF rpc[p] \in {"times"} THEN 1 ELSE 0)
                                       + (IF rpc'[p] \in {"times"} THEN 1 ELSE 0)
         /\ BeforeBytes' = BeforeBytes - (IF rpc[p] \in {"bytes"} THEN 1 ELSE 0)
                                       + (IF rpc'[p] \in {"bytes"} THEN 1 ELSE 0)
BY ReaderMoves, Zenon DEF Pending, BeforeTimes, BeforeBytes

LEMMA CountsTypes ==
  /\ Pending \in Nat /\ BeforeTimes \in Nat /\ BeforeBytes \in Nat
  /\ UNCHANGED rpc => UNCHANGED <<Pending, BeforeTimes, BeforeBytes>>
BY PosSubsetFinite DEF Pending, BeforeTimes, BeforeBytes, ReadersAt

LEMMA OneRow ==
  ASSUME NEW x, NEW S, IsFiniteSet(S)
  PROVE  IsFiniteSet({x} \X S) /\ Cardinality({x} \X S) = Cardinality(S)
<1>1. IsFiniteSet({x}) /\ Cardinality({x}) = 1
  BY FS_Singleton
<1>2. Cardinality({x} \X S) = Cardinality({x}) * Cardinality(S)
  BY <1>1, FS_Product
<1>3. IsFiniteSet({x} \X S)
  BY <1>1, FS_Product
<1>4. Cardinality(S) \in Nat
  BY FS_CardinalityType
<1>. QED  BY <1>1, <1>2, <1>3, <1>4

\* A counter that is n larger has counted n more.
LEMMA CountedGrows ==
  ASSUME NEW f \in [Pos -> Nat], IsFiniteSet(CountedIn(f)),
         NEW p \in Pos, NEW n \in Nat
  PROVE  /\ IsFiniteSet(CountedIn([f EXCEPT ![p] = @ + n]))
         /\ Cardinality(CountedIn([f EXCEPT ![p] = @ + n])) = Cardinality(CountedIn(f)) + n
         /\ Cardinality(CountedIn(f)) \in Nat
<1>. DEFINE more == f[p]..(f[p] + n - 1)
            added == {p} \X more
<1>1. IsFiniteSet(more) /\ Cardinality(more) = n
  <2>1. f[p] \in Int /\ f[p] + n - 1 \in Int
    OBVIOUS
  <2>. QED  BY <2>1, FS_Interval
<1>3. IsFiniteSet(added) /\ Cardinality(added) = n
  <2>. HIDE DEF more
  <2>. QED  BY <1>1, OneRow
<1>4. CountedIn(f) \cap added = {}
  BY DEF CountedIn
<1>5. CountedIn([f EXCEPT ![p] = @ + n]) = CountedIn(f) \cup added
  BY DEF CountedIn
<1>6. Cardinality(CountedIn(f)) \in Nat
  BY FS_CardinalityType
<1>. HIDE DEF added
<1>7. /\ IsFiniteSet(CountedIn(f) \cup added)
      /\ Cardinality(CountedIn(f) \cup added) =
           Cardinality(CountedIn(f)) + Cardinality(added) - Cardinality({})
  BY <1>3, <1>4, FS_Union
<1>8. Cardinality({}) = 0
  BY FS_EmptySet
<1>9. Cardinality(CountedIn(f) \cup added) = Cardinality(CountedIn(f)) + n
  BY <1>3, <1>6, <1>7, <1>8
<1>. QED  BY <1>5, <1>6, <1>7, <1>9

-----------------------------------------------------------------------------
(* Batches that failed half way *)

LEMMA WriteInvInit == Init => WriteInv
BY DEF Init, WriteInv, WrittenByWriter, LateFlow

\* A step that moves no request, no counter and no writer keeps it.
LEMMA WriteInvUnmoved ==
  ASSUME WriteInv, UNCHANGED <<conns, writerVars, wireVars, rpc, recvCnt>>
  PROVE  WriteInv'
BY DEF WriteInv, WrittenByWriter, LateFlow, Unanswered, InHand, Used,
       writerVars, wireVars

\* The steps of Run.
LEMMA WriteInvMain ==
  ASSUME TypeOK, FlowInv, WriteInv, Main \/ DurationUp PROVE WriteInv'
<1>. USE DEF Goto
<1>1. CASE Include
  <2>1. /\ conns' = Append(conns, scan)
        /\ UNCHANGED <<writerVars, wireVars, rpc, recvCnt>>
    BY <1>1 DEF Include, readerVars
  <2>2. Used \subseteq Used'
    BY <2>1 DEF TypeOK, MainTypes, Used
  <2>. QED
    BY <2>1, <2>2 DEF WriteInv, WrittenByWriter, LateFlow, Unanswered, InHand,
                      writerVars, wireVars
<1>2. CASE Start
  <2>1. UNCHANGED <<conns, wireVars, recvCnt, sendCnt, written>>
    BY <1>2 DEF Start
  <2>2. \A p \in Pos : written[p] = 0
    BY <1>2 DEF Start, FlowInv, Quiet, WriteInv, WrittenByWriter
  <2>3. \A p \in Pos : Unanswered(p)' = Unanswered(p)
    <3>1. \A p \in Pos : rpc[p] = "idle" /\ rpc'[p] # "conn"
      BY <1>2 DEF Start, FlowInv, Quiet
    <3>. QED  BY <2>1, <3>1 DEF Unanswered, InHand, wireVars
  <2>. QED
    BY <2>1, <2>2, <2>3 DEF WriteInv, WrittenByWriter, LateFlow, Used, wireVars
<1>3. CASE LeaveOut \/ DurationUp
  BY <1>3, WriteInvUnmoved DEF LeaveOut, DurationUp, readerVars
<1>4. CASE WaitWriters \/ GraceCheck \/ GracePoll \/ GraceExpires
  BY <1>4, WriteInvUnmoved
     DEF WaitWriters, GraceCheck, GracePoll, GraceExpires, readerVars
<1>5. CASE LoadTimes \/ LoadBytes \/ SetDeadlines \/ WaitReaders
  BY <1>5, WriteInvUnmoved
     DEF LoadTimes, LoadBytes, SetDeadlines, WaitReaders, readerVars
<1>. QED  BY <1>1, <1>2, <1>3, <1>4, <1>5 DEF Main

\* The steps of a writer.  A batch that is written to its end is counted, even
\* on a connection that was closed meanwhile; one that fails is not, and the
\* socket has taken less than all of it.
LEMMA WriteInvWriter ==
  ASSUME TypeOK, FlowInv, WriteInv, NEW t \in Teams, Writer(t) PROVE WriteInv'
<1>. DEFINE p == at[t]
<1>1. UNCHANGED <<conns, rpc, recvCnt, toClient, open>>
  BY DEF Writer, TakeTick, StopWriter, Check, WriteRequest, CountBatch,
         WriteFails, mainVars, readerVars, wireVars
<1>2. CASE TakeTick(t) \/ StopWriter(t) \/ Check(t)
  <2>1. /\ wpc[t] # "write" /\ UNCHANGED <<sendCnt, written, toServer>>
        /\ \A u \in Teams \ {t} : wpc'[u] = wpc[u] /\ at'[u] = at[u]
    BY <1>2, NextOfTeamMoves
       DEF TakeTick, StopWriter, Check, wireVars, TypeOK, WriterTypes
  <2>2. WrittenByWriter'
    BY <2>1 DEF WriteInv, WrittenByWriter
  <2>3. LateFlow'
    BY <1>1, <2>1 DEF WriteInv, LateFlow, Unanswered, InHand, Used
  <2>. QED  BY <2>2, <2>3 DEF WriteInv
<1>3. CASE WriteRequest(t)
  <2>1. /\ wpc[t] = "write" /\ p \in Pos /\ written[p] < Batch
        /\ written' = [written EXCEPT ![p] = @ + 1]
        /\ \A q \in Pos : ~open[q] => toServer'[q] = toServer[q]
        /\ UNCHANGED <<wpc, at, sendCnt>>
    BY <1>3 DEF WriteRequest, TypeOK, WriterTypes, WireTypes
  <2>2. WrittenByWriter'
    BY <2>1 DEF WriteInv, WrittenByWriter, TypeOK, WriterTypes
  <2>3. ASSUME NEW q \in Pos, ~open'[q]
        PROVE  /\ q \in Used'
               /\ Unanswered(q)' + recvCnt'[q] <=
                    sendCnt'[q] + (IF written'[q] = Batch THEN Batch ELSE Batch - 1)
    <3>1. q \in Used' /\ Unanswered(q)' = Unanswered(q) /\ Unanswered(q) \in Nat
      BY <1>1, <2>1, <2>3
         DEF WriteInv, LateFlow, Used, Unanswered, InHand, TypeOK, WireTypes
    <3>2. Unanswered(q) + recvCnt[q] <=
            sendCnt[q] + (IF written[q] = Batch THEN Batch ELSE Batch - 1)
      BY <1>1, <2>3 DEF WriteInv, LateFlow
    <3>3. written[q] = Batch => written'[q] = Batch
      BY <2>1 DEF TypeOK, WriterTypes
    <3>4. sendCnt[q] \in Nat /\ recvCnt[q] \in Nat
      BY DEF TypeOK, WriterTypes, ReaderTypes
    <3>. QED  BY <1>1, <2>1, <3>1, <3>2, <3>3, <3>4, ConstantTypes
  <2>. QED  BY <2>2, <2>3 DEF WriteInv, LateFlow
<1>4. CASE CountBatch(t) \/ WriteFails(t)
  <2>1. /\ wpc[t] = "write" /\ p \in Pos
        /\ written' = [written EXCEPT ![p] = 0]
        /\ \/ written[p] = Batch /\ sendCnt' = [sendCnt EXCEPT ![p] = @ + Batch]
           \/ written[p] < Batch /\ UNCHANGED sendCnt
        /\ NextOfTeam(t, p) /\ UNCHANGED toServer
    BY <1>4 DEF CountBatch, WriteFails, TypeOK, WriterTypes, wireVars
  <2>2. WrittenByWriter'
    <3>. SUFFICES ASSUME NEW q \in Pos, written'[q] # 0
                  PROVE  \E u \in Teams : wpc'[u] = "write" /\ at'[u] = q
      BY DEF WrittenByWriter
    <3>1. q # p /\ written[q] # 0
      BY <2>1 DEF TypeOK, WriterTypes
    <3>2. PICK u \in Teams : wpc[u] = "write" /\ at[u] = q
      BY <3>1 DEF WriteInv, WrittenByWriter
    <3>. QED  BY <2>1, <3>1, <3>2, NextOfTeamMoves
  <2>3. ASSUME NEW q \in Pos, ~open'[q]
        PROVE  /\ q \in Used'
               /\ Unanswered(q)' + recvCnt'[q] <=
                    sendCnt'[q] + (IF written'[q] = Batch THEN Batch ELSE Batch - 1)
    <3>1. q \in Used' /\ Unanswered(q)' = Unanswered(q) /\ Unanswered(q) \in Nat
      BY <1>1, <2>1, <2>3
         DEF WriteInv, LateFlow, Used, Unanswered, InHand, TypeOK, WireTypes
    <3>2. Unanswered(q) + recvCnt[q] <=
            sendCnt[q] + (IF written[q] = Batch THEN Batch ELSE Batch - 1)
      BY <1>1, <2>3 DEF WriteInv, LateFlow
    <3>3. sendCnt[q] \in Nat /\ recvCnt[q] \in Nat
      BY DEF TypeOK, WriterTypes, ReaderTypes
    <3>4. CASE q = p
      BY <1>1, <2>1, <3>1, <3>2, <3>3, <3>4, ConstantTypes DEF TypeOK, WriterTypes
    <3>5. CASE q # p
      <4>1. written'[q] = written[q] /\ sendCnt'[q] = sendCnt[q]
        BY <2>1, <3>5 DEF TypeOK, WriterTypes
      <4>. QED  BY <1>1, <3>1, <3>2, <4>1
    <3>. QED  BY <3>4, <3>5
  <2>. QED  BY <2>2, <2>3 DEF WriteInv, LateFlow
<1>. QED  BY <1>2, <1>3, <1>4 DEF Writer

\* The steps of a reader, the server and the network.  When the peer closes a
\* connection, what is unanswered on it was counted or is being written.
LEMMA WriteInvReader ==
  ASSUME TypeOK, FlowInv, WriteInv, NEW p \in Pos,
         Reader(p) \/ Serve(p) \/ PeerCloses(p)
  PROVE  WriteInv'
<1>1. UNCHANGED <<conns, wpc, at, sendCnt, written>>
  BY DEF Reader, ReadResponse, ReadFails, MalformedResponse, CountConn,
         CountAnswered, CountTimes, CountBytes, Serve, PeerCloses,
         mainVars, writerVars
<1>2. /\ \A q \in Pos \ {p} : /\ UNCHANGED <<recvCnt[q], open[q]>>
                               /\ Unanswered(q)' = Unanswered(q)
      /\ Unanswered(p)' + recvCnt'[p] <= Unanswered(p) + recvCnt[p]
      /\ open'[p] # open[p] => p \in Used /\ open[p]
  <2>. USE DEF TypeOK, ReaderTypes, WireTypes, Unanswered, InHand,
               readerVars, wireVars
  <2>1. CASE ReadResponse(p)
    BY <2>1 DEF ReadResponse
  <2>2. CASE ReadFails(p)
    BY <2>2 DEF ReadFails, ReaderEnds
  <2>3. CASE MalformedResponse(p)
    BY <2>3 DEF MalformedResponse, ReaderEnds
  <2>4. CASE CountConn(p)
    BY <2>4 DEF CountConn
  <2>5. CASE CountAnswered(p)
    BY <2>5 DEF CountAnswered
  <2>6. CASE CountTimes(p) \/ CountBytes(p)
    BY <2>6 DEF CountTimes, CountBytes
  <2>7. CASE Serve(p)
    BY <2>7 DEF Serve
  <2>8. CASE PeerCloses(p)
    BY <2>8 DEF PeerCloses
  <2>. QED
    BY <2>1, <2>2, <2>3, <2>4, <2>5, <2>6, <2>7, <2>8 DEF Reader
<1>3. ASSUME NEW q \in Pos, ~open'[q]
      PROVE  /\ q \in Used'
             /\ Unanswered(q)' + recvCnt'[q] <=
                  sendCnt'[q] + (IF written'[q] = Batch THEN Batch ELSE Batch - 1)
  <2>1. q \in Used'
    BY <1>1, <1>2, <1>3 DEF WriteInv, LateFlow, Used
  <2>2. Unanswered(q)' + recvCnt'[q] <= Unanswered(q) + recvCnt[q]
    BY <1>2 DEF TypeOK, ReaderTypes, WireTypes, Unanswered, InHand
  <2>3. Unanswered(q) + recvCnt[q] <=
          sendCnt[q] + (IF written[q] = Batch THEN Batch ELSE Batch - 1)
    <3>1. CASE ~open[q]
      BY <3>1 DEF WriteInv, LateFlow
    <3>2. CASE open[q]
      <4>1. Unanswered(q) + recvCnt[q] <= sendCnt[q] + written[q]
        BY <3>2 DEF FlowInv, Flow
      <4>2. written[q] \in 0..Batch /\ sendCnt[q] \in Nat
        BY DEF TypeOK, WriterTypes
      <4>3. Unanswered(q) + recvCnt[q] \in Nat
        BY DEF TypeOK, ReaderTypes, WireTypes, Unanswered, InHand
      <4>. QED  BY <4>1, <4>2, <4>3, ConstantTypes
    <3>. QED  BY <3>1, <3>2
  <2>4. /\ Unanswered(q) + recvCnt[q] \in Nat /\ Unanswered(q)' + recvCnt'[q] \in Nat
        /\ sendCnt[q] \in Nat
    <3>1. TypeOK'
      BY ReaderTypesStep
    <3>. QED
      BY <3>1 DEF TypeOK, WriterTypes, ReaderTypes, WireTypes, Unanswered, InHand
  <2>. QED  BY <1>1, <2>1, <2>2, <2>3, <2>4, ConstantTypes
<1>. QED
  BY <1>1, <1>3 DEF WriteInv, WrittenByWriter, LateFlow

\* WriteInv holds in every state.
LEMMA WriteInvHolds == Spec => []WriteInv
<1>1. TypeOK /\ FlowInv /\ WriteInv /\ [Next]_vars => WriteInv'
  <2>. SUFFICES ASSUME TypeOK, FlowInv, WriteInv, [Next]_vars PROVE WriteInv'
    OBVIOUS
  <2>1. CASE UNCHANGED vars
    BY <2>1, WriteInvUnmoved DEF vars, mainVars, readerVars
  <2>. QED
    BY <2>1, WriteInvMain, WriteInvWriter, WriteInvReader DEF Next, Terminated
<1>. QED  BY <1>1, WriteInvInit, FlowInvHolds, TypeCorrect, PTL DEF Spec

-----------------------------------------------------------------------------
(* The counters of the report *)

LEMMA CountInvInit == Init => CountInv
<1>. SUFFICES ASSUME Init PROVE CountInv
  OBVIOUS
<1>1. /\ CountedIn(sendCnt) = {} /\ CountedIn(recvCnt) = {}
      /\ ReadersAt({"answered", "times"}) = {} /\ ReadersAt({"times"}) = {}
      /\ ReadersAt({"bytes"}) = {}
  BY DEF Init, CountedIn, ReadersAt
<1>2. IsFiniteSet({}) /\ Cardinality({}) = 0
  BY FS_EmptySet
<1>3. /\ sendTimes = 0 /\ answered = 0 /\ recvTimes = 0 /\ recvBytes = 0
      /\ pc = "prepare"
  BY DEF Init
<1>4. SentCounted /\ ReceivedCounted
  BY <1>1, <1>2, <1>3 DEF SentCounted, ReceivedCounted, Pending
<1>5. BytesCounted /\ AnsweredCounted /\ SnapshotTaken
  BY <1>1, <1>2, <1>3
     DEF BytesCounted, AnsweredCounted, SnapshotTaken, BeforeTimes, BeforeBytes
<1>. QED  BY <1>4, <1>5 DEF CountInv

\* A step that moves no counter of the report, and Run no further than to a
\* place before or after which the same holds.
LEMMA CountInvUnmoved ==
  ASSUME CountInv,
         UNCHANGED <<rpc, sendCnt, recvCnt, sendTimes, answered, recvTimes,
                     recvBytes, snapTimes, snapBytes>>,
         Len(conns') = Len(conns) \/ pc' = "prepare",
         \/ pc' = pc
         \/ pc' \in {"prepare", "writers", "grace", "poll", "loadTimes"} /\ pc # "done"
         \/ pc = "deadline" /\ pc' = "readers"
  PROVE  CountInv'
<1>1. SentCounted'
  BY DEF CountInv, SentCounted
<1>2. ReceivedCounted' /\ BytesCounted' /\ AnsweredCounted'
  BY CountsTypes DEF CountInv, ReceivedCounted, BytesCounted, AnsweredCounted
<1>3. SnapshotTaken'
  BY DEF CountInv, SnapshotTaken
<1>. QED  BY <1>1, <1>2, <1>3 DEF CountInv

\* A reader is between two of its counters at most once, so the counter of
\* bodies is at most one per reader behind that of responses.
LEMMA BytesBehind ==
  ASSUME TypeOK, EndInv, BytesCounted, pc # "done"
  PROVE  recvTimes <= recvBytes + Len(conns)
<1>1. ReadersAt({"bytes"}) \subseteq Used
  BY DEF ReadersAt, EndInv, NoReader
<1>2. BeforeBytes <= Len(conns) /\ Len(conns) \in Nat
  BY <1>1, SizeOfUsed DEF BeforeBytes
<1>3. BeforeBytes \in Nat
  BY CountsTypes
<1>. QED  BY <1>2, <1>3 DEF BytesCounted, TypeOK, ReaderTypes

\* The steps of Run: what it loads are two counters that are at most one per
\* reader apart.
LEMMA CountInvMain ==
  ASSUME TypeOK, EndInv, CountInv, Main \/ DurationUp PROVE CountInv'
<1>. USE DEF Goto
<1>1. CASE Include \/ LeaveOut \/ DurationUp \/ SetDeadlines
  BY <1>1, CountInvUnmoved
     DEF Include, LeaveOut, DurationUp, SetDeadlines, writerVars, readerVars
<1>2. CASE WaitWriters \/ GraceCheck \/ GracePoll \/ GraceExpires
  BY <1>2, CountInvUnmoved
     DEF WaitWriters, GraceCheck, GracePoll, GraceExpires, writerVars, readerVars
<1>3. CASE Start
  <2>1. /\ pc = "prepare" /\ pc' = "writers"
        /\ UNCHANGED <<sendCnt, recvCnt, sendTimes, answered, recvTimes, recvBytes>>
        /\ \A p \in Pos : rpc'[p] \in {"read", "idle"}
    BY <1>3 DEF Start
  <2>2. \A p \in Pos : rpc[p] = "idle"
    BY <2>1 DEF EndInv, NoReader
  <2>3. \A places \in SUBSET {"answered", "times", "bytes"} :
          ReadersAt(places) = {} /\ ReadersAt(places)' = {}
    BY <2>1, <2>2 DEF ReadersAt
  <2>4. UNCHANGED <<Pending, BeforeTimes, BeforeBytes>>
    BY <2>3 DEF Pending, BeforeTimes, BeforeBytes
  <2>5. SentCounted' /\ SnapshotTaken'
    BY <2>1 DEF CountInv, SentCounted, SnapshotTaken
  <2>6. ReceivedCounted' /\ BytesCounted' /\ AnsweredCounted'
    BY <2>1, <2>4 DEF CountInv, ReceivedCounted, BytesCounted, AnsweredCounted
  <2>. QED  BY <2>5, <2>6 DEF CountInv
<1>4. CASE LoadTimes \/ LoadBytes
  <2>1. /\ pc # "done" /\ pc' # "done"
        /\ UNCHANGED <<conns, rpc, sendCnt, recvCnt, sendTimes, answered,
                       recvTimes, recvBytes>>
    BY <1>4 DEF LoadTimes, LoadBytes, writerVars, readerVars
  <2>2. SentCounted' /\ ReceivedCounted' /\ BytesCounted' /\ AnsweredCounted'
    BY <2>1, CountsTypes DEF CountInv, SentCounted, ReceivedCounted, BytesCounted,
                             AnsweredCounted
  <2>3. SnapshotTaken'
    <3>1. CASE LoadTimes
      BY <3>1, <2>1 DEF LoadTimes, SnapshotTaken, TypeOK, ReaderTypes
    <3>2. CASE LoadBytes
      <4>1. snapTimes' <= recvTimes /\ snapBytes' = recvBytes
        BY <3>2 DEF LoadBytes, CountInv, SnapshotTaken
      <4>2. recvTimes <= recvBytes + Len(conns)
        BY <2>1, BytesBehind DEF CountInv
      <4>. QED
        BY <2>1, <3>2, <4>1, <4>2 DEF LoadBytes, SnapshotTaken, TypeOK, MainTypes, ReaderTypes
    <3>. QED  BY <1>4, <3>1, <3>2
  <2>. QED  BY <2>2, <2>3 DEF CountInv
<1>5. CASE WaitReaders
  <2>1. /\ pc = "readers" /\ pc' = "done" /\ recvTimes' = snapTimes
        /\ UNCHANGED <<conns, rpc, sendCnt, recvCnt, sendTimes, answered, snapTimes,
                       snapBytes>>
    BY <1>5 DEF WaitReaders, writerVars
  <2>2. ReceivedCounted'
    <3>1. recvTimes + Pending <= Cardinality(CountedIn(recvCnt))
      BY <2>1 DEF CountInv, ReceivedCounted
    <3>2. snapTimes <= recvTimes
      BY <2>1 DEF CountInv, SnapshotTaken
    <3>3. /\ Pending \in Nat
          /\ Cardinality(CountedIn(recvCnt)) \in Nat
      BY CountsTypes, FS_CardinalityType DEF CountInv, ReceivedCounted
    <3>4. snapTimes <= Cardinality(CountedIn(recvCnt))
      BY <3>1, <3>2, <3>3 DEF TypeOK, MainTypes, ReaderTypes
    <3>. QED
      BY <2>1, <3>4 DEF CountInv, ReceivedCounted
  <2>. QED
    BY <2>1, <2>2 DEF CountInv, SentCounted, BytesCounted, AnsweredCounted, SnapshotTaken
<1>. QED  BY <1>1, <1>2, <1>3, <1>4, <1>5 DEF Main

\* The steps of a writer.
LEMMA CountInvWriter ==
  ASSUME TypeOK, CountInv, NEW t \in Teams, Writer(t) PROVE CountInv'
<1>1. CASE TakeTick(t) \/ StopWriter(t) \/ Check(t) \/ WriteRequest(t) \/ WriteFails(t)
  BY <1>1, CountInvUnmoved
     DEF TakeTick, StopWriter, Check, WriteRequest, WriteFails, mainVars, readerVars
<1>2. CASE CountBatch(t)
  <2>1. /\ at[t] \in Pos /\ sendCnt' = [sendCnt EXCEPT ![at[t]] = @ + Batch]
        /\ sendTimes' = sendTimes + Batch
        /\ UNCHANGED <<pc, conns, rpc, recvCnt, answered, recvTimes, recvBytes,
                       snapTimes, snapBytes>>
    BY <1>2 DEF CountBatch, mainVars, readerVars, TypeOK, WriterTypes
  <2>2. SentCounted'
    <3>1. sendCnt \in [Pos -> Nat] /\ sendTimes \in Nat
      BY DEF TypeOK, WriterTypes
    <3>2. /\ IsFiniteSet(CountedIn([sendCnt EXCEPT ![at[t]] = @ + Batch]))
          /\ Cardinality(CountedIn([sendCnt EXCEPT ![at[t]] = @ + Batch])) =
               Cardinality(CountedIn(sendCnt)) + Batch
          /\ Cardinality(CountedIn(sendCnt)) \in Nat
      BY <2>1, <3>1, CountedGrows, ConstantTypes DEF CountInv, SentCounted
    <3>3. IsFiniteSet(CountedIn(sendCnt')) /\ Cardinality(CountedIn(sendCnt')) <= sendTimes'
      BY <2>1, <3>1, <3>2, ConstantTypes DEF CountInv, SentCounted
    <3>. QED  BY <3>3 DEF SentCounted, CountedIn
  <2>3. ReceivedCounted' /\ BytesCounted' /\ AnsweredCounted' /\ SnapshotTaken'
    BY <2>1, CountsTypes DEF CountInv, ReceivedCounted, BytesCounted,
                             AnsweredCounted, SnapshotTaken
  <2>. QED  BY <2>2, <2>3 DEF CountInv
<1>. QED  BY <1>1, <1>2 DEF Writer

\* The steps of a reader: each add leaves one place for the next.
LEMMA CountInvReader ==
  ASSUME TypeOK, EndInv, CountInv, NEW p \in Pos,
         Reader(p) \/ Serve(p) \/ PeerCloses(p)
  PROVE  CountInv'
<1>1. CASE Serve(p) \/ PeerCloses(p)
  BY <1>1, CountInvUnmoved DEF Serve, PeerCloses, mainVars, writerVars, readerVars
<1>2. CASE Reader(p)
  <2>. DEFINE received == Cardinality(CountedIn(recvCnt))
  <2>1. /\ UNCHANGED <<mainVars, writerVars>> /\ pc # "done"
        /\ recvTimes' >= recvTimes
    <3>1. rpc[p] \notin {"idle", "done"}
      BY <1>2 DEF Reader, ReadResponse, ReadFails, MalformedResponse, CountConn,
                  CountAnswered, CountTimes, CountBytes
    <3>2. pc # "done"
      BY <3>1 DEF EndInv, ReadersGone
    <3>3. UNCHANGED <<mainVars, writerVars>>
      BY <1>2 DEF Reader, ReadResponse, ReadFails, MalformedResponse, CountConn,
                  CountAnswered, CountTimes, CountBytes
    <3>4. recvTimes' = recvTimes \/ recvTimes' = recvTimes + 1
      BY <1>2 DEF Reader, ReadResponse, ReadFails, MalformedResponse, ReaderEnds,
                  CountConn, CountAnswered, CountTimes, CountBytes
    <3>. QED  BY <3>2, <3>3, <3>4 DEF TypeOK, ReaderTypes
  <2>2. SentCounted' /\ SnapshotTaken'
    <3>1. SentCounted'
      BY <2>1 DEF CountInv, SentCounted, CountedIn, writerVars
    <3>2. recvTimes \in Nat /\ recvTimes' \in Nat
      <4>1. TypeOK'
        BY ReaderTypesStep
      <4>. QED  BY <4>1 DEF TypeOK, ReaderTypes
    <3>3. snapTimes \in Nat /\ UNCHANGED <<pc, snapTimes, snapBytes, conns>>
      BY <2>1 DEF TypeOK, MainTypes, mainVars
    <3>4. pc \in {"loadBytes", "deadline", "readers"} => snapTimes' <= recvTimes'
      BY <2>1, <3>2, <3>3 DEF CountInv, SnapshotTaken
    <3>. QED  BY <3>1, <3>3, <3>4 DEF CountInv, SnapshotTaken
  <2>3. /\ Pending \in Nat /\ BeforeTimes \in Nat /\ BeforeBytes \in Nat /\ received \in Nat
        /\ recvTimes \in Nat /\ recvBytes \in Nat /\ answered \in Nat
    BY CountsTypes, FS_CardinalityType DEF CountInv, ReceivedCounted, TypeOK, ReaderTypes
  <2>4. /\ recvTimes + Pending <= received
        /\ recvTimes = recvBytes + BeforeBytes
        /\ "bad" \notin Faults => answered = recvTimes + BeforeTimes
    BY <2>1 DEF CountInv, ReceivedCounted, BytesCounted, AnsweredCounted
  <2>5. \A q \in Pos \ {p} : rpc'[q] = rpc[q]
    BY <1>2 DEF Reader, ReadResponse, ReadFails, MalformedResponse, ReaderEnds,
                CountConn, CountAnswered, CountTimes, CountBytes, TypeOK, ReaderTypes
  \* What the step does to the counters and to the readers between them.
  <2>6. /\ IsFiniteSet(CountedIn(recvCnt))'
        /\ recvTimes' + Pending' <= received'
        /\ recvTimes' = recvBytes' + BeforeBytes'
        /\ "bad" \notin Faults => answered' = recvTimes' + BeforeTimes'
    <3>1. CASE ReadResponse(p) \/ ReadFails(p) \/ MalformedResponse(p)
      <4>1. PICK to \in {"conn", "done"} : rpc' = [rpc EXCEPT ![p] = to]
        BY <3>1 DEF ReadResponse, ReadFails, MalformedResponse, ReaderEnds
      <4>2. rpc[p] = "read" /\ UNCHANGED <<recvCnt, answered, recvTimes, recvBytes>>
        BY <3>1 DEF ReadResponse, ReadFails, MalformedResponse, ReaderEnds
      <4>3. Pending' = Pending /\ BeforeTimes' = BeforeTimes /\ BeforeBytes' = BeforeBytes
        BY <2>3, <2>5, <4>1, <4>2, CountsMove DEF TypeOK, ReaderTypes
      <4>. QED  BY <2>4, <4>2, <4>3 DEF CountInv, ReceivedCounted, CountedIn
    <3>2. CASE CountConn(p)
      <4>1. /\ rpc[p] = "conn" /\ rpc' = [rpc EXCEPT ![p] = "answered"]
            /\ recvCnt' = [recvCnt EXCEPT ![p] = @ + 1]
            /\ UNCHANGED <<answered, recvTimes, recvBytes>>
        BY <3>2 DEF CountConn
      <4>2. Pending' = Pending + 1 /\ BeforeTimes' = BeforeTimes /\ BeforeBytes' = BeforeBytes
        BY <2>3, <2>5, <4>1, CountsMove DEF TypeOK, ReaderTypes
      <4>3. /\ IsFiniteSet(CountedIn([recvCnt EXCEPT ![p] = @ + 1]))
            /\ Cardinality(CountedIn([recvCnt EXCEPT ![p] = @ + 1])) = received + 1
        BY CountedGrows DEF CountInv, ReceivedCounted, TypeOK, ReaderTypes
      <4>4. IsFiniteSet(CountedIn(recvCnt))' /\ received' = received + 1
        BY <4>1, <4>3 DEF CountedIn
      <4>. QED  BY <2>3, <2>4, <4>1, <4>2, <4>4
    <3>3. CASE CountAnswered(p)
      <4>1. PICK to \in {"times", "read"} :
              rpc' = [rpc EXCEPT ![p] = to] /\ (to = "read" => "bad" \in Faults)
        BY <3>3 DEF CountAnswered
      <4>2. /\ rpc[p] = "answered" /\ answered' = answered + 1
            /\ UNCHANGED <<recvCnt, recvTimes, recvBytes>>
        BY <3>3 DEF CountAnswered
      <4>3. /\ Pending' <= Pending /\ BeforeBytes' = BeforeBytes /\ Pending' \in Int
            /\ to = "times" => BeforeTimes' = BeforeTimes + 1
        BY <2>3, <2>5, <4>1, <4>2, CountsMove DEF TypeOK, ReaderTypes
      <4>. QED
        BY <2>3, <2>4, <4>1, <4>2, <4>3 DEF CountInv, ReceivedCounted, CountedIn
    <3>4. CASE CountTimes(p)
      <4>1. /\ rpc[p] = "times" /\ rpc' = [rpc EXCEPT ![p] = "bytes"]
            /\ recvTimes' = recvTimes + 1
            /\ UNCHANGED <<recvCnt, answered, recvBytes>>
        BY <3>4 DEF CountTimes
      <4>2. Pending' = Pending - 1 /\ BeforeTimes' = BeforeTimes - 1 /\ BeforeBytes' = BeforeBytes + 1
        BY <2>3, <2>5, <4>1, CountsMove DEF TypeOK, ReaderTypes
      <4>. QED
        BY <2>3, <2>4, <4>1, <4>2 DEF CountInv, ReceivedCounted, CountedIn
    <3>5. CASE CountBytes(p)
      <4>1. /\ rpc[p] = "bytes" /\ rpc' = [rpc EXCEPT ![p] = "read"]
            /\ recvBytes' = recvBytes + 1
            /\ UNCHANGED <<recvCnt, answered, recvTimes>>
        BY <3>5 DEF CountBytes
      <4>2. Pending' = Pending /\ BeforeTimes' = BeforeTimes /\ BeforeBytes' = BeforeBytes - 1
        BY <2>3, <2>5, <4>1, CountsMove DEF TypeOK, ReaderTypes
      <4>. QED
        BY <2>3, <2>4, <4>1, <4>2 DEF CountInv, ReceivedCounted, CountedIn
    <3>. QED  BY <1>2, <3>1, <3>2, <3>3, <3>4, <3>5 DEF Reader
  <2>7. ReceivedCounted' /\ BytesCounted' /\ AnsweredCounted'
    BY <2>1, <2>6 DEF ReceivedCounted, BytesCounted, AnsweredCounted, mainVars
  <2>. QED  BY <2>2, <2>7 DEF CountInv
<1>. QED  BY <1>1, <1>2

\* CountInv holds in every state.
LEMMA CountInvHolds == Spec => []CountInv
<1>1. TypeOK /\ EndInv /\ CountInv /\ [Next]_vars => CountInv'
  <2>. SUFFICES ASSUME TypeOK, EndInv, CountInv, [Next]_vars PROVE CountInv'
    OBVIOUS
  <2>1. CASE UNCHANGED vars
    BY <2>1, CountInvUnmoved DEF vars, mainVars, writerVars, readerVars
  <2>. QED
    BY <2>1, CountInvMain, CountInvWriter, CountInvReader DEF Next, Terminated
<1>. QED  BY <1>1, CountInvInit, EndInvHolds, TypeCorrect, PTL DEF Spec

-----------------------------------------------------------------------------
(* What the report promises *)

\* benchrate.go:158-159: the two loads of the snapshot are not one, but the
\* bodies it holds are at most one per reader behind its responses.
THEOREM SnapshotIsSkewedByReaders == Spec => []SnapshotSkew
<1>1. TypeOK /\ CountInv => SnapshotSkew
  BY DEF CountInv, SnapshotTaken, SnapshotSkew, TypeOK, MainTypes
<1>. QED  BY <1>1, CountInvHolds, TypeCorrect, PTL

\* benchrate.go:138-159: without bad responses, a grace loop that ended because
\* everything was answered reports all but at most the response each reader
\* is still counting.
THEOREM SnapshotLosesFew ==
  ASSUME "bad" \notin Faults PROVE Spec => SnapshotLosesOnePerReader
<1>1. TypeOK /\ EndInv /\ CountInv /\ [Next]_vars =>
        [pc = "loadTimes" /\ pc' = "loadBytes" /\ answered >= sendTimes =>
           snapTimes' + Len(conns) >= sendTimes]_vars
  <2>. SUFFICES ASSUME TypeOK, EndInv, CountInv, Next,
                       pc = "loadTimes", pc' = "loadBytes", answered >= sendTimes
                PROVE  snapTimes' + Len(conns) >= sendTimes
    OBVIOUS
  <2>1. LoadTimes
    <3>1. ASSUME NEW t \in Teams, Writer(t) PROVE FALSE
      BY <3>1 DEF Writer, TakeTick, StopWriter, Check, WriteRequest, CountBatch,
                  WriteFails, mainVars
    <3>2. ASSUME NEW p \in Pos, Reader(p) \/ Serve(p) \/ PeerCloses(p) PROVE FALSE
      BY <3>2 DEF Reader, ReadResponse, ReadFails, MalformedResponse, CountConn,
                  CountAnswered, CountTimes, CountBytes, Serve, PeerCloses, mainVars
    <3>. QED
      BY <3>1, <3>2
         DEF Next, Main, Include, LeaveOut, Start, WaitWriters, GraceCheck,
             GracePoll, GraceExpires, LoadBytes, SetDeadlines, WaitReaders,
             DurationUp, Terminated, Goto, vars, mainVars
  <2>2. answered = recvTimes + BeforeTimes
    BY DEF CountInv, AnsweredCounted
  <2>3. BeforeTimes <= Len(conns) /\ Len(conns) \in Nat
    <3>1. ReadersAt({"times"}) \subseteq Used
      BY DEF ReadersAt, EndInv, NoReader
    <3>. QED  BY <3>1, SizeOfUsed DEF BeforeTimes
  <2>4. BeforeTimes \in Nat /\ recvTimes \in Nat /\ sendTimes \in Nat
    BY CountsTypes DEF TypeOK, ReaderTypes, WriterTypes
  <2>5. snapTimes' = recvTimes
    BY <2>1 DEF LoadTimes
  <2>. QED  BY <2>2, <2>3, <2>4, <2>5
<1>. QED
  BY <1>1, CountInvHolds, EndInvHolds, TypeCorrect, PTL DEF Spec, SnapshotLosesOnePerReader

\* The connections of the run that the peer has closed, and how many requests
\* of a batch that was never counted each may have answered.
Closed == {p \in Used : ~open[p]}
Uncounted == {x \in Closed \X Nat :
                sendCnt[x[1]] <= x[2] /\ x[2] < sendCnt[x[1]] + (Batch - 1)}

LEMMA UncountedFew ==
  ASSUME TypeOK
  PROVE  /\ IsFiniteSet(Uncounted)
         /\ Cardinality(Uncounted) <= Cardinality(Closed) * (Batch - 1)
         /\ Cardinality(Closed) \in Nat
<1>. DEFINE parts == 0..(Batch - 2)
            pairs == Closed \X parts
            shift == [x \in pairs |-> <<x[1], sendCnt[x[1]] + x[2]>>]
<1>1. Closed \subseteq Pos
  BY UsedInPos DEF Closed, TypeOK
<1>2. IsFiniteSet(Closed) /\ Cardinality(Closed) \in Nat
  BY <1>1, PosSubsetFinite
<1>3. IsFiniteSet(parts) /\ Cardinality(parts) = Batch - 1
  BY FS_Interval, ConstantTypes
<1>4. \A p \in Closed : sendCnt[p] \in Nat
  BY <1>1 DEF TypeOK, WriterTypes
<1>5. shift \in Surjection(pairs, Uncounted)
  <2>1. ASSUME NEW x \in pairs PROVE shift[x] \in Uncounted
    BY <1>4, ConstantTypes DEF Uncounted
  <2>2. ASSUME NEW y \in Uncounted PROVE \E x \in pairs : shift[x] = y
    <3>. DEFINE x == <<y[1], y[2] - sendCnt[y[1]]>>
    <3>1. x \in pairs
      BY <1>4, ConstantTypes DEF Uncounted
    <3>2. shift[x] = <<y[1], sendCnt[y[1]] + (y[2] - sendCnt[y[1]])>>
      BY <3>1
    <3>3. sendCnt[y[1]] + (y[2] - sendCnt[y[1]]) = y[2] /\ y = <<y[1], y[2]>>
      BY <1>4 DEF Uncounted
    <3>. QED  BY <3>1, <3>2, <3>3
  <2>. QED  BY <2>1, <2>2 DEF Surjection
<1>. HIDE DEF parts
<1>6. IsFiniteSet(pairs) /\ Cardinality(pairs) = Cardinality(Closed) * Cardinality(parts)
  BY <1>2, <1>3, FS_Product
<1>. HIDE DEF pairs, shift
<1>7. IsFiniteSet(Uncounted) /\ Cardinality(Uncounted) <= Cardinality(pairs)
  BY <1>5, <1>6, FS_Surjection
<1>. QED  BY <1>2, <1>3, <1>6, <1>7

\* benchrate.go:213-245: a report has at most the answered part of one failed
\* batch per closed connection more responses than requests.
THEOREM ReceivedIsBounded == Spec => []ReceivedBound
<1>1. TypeOK /\ FlowInv /\ EndInv /\ WriteInv /\ CountInv => ReceivedBound
  <2>. SUFFICES ASSUME TypeOK, FlowInv, EndInv, WriteInv, CountInv, pc = "done"
                PROVE  recvTimes <= sendTimes + (Batch - 1) * Cardinality(Closed)
    BY DEF ReceivedBound, Closed
  <2>1. \A p \in Pos : written[p] = 0
    BY DEF EndInv, WritersGone, WriteInv, WrittenByWriter
  <2>2. CountedIn(recvCnt) \subseteq CountedIn(sendCnt) \cup Uncounted
    <3>. SUFFICES ASSUME NEW p \in Pos, NEW n \in Nat, n < recvCnt[p],
                         ~(n < sendCnt[p])
                  PROVE  <<p, n>> \in Uncounted
      BY DEF CountedIn
    <3>1. /\ sendCnt[p] \in Nat /\ recvCnt[p] \in Nat /\ Unanswered(p) \in Nat
          /\ written[p] = 0
      BY <2>1 DEF TypeOK, WriterTypes, ReaderTypes, WireTypes, Unanswered, InHand
    <3>2. ~open[p]
      <4>1. open[p] => Unanswered(p) + recvCnt[p] <= sendCnt[p] + written[p]
        BY DEF FlowInv, Flow
      <4>. QED  BY <3>1, <4>1
    <3>3. p \in Closed
      BY <3>2 DEF WriteInv, LateFlow, Closed
    <3>4. Unanswered(p) + recvCnt[p] <= sendCnt[p] + (Batch - 1)
      BY <3>1, <3>2, ConstantTypes DEF WriteInv, LateFlow
    <3>. QED  BY <3>1, <3>3, <3>4, ConstantTypes DEF Uncounted
  <2>3. IsFiniteSet(CountedIn(sendCnt)) /\ Cardinality(CountedIn(sendCnt)) <= sendTimes
    BY DEF CountInv, SentCounted
  <2>4. recvTimes <= Cardinality(CountedIn(recvCnt))
    BY DEF CountInv, ReceivedCounted
  <2>5. /\ IsFiniteSet(CountedIn(sendCnt) \cup Uncounted)
        /\ Cardinality(CountedIn(sendCnt) \cup Uncounted) <=
             Cardinality(CountedIn(sendCnt)) + Cardinality(Uncounted)
    <3>1. /\ IsFiniteSet(CountedIn(sendCnt) \cup Uncounted)
          /\ Cardinality(CountedIn(sendCnt) \cup Uncounted) =
               Cardinality(CountedIn(sendCnt)) + Cardinality(Uncounted)
                 - Cardinality(CountedIn(sendCnt) \cap Uncounted)
      BY <2>3, UncountedFew, FS_Union
    <3>2. /\ Cardinality(CountedIn(sendCnt) \cap Uncounted) \in Nat
          /\ Cardinality(CountedIn(sendCnt)) \in Nat
          /\ Cardinality(Uncounted) \in Nat
      BY <2>3, UncountedFew, FS_Intersection, FS_CardinalityType
    <3>. QED  BY <3>1, <3>2
  <2>6. Cardinality(CountedIn(recvCnt)) <= Cardinality(CountedIn(sendCnt) \cup Uncounted)
    BY <2>2, <2>5, FS_Subset
  <2>7. /\ Cardinality(CountedIn(recvCnt)) \in Nat
        /\ Cardinality(CountedIn(sendCnt)) \in Nat
        /\ Cardinality(CountedIn(sendCnt) \cup Uncounted) \in Nat
        /\ Cardinality(Uncounted) \in Nat
    BY <2>3, <2>5, UncountedFew, FS_CardinalityType DEF CountInv, ReceivedCounted
  <2>8. recvTimes \in Nat /\ sendTimes \in Nat
    BY DEF TypeOK, ReaderTypes, WriterTypes
  <2>9. recvTimes <= sendTimes + Cardinality(Uncounted)
    BY <2>3, <2>4, <2>5, <2>6, <2>7, <2>8
  <2>10. /\ Cardinality(Uncounted) <= Cardinality(Closed) * (Batch - 1)
         /\ Cardinality(Closed) \in Nat
    BY UncountedFew
  <2>11. Cardinality(Closed) * (Batch - 1) = (Batch - 1) * Cardinality(Closed)
    BY <2>10, ConstantTypes
  <2>12. (Batch - 1) * Cardinality(Closed) \in Nat
    BY <2>10, ConstantTypes
  <2>. QED  BY <2>7, <2>8, <2>9, <2>10, <2>11, <2>12
<1>. QED
  BY <1>1, WriteInvHolds, CountInvHolds, FlowInvHolds, EndInvHolds, TypeCorrect, PTL

=============================================================================
