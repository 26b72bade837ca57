------------------------------ MODULE BenchRate ------------------------------
(***************************************************************************)
(* The BenchPipeline benchmark of the Go client                            *)
(* (benchcli-go/benchrate/benchrate.go): writer goroutines, one per team   *)
(* of connections, send batches of pipelined requests at every tick; one   *)
(* reader goroutine per connection counts the responses; Run waits for the *)
(* writers, gives the server a grace period, takes a snapshot of the       *)
(* counters, unblocks the readers and puts the snapshot back.              *)
(*                                                                         *)
(* A step is one atomic access of a counter other goroutines read, one     *)
(* request entering or leaving a socket, or one goroutine's move from one  *)
(* blocking call to the next.  Time is not modelled: a ticker may fire     *)
(* whenever its writer waits for it, at most MaxTicks times, and a timer   *)
(* may fire at any moment after it was started.                            *)
(*                                                                         *)
(* A connection of the run is named by its position in Run's slice conns,  *)
(* whose elements are the conn structs that hold sendCnt and recvCnt.      *)
(***************************************************************************)
EXTENDS Integers, Sequences, FiniteSets

CONSTANTS
  NumConns,     \* len(br.Conns): connections the Connections phase left
  Concurrency,  \* how many teams; init clamps it to 1 .. NumConns
  Batch,        \* br.batch: requests in one write
  MaxTicks,     \* bound: ticks one writer receives
  SockCap,      \* bound: requests (responses) the sockets of one direction hold
  Faults        \* what may go wrong on a connection: a subset of FaultKinds

\* "close": the peer ends or resets the connection; "malformed": a response
\* the parser refuses; "bad": a well-formed response that is not a 200 with
\* the body that was sent; "redial": Redial fails.
FaultKinds == {"close", "malformed", "bad", "redial"}

ASSUME BenchRateAssumption ==
  /\ NumConns \in Nat \ {0}
  /\ Concurrency \in 1..NumConns
  /\ Batch \in Nat \ {0}
  /\ MaxTicks \in Nat
  /\ SockCap \in Nat \ {0}
  /\ Faults \subseteq FaultKinds

maxBatchesInFlight == 4

Pos == 1..NumConns          \* positions in conns, and indices of br.Conns
Teams == 1..Concurrency     \* one writer goroutine each

VARIABLES
  pc,        \* where Run is
  scan,      \* the element of br.Conns Run looks at while it prepares
  conns,     \* the indices of br.Conns that take part, in order
  broken,    \* Conn.Broken, by index of br.Conns
  done,      \* whether the channel done is closed
  wpc,       \* where each writer is
  at,        \* the position a writer's doOnce is at, 0 outside doOnce
  ticks,     \* the ticks each writer has received
  rpc,       \* where each reader is
  expired,   \* whether a connection's read deadline has passed
  sendCnt, recvCnt,   \* the conn structs' counters
  sendTimes, answered, recvTimes, recvBytes, \* the benchmark's counters
  snapTimes, snapBytes,  \* Run's locals recvTimes and recvBytes
  written,   \* requests of the batch being written that the socket has taken
  toServer,  \* requests on the wire or in the server
  toClient,  \* responses the reader has not read
  open       \* whether the connection can still carry requests

mainVars   == <<pc, scan, conns, done, snapTimes, snapBytes>>
writerVars == <<wpc, at, ticks, sendCnt, sendTimes, written>>
readerVars == <<rpc, recvCnt, answered, recvTimes, recvBytes>>
wireVars   == <<toServer, toClient, open>>
connVars   == <<broken, expired>>
vars == <<mainVars, writerVars, readerVars, wireVars, connVars>>

Used == 1..Len(conns)

\* connTeams[i%len(connTeams)]: connections are dealt to the teams in turn.
TeamOf(p) == ((p - 1) % Concurrency) + 1
Team(t) == {p \in Used : TeamOf(p) = t}

Init ==
  /\ pc = "prepare"
  /\ scan = 1
  /\ conns = <<>>
  /\ broken \in [Pos -> BOOLEAN]
  /\ done = FALSE
  /\ snapTimes = 0 /\ snapBytes = 0
  /\ wpc = [t \in Teams |-> "idle"]
  /\ at = [t \in Teams |-> 0]
  /\ ticks = [t \in Teams |-> 0]
  /\ rpc = [p \in Pos |-> "idle"]
  /\ expired = [p \in Pos |-> FALSE]
  /\ sendCnt = [p \in Pos |-> 0] /\ recvCnt = [p \in Pos |-> 0]
  /\ sendTimes = 0 /\ answered = 0 /\ recvTimes = 0 /\ recvBytes = 0
  /\ written = [p \in Pos |-> 0]
  /\ toServer = [p \in Pos |-> 0] /\ toClient = [p \in Pos |-> 0]
  /\ open = [p \in Pos |-> TRUE]

-----------------------------------------------------------------------------
(* Run, up to the start of its goroutines *)

\* A connection that is not broken, or that Redial replaces, takes part.
Include ==
  /\ pc = "prepare" /\ scan <= NumConns
  /\ conns' = Append(conns, scan)
  /\ broken' = [broken EXCEPT ![scan] = FALSE]
  /\ scan' = scan + 1
  /\ UNCHANGED <<pc, done, snapTimes, snapBytes, expired>>
  /\ UNCHANGED <<writerVars, readerVars, wireVars>>

\* Redial failed: the connection is left out.
LeaveOut ==
  /\ pc = "prepare" /\ scan <= NumConns
  /\ broken[scan] /\ "redial" \in Faults
  /\ scan' = scan + 1
  /\ UNCHANGED <<pc, conns, done, snapTimes, snapBytes>>
  /\ UNCHANGED <<writerVars, readerVars, wireVars, connVars>>

\* The readers, the duration's timer and the writers start.
Start ==
  /\ pc = "prepare" /\ scan > NumConns
  /\ pc' = "writers"
  /\ rpc' = [p \in Pos |-> IF p \in Used THEN "read" ELSE "idle"]
  /\ wpc' = [t \in Teams |-> "select"]
  /\ UNCHANGED <<scan, conns, done, snapTimes, snapBytes, at, ticks>>
  /\ UNCHANGED <<sendCnt, sendTimes, written>>
  /\ UNCHANGED <<recvCnt, answered, recvTimes, recvBytes, wireVars, connVars>>

\* time.AfterFunc closes done.
DurationUp ==
  /\ pc = "writers" /\ ~done
  /\ done' = TRUE
  /\ UNCHANGED <<pc, scan, conns, snapTimes, snapBytes>>
  /\ UNCHANGED <<writerVars, readerVars, wireVars, connVars>>

-----------------------------------------------------------------------------
(* A writer: its select loop, and doOnce over its team *)

\* doOnce goes on to the team's next connection after position p, or returns.
NextOfTeam(t, p) ==
  LET rest == {q \in Team(t) : q > p}
  IN  \/ /\ rest = {}
         /\ wpc' = [wpc EXCEPT ![t] = "select"]
         /\ at' = [at EXCEPT ![t] = 0]
      \/ \E q \in rest :
           /\ \A r \in rest : q <= r
           /\ wpc' = [wpc EXCEPT ![t] = "check"]
           /\ at' = [at EXCEPT ![t] = q]

\* With done closed and a tick waiting, select takes either.
TakeTick(t) ==
  /\ wpc[t] = "select" /\ ticks[t] < MaxTicks
  /\ ticks' = [ticks EXCEPT ![t] = @ + 1]
  /\ NextOfTeam(t, 0)
  /\ UNCHANGED <<sendCnt, sendTimes, written>>
  /\ UNCHANGED <<mainVars, readerVars, wireVars, connVars>>

StopWriter(t) ==
  /\ wpc[t] = "select" /\ done
  /\ wpc' = [wpc EXCEPT ![t] = "done"]
  /\ UNCHANGED <<at, ticks, sendCnt, sendTimes, written>>
  /\ UNCHANGED <<mainVars, readerVars, wireVars, connVars>>

\* Mutant of InFlightLimitReached: > for >=.
MutLimit(p) == sendCnt[p] - recvCnt[p] > Batch * maxBatchesInFlight

\* Only this writer adds to sendCnt, so the two loads are one step.
InFlightLimitReached(p) ==
  sendCnt[p] - recvCnt[p] >= Batch * maxBatchesInFlight

Check(t) ==
  /\ wpc[t] = "check"
  /\ \/ /\ InFlightLimitReached(at[t])
        /\ NextOfTeam(t, at[t])
     \/ /\ ~InFlightLimitReached(at[t])
        /\ wpc' = [wpc EXCEPT ![t] = "write"]
        /\ UNCHANGED at
  /\ UNCHANGED <<ticks, sendCnt, sendTimes, written>>
  /\ UNCHANGED <<mainVars, readerVars, wireVars, connVars>>

\* c.Write blocks until the socket has taken the whole batch.  A socket takes
\* data even after the peer has gone, and the data is lost.
WriteRequest(t) ==
  LET p == at[t]
  IN  /\ wpc[t] = "write" /\ written[p] < Batch
      /\ written' = [written EXCEPT ![p] = @ + 1]
      /\ \/ /\ open[p] /\ toServer[p] < SockCap
            /\ toServer' = [toServer EXCEPT ![p] = @ + 1]
         \/ ~open[p] /\ UNCHANGED toServer
  /\ UNCHANGED <<wpc, at, ticks, sendCnt, sendTimes, toClient, open>>
  /\ UNCHANGED <<mainVars, readerVars, connVars>>

\* Mutant of CountBatch: one batch counted as one request in the report.
MutCountBatch(t) ==
  LET p == at[t]
  IN  /\ wpc[t] = "write" /\ written[p] = Batch
      /\ written' = [written EXCEPT ![p] = 0]
      /\ sendCnt' = [sendCnt EXCEPT ![p] = @ + Batch]
      /\ sendTimes' = sendTimes + 1
      /\ NextOfTeam(t, p)
  /\ UNCHANGED ticks
  /\ UNCHANGED <<mainVars, readerVars, wireVars, connVars>>

\* Write returned no error.  Nothing reads sendTimes before the writers have
\* ended, nor another's sendCnt, so the three adds are one step.
CountBatch(t) ==
  LET p == at[t]
  IN  /\ wpc[t] = "write" /\ written[p] = Batch
      /\ written' = [written EXCEPT ![p] = 0]
      /\ sendCnt' = [sendCnt EXCEPT ![p] = @ + Batch]
      /\ sendTimes' = sendTimes + Batch
      /\ NextOfTeam(t, p)
  /\ UNCHANGED ticks
  /\ UNCHANGED <<mainVars, readerVars, wireVars, connVars>>

\* Write failed, maybe after part of the batch: none of it is counted.
WriteFails(t) ==
  LET p == at[t]
  IN  /\ wpc[t] = "write" /\ ~open[p] /\ written[p] < Batch
      /\ written' = [written EXCEPT ![p] = 0]
      /\ NextOfTeam(t, p)
  /\ UNCHANGED <<ticks, sendCnt, sendTimes>>
  /\ UNCHANGED <<mainVars, readerVars, wireVars, connVars>>

-----------------------------------------------------------------------------
(* A reader: readResponses *)

ReadResponse(p) ==
  /\ rpc[p] = "read" /\ toClient[p] > 0
  /\ toClient' = [toClient EXCEPT ![p] = @ - 1]
  /\ rpc' = [rpc EXCEPT ![p] = "conn"]
  /\ UNCHANGED <<recvCnt, answered, recvTimes, recvBytes, toServer, open>>
  /\ UNCHANGED <<mainVars, writerVars, connVars>>

ReaderEnds(p) ==
  /\ rpc' = [rpc EXCEPT ![p] = "done"]
  /\ broken' = [broken EXCEPT ![conns[p]] = TRUE]
  /\ UNCHANGED <<recvCnt, answered, recvTimes, recvBytes>>

\* The peer has closed, or the deadline has passed.  A response that is
\* already in the bufio.Reader can still be read after the deadline.
ReadFails(p) ==
  /\ rpc[p] = "read"
  /\ expired[p] \/ (~open[p] /\ toClient[p] = 0)
  /\ ReaderEnds(p)
  /\ UNCHANGED <<mainVars, writerVars, wireVars, expired>>

MalformedResponse(p) ==
  /\ rpc[p] = "read" /\ toClient[p] > 0 /\ "malformed" \in Faults
  /\ toClient' = [toClient EXCEPT ![p] = @ - 1]
  /\ ReaderEnds(p)
  /\ UNCHANGED <<mainVars, writerVars, toServer, open, expired>>

CountConn(p) ==
  /\ rpc[p] = "conn"
  /\ recvCnt' = [recvCnt EXCEPT ![p] = @ + 1]
  /\ rpc' = [rpc EXCEPT ![p] = "answered"]
  /\ UNCHANGED <<answered, recvTimes, recvBytes>>
  /\ UNCHANGED <<mainVars, writerVars, wireVars, connVars>>

\* Mutant of CountAnswered: a good response is taken for a bad one.
MutCountAnswered(p) ==
  /\ rpc[p] = "answered"
  /\ answered' = answered + 1
  /\ rpc' = [rpc EXCEPT ![p] = "read"]
  /\ UNCHANGED <<recvCnt, recvTimes, recvBytes>>
  /\ UNCHANGED <<mainVars, writerVars, wireVars, connVars>>

\* answered counts every response; the other two only the good ones.
CountAnswered(p) ==
  /\ rpc[p] = "answered"
  /\ answered' = answered + 1
  /\ \/ rpc' = [rpc EXCEPT ![p] = "times"]
     \/ "bad" \in Faults /\ rpc' = [rpc EXCEPT ![p] = "read"]
  /\ UNCHANGED <<recvCnt, recvTimes, recvBytes>>
  /\ UNCHANGED <<mainVars, writerVars, wireVars, connVars>>

\* Mutant of CountTimes: the body is not counted.
MutCountTimes(p) ==
  /\ rpc[p] = "times"
  /\ recvTimes' = recvTimes + 1
  /\ rpc' = [rpc EXCEPT ![p] = "read"]
  /\ UNCHANGED <<recvCnt, answered, recvBytes>>
  /\ UNCHANGED <<mainVars, writerVars, wireVars, connVars>>

CountTimes(p) ==
  /\ rpc[p] = "times"
  /\ recvTimes' = recvTimes + 1
  /\ rpc' = [rpc EXCEPT ![p] = "bytes"]
  /\ UNCHANGED <<recvCnt, answered, recvBytes>>
  /\ UNCHANGED <<mainVars, writerVars, wireVars, connVars>>

\* recvBytes is counted in bodies.
CountBytes(p) ==
  /\ rpc[p] = "bytes"
  /\ recvBytes' = recvBytes + 1
  /\ rpc' = [rpc EXCEPT ![p] = "read"]
  /\ UNCHANGED <<recvCnt, answered, recvTimes>>
  /\ UNCHANGED <<mainVars, writerVars, wireVars, connVars>>

-----------------------------------------------------------------------------
(* Run, after the writers *)

Goto(from, to) == pc = from /\ pc' = to

WaitWriters ==
  /\ Goto("writers", "grace")
  /\ \A t \in Teams : wpc[t] = "done"
  /\ UNCHANGED <<scan, conns, done, snapTimes, snapBytes>>
  /\ UNCHANGED <<writerVars, readerVars, wireVars, connVars>>

AllAnswered == answered >= sendTimes

GraceCheck ==
  /\ \/ AllAnswered  /\ Goto("grace", "loadTimes")
     \/ ~AllAnswered /\ Goto("grace", "poll")
  /\ UNCHANGED <<scan, conns, done, snapTimes, snapBytes>>
  /\ UNCHANGED <<writerVars, readerVars, wireVars, connVars>>

\* time.After(time.Millisecond)
GracePoll ==
  /\ Goto("poll", "grace")
  /\ UNCHANGED <<scan, conns, done, snapTimes, snapBytes>>
  /\ UNCHANGED <<writerVars, readerVars, wireVars, connVars>>

\* grace.C
GraceExpires ==
  /\ Goto("poll", "loadTimes")
  /\ UNCHANGED <<scan, conns, done, snapTimes, snapBytes>>
  /\ UNCHANGED <<writerVars, readerVars, wireVars, connVars>>

LoadTimes ==
  /\ Goto("loadTimes", "loadBytes")
  /\ snapTimes' = recvTimes
  /\ UNCHANGED <<scan, conns, done, snapBytes>>
  /\ UNCHANGED <<writerVars, readerVars, wireVars, connVars>>

LoadBytes ==
  /\ Goto("loadBytes", "deadline")
  /\ snapBytes' = recvBytes
  /\ UNCHANGED <<scan, conns, done, snapTimes>>
  /\ UNCHANGED <<writerVars, readerVars, wireVars, connVars>>

\* Mutant of SetDeadlines: no deadline is set.
MutSetDeadlines ==
  /\ Goto("deadline", "readers")
  /\ UNCHANGED <<scan, conns, done, snapTimes, snapBytes, connVars>>
  /\ UNCHANGED <<writerVars, readerVars, wireVars>>

\* The loop over conns is one step: a reader whose deadline is set may go on
\* for a while anyway.
SetDeadlines ==
  /\ Goto("deadline", "readers")
  /\ expired' = [p \in Pos |-> p \in Used]
  /\ UNCHANGED <<scan, conns, done, snapTimes, snapBytes, broken>>
  /\ UNCHANGED <<writerVars, readerVars, wireVars>>

\* Mutant of ReadersEnded: Run does not wait for its readers.
MutReadersEnded == TRUE

ReadersEnded == \A p \in Used : rpc[p] = "done"

\* readers.Wait, and the snapshot becomes what Report reports.
WaitReaders ==
  /\ Goto("readers", "done")
  /\ ReadersEnded
  /\ recvTimes' = snapTimes
  /\ recvBytes' = snapBytes
  /\ UNCHANGED <<scan, conns, done, snapTimes, snapBytes, rpc, recvCnt, answered>>
  /\ UNCHANGED <<writerVars, wireVars, connVars>>

-----------------------------------------------------------------------------
(* The server and the network, as the client sees them *)

\* Requests are answered in order, so the number on the wire is enough.
Serve(p) ==
  /\ p \in Used /\ open[p] /\ toServer[p] > 0 /\ toClient[p] < SockCap
  /\ toServer' = [toServer EXCEPT ![p] = @ - 1]
  /\ toClient' = [toClient EXCEPT ![p] = @ + 1]
  /\ UNCHANGED <<mainVars, writerVars, readerVars, connVars, open>>

\* The connection is closed, or reset, which also drops what was not read.
PeerCloses(p) ==
  /\ p \in Used /\ open[p] /\ "close" \in Faults
  /\ pc # "done"
  /\ open' = [open EXCEPT ![p] = FALSE]
  /\ toServer' = [toServer EXCEPT ![p] = 0]
  /\ \E left \in {0, toClient[p]} : toClient' = [toClient EXCEPT ![p] = left]
  /\ UNCHANGED <<mainVars, writerVars, readerVars, connVars>>

\* Run has returned.
Terminated == pc = "done" /\ UNCHANGED vars

-----------------------------------------------------------------------------

Main ==
  \/ Include \/ LeaveOut \/ Start \/ WaitWriters
  \/ GraceCheck \/ GracePoll \/ GraceExpires
  \/ LoadTimes \/ LoadBytes \/ SetDeadlines \/ WaitReaders

Writer(t) ==
  TakeTick(t) \/ StopWriter(t) \/ Check(t)
    \/ WriteRequest(t) \/ CountBatch(t) \/ WriteFails(t)

Reader(p) ==
  ReadResponse(p) \/ ReadFails(p) \/ MalformedResponse(p)
    \/ CountConn(p) \/ CountAnswered(p) \/ CountTimes(p) \/ CountBytes(p)

Next ==
  \/ Main
  \/ DurationUp
  \/ \E t \in Teams : Writer(t)
  \/ \E p \in Pos : Reader(p) \/ Serve(p) \/ PeerCloses(p)
  \/ Terminated

Spec == Init /\ [][Next]_vars

\* The goroutines run, the timers fire.  The grace timer competes with the
\* poll's own timer every millisecond, so it needs strong fairness.
ClientFairness ==
  /\ WF_vars(Main) /\ SF_vars(GraceExpires) /\ WF_vars(DurationUp)
  /\ \A t \in Teams : WF_vars(Writer(t))
  /\ \A p \in Pos : WF_vars(Reader(p))

\* A server that keeps answering what it was sent.
ServerFairness == \A p \in Pos : WF_vars(Serve(p))

FairSpec == Spec /\ ClientFairness /\ ServerFairness

-----------------------------------------------------------------------------
(* Properties *)

MainTypes ==
  /\ pc \in {"prepare", "writers", "grace", "poll", "loadTimes", "loadBytes",
             "deadline", "readers", "done"}
  /\ scan \in 1..(NumConns + 1)
  /\ conns \in Seq(Pos) /\ Len(conns) < scan
  /\ done \in BOOLEAN
  /\ snapTimes \in Nat /\ snapBytes \in Nat

WriterTypes ==
  /\ wpc \in [Teams -> {"idle", "select", "check", "write", "done"}]
  /\ at \in [Teams -> {0} \cup Pos]
  /\ \A t \in Teams : wpc[t] \in {"check", "write"} => at[t] \in Pos
  /\ ticks \in [Teams -> 0..MaxTicks]
  /\ sendCnt \in [Pos -> Nat] /\ sendTimes \in Nat
  /\ written \in [Pos -> 0..Batch]

ReaderTypes ==
  /\ rpc \in [Pos -> {"idle", "read", "conn", "answered", "times", "bytes", "done"}]
  /\ recvCnt \in [Pos -> Nat]
  /\ answered \in Nat /\ recvTimes \in Nat /\ recvBytes \in Nat

WireTypes ==
  /\ toServer \in [Pos -> Nat] /\ toClient \in [Pos -> Nat]
  /\ open \in [Pos -> BOOLEAN]

ConnTypes == broken \in [Pos -> BOOLEAN] /\ expired \in [Pos -> BOOLEAN]

\* Every variable has its type; how far the counters can be apart is the
\* business of the properties below.
TypeOK == MainTypes /\ WriterTypes /\ ReaderTypes /\ WireTypes /\ ConnTypes

\* A response the reader has parsed and not yet taken off recvCnt.
InHand(p) == IF rpc[p] = "conn" THEN 1 ELSE 0

Unanswered(p) == toServer[p] + toClient[p] + InHand(p)

\* What the skip in doOnce achieves: however the writer, the server and the
\* reader interleave, a connection never has more than five batches less one
\* request unanswered, because the check before a write sees at most four
\* batches less one request.
InFlightBound ==
  \A p \in Used : Unanswered(p) <= (maxBatchesInFlight + 1) * Batch - 1

\* Once Run has returned, nothing changes what Report reports: no reader is
\* left that could still count a late response on top of the snapshot.
ReportFrozen ==
  [][pc = "done" => UNCHANGED <<recvTimes, recvBytes, sendTimes>>]_vars

\* The snapshot is two loads while the readers go on counting.  The bodies it
\* holds are at most one per reader behind the responses it holds.
SnapshotSkew ==
  pc \in {"deadline", "readers", "done"} =>
    snapBytes + Len(conns) >= snapTimes

\* A report may count more responses than requests, since a failed write may
\* have sent part of a batch, but no more than that part per connection.
ReceivedBound ==
  pc = "done" =>
    recvTimes <= sendTimes
                   + (Batch - 1) * Cardinality({p \in Used : ~open[p]})

\* When every request was answered well and seen by the grace loop, the
\* snapshot misses at most the response each reader was still counting.
SnapshotLosesOnePerReader ==
  [][pc = "loadTimes" /\ pc' = "loadBytes" /\ answered >= sendTimes =>
       snapTimes' + Len(conns) >= sendTimes]_vars

\* Run returns: every writer and every reader ends.
RunReturns == <>(pc = "done")

=============================================================================
