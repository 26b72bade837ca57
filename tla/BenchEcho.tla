------------------------------ MODULE BenchEcho ------------------------------
(***************************************************************************)
(* The BenchEcho benchmark of the Go client                                *)
(* (benchcli-go/benchecho/benchecho.go): workers take a connection from    *)
(* the channel chConns, dial it again if it is broken, write one request,  *)
(* read one response, and put the connection back.  perf's Calculator,     *)
(* which is outside the repository, runs Concurrency workers until the     *)
(* calls it has to make are used up, first to warm up and then to measure. *)
(*                                                                         *)
(* Requests and responses are counted, not named: a connection's stream is *)
(* in order, so a response belongs to the request being waited for exactly *)
(* when nothing older is left on the stream.                               *)
(***************************************************************************)
EXTENDS Integers, Sequences, FiniteSets

CONSTANTS
  Conns,        \* be.Conns, the connections the Connections phase left
  Workers,      \* be.Concurrency goroutines; init clamps it to len(be.Conns)
  WarmupTimes,  \* calls of doOnce in the warmup
  Total,        \* calls of doOnce in the benchmark
  Faults        \* what may go wrong: a subset of FaultKinds

\* "close": the peer ends or resets a connection; "malformed": a response the
\* parser refuses; "bad": a well-formed response with another status or body
\* than doOnce wants; "redial": Redial fails.
FaultKinds == {"close", "malformed", "bad", "redial"}

ASSUME BenchEchoAssumption ==
  /\ IsFiniteSet(Conns) /\ IsFiniteSet(Workers)
  /\ Workers # {} /\ Cardinality(Workers) <= Cardinality(Conns)
  /\ WarmupTimes \in Nat \ {0} /\ Total \in Nat
  /\ Faults \subseteq FaultKinds

VARIABLES
  phase,    \* "warmup", "bench", "done"
  left,     \* calls of doOnce not yet started in this phase
  success, failed,  \* the Calculator's counters
  ch,       \* chConns
  wpc,      \* where each worker is
  held,     \* the set with the connection a worker has, or the empty set
  ok,       \* whether the call a worker is ending returned nil
  broken,   \* Conn.Broken
  closed,   \* whether the client has closed the connection's socket
  open,     \* whether the peer still has the connection
  toServer, \* requests on the wire or in the server
  toClient  \* responses the client has not read

calcVars   == <<phase, left, success, failed>>
workerVars == <<wpc, held, ok>>
connVars   == <<broken, closed>>
wireVars   == <<open, toServer, toClient>>
vars == <<calcVars, ch, workerVars, connVars, wireVars>>

\* init puts every connection into the channel.
Init ==
  /\ phase = "warmup" /\ left = WarmupTimes
  /\ success = 0 /\ failed = 0
  /\ ch \in [1..Cardinality(Conns) -> Conns]
  /\ \A i, j \in DOMAIN ch : ch[i] = ch[j] => i = j
  /\ wpc = [w \in Workers |-> "idle"]
  /\ held = [w \in Workers |-> {}]
  /\ ok = [w \in Workers |-> FALSE]
  /\ broken = [c \in Conns |-> FALSE]
  /\ closed = [c \in Conns |-> FALSE]
  /\ open = [c \in Conns |-> TRUE]
  /\ toServer = [c \in Conns |-> 0]
  /\ toClient = [c \in Conns |-> 0]

-----------------------------------------------------------------------------
(* The Calculator *)

\* A worker makes the next call.
StartCall(w) ==
  /\ phase # "done" /\ wpc[w] = "idle" /\ left > 0
  /\ left' = left - 1
  /\ wpc' = [wpc EXCEPT ![w] = "take"]
  /\ UNCHANGED <<phase, success, failed, ch, held, ok, connVars, wireVars>>

\* Mutant of PhaseEnds: the calls still running are not waited for.
MutPhaseEnds ==
  /\ left = 0
  /\ \/ phase = "warmup" /\ phase' = "bench" /\ left' = Total
     \/ phase = "bench" /\ phase' = "done" /\ left' = 0
  /\ UNCHANGED <<success, failed, ch, workerVars, connVars, wireVars>>

\* Warmup has returned, Benchmark starts; or Benchmark has returned.
PhaseEnds ==
  /\ left = 0 /\ \A w \in Workers : wpc[w] = "idle"
  /\ \/ phase = "warmup" /\ phase' = "bench" /\ left' = Total
     \/ phase = "bench" /\ phase' = "done" /\ left' = 0
  /\ UNCHANGED <<success, failed, ch, workerVars, connVars, wireVars>>

-----------------------------------------------------------------------------
(* doOnce *)

\* Mutant of TakeConn: the connection stays in the channel.
MutTakeConnShared(w) ==
  /\ wpc[w] = "take" /\ ch # <<>>
  /\ held' = [held EXCEPT ![w] = {Head(ch)}]
  /\ wpc' = [wpc EXCEPT ![w] = IF broken[Head(ch)] THEN "redial" ELSE "write"]
  /\ UNCHANGED <<calcVars, ch, ok, connVars, wireVars>>

\* Mutant of TakeConn: Broken is not looked at.
MutTakeConnBroken(w) ==
  /\ wpc[w] = "take" /\ ch # <<>>
  /\ held' = [held EXCEPT ![w] = {Head(ch)}]
  /\ ch' = Tail(ch)
  /\ wpc' = [wpc EXCEPT ![w] = "write"]
  /\ UNCHANGED <<calcVars, ok, connVars, wireVars>>

\* conn := <-be.chConns
TakeConn(w) ==
  /\ wpc[w] = "take" /\ ch # <<>>
  /\ held' = [held EXCEPT ![w] = {Head(ch)}]
  /\ ch' = Tail(ch)
  /\ wpc' = [wpc EXCEPT ![w] = IF broken[Head(ch)] THEN "redial" ELSE "write"]
  /\ UNCHANGED <<calcVars, ok, connVars, wireVars>>

\* The call returns err, which is nil when result is TRUE; the deferred put
\* comes first.
Return(w, result) ==
  /\ ok' = [ok EXCEPT ![w] = result]
  /\ wpc' = [wpc EXCEPT ![w] = "put"]
  /\ UNCHANGED held

\* Mutant of RedialCloses: Broken is cleared before the dial.
MutRedialCloses(w) ==
  \E c \in held[w] :
    /\ wpc[w] = "redial" /\ ~closed[c]
    /\ closed' = [closed EXCEPT ![c] = TRUE]
    /\ broken' = [broken EXCEPT ![c] = FALSE]
    /\ open' = [open EXCEPT ![c] = FALSE]
    /\ toServer' = [toServer EXCEPT ![c] = 0]
    /\ toClient' = [toClient EXCEPT ![c] = 0]
    /\ UNCHANGED <<calcVars, ch, workerVars>>

\* Redial closes the old socket before it dials.
RedialCloses(w) ==
  \E c \in held[w] :
    /\ wpc[w] = "redial" /\ ~closed[c]
    /\ closed' = [closed EXCEPT ![c] = TRUE]
    /\ open' = [open EXCEPT ![c] = FALSE]
    /\ toServer' = [toServer EXCEPT ![c] = 0]
    /\ toClient' = [toClient EXCEPT ![c] = 0]
    /\ UNCHANGED <<calcVars, ch, workerVars, broken>>

\* The new connection's first request was answered, and nothing else is on it.
RedialSucceeds(w) ==
  \E c \in held[w] :
    /\ wpc[w] = "redial" /\ closed[c]
    /\ closed' = [closed EXCEPT ![c] = FALSE]
    /\ broken' = [broken EXCEPT ![c] = FALSE]
    /\ open' = [open EXCEPT ![c] = TRUE]
    /\ wpc' = [wpc EXCEPT ![w] = "write"]
    /\ UNCHANGED <<calcVars, ch, held, ok, toServer, toClient>>

\* Mutant of RedialFails: the connection is not put back.
MutRedialFails(w) ==
  \E c \in held[w] :
    /\ wpc[w] = "redial" /\ closed[c] /\ "redial" \in Faults
    /\ held' = [held EXCEPT ![w] = {}]
    /\ wpc' = [wpc EXCEPT ![w] = "idle"]
    /\ UNCHANGED <<calcVars, ch, ok, connVars, wireVars>>

RedialFails(w) ==
  \E c \in held[w] :
    /\ wpc[w] = "redial" /\ closed[c] /\ "redial" \in Faults
    /\ Return(w, FALSE)
    /\ UNCHANGED <<calcVars, ch, connVars, wireVars>>

\* A socket takes the request even when the peer has gone, and it is lost.
WriteRequest(w) ==
  \E c \in held[w] :
    /\ wpc[w] = "write" /\ ~closed[c]
    /\ wpc' = [wpc EXCEPT ![w] = "read"]
    /\ toServer' = [toServer EXCEPT ![c] = IF open[c] THEN @ + 1 ELSE @]
    /\ UNCHANGED <<calcVars, ch, held, ok, connVars, open, toClient>>

WriteFails(w) ==
  \E c \in held[w] :
    /\ wpc[w] = "write" /\ (closed[c] \/ ~open[c])
    /\ broken' = [broken EXCEPT ![c] = TRUE]
    /\ Return(w, FALSE)
    /\ UNCHANGED <<calcVars, ch, closed, wireVars>>

\* ReadResponse returned without an error: the call fails if the status or
\* the body is not the one that was asked for.
ReadResponse(w) ==
  \E c \in held[w] :
    /\ wpc[w] = "read" /\ toClient[c] > 0
    /\ toClient' = [toClient EXCEPT ![c] = @ - 1]
    /\ \/ Return(w, TRUE)
       \/ "bad" \in Faults /\ Return(w, FALSE)
    /\ UNCHANGED <<calcVars, ch, connVars, open, toServer>>

\* Mutant of ReadFails: the connection is not marked broken.
MutReadFails(w) ==
  \E c \in held[w] :
    /\ wpc[w] = "read"
    /\ \/ ~open[c] /\ toClient[c] = 0
       \/ toClient[c] > 0 /\ "malformed" \in Faults
    /\ Return(w, FALSE)
    /\ UNCHANGED <<calcVars, ch, connVars, wireVars>>

\* The stream ended, or the response is malformed, in which case the rest of
\* it may still be there.
ReadFails(w) ==
  \E c \in held[w] :
    /\ wpc[w] = "read"
    /\ \/ ~open[c] /\ toClient[c] = 0
       \/ toClient[c] > 0 /\ "malformed" \in Faults
    /\ broken' = [broken EXCEPT ![c] = TRUE]
    /\ Return(w, FALSE)
    /\ UNCHANGED <<calcVars, ch, closed, wireVars>>

\* The deferred send, and the Calculator counts the result when it measures.
PutConn(w) ==
  /\ wpc[w] = "put" /\ Len(ch) < Cardinality(Conns)
  /\ \E c \in held[w] : ch' = Append(ch, c)
  /\ held' = [held EXCEPT ![w] = {}]
  /\ wpc' = [wpc EXCEPT ![w] = "idle"]
  /\ success' = success + (IF phase = "bench" /\ ok[w] THEN 1 ELSE 0)
  /\ failed' = failed + (IF phase = "bench" /\ ~ok[w] THEN 1 ELSE 0)
  /\ UNCHANGED <<phase, left, ok, connVars, wireVars>>

-----------------------------------------------------------------------------
(* The server and the network *)

Serve(c) ==
  /\ open[c] /\ toServer[c] > 0
  /\ toServer' = [toServer EXCEPT ![c] = @ - 1]
  /\ toClient' = [toClient EXCEPT ![c] = @ + 1]
  /\ UNCHANGED <<calcVars, ch, workerVars, connVars, open>>

PeerCloses(c) ==
  /\ open[c] /\ "close" \in Faults /\ phase # "done"
  /\ open' = [open EXCEPT ![c] = FALSE]
  /\ toServer' = [toServer EXCEPT ![c] = 0]
  /\ \E kept \in {0, toClient[c]} : toClient' = [toClient EXCEPT ![c] = kept]
  /\ UNCHANGED <<calcVars, ch, workerVars, connVars>>

Terminated == phase = "done" /\ UNCHANGED vars

-----------------------------------------------------------------------------

Redial(w) == RedialCloses(w) \/ RedialSucceeds(w) \/ RedialFails(w)

Worker(w) ==
  \/ StartCall(w) \/ TakeConn(w) \/ Redial(w)
  \/ WriteRequest(w) \/ WriteFails(w) \/ ReadResponse(w) \/ ReadFails(w)
  \/ PutConn(w)

Next ==
  \/ PhaseEnds
  \/ \E w \in Workers : Worker(w)
  \/ \E c \in Conns : Serve(c) \/ PeerCloses(c)
  \/ Terminated

Spec == Init /\ [][Next]_vars

\* The goroutines run, and the server goes on answering.
Fairness ==
  /\ WF_vars(PhaseEnds)
  /\ \A w \in Workers : WF_vars(Worker(w))
  /\ \A c \in Conns : WF_vars(Serve(c))

FairSpec == Spec /\ Fairness

-----------------------------------------------------------------------------
(* Properties *)

InChannel(c) == {i \in DOMAIN ch : ch[i] = c}
Holders(c) == {w \in Workers : c \in held[w]}

\* Every variable has its type.
TypeOK ==
  /\ phase \in {"warmup", "bench", "done"}
  /\ left \in Nat /\ success \in Nat /\ failed \in Nat
  /\ ch \in Seq(Conns)
  /\ wpc \in [Workers -> {"idle", "take", "redial", "write", "read", "put"}]
  /\ held \in [Workers -> SUBSET Conns]
  /\ ok \in [Workers -> BOOLEAN]
  /\ broken \in [Conns -> BOOLEAN] /\ closed \in [Conns -> BOOLEAN]
  /\ open \in [Conns -> BOOLEAN]
  /\ toServer \in [Conns -> Nat] /\ toClient \in [Conns -> Nat]

\* A connection is in the channel once or with one worker, never both, never
\* lost: the deferred put runs on every path of doOnce, failed redial included.
ConnConserved ==
  \A c \in Conns : Cardinality(InChannel(c)) + Cardinality(Holders(c)) = 1

\* The channel has room for every put, so ending a call never blocks.
PutNeverBlocks ==
  \A w \in Workers : wpc[w] = "put" => Len(ch) < Cardinality(Conns)

\* Broken says all there is to say: a connection that is not broken and not
\* being used has no request outstanding and no response left to read, so the
\* next response on it is the answer to the next request.
AlignedUnlessBroken ==
  \A c \in Conns :
    ~broken[c] /\ (\A w \in Holders(c) : wpc[w] # "read") =>
      toServer[c] + toClient[c] = 0

\* README.md:80: "with one request in flight per connection".
OneInFlight == \A c \in Conns : toServer[c] + toClient[c] <= 1

\* No request is written to a socket the client itself has closed, which a
\* failed Redial leaves behind.
NoUseAfterClose ==
  \A w \in Workers, c \in Conns :
    wpc[w] \in {"write", "read"} /\ c \in held[w] => ~closed[c]

\* When Benchmark returns, every call was counted once and every connection
\* is back for the next benchmark.
AllCounted ==
  phase = "done" =>
    /\ success + failed = Total
    /\ Len(ch) = Cardinality(Conns)

\* The channel and the Broken flag together give workers what ConnPool says.
Pool == INSTANCE ConnPool WITH
  owners <- [c \in Conns |-> Holders(c)],
  pending <- [c \in Conns |-> toServer[c] + toClient[c]],
  up <- open

\* connections.go:21-24, 30-32: one owner at a time, and no request on a stream
\* that still carries something of a failed one: Redial has to replace it.
ImplementsPool == Pool!PoolSpec

\* Every call ends and the benchmark is over, if the server answers or closes.
RunReturns == <>(phase = "done")

=============================================================================
