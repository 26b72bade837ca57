----------------------------- MODULE Connections -----------------------------
(***************************************************************************)
(* The Connections benchmark of the Go client                              *)
(* (benchcli-go/connections/connection.go): workers dial NumConnections    *)
(* connections, each to the next of the server's addresses, have one GET   *)
(* answered on each, and retry a dial that failed on the address whose     *)
(* turn it is by then.  Every dial is under a deadline.  The connections   *)
(* that were made are what the two later benchmarks run on.                *)
(*                                                                         *)
(* serverIdx is a uint32 and its wrap-around, four billion dials away, is  *)
(* left out.                                                               *)
(***************************************************************************)
EXTENDS Integers, Sequences, FiniteSets

CONSTANTS
  Workers,         \* cs.Concurrency goroutines
  NumConnections,  \* calls of doOnce
  NumAddrs,        \* len(cs.serverAddrs)
  RetryTimes,      \* dials one call of doOnce makes at most
  Faults           \* what may fail: a subset of FaultKinds

\* "dial": net.DialTimeout fails; "get": the request is not answered with a
\* 200 in time.
FaultKinds == {"dial", "get"}

ASSUME ConnectionsAssumption ==
  /\ IsFiniteSet(Workers) /\ Workers # {}
  /\ NumConnections \in Nat \ {0} /\ NumAddrs \in Nat \ {0}
  /\ RetryTimes \in Nat \ {0}
  /\ Faults \subseteq FaultKinds

Addrs == 0..(NumAddrs - 1)

VARIABLES
  left,       \* calls of doOnce not yet started
  success, failed,  \* the Calculator's counters
  serverIdx,  \* how many dials were given an address
  conns,      \* cs.conns, by Addr
  wpc,        \* where each worker is
  tries,      \* the dials the worker's call has made
  addr,       \* the address of the worker's dial
  sockets     \* TCP connections open on the client's side

vars == <<left, success, failed, serverIdx, conns, wpc, tries, addr, sockets>>

Init ==
  /\ left = NumConnections
  /\ success = 0 /\ failed = 0
  /\ serverIdx = 0
  /\ conns = <<>>
  /\ wpc = [w \in Workers |-> "idle"]
  /\ tries = [w \in Workers |-> 0]
  /\ addr = [w \in Workers |-> 0]
  /\ sockets = 0

Move(w, from, to) == wpc[w] = from /\ wpc' = [wpc EXCEPT ![w] = to]

StartCall(w) ==
  /\ left > 0 /\ Move(w, "idle", "next")
  /\ left' = left - 1
  /\ tries' = [tries EXCEPT ![w] = 0]
  /\ UNCHANGED <<success, failed, serverIdx, conns, addr, sockets>>

\* Mutant of PickAddr: each call goes through the addresses on its own.
MutPickAddr(w) ==
  /\ Move(w, "next", "dial")
  /\ serverIdx' = serverIdx + 1
  /\ tries' = [tries EXCEPT ![w] = @ + 1]
  /\ addr' = [addr EXCEPT ![w] = tries'[w] % NumAddrs]
  /\ UNCHANGED <<left, success, failed, conns, sockets>>

\* Mutant of PickAddr: the number of dials is not bounded.
MutPickAddrAgain(w) ==
  /\ Move(w, "next", "dial")
  /\ serverIdx' = (serverIdx + 1) % NumAddrs
  /\ addr' = [addr EXCEPT ![w] = serverIdx']
  /\ UNCHANGED <<left, success, failed, conns, tries, sockets>>

\* The turn is taken atomically, so no two dials share one.
PickAddr(w) ==
  /\ Move(w, "next", "dial")
  /\ serverIdx' = serverIdx + 1
  /\ addr' = [addr EXCEPT ![w] = serverIdx' % NumAddrs]
  /\ tries' = [tries EXCEPT ![w] = @ + 1]
  /\ UNCHANGED <<left, success, failed, conns, sockets>>

DialConnects(w) ==
  /\ Move(w, "dial", "get")
  /\ sockets' = sockets + 1
  /\ UNCHANGED <<left, success, failed, serverIdx, conns, tries, addr>>

\* Mutant of RetryOrFail: every dial that failed is counted.
MutRetryCounted(w) ==
  /\ wpc' = [wpc EXCEPT ![w] = IF tries[w] < RetryTimes THEN "next" ELSE "idle"]
  /\ failed' = failed + 1

\* A dial failed: another try, or the call fails with the last error.
RetryOrFail(w) ==
  \/ /\ tries[w] < RetryTimes
     /\ wpc' = [wpc EXCEPT ![w] = "next"] /\ UNCHANGED failed
  \/ /\ tries[w] >= RetryTimes
     /\ wpc' = [wpc EXCEPT ![w] = "idle"] /\ failed' = failed + 1

DialFails(w) ==
  /\ wpc[w] = "dial" /\ "dial" \in Faults
  /\ RetryOrFail(w)
  /\ UNCHANGED <<left, success, serverIdx, conns, tries, addr, sockets>>

\* Mutant of GetFails: the socket is not closed.
MutGetFailsOpen(w) ==
  /\ wpc[w] = "get" /\ "get" \in Faults
  /\ RetryOrFail(w)
  /\ UNCHANGED <<left, success, serverIdx, conns, tries, addr, sockets>>

\* The write or the read failed, the deadline passed, or the status was not
\* 200: the socket is closed.
GetFails(w) ==
  /\ wpc[w] = "get" /\ "get" \in Faults
  /\ RetryOrFail(w)
  /\ sockets' = sockets - 1
  /\ UNCHANGED <<left, success, serverIdx, conns, tries, addr>>

\* The connection is kept, under cs.mux.
GetAnswered(w) ==
  /\ Move(w, "get", "idle")
  /\ conns' = Append(conns, addr[w])
  /\ success' = success + 1
  /\ UNCHANGED <<left, failed, serverIdx, tries, addr, sockets>>

Over == left = 0 /\ \A w \in Workers : wpc[w] = "idle"

Terminated == Over /\ UNCHANGED vars

\* Everything a worker does without the server.
Client(w) == StartCall(w) \/ PickAddr(w) \/ DialFails(w) \/ GetFails(w)

Next ==
  \/ \E w \in Workers : Client(w) \/ DialConnects(w) \/ GetAnswered(w)
  \/ Terminated

Spec == Init /\ [][Next]_vars

\* A deadline passes in the end, so GetFails and DialFails need no server.
FairSpec == Spec /\ \A w \in Workers : WF_vars(Client(w))

-----------------------------------------------------------------------------
(* Properties *)

\* Every variable has its type.
TypeOK ==
  /\ left \in 0..NumConnections
  /\ success \in Nat /\ failed \in Nat /\ serverIdx \in Nat
  /\ conns \in Seq(Addrs)
  /\ wpc \in [Workers -> {"idle", "next", "dial", "get"}]
  /\ tries \in [Workers -> 0..RetryTimes]
  /\ addr \in [Workers -> Addrs]
  /\ sockets \in Nat

\* Every socket that is open belongs to a kept connection or to a dial that
\* is waiting for its GET: a failed dial leaves none behind, so a million
\* retries do not use up the client's ports.
NoSocketLeaks ==
  sockets = Len(conns) + Cardinality({w \in Workers : wpc[w] = "get"})

\* What Report says at the end: every call was counted once, and Success is
\* how many connections the later benchmarks get.
AllCounted ==
  Over => success + failed = NumConnections /\ Len(conns) = success

\* config.go:48-50: the ports share a client's connections so that no one of
\* them runs out of ephemeral ports.  When no dial was retried, they share
\* evenly.
ConnsTo(a) == {i \in DOMAIN conns : conns[i] = a}
EvenlySpread ==
  Over /\ serverIdx = success =>
    \A a, b \in Addrs : Cardinality(ConnsTo(a)) <= Cardinality(ConnsTo(b)) + 1

\* Run returns whatever the server does, because every dial has a deadline
\* and the number of tries is bounded.
RunReturns == <>Over

=============================================================================
