------------------------------- MODULE ConnPool -------------------------------
(***************************************************************************)
(* What BenchEcho's channel of connections promises its workers            *)
(* (connections.go:21-24: "the echo benchmark hands a Conn to one worker   *)
(* at a time"): a worker owns at most one connection, a connection has at  *)
(* most one owner, only the owner sends and receives on it, and a request  *)
(* is only ever sent on a stream with nothing of an earlier request on it, *)
(* so that what is received next is its answer.                            *)
(***************************************************************************)
EXTENDS Naturals

CONSTANTS Conns, Workers

VARIABLES
  owners,   \* the workers that have the connection: one, or none
  pending,  \* requests and responses on the connection's stream
  up        \* whether the stream still has its two ends

poolVars == <<owners, pending, up>>

PoolInit ==
  /\ owners = [c \in Conns |-> {}]
  /\ pending = [c \in Conns |-> 0]
  /\ up = [c \in Conns |-> TRUE]

Acquire(w, c) ==
  /\ owners[c] = {}
  /\ \A d \in Conns : w \notin owners[d]
  /\ owners' = [owners EXCEPT ![c] = {w}]
  /\ UNCHANGED <<pending, up>>

Send(w, c) ==
  /\ owners[c] = {w} /\ up[c] /\ pending[c] = 0
  /\ pending' = [pending EXCEPT ![c] = 1]
  /\ UNCHANGED <<owners, up>>

Receive(w, c) ==
  /\ owners[c] = {w} /\ pending[c] = 1
  /\ pending' = [pending EXCEPT ![c] = 0]
  /\ UNCHANGED <<owners, up>>

\* The stream has lost an end, and perhaps what was on it.
Lose(c) ==
  /\ up' = [up EXCEPT ![c] = FALSE]
  /\ \E left \in 0..pending[c] : pending' = [pending EXCEPT ![c] = left]
  /\ UNCHANGED owners

\* The owner has a new stream for the connection.
Connect(w, c) ==
  /\ owners[c] = {w} /\ ~up[c] /\ pending[c] = 0
  /\ up' = [up EXCEPT ![c] = TRUE]
  /\ UNCHANGED <<owners, pending>>

\* A connection whose request failed goes back as it is.
Release(w, c) ==
  /\ owners[c] = {w}
  /\ owners' = [owners EXCEPT ![c] = {}]
  /\ UNCHANGED <<pending, up>>

PoolNext ==
  \/ \E w \in Workers, c \in Conns :
       Acquire(w, c) \/ Send(w, c) \/ Receive(w, c) \/ Connect(w, c) \/ Release(w, c)
  \/ \E c \in Conns : Lose(c)

PoolSpec == PoolInit /\ [][PoolNext]_poolVars

=============================================================================
