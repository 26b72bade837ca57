----------------------------- MODULE RustLimiter -----------------------------
(***************************************************************************)
(* The Rust client's -el and -rl limits: struct Limiter of                 *)
(* benchcli-rust/src/bench.rs.  It keeps the earliest time of the next     *)
(* request; a call takes that time, or now if it has gone by, moves it on  *)
(* by its size, and sleeps until the time it took.                         *)
(*                                                                         *)
(* Time is counted in the time one request is given, 1/per_second of a     *)
(* second, so that n requests take n.  A sleeper may wake late.            *)
(***************************************************************************)
EXTENDS Integers, FiniteSets

CONSTANTS
  Callers,  \* tasks that call wait
  Sizes,    \* what a call may ask for: 1 in echo, the batch in pipeline
  MaxTime   \* bound: how long the model goes on for

ASSUME RustLimiterAssumption ==
  /\ IsFiniteSet(Callers)
  /\ Sizes # {} /\ Sizes \subseteq Nat \ {0}
  /\ MaxTime \in Nat

VARIABLES
  n,       \* what every call of this run asks for
  now,     \* the time
  next,    \* Limiter.next
  pc,      \* whether a caller is in wait
  until,   \* when a caller's sleep ends
  passed   \* requests wait has let through

vars == <<n, now, next, pc, until, passed>>

Init ==
  /\ n \in Sizes
  /\ now = 0 /\ next = 0
  /\ pc = [c \in Callers |-> "idle"]
  /\ until = [c \in Callers |-> 0]
  /\ passed = 0

\* Mutant of Reserve: a call is given one request's time, whatever its size.
MutReserveOne(c) ==
  LET at == IF next > now THEN next ELSE now
  IN  /\ pc[c] = "idle"
      /\ until' = [until EXCEPT ![c] = at]
      /\ next' = at + 1
      /\ pc' = [pc EXCEPT ![c] = "wait"]
      /\ UNCHANGED <<n, now, passed>>

\* Mutant of Reserve: the size is counted twice.
MutReserveTwice(c) ==
  LET at == IF next > now THEN next ELSE now
  IN  /\ pc[c] = "idle"
      /\ until' = [until EXCEPT ![c] = at]
      /\ next' = at + 2 * n
      /\ pc' = [pc EXCEPT ![c] = "wait"]
      /\ UNCHANGED <<n, now, passed>>

\* The lock is held only while the time is taken.
Reserve(c) ==
  LET at == IF next > now THEN next ELSE now
  IN  /\ pc[c] = "idle"
      /\ until' = [until EXCEPT ![c] = at]
      /\ next' = at + n
      /\ pc' = [pc EXCEPT ![c] = "wait"]
      /\ UNCHANGED <<n, now, passed>>

Pass(c) ==
  /\ pc[c] = "wait" /\ until[c] <= now
  /\ pc' = [pc EXCEPT ![c] = "idle"]
  /\ passed' = passed + n
  /\ UNCHANGED <<n, now, next, until>>

Tick ==
  /\ now < MaxTime
  /\ now' = now + 1
  /\ UNCHANGED <<n, next, pc, until, passed>>

\* The benchmark may end at any time.
Stopped == UNCHANGED vars

Next == Tick \/ Stopped \/ \E c \in Callers : Reserve(c) \/ Pass(c)

Spec == Init /\ [][Next]_vars

-----------------------------------------------------------------------------
(* Properties *)

Waiting == {c \in Callers : pc[c] = "wait"}

\* Every variable has its type; next is never further away than one call of
\* each caller and the last one that went.
TypeOK ==
  /\ n \in Sizes /\ now \in 0..MaxTime /\ passed \in Nat
  /\ next \in 0..(MaxTime + n * (Cardinality(Callers) + 1))
  /\ pc \in [Callers -> {"idle", "wait"}] /\ until \in [Callers -> Nat]

\* bench.rs:203-204, "that many a second, spaced evenly": what gets through
\* never runs ahead of the limit by more than one call.
LimitKept == passed <= now + n

\* And no two calls are given the same time: spaced evenly.
SpacedEvenly ==
  \A c, d \in Waiting : c # d =>
    until[c] + n <= until[d] \/ until[d] + n <= until[c]

\* README.md:137-138: the limits "allow that many requests per second": a
\* caller waits for those in front of it and for no one else.
AllowsLimit == \A c \in Waiting : until[c] <= now + n * Cardinality(Waiting)

=============================================================================
