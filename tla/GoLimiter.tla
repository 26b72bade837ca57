------------------------------ MODULE GoLimiter ------------------------------
(***************************************************************************)
(* The Go client's -el and -rl limits: limitFn of BenchEcho                *)
(* (benchcli-go/benchecho/benchecho.go) and of BenchRate                   *)
(* (benchcli-go/benchrate/benchrate.go), both a golang.org/x/time/rate     *)
(* token bucket made with NewLimiter(rate.Every(1*time.Second), Limit): it *)
(* starts with Limit tokens, holds Limit at most and gains one a second.   *)
(*                                                                         *)
(* The bucket is outside the repository and modelled as the calls use it:  *)
(* Wait takes the tokens at once, going into debt, and sleeps until the    *)
(* debt is paid; asked for more than it can ever hold, it fails at once,   *)
(* and limitFn ignores the error.  Time goes by in seconds; a sleeper may  *)
(* wake late.                                                              *)
(***************************************************************************)
EXTENDS Integers, FiniteSets

CONSTANTS
  Callers,  \* goroutines that call limitFn
  Limit,    \* -el or -rl
  Sizes,    \* what a call may ask for: 1 in BenchEcho, br.batch in BenchRate
  MaxTime   \* bound: seconds the model goes on for

ASSUME GoLimiterAssumption ==
  /\ IsFiniteSet(Callers) /\ Limit \in Nat \ {0}
  /\ Sizes # {} /\ Sizes \subseteq Nat \ {0}
  /\ MaxTime \in Nat

VARIABLES
  n,       \* what every call of this run asks for
  now,     \* the second it is
  tokens,  \* the bucket, negative when the next tokens are spoken for
  pc,      \* whether a caller is in limitFn
  until,   \* when a caller's sleep ends
  passed   \* requests limitFn has let through

vars == <<n, now, tokens, pc, until, passed>>

Init ==
  /\ n \in Sizes
  /\ now = 0
  /\ tokens = Limit
  /\ pc = [c \in Callers |-> "idle"]
  /\ until = [c \in Callers |-> 0]
  /\ passed = 0

\* Mutant of Reserve: the sleep is as long as the debt before this call.
MutReserve(c) ==
  /\ pc[c] = "idle" /\ n <= Limit
  /\ tokens' = tokens - n
  /\ until' = [until EXCEPT ![c] = IF tokens < 0 THEN now - tokens ELSE now]
  /\ pc' = [pc EXCEPT ![c] = "wait"]
  /\ UNCHANGED <<n, now, passed>>

Reserve(c) ==
  /\ pc[c] = "idle" /\ n <= Limit
  /\ tokens' = tokens - n
  /\ until' = [until EXCEPT ![c] = IF tokens' < 0 THEN now - tokens' ELSE now]
  /\ pc' = [pc EXCEPT ![c] = "wait"]
  /\ UNCHANGED <<n, now, passed>>

\* WaitN's error: nothing is taken, and the caller goes on.
Refused(c) ==
  /\ pc[c] = "idle" /\ n > Limit
  /\ now < MaxTime
  /\ passed' = passed + n
  /\ passed' <= 2 * n * (MaxTime + 1)
  /\ UNCHANGED <<n, now, tokens, pc, until>>

Pass(c) ==
  /\ pc[c] = "wait" /\ until[c] <= now
  /\ pc' = [pc EXCEPT ![c] = "idle"]
  /\ passed' = passed + n
  /\ UNCHANGED <<n, now, tokens, until>>

\* One second goes by, one token comes in.
Tick ==
  /\ now < MaxTime
  /\ now' = now + 1
  /\ tokens' = IF tokens < Limit THEN tokens + 1 ELSE Limit
  /\ UNCHANGED <<n, pc, until, passed>>

\* The benchmark may end at any time.
Stopped == UNCHANGED vars

Next == Tick \/ Stopped \/ \E c \in Callers : Reserve(c) \/ Refused(c) \/ Pass(c)

Spec == Init /\ [][Next]_vars

-----------------------------------------------------------------------------
(* Properties *)

\* A caller that will go on sleeping.
Asleep(c) == pc[c] = "wait" /\ until[c] > now

\* Every variable has its type.  A debt is what the sleepers wait for.
TypeOK ==
  /\ n \in Sizes /\ now \in 0..MaxTime /\ passed \in Nat
  /\ tokens \in Int /\ tokens <= Limit
  /\ pc \in [Callers -> {"idle", "wait"}] /\ until \in [Callers -> Nat]

\* client.go:50 and :61, as an upper bound: as long as a call asks for no more
\* than the limit, Limit requests in the first second and one more each second
\* are all that get through, however the callers interleave and oversleep.
LimitKept == n <= Limit => passed <= Limit + now

\* The debt is real: somebody sleeps exactly until it is paid.
DebtIsOwed == tokens < 0 => \E c \in Callers : Asleep(c) /\ until[c] = now - tokens

\* client.go:50: "TPS limitation per second", and README.md:137-138: the limits
\* "allow that many requests per second": with Limit requests a second, who is
\* in limitFn has at most its share and that of those in there with it to wait.
AllowsLimit ==
  \A c \in Callers : Asleep(c) =>
    (until[c] - now - 1) * Limit < n * Cardinality({d \in Callers : pc[d] = "wait"})

=============================================================================
