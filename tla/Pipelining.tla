------------------------------ MODULE Pipelining ------------------------------
(***************************************************************************)
(* How BenchPipeline works out how many requests go into one write and how *)
(* many writes a second that takes (benchcli-go/protocol/http.go and       *)
(* BenchRate.init).  A request has size bytes.  The loop of BatchBuffers   *)
(* is one step per iteration.                                              *)
(***************************************************************************)
EXTENDS Integers

CONSTANTS MaxSize, MaxRate, MaxLen, MaxPipeline  \* bounds of the arguments

ASSUME PipeliningAssumption ==
  MaxSize \in Nat \ {0} /\ MaxRate \in Nat \ {0} /\ MaxLen \in Nat /\ MaxPipeline \in Nat

VARIABLES
  pc,        \* "init", "loop", "run", "fatal"
  size,      \* len(request), never 0
  rate,      \* br.SendRate
  maxLen,    \* br.BatchSize
  pipeline,  \* br.Pipeline
  batch,     \* requests in one write
  tickRate   \* writes a second

args == <<size, rate, maxLen, pipeline>>
pipeliningVars == <<pc, args, batch, tickRate>>

PipeliningInit ==
  /\ pc = "init"
  /\ size \in 1..MaxSize
  /\ rate \in 0..MaxRate
  /\ maxLen \in 0..MaxLen
  /\ pipeline \in -1..MaxPipeline
  /\ batch = 0 /\ tickRate = 0

\* init raises a missing rate to one request a second.
SendRate == IF rate <= 0 THEN 1 ELSE rate

\* ValidatePipeline
ValidPipeline ==
  /\ pipeline >= 0
  /\ pipeline > 0 => SendRate % pipeline = 0

\* logging.Fatalf
RejectPipeline ==
  /\ pc = "init" /\ ~ValidPipeline
  /\ pc' = "fatal"
  /\ UNCHANGED <<args, batch, tickRate>>

\* PipelineBuffers
UsePipeline ==
  /\ pc = "init" /\ ValidPipeline /\ pipeline > 0
  /\ batch' = pipeline /\ tickRate' = SendRate \div pipeline
  /\ pc' = "run"
  /\ UNCHANGED args

\* BatchBuffers, up to its loop: as many requests as fit, or one.
Fitting == IF maxLen \div size < 1 THEN 1 ELSE maxLen \div size

StartBatch ==
  /\ pc = "init" /\ ValidPipeline /\ pipeline = 0
  /\ batch' = Fitting
  /\ pc' = "loop"
  /\ UNCHANGED <<args, tickRate>>

\* Mutant of Shrink: the batch is halved.
MutShrink ==
  /\ pc = "loop" /\ batch > 1 /\ SendRate % batch # 0
  /\ batch' = batch \div 2
  /\ UNCHANGED <<pc, args, tickRate>>

Shrink ==
  /\ pc = "loop" /\ batch > 1 /\ SendRate % batch # 0
  /\ batch' = batch - 1
  /\ UNCHANGED <<pc, args, tickRate>>

\* Mutant of EndBatch: the loop is left at the first batch size.
MutEndBatch ==
  /\ pc = "loop"
  /\ tickRate' = SendRate \div batch
  /\ pc' = IF tickRate' <= 0 THEN "fatal" ELSE "run"
  /\ UNCHANGED <<args, batch>>

\* The loop ends, and init refuses a rate of no writes a second.
EndBatch ==
  /\ pc = "loop" /\ ~(batch > 1 /\ SendRate % batch # 0)
  /\ tickRate' = SendRate \div batch
  /\ pc' = IF tickRate' <= 0 THEN "fatal" ELSE "run"
  /\ UNCHANGED <<args, batch>>

PipeliningOver == pc \in {"run", "fatal"} /\ UNCHANGED pipeliningVars

PipeliningNext ==
  RejectPipeline \/ UsePipeline \/ StartBatch \/ Shrink \/ EndBatch \/ PipeliningOver

PipeliningSpec == PipeliningInit /\ [][PipeliningNext]_pipeliningVars

-----------------------------------------------------------------------------
(* Properties *)

Divides(d, n) == n % d = 0

\* The rate is met exactly: the writes of a second send rate requests.
RateMet == pc = "run" => batch * tickRate = SendRate

\* README.md:94-95: -rpl=0 "uses the most requests that fit in -rbs bytes
\* (16KB) and divide -rr"; one, if not even one fits.
LargestBatch ==
  pc = "run" /\ pipeline = 0 =>
    /\ Divides(batch, SendRate)
    /\ batch * size <= maxLen \/ batch = 1
    /\ \A d \in 1..SendRate : d * size <= maxLen /\ Divides(d, SendRate) => d <= batch

=============================================================================
