--------------------------- MODULE ProtocolProofs ---------------------------
(***************************************************************************)
(* Theorems about benchcli-go/protocol/http.go: how it batches requests    *)
(* (Pipelining) and how it reads the responses (Exchange).                 *)
(*                                                                         *)
(* For every request size, rate, buffer length and pipeline depth, the     *)
(* rate is met exactly, and the batch -rpl=0 picks is the largest.  For    *)
(* any number of connections, requests and buffers no two handlers share a *)
(* buffer, every 200 of a Go server carries its own request's body, and    *)
(* the client is at the start of a response whenever it reads one.         *)
(***************************************************************************)
EXTENDS Exchange, Pipelining, SequenceTheorems, TLAPS

\* Integer division, as the arguments below use it.
LEMMA DivNat == ASSUME NEW a \in Nat, NEW b \in Nat, b > 0 PROVE a \div b \in Nat
BY Z3

LEMMA ModRange == ASSUME NEW a \in Nat, NEW b \in Nat, b > 0 PROVE a % b \in 0..(b - 1)
BY Z3

LEMMA DivMod ==
  ASSUME NEW a \in Nat, NEW b \in Nat, b > 0
  PROVE  a = b * (a \div b) + (a % b)
BY Z3

\* d requests of s bytes fit into m bytes exactly when d is at most m \div s.
LEMMA FitsIff ==
  ASSUME NEW m \in Nat, NEW s \in Nat, s > 0, NEW d \in Nat
  PROVE  d * s <= m <=> d <= m \div s
<1>1. m \div s \in Nat /\ m % s \in 0..(s - 1) /\ m = s * (m \div s) + (m % s)
  BY DivNat, ModRange, DivMod
<1>2. CASE d <= m \div s
  <2>1. d * s <= s * (m \div s)
    BY <1>1, <1>2
  <2>. QED  BY <1>1, <1>2, <2>1
<1>3. CASE d >= (m \div s) + 1
  <2>1. d * s >= s * (m \div s) + s
    BY <1>1, <1>3
  <2>. QED  BY <1>1, <1>3, <2>1
<1>. QED  BY <1>1, <1>2, <1>3

\* A divisor of a positive number is no larger than it.
LEMMA DivisorBound ==
  ASSUME NEW n \in Nat, n > 0, NEW d \in Nat, d > 0, Divides(d, n)
  PROVE  d <= n
BY SMTT(30) DEF Divides

-----------------------------------------------------------------------------
(* The invariant of the loop *)

ArgTypes ==
  /\ size \in Nat /\ size > 0 /\ rate \in Nat /\ maxLen \in Nat
  /\ pipeline \in Int
  /\ batch \in Nat /\ tickRate \in Nat

\* Every divisor of the rate that fits is still to come, or is batch itself.
NoneSkipped ==
  \A d \in 1..SendRate : d <= Fitting /\ Divides(d, SendRate) => d <= batch

LoopInv ==
  /\ ArgTypes
  /\ pc \in {"init", "loop", "run", "fatal"}
  /\ pc = "loop" =>
       pipeline = 0 /\ 1 <= batch /\ batch <= Fitting /\ NoneSkipped
  /\ pc = "run" =>
       /\ 1 <= batch /\ Divides(batch, SendRate)
       /\ tickRate = SendRate \div batch
       /\ pipeline = 0 => batch <= Fitting /\ NoneSkipped
  /\ pc = "fatal" => ~ValidPipeline

LEMMA SendRateNat == ArgTypes => SendRate \in Nat /\ SendRate > 0
BY DEF ArgTypes, SendRate

LEMMA FittingNat == ArgTypes => Fitting \in Nat /\ Fitting >= 1
<1>. SUFFICES ASSUME ArgTypes PROVE Fitting \in Nat /\ Fitting >= 1
  OBVIOUS
<1>1. maxLen \div size \in Nat
  BY DivNat DEF ArgTypes
<1>. QED  BY <1>1 DEF Fitting

LEMMA Unmoved ==
  ASSUME UNCHANGED args
  PROVE  SendRate' = SendRate /\ Fitting' = Fitting /\ ValidPipeline' = ValidPipeline
BY DEF args, SendRate, Fitting, ValidPipeline

LEMMA LoopInvInductive == PipeliningSpec => []LoopInv
<1>1. PipeliningInit => LoopInv
  BY PipeliningAssumption DEF PipeliningInit, LoopInv, ArgTypes
<1>2. LoopInv /\ [PipeliningNext]_pipeliningVars => LoopInv'
  <2>. SUFFICES ASSUME LoopInv, [PipeliningNext]_pipeliningVars PROVE LoopInv'
    OBVIOUS
  <2>1. SendRate \in Nat /\ SendRate > 0 /\ Fitting \in Nat /\ Fitting >= 1
    BY SendRateNat, FittingNat DEF LoopInv
  <2>2. CASE RejectPipeline
    BY <2>2, Unmoved DEF RejectPipeline, LoopInv, ArgTypes, args
  <2>3. CASE UsePipeline
    <3>1. pipeline \in Nat /\ pipeline > 0 /\ Divides(pipeline, SendRate)
      BY <2>3 DEF UsePipeline, ValidPipeline, LoopInv, ArgTypes, Divides
    <3>2. SendRate \div pipeline \in Nat
      BY <2>1, <3>1, DivNat
    <3>3. /\ pc' = "run" /\ batch' = pipeline /\ tickRate' = SendRate \div pipeline
          /\ UNCHANGED args /\ pipeline # 0
      BY <2>3, <3>1 DEF UsePipeline
    <3>4. ArgTypes'
      BY <3>1, <3>2, <3>3 DEF LoopInv, ArgTypes, args
    <3>. QED
      BY <3>1, <3>3, <3>4, Unmoved DEF LoopInv, Divides, args
  <2>4. CASE StartBatch
    <3>1. NoneSkipped'
      BY <2>1, <2>4, Unmoved DEF StartBatch, NoneSkipped, Divides
    <3>. QED
      BY <2>1, <2>4, <3>1, Unmoved DEF StartBatch, LoopInv, ArgTypes, args
  <2>5. CASE Shrink
    <3>1. NoneSkipped'
      <4>. SUFFICES ASSUME NEW d \in 1..SendRate, d <= Fitting, Divides(d, SendRate)
                    PROVE  d <= batch - 1
        BY <2>1, <2>5, Unmoved DEF Shrink, NoneSkipped, Divides
      <4>1. d <= batch /\ d # batch
        BY <2>5 DEF Shrink, LoopInv, NoneSkipped, Divides
      <4>. QED  BY <2>1, <4>1 DEF LoopInv, ArgTypes
    <3>. QED
      BY <2>1, <2>5, <3>1, Unmoved DEF Shrink, LoopInv, ArgTypes, args
  <2>6. CASE EndBatch
    <3>1. /\ pc = "loop" /\ 1 <= batch /\ batch \in Nat /\ batch <= Fitting
          /\ NoneSkipped /\ pipeline = 0 /\ tickRate' = SendRate \div batch
          /\ UNCHANGED <<args, batch>>
      BY <2>6 DEF EndBatch, LoopInv, ArgTypes
    <3>2. Divides(batch, SendRate)
      <4>1. CASE batch = 1
        BY <2>1, <4>1 DEF Divides
      <4>. QED  BY <2>6, <3>1, <4>1 DEF EndBatch, Divides
    <3>3. SendRate \div batch \in Nat /\ SendRate \div batch > 0
      <4>1. batch <= SendRate
        BY <2>1, <3>1, <3>2, DivisorBound
      <4>2. 1 * batch <= SendRate <=> 1 <= SendRate \div batch
        BY <2>1, <3>1, FitsIff
      <4>. QED  BY <2>1, <3>1, <4>1, <4>2, DivNat
    <3>4. pc' = "run"
      BY <2>6, <3>1, <3>3 DEF EndBatch
    <3>5. NoneSkipped' /\ Divides(batch, SendRate)'
      BY <3>1, <3>2, Unmoved DEF NoneSkipped, Divides
    <3>. QED
      BY <3>1, <3>3, <3>4, <3>5, Unmoved DEF LoopInv, ArgTypes, args
  <2>7. CASE UNCHANGED pipeliningVars
    BY <2>7, Unmoved DEF pipeliningVars, args, LoopInv, ArgTypes, NoneSkipped, Divides
  <2>. QED
    BY <2>2, <2>3, <2>4, <2>5, <2>6, <2>7 DEF PipeliningNext, PipeliningOver
<1>. QED  BY <1>1, <1>2, PTL DEF PipeliningSpec

\* protocol/http.go:41-61: the batches of a second are exactly the rate.
THEOREM RateIsMet == PipeliningSpec => []RateMet
<1>1. LoopInv => RateMet
  <2>. SUFFICES ASSUME LoopInv, pc = "run" PROVE batch * tickRate = SendRate
    BY DEF RateMet
  <2>1. SendRate \in Nat /\ batch \in Nat /\ batch > 0 /\ SendRate % batch = 0
    BY SendRateNat DEF LoopInv, ArgTypes, Divides
  <2>2. SendRate = batch * (SendRate \div batch) + (SendRate % batch)
    BY <2>1, DivMod
  <2>3. SendRate \div batch \in Nat
    BY <2>1, DivNat
  <2>. QED  BY <2>1, <2>2, <2>3 DEF LoopInv
<1>. QED  BY <1>1, LoopInvInductive, PTL

\* README.md:94-95: the batch is the largest divisor of the rate that fits.
THEOREM BatchIsLargest == PipeliningSpec => []LargestBatch
<1>1. LoopInv => LargestBatch
  <2>. SUFFICES ASSUME LoopInv, pc = "run", pipeline = 0
                PROVE  /\ Divides(batch, SendRate)
                       /\ batch * size <= maxLen \/ batch = 1
                       /\ \A d \in 1..SendRate :
                            d * size <= maxLen /\ Divides(d, SendRate) => d <= batch
    BY DEF LargestBatch
  <2>1. SendRate \in Nat /\ batch \in Nat /\ size \in Nat /\ size > 0 /\ maxLen \in Nat
    BY SendRateNat DEF LoopInv, ArgTypes
  <2>2. Divides(batch, SendRate) /\ 1 <= batch /\ batch <= Fitting /\ NoneSkipped
    BY DEF LoopInv
  <2>3. batch * size <= maxLen \/ batch = 1
    <3>1. CASE maxLen \div size < 1
      BY <2>1, <2>2, <3>1 DEF Fitting
    <3>2. CASE ~(maxLen \div size < 1)
      BY <2>1, <2>2, <3>2, FitsIff DEF Fitting
    <3>. QED  BY <3>1, <3>2
  <2>4. ASSUME NEW d \in 1..SendRate, d * size <= maxLen, Divides(d, SendRate)
        PROVE  d <= batch
    <3>1. d \in Nat /\ d <= maxLen \div size
      BY <2>1, <2>4, FitsIff
    <3>2. maxLen \div size \in Nat
      BY <2>1, DivNat
    <3>3. d <= Fitting
      BY <3>1, <3>2, <2>4 DEF Fitting
    <3>. QED  BY <2>2, <2>4, <3>3 DEF NoneSkipped
  <2>. QED  BY <2>2, <2>3, <2>4
<1>. QED  BY <1>1, LoopInvInductive, PTL

-----------------------------------------------------------------------------
(* Exchange: a buffer is one handler's, or the pool's *)

\* The record of a handler, and a field of it set by EXCEPT.
Fields(at, buf, out, served) == [at |-> at, buf |-> buf, out |-> out, served |-> served]

WithAt(h, x)     == [h EXCEPT !.at = x]
WithBuf(h, x)    == [h EXCEPT !.buf = x]
WithOut(h, x)    == [h EXCEPT !.out = x]
WithServed(h, x) == [h EXCEPT !.served = x]

LEMMA OneSet ==
    ASSUME NEW a, NEW b, NEW o, NEW s, NEW h, h = Fields(a, b, o, s), NEW x
    PROVE  /\ WithAt(h, x) = Fields(x, b, o, s)
           /\ WithBuf(h, x) = Fields(a, x, o, s)
           /\ WithOut(h, x) = Fields(a, b, x, s)
           /\ WithServed(h, x) = Fields(a, b, o, x)
<1>1. WithAt(h, x) = Fields(x, b, o, s)
  BY DEF Fields, WithAt
<1>2. WithBuf(h, x) = Fields(a, x, o, s)
  BY DEF Fields, WithBuf
<1>3. WithOut(h, x) = Fields(a, b, x, s)
  BY DEF Fields, WithOut
<1>4. WithServed(h, x) = Fields(a, b, o, x)
  BY DEF Fields, WithServed
<1>. QED  BY <1>1, <1>2, <1>3, <1>4

\* What the actions set.
LEMMA FieldsSet ==
    ASSUME NEW a, NEW b, NEW o, NEW s, NEW h, h = Fields(a, b, o, s), NEW x, NEW y, NEW z
    PROVE  /\ WithBuf(WithAt(h, x), y) = Fields(x, y, o, s)
           /\ WithOut(WithAt(h, x), y) = Fields(x, b, y, s)
           /\ WithServed(WithOut(WithAt(h, x), y), z) = Fields(x, b, y, z)
<1>1. WithAt(h, x) = Fields(x, b, o, s)
  BY OneSet
<1>2. WithBuf(WithAt(h, x), y) = Fields(x, y, o, s)
  BY <1>1, OneSet
<1>3. WithOut(WithAt(h, x), y) = Fields(x, b, y, s)
  BY <1>1, OneSet
<1>4. WithServed(WithOut(WithAt(h, x), y), z) = Fields(x, b, y, z)
  BY <1>3, OneSet
<1>. QED  BY <1>2, <1>3, <1>4

Holding == {"read", "respond", "responded", "written"}

\* A handler has a buffer from the time it gets one to the time it returns it.
HandlersHold ==
    /\ handler = [c \in Conns |-> Fields(handler[c].at, handler[c].buf,
                                         handler[c].out, handler[c].served)]
    /\ \A c \in Conns :
           /\ handler[c].at \in Holding \cup {"idle", "returned"}
           /\ handler[c].served \in Nat
           /\ IF handler[c].at \in Holding THEN handler[c].buf \in Buffers
                                           ELSE handler[c].buf = NoBuffer

BufferInv ==
    /\ HandlersHold
    /\ pool \subseteq Buffers
    /\ BuffersApart

\* A step of c's handler, after which its record is the one given.
Moved(c, at, buf, out, served) ==
    handler' = [handler EXCEPT ![c] = Fields(at, buf, out, served)]

LEMMA MovedOne ==
    ASSUME HandlersHold, NEW c \in Conns, NEW at, NEW buf, NEW out, NEW served,
           Moved(c, at, buf, out, served)
    PROVE  /\ handler'[c].at = at /\ handler'[c].buf = buf
           /\ handler'[c].out = out /\ handler'[c].served = served
           /\ handler'[c] = Fields(at, buf, out, served)
           /\ \A d \in Conns \ {c} : handler'[d] = handler[d]
<1>. DEFINE h == Fields(at, buf, out, served)
<1>1. handler'[c] = h /\ \A d \in Conns \ {c} : handler'[d] = handler[d]
  BY DEF HandlersHold, Moved
<1>2. h.at = at /\ h.buf = buf /\ h.out = out /\ h.served = served
  BY DEF Fields
<1>. HIDE DEF h
<1>. QED  BY <1>1, <1>2 DEF h

\* The shape of the records is kept.
LEMMA ShapeKept ==
    ASSUME HandlersHold, NEW c \in Conns,
           NEW at \in Holding \cup {"idle", "returned"}, NEW buf, NEW out, NEW served \in Nat,
           IF at \in Holding THEN buf \in Buffers ELSE buf = NoBuffer,
           Moved(c, at, buf, out, served)
    PROVE  HandlersHold'
<1>1. /\ handler'[c].at = at /\ handler'[c].buf = buf
      /\ handler'[c].out = out /\ handler'[c].served = served
      /\ handler'[c] = Fields(at, buf, out, served)
      /\ \A d \in Conns \ {c} : handler'[d] = handler[d]
  BY MovedOne
<1>2. handler' = [d \in Conns |-> handler'[d]]
  BY DEF HandlersHold, Moved
<1>3. \A d \in Conns :
          handler'[d] = Fields(handler'[d].at, handler'[d].buf,
                               handler'[d].out, handler'[d].served)
  <2>1. handler'[c] = Fields(handler'[c].at, handler'[c].buf,
                             handler'[c].out, handler'[c].served)
    BY <1>1
  <2>2. \A d \in Conns :
            handler[d] = Fields(handler[d].at, handler[d].buf, handler[d].out, handler[d].served)
    BY DEF HandlersHold
  <2>. QED  BY <1>1, <2>1, <2>2
<1>4. \A d \in Conns :
           /\ handler'[d].at \in Holding \cup {"idle", "returned"}
           /\ handler'[d].served \in Nat
           /\ IF handler'[d].at \in Holding THEN handler'[d].buf \in Buffers
                                            ELSE handler'[d].buf = NoBuffer
  BY <1>1 DEF HandlersHold
<1>5. handler' = [d \in Conns |-> Fields(handler'[d].at, handler'[d].buf,
                                        handler'[d].out, handler'[d].served)]
  BY <1>2, <1>3
<1>. QED  BY <1>4, <1>5 DEF HandlersHold

\* The same of every handler, without the set of what is held.
LEMMA ApartPointwise ==
    BuffersApart <=>
        /\ \A c \in Conns : handler[c].buf # NoBuffer => handler[c].buf \notin pool
        /\ \A c, d \in Conns :
               c # d /\ handler[c].buf # NoBuffer => handler[c].buf # handler[d].buf
BY DEF BuffersApart, Held

LEMMA ApartPointwiseNext ==
    BuffersApart' <=>
        /\ \A c \in Conns : handler'[c].buf # NoBuffer => handler'[c].buf \notin pool'
        /\ \A c, d \in Conns :
               c # d /\ handler'[c].buf # NoBuffer => handler'[c].buf # handler'[d].buf
BY DEF BuffersApart, Held

\* A handler that keeps its buffer, or has none, disturbs nobody.
LEMMA BufferKept ==
    ASSUME BufferInv, NEW c \in Conns,
           NEW at \in Holding \cup {"idle", "returned"}, NEW out, NEW served \in Nat,
           at \in Holding <=> handler[c].at \in Holding,
           Moved(c, at, handler[c].buf, out, served),
           UNCHANGED pool
    PROVE  BufferInv'
<1>. DEFINE buf == handler[c].buf
<1>1. HandlersHold /\ (IF at \in Holding THEN buf \in Buffers ELSE buf = NoBuffer)
  BY DEF BufferInv, HandlersHold
<1>2. HandlersHold'
  BY <1>1, ShapeKept
<1>3. \A d \in Conns : handler'[d].buf = handler[d].buf
  BY <1>1, MovedOne
<1>4. BuffersApart'
  BY <1>3, ApartPointwise, ApartPointwiseNext DEF BufferInv
<1>. QED  BY <1>2, <1>4 DEF BufferInv

\* What each step makes of its handler's record.
\* The body's item in the response.
BodyItem(c) == IF server.copies THEN Item("copy", content[handler[c].buf])
                                ELSE Item("buffer", handler[c].buf)
Answer(item) == << Item("status", 200), Item("field", 0), Item("length", 1), item >>
Refusal == << Item("status", 400), Item("length", 0) >>

AfterReturn(c) == IF handler[c].at = "written" THEN "idle" ELSE "returned"
AfterWrite(c) == IF handler[c].at = "returned" THEN "idle" ELSE "written"

LEMMA HandlerSteps ==
    ASSUME HandlersHold, NEW c \in Conns
    PROVE  LET h == handler[c] IN
           /\ \A b : handler' = [handler EXCEPT ![c].at = "read", ![c].buf = b]
                     => Moved(c, "read", b, h.out, h.served)
           /\ ReadBody(c)      => Moved(c, "respond", h.buf, h.out, h.served)
           /\ ReadBodyFails(c) => Moved(c, "responded", h.buf, Refusal, h.served)
           /\ Respond(c)       => Moved(c, "responded", h.buf, Answer(BodyItem(c)), h.served)
           /\ ReturnBuffer(c)  => Moved(c, AfterReturn(c), NoBuffer, h.out, h.served)
           /\ WriteResponse(c) => Moved(c, AfterWrite(c), h.buf, <<>>, h.served + 1)
           /\ OtherAnswers(c)  => Moved(c, h.at, h.buf, h.out, h.served + 1)
<1>. DEFINE h == handler[c]
<1>1. handler = [d \in Conns |-> handler[d]] /\ h = Fields(h.at, h.buf, h.out, h.served)
  BY DEF HandlersHold
<1>2. ASSUME NEW b, handler' = [handler EXCEPT ![c].at = "read", ![c].buf = b]
      PROVE  Moved(c, "read", b, h.out, h.served)
  <2>1. WithBuf(WithAt(h, "read"), b) = Fields("read", b, h.out, h.served)
    BY <1>1, FieldsSet
  <2>2. [h EXCEPT !.at = "read", !.buf = b] = Fields("read", b, h.out, h.served)
    BY <2>1 DEF WithAt, WithBuf, WithOut, WithServed
  <2>. QED  BY <1>1, <1>2, <2>2 DEF Moved
<1>3. ASSUME ReadBody(c)
      PROVE  Moved(c, "respond", h.buf, h.out, h.served)
  <2>1. WithAt(h, "respond") = Fields("respond", h.buf, h.out, h.served)
    BY <1>1, OneSet
  <2>2. [h EXCEPT !.at = "respond"] = Fields("respond", h.buf, h.out, h.served)
    BY <2>1 DEF WithAt, WithBuf, WithOut, WithServed
  <2>. QED  BY <1>1, <1>3, <2>2 DEF Moved, ReadBody, Step
<1>4. ASSUME ReadBodyFails(c)
      PROVE  Moved(c, "responded", h.buf, Refusal, h.served)
  <2>1. WithOut(WithAt(h, "responded"), Refusal) = Fields("responded", h.buf, Refusal, h.served)
    BY <1>1, FieldsSet
  <2>2. [h EXCEPT !.at = "responded", !.out = Refusal] = Fields("responded", h.buf, Refusal, h.served)
    BY <2>1 DEF WithAt, WithBuf, WithOut, WithServed
  <2>. QED  BY <1>1, <1>4, <2>2 DEF Moved, ReadBodyFails, Refusal
<1>5. ASSUME Respond(c)
      PROVE  Moved(c, "responded", h.buf, Answer(BodyItem(c)), h.served)
  <2>1. WithOut(WithAt(h, "responded"), Answer(BodyItem(c))) = Fields("responded", h.buf, Answer(BodyItem(c)), h.served)
    BY <1>1, FieldsSet
  <2>2. [h EXCEPT !.at = "responded", !.out = Answer(BodyItem(c))] = Fields("responded", h.buf, Answer(BodyItem(c)), h.served)
    BY <2>1 DEF WithAt, WithBuf, WithOut, WithServed
  <2>. QED  BY <1>1, <1>5, <2>2 DEF Moved, Respond, Answer, BodyItem
<1>6. ASSUME ReturnBuffer(c)
      PROVE  Moved(c, AfterReturn(c), NoBuffer, h.out, h.served)
  <2>1. WithBuf(WithAt(h, AfterReturn(c)), NoBuffer) = Fields(AfterReturn(c), NoBuffer, h.out, h.served)
    BY <1>1, FieldsSet
  <2>2. [h EXCEPT !.at = AfterReturn(c), !.buf = NoBuffer] = Fields(AfterReturn(c), NoBuffer, h.out, h.served)
    BY <2>1 DEF WithAt, WithBuf, WithOut, WithServed
  <2>. QED  BY <1>1, <1>6, <2>2 DEF Moved, ReturnBuffer, AfterReturn
<1>7. ASSUME WriteResponse(c)
      PROVE  Moved(c, AfterWrite(c), h.buf, <<>>, h.served + 1)
  <2>1. WithServed(WithOut(WithAt(h, AfterWrite(c)), <<>>), h.served + 1) = Fields(AfterWrite(c), h.buf, <<>>, h.served + 1)
    BY <1>1, FieldsSet
  <2>2. [h EXCEPT !.at = AfterWrite(c), !.out = <<>>, !.served = h.served + 1] = Fields(AfterWrite(c), h.buf, <<>>, h.served + 1)
    BY <2>1 DEF WithAt, WithBuf, WithOut, WithServed
  <2>. QED  BY <1>1, <1>7, <2>2 DEF Moved, WriteResponse, AfterWrite
<1>8. ASSUME OtherAnswers(c)
      PROVE  Moved(c, h.at, h.buf, h.out, h.served + 1)
  <2>1. WithServed(h, h.served + 1) = Fields(h.at, h.buf, h.out, h.served + 1)
    BY <1>1, OneSet
  <2>2. [h EXCEPT !.served = h.served + 1] = Fields(h.at, h.buf, h.out, h.served + 1)
    BY <2>1 DEF WithAt, WithBuf, WithOut, WithServed
  <2>. QED  BY <1>1, <1>8, <2>2 DEF Moved, OtherAnswers
<1>. QED  BY <1>2, <1>3, <1>4, <1>5, <1>6, <1>7, <1>8

\* The same, field by field.
Leaves(c, at, buf, out, served) ==
    /\ handler'[c].at = at /\ handler'[c].buf = buf
    /\ handler'[c].out = out /\ handler'[c].served = served
    /\ \A d \in Conns \ {c} : handler'[d] = handler[d]

LEMMA HandlerLeaves ==
    ASSUME HandlersHold, NEW c \in Conns
    PROVE  LET h == handler[c] IN
           /\ \A b : handler' = [handler EXCEPT ![c].at = "read", ![c].buf = b]
                     => Leaves(c, "read", b, h.out, h.served)
           /\ ReadBody(c) => Leaves(c, "respond", h.buf, h.out, h.served)
           /\ ReadBodyFails(c) => Leaves(c, "responded", h.buf, Refusal, h.served)
           /\ Respond(c) => Leaves(c, "responded", h.buf, Answer(BodyItem(c)), h.served)
           /\ ReturnBuffer(c) => Leaves(c, AfterReturn(c), NoBuffer, h.out, h.served)
           /\ WriteResponse(c) => Leaves(c, AfterWrite(c), h.buf, <<>>, h.served + 1)
           /\ OtherAnswers(c) => Leaves(c, h.at, h.buf, h.out, h.served + 1)
<1>. DEFINE h == handler[c]
<1>1. \A at, buf, out, served :
          Moved(c, at, buf, out, served) => Leaves(c, at, buf, out, served)
  BY MovedOne DEF Leaves
<1>2. \A b : handler' = [handler EXCEPT ![c].at = "read", ![c].buf = b]
                => Leaves(c, "read", b, h.out, h.served)
  BY <1>1, HandlerSteps
<1>3. ReadBody(c) => Leaves(c, "respond", h.buf, h.out, h.served)
  BY <1>1, HandlerSteps
<1>4. ReadBodyFails(c) => Leaves(c, "responded", h.buf, Refusal, h.served)
  BY <1>1, HandlerSteps
<1>5. Respond(c) => Leaves(c, "responded", h.buf, Answer(BodyItem(c)), h.served)
  BY <1>1, HandlerSteps
<1>6. ReturnBuffer(c) => Leaves(c, AfterReturn(c), NoBuffer, h.out, h.served)
  BY <1>1, HandlerSteps
<1>7. WriteResponse(c) => Leaves(c, AfterWrite(c), h.buf, <<>>, h.served + 1)
  BY <1>1, HandlerSteps
<1>8. OtherAnswers(c) => Leaves(c, h.at, h.buf, h.out, h.served + 1)
  BY <1>1, HandlerSteps
<1>. QED  BY <1>2, <1>3, <1>4, <1>5, <1>6, <1>7, <1>8

\* A step of a handler that gets no buffer and returns none.
LEMMA HandlerMoves ==
    ASSUME BufferInv, NEW c \in Conns,
           ReadBody(c) \/ ReadBodyFails(c) \/ Respond(c) \/ WriteResponse(c) \/ OtherAnswers(c)
    PROVE  BufferInv'
<1>. USE DEF Holding
<1>1. /\ HandlersHold
      /\ handler[c].at \in Holding \cup {"idle", "returned"}
      /\ handler[c].served \in Nat /\ handler[c].served + 1 \in Nat
  BY DEF BufferInv, HandlersHold
<1>2. CASE ReadBody(c)
  <2>1. handler[c].at = "read" /\ UNCHANGED pool
    BY <1>2 DEF ReadBody, Step
  <2>. QED  BY <1>1, <1>2, <2>1, HandlerSteps, BufferKept
<1>3. CASE ReadBodyFails(c)
  <2>1. handler[c].at = "read" /\ UNCHANGED pool
    BY <1>3 DEF ReadBodyFails
  <2>. QED  BY <1>1, <1>3, <2>1, HandlerSteps, BufferKept
<1>4. CASE Respond(c)
  <2>1. handler[c].at = "respond" /\ UNCHANGED pool
    BY <1>4 DEF Respond
  <2>. QED  BY <1>1, <1>4, <2>1, HandlerSteps, BufferKept
<1>5. CASE WriteResponse(c)
  <2>1. /\ handler[c].at \in {"responded", "returned"} /\ UNCHANGED pool
        /\ AfterWrite(c) \in Holding \cup {"idle", "returned"}
        /\ AfterWrite(c) \in Holding <=> handler[c].at \in Holding
    BY <1>5 DEF WriteResponse, AfterWrite
  <2>. QED  BY <1>1, <1>5, <2>1, HandlerSteps, BufferKept
<1>6. CASE OtherAnswers(c)
  <2>1. UNCHANGED pool
    BY <1>6 DEF OtherAnswers
  <2>. QED  BY <1>1, <1>6, <2>1, HandlerSteps, BufferKept
<1>. QED  BY <1>2, <1>3, <1>4, <1>5, <1>6

\* A buffer from the pool, or a new one, is nobody else's.
LEMMA BufferTaken ==
    ASSUME BufferInv, NEW c \in Conns, GetBuffer(c)
    PROVE  BufferInv'
<1>1. HandlersHold /\ pool \subseteq Buffers
  BY DEF BufferInv
<1>2. PICK b \in IF pool # {} THEN pool ELSE Buffers \ Held :
          /\ handler' = [handler EXCEPT ![c].at = "read", ![c].buf = b]
          /\ pool' = pool \ {b}
  BY DEF GetBuffer
<1>3. b \in Buffers /\ \A d \in Conns : handler[d].buf # b
  BY <1>1, <1>2, ApartPointwise, BufferAssumption DEF BufferInv, Held
<1>4. Moved(c, "read", b, handler[c].out, handler[c].served) /\ handler[c].served \in Nat
  BY <1>1, <1>2, HandlerSteps DEF HandlersHold
<1>5. HandlersHold'
  BY <1>1, <1>3, <1>4, ShapeKept DEF Holding
<1>6. handler'[c].buf = b /\ \A d \in Conns \ {c} : handler'[d].buf = handler[d].buf
  BY <1>1, <1>4, MovedOne
<1>7. \A d \in Conns : handler'[d].buf # NoBuffer => handler'[d].buf \notin pool'
  <2>1. pool' = pool \ {b}
    BY <1>2
  <2>2. \A d \in Conns : handler[d].buf # NoBuffer => handler[d].buf \notin pool
    BY ApartPointwise DEF BufferInv
  <2>. QED  BY <1>6, <2>1, <2>2
<1>8. \A d, e \in Conns :
          d # e /\ handler'[d].buf # NoBuffer => handler'[d].buf # handler'[e].buf
  BY <1>3, <1>6, ApartPointwise DEF BufferInv
<1>9. BuffersApart'
  BY <1>7, <1>8, ApartPointwiseNext
<1>. QED  BY <1>1, <1>2, <1>5, <1>9 DEF BufferInv

\* A buffer that goes back to the pool is nobody's any more.
LEMMA BufferReturned ==
    ASSUME BufferInv, NEW c \in Conns, ReturnBuffer(c)
    PROVE  BufferInv'
<1>1. HandlersHold /\ pool \subseteq Buffers
  BY DEF BufferInv
<1>2. handler[c].buf \in Buffers /\ pool' = pool \cup {handler[c].buf}
  BY <1>1 DEF ReturnBuffer, HandlersHold, Holding
<1>3. Moved(c, AfterReturn(c), NoBuffer, handler[c].out, handler[c].served)
      /\ handler[c].served \in Nat
  BY <1>1, HandlerSteps DEF HandlersHold
<1>4. HandlersHold'
  BY <1>1, <1>3, ShapeKept DEF Holding, AfterReturn
<1>5. handler'[c].buf = NoBuffer /\ \A d \in Conns \ {c} : handler'[d].buf = handler[d].buf
  BY <1>1, <1>3, MovedOne
<1>6. BuffersApart'
  BY <1>2, <1>5, ApartPointwise, ApartPointwiseNext, BufferAssumption DEF BufferInv
<1>. QED  BY <1>1, <1>2, <1>4, <1>6 DEF BufferInv

LEMMA BufferInductive == Spec => []BufferInv
<1>1. Init => BufferInv
  <2>. SUFFICES ASSUME Init PROVE BufferInv
    OBVIOUS
  <2>1. HandlersHold
    <3>1. \A c \in Conns : /\ handler[c] = Fields("idle", NoBuffer, <<>>, 0)
                            /\ handler[c].at = "idle" /\ handler[c].buf = NoBuffer
                            /\ handler[c].out = <<>> /\ handler[c].served = 0
      BY DEF Init, Idle, Fields
    <3>2. handler = [c \in Conns |-> handler[c]]
      BY DEF Init
    <3>3. handler = [c \in Conns |-> Fields(handler[c].at, handler[c].buf,
                                           handler[c].out, handler[c].served)]
      BY <3>1, <3>2
    <3>. QED  BY <3>1, <3>3 DEF HandlersHold, Holding
  <2>2. BuffersApart
    BY DEF Init, Idle, BuffersApart, Held
  <2>. QED  BY <2>1, <2>2 DEF BufferInv, Init
<1>2. BufferInv /\ [Next]_vars => BufferInv'
  <2>. SUFFICES ASSUME BufferInv, [Next]_vars PROVE BufferInv'
    OBVIOUS
  <2>1. CASE UNCHANGED <<handler, pool>>
    BY <2>1 DEF BufferInv, HandlersHold, BuffersApart, Held
  <2>2. ASSUME NEW c \in Conns, Handle(c) \/ OtherAnswers(c)
        PROVE  BufferInv'
    BY <2>2, HandlerMoves, BufferTaken, BufferReturned DEF Handle
  <2>3. ASSUME NEW c \in Conns, Close(c) \/ Send(c) \/ Receive(c)
        PROVE  BufferInv'
    BY <2>1, <2>3 DEF Close, Send, Receive, serverVars
  <2>4. CASE UNCHANGED vars
    BY <2>1, <2>4 DEF vars
  <2>. QED  BY <2>2, <2>3, <2>4 DEF Next, Terminated
<1>. QED  BY <1>1, <1>2, PTL DEF Spec

\* handlers.go:128: a buffer is one handler's, or the pool's to hand out, on
\* any number of connections and whatever order their handlers take turns in.
THEOREM BuffersAreApart == Spec => []BuffersApart
<1>1. BufferInv => BuffersApart
  BY DEF BufferInv
<1>. QED  BY <1>1, BufferInductive, PTL

-----------------------------------------------------------------------------
(* Exchange: readResponse on a response of a Go server *)

\* Item i of the stream r is x, if the stream goes that far.
Holds(r, i, x) == i <= Len(r) => r[i] = x

\* The response to the request v is in r from i to j - 1.
Frame(r, v, i, j) ==
    \/ /\ j = i + 5
       /\ Holds(r, i, Item("status", 200))
       /\ Holds(r, i + 1, Item("field", 0))
       /\ Holds(r, i + 2, Item("length", 1))
       /\ Holds(r, i + 3, Item("blank", 0))
       /\ Holds(r, i + 4, Item("body", [n |-> 1, of |-> v]))
    \/ /\ j = i + 3
       /\ Holds(r, i, Item("status", 400))
       /\ Holds(r, i + 1, Item("length", 0))
       /\ Holds(r, i + 2, Item("blank", 0))

\* A line, or a piece of body, and what it is.
LEMMA ItemFields == \A kind, value : Item(kind, value).kind = kind /\ Item(kind, value).value = value
BY DEF Item

\* The first item of none of the kinds, when it is known.
LEMMA FirstNotIs ==
    ASSUME NEW S, NEW r \in Seq(S), NEW i \in Nat, NEW m \in i..(Len(r) + 1), NEW kinds,
           ItemAt(r, m).kind \notin kinds \/ m = Len(r) + 1,
           \A j \in i..(m - 1) : ItemAt(r, j).kind \in kinds
    PROVE  FirstNot(r, i, kinds) = m
<1>. DEFINE T == {j \in i..(Len(r) + 1) : ItemAt(r, j).kind \notin kinds} \cup {Len(r) + 1}
<1>0. Len(r) \in Nat
  OBVIOUS
<1>1. m \in T
  BY <1>0
<1>4. \A y \in T : m <= y /\ y \in Nat
  BY <1>0
<1>. HIDE DEF T
<1>2. Min(T) \in T /\ \A y \in T : Min(T) <= y
  BY <1>1, <1>4 DEF Min
<1>5. m \in Nat /\ Min(T) \in Nat
  BY <1>1, <1>2, <1>4
<1>6. m <= Min(T) /\ Min(T) <= m
  BY <1>1, <1>2, <1>4
<1>3. Min(T) = m
  BY <1>5, <1>6
<1>. QED  BY <1>3 DEF FirstNot, T

\* No Transfer-Encoding, and one Content-Length.
LEMMA NotChunked ==
    ASSUME NEW r, NEW i, NEW j, \A k \in i..j : r[k].kind # "transfer"
    PROVE  ~HeaderOr(r, i, j, "transfer", FALSE)
<1>1. {k \in i..j : r[k].kind = "transfer"} = {}
  OBVIOUS
<1>. QED  BY <1>1, Zenon DEF HeaderOr

LEMMA HeaderOne ==
    ASSUME NEW r, NEW i \in Nat, NEW j \in Nat, NEW kind, NEW default, NEW m \in i..j,
           \A k \in i..j : r[k].kind = kind <=> k = m
    PROVE  HeaderOr(r, i, j, kind, default) = r[m].value
<1>1. {k \in i..j : r[k].kind = kind} = {m}
  OBVIOUS
<1>2. m \in Nat /\ Max({m}) = m
  BY DEF Max
<1>. QED  BY <1>1, <1>2 DEF HeaderOr

\* Within the stream, and past its end.
LEMMA EndOfStream ==
    ASSUME NEW S, NEW r \in Seq(S), NEW i \in Nat \ {0}
    PROVE  /\ i <= Len(r) => ItemAt(r, i) = r[i]
           /\ i > Len(r) => ItemAt(r, i).kind = "eof"
BY ItemFields DEF ItemAt

\* A response which is cut before its blank line.
LEMMA ReadCut ==
    ASSUME NEW S, NEW r \in Seq(S), NEW start \in Nat \ {0},
           \/ start > Len(r)
           \/ /\ ItemAt(r, start).kind = "status"
              /\ \A k \in (start + 1)..Len(r) : r[k].kind \in HeaderKinds
    PROVE  ReadResponse(r, start).err = "eof" /\ ReadResponse(r, start).next \in Nat \ {0}
<1>0. Len(r) \in Nat
  OBVIOUS
<1>1. \A k, n \in Nat : Failed("eof", 0, k).err = "eof" /\ Failed("eof", 0, k).next = k
  BY DEF Failed
<1>2. CASE start > Len(r)
  <2>1. ItemAt(r, start).kind = "eof"
    BY <1>2, EndOfStream
  <2>2. ReadResponse(r, start) = Failed("eof", 0, start)
    BY <2>1 DEF ReadResponse, ErrorAt
  <2>. QED  BY <1>1, <2>2
<1>3. CASE /\ ~(start > Len(r)) /\ ItemAt(r, start).kind = "status"
           /\ \A k \in (start + 1)..Len(r) : r[k].kind \in HeaderKinds
  <2>1. \A k \in (start + 1)..Len(r) : ItemAt(r, k).kind \in HeaderKinds
    BY <1>3, EndOfStream
  <2>2. FirstNot(r, start + 1, HeaderKinds) = Len(r) + 1
    <3>1. Len(r) + 1 \in (start + 1)..(Len(r) + 1) /\ start + 1 \in Nat /\ Len(r) + 1 - 1 = Len(r)
      BY <1>0, <1>3
    <3>. QED  BY <2>1, <3>1, FirstNotIs
  <2>3. ItemAt(r, Len(r) + 1).kind = "eof"
    BY <1>0, EndOfStream
  <2>4. ReadResponse(r, start) = Failed("eof", 0, Len(r) + 1)
    BY <1>3, <2>2, <2>3 DEF ReadResponse, ErrorAt
  <2>. QED  BY <1>0, <1>1, <2>4
<1>. QED  BY <1>2, <1>3

\* What readResponse makes of a response whose body has a length.
LEMMA ReadByLength ==
    ASSUME NEW r, NEW i, NEW end, NEW n \in Nat,
           ItemAt(r, i).kind = "status", ~NoBody(ItemAt(r, i).value),
           FirstNot(r, i + 1, HeaderKinds) = end, ItemAt(r, end).kind = "blank",
           \A k \in (i + 1)..(end - 1) : r[k].kind # "transfer",
           HeaderOr(r, i + 1, end - 1, "length", -1) = n
    PROVE  ReadResponse(r, i) = ReadLength(r, ItemAt(r, i).value, end + 1, n)
<1>1. n >= 0
  OBVIOUS
<1>2. ~HeaderOr(r, i + 1, end - 1, "transfer", FALSE)
  BY NotChunked, Zenon
<1>. QED  BY <1>1, <1>2, Zenon DEF ReadResponse

\* x is an error, after which the stream is left at next.
FailsAt(x, next) == x.err # "nil" /\ x.next = next

LEMMA FailedFails == \A err, n, next : err # "nil" => FailsAt(Failed(err, n, next), next)
BY DEF Failed, FailsAt

\* ReadLength of a length, whatever is there.
LEMMA ReadLengthIs ==
    ASSUME NEW r, NEW status, NEW i, NEW n \in Nat
    PROVE  \/ FailsAt(ReadLength(r, status, i, n), i)
           \/ n = 0 /\ ReadLength(r, status, i, n) = Read(status, <<>>, 0, i)
           \/ /\ n # 0 /\ ItemAt(r, i).kind = "body"
              /\ ReadLength(r, status, i, n) = Read(status, <<r[i].value.of>>, n, i + 1)
           \/ n # 0 /\ FailsAt(ReadLength(r, status, i, n), Len(r) + 1)
<1>1. "too large" # "nil" /\ "eof" # "nil"
  BY Zenon
<1>2. \/ ReadLength(r, status, i, n) = Failed("too large", 0, i)
      \/ n = 0 /\ ReadLength(r, status, i, n) = Read(status, <<>>, 0, i)
      \/ /\ n # 0 /\ ItemAt(r, i).kind = "body"
         /\ ReadLength(r, status, i, n) = Read(status, <<r[i].value.of>>, n, i + 1)
      \/ n # 0 /\ ReadLength(r, status, i, n) = Failed("eof", n, Len(r) + 1)
  BY DEF ReadLength
<1>3. FailsAt(Failed("too large", 0, i), i) /\ FailsAt(Failed("eof", n, Len(r) + 1), Len(r) + 1)
  BY <1>1, FailedFails, Zenon
<1>. QED  BY <1>2, <1>3, Zenon

LEMMA ReadLengthNone ==
    ASSUME NEW r, NEW status, NEW i
    PROVE  FailsAt(ReadLength(r, status, i, 0), i)
               \/ ReadLength(r, status, i, 0) = Read(status, <<>>, 0, i)
<1>1. "too large" # "nil"
  BY Zenon
<1>2. \/ ReadLength(r, status, i, 0) = Failed("too large", 0, i)
      \/ ReadLength(r, status, i, 0) = Read(status, <<>>, 0, i)
  BY DEF ReadLength
<1>3. FailsAt(Failed("too large", 0, i), i)
  BY <1>1, FailedFails, Zenon
<1>. QED  BY <1>2, <1>3, Zenon

\* What a result says.
LEMMA Results ==
    /\ \A err, n, next : Failed(err, n, next).err = err /\ Failed(err, n, next).next = next
    /\ \A status, body, n, next :
           /\ Read(status, body, n, next).err = "nil" /\ Read(status, body, n, next).next = next
           /\ Read(status, body, n, next).body = body
           /\ Read(status, body, n, next).status = status
BY DEF Failed, Read

\* The whole of a 200 whose body is v is read: the body is v, or it is too large.
LEMMA ReadAnswer ==
    ASSUME NEW S, NEW r \in Seq(S), NEW i \in Nat \ {0}, NEW v,
           i + 3 <= Len(r),
           r[i] = Item("status", 200), r[i + 1] = Item("field", 0),
           r[i + 2] = Item("length", 1), r[i + 3] = Item("blank", 0),
           Holds(r, i + 4, Item("body", [n |-> 1, of |-> v]))
    PROVE  /\ ReadResponse(r, i).next \in Nat \ {0}
           /\ ReadResponse(r, i).err = "nil" =>
                  ReadResponse(r, i).next = i + 5 /\ ReadResponse(r, i).body = <<v>>
<1>0. Len(r) \in Nat /\ i + 1 \in Nat /\ i + 2 \in Nat /\ i + 3 \in Nat /\ i + 4 \in Nat \ {0}
  OBVIOUS
<1>1. /\ ItemAt(r, i) = Item("status", 200)
      /\ ItemAt(r, i + 1) = Item("field", 0) /\ ItemAt(r, i + 2) = Item("length", 1)
      /\ ItemAt(r, i + 3) = Item("blank", 0)
  BY DEF ItemAt
<1>2. FirstNot(r, i + 1, HeaderKinds) = i + 3
  <2>1. i + 3 \in (i + 1)..(Len(r) + 1) /\ ItemAt(r, i + 3).kind \notin HeaderKinds
    BY <1>0, <1>1, ItemFields DEF HeaderKinds
  <2>2. \A j \in (i + 1)..(i + 3 - 1) : j = i + 1 \/ j = i + 2
    BY <1>0
  <2>3. \A j \in (i + 1)..(i + 3 - 1) : ItemAt(r, j).kind \in HeaderKinds
    BY <1>1, <2>2, ItemFields DEF HeaderKinds
  <2>. QED  BY <1>0, <2>1, <2>3, FirstNotIs
<1>3. \A j \in (i + 1)..(i + 3 - 1) : j = i + 1 \/ j = i + 2
  BY <1>0
<1>4. \A k \in (i + 1)..(i + 3 - 1) : r[k].kind # "transfer"
  BY <1>3, ItemFields
<1>5. HeaderOr(r, i + 1, i + 3 - 1, "length", -1) = 1
  <2>1. \A k \in (i + 1)..(i + 3 - 1) : r[k].kind = "length" <=> k = i + 2
    BY <1>0, <1>3, ItemFields
  <2>2. i + 3 - 1 \in Nat /\ i + 2 \in (i + 1)..(i + 3 - 1)
    BY <1>0
  <2>3. HeaderOr(r, i + 1, i + 3 - 1, "length", -1) = r[i + 2].value
    BY <1>0, <2>1, <2>2, HeaderOne
  <2>. QED  BY <2>3, ItemFields
<1>6. ~NoBody(200)
  BY DEF NoBody
<1>7. ReadResponse(r, i) = ReadLength(r, 200, i + 4, 1)
  <2>1. i + 3 + 1 = i + 4
    BY <1>0
  <2>2. ItemAt(r, i).kind = "status" /\ ItemAt(r, i).value = 200
        /\ ItemAt(r, i + 3).kind = "blank"
    BY <1>1, ItemFields
  <2>3. ~NoBody(ItemAt(r, i).value) /\ 1 \in Nat
    BY <1>6, <2>2
  <2>4. ReadResponse(r, i) = ReadLength(r, ItemAt(r, i).value, i + 3 + 1, 1)
    BY <1>2, <1>4, <1>5, <2>2, <2>3, ReadByLength, SMTT(60)
  <2>. QED  BY <2>1, <2>2, <2>4
<1>8. ItemAt(r, i + 4).kind = "body" => r[i + 4].value.of = v
  <2>1. CASE i + 4 <= Len(r)
    <3>1. r[i + 4] = Item("body", [n |-> 1, of |-> v])
      BY <2>1 DEF Holds
    <3>. QED  BY <3>1, ItemFields
  <2>2. CASE ~(i + 4 <= Len(r))
    BY <1>0, <2>2, EndOfStream
  <2>. QED  BY <2>1, <2>2
<1>9. i + 4 + 1 = i + 5 /\ i + 5 \in Nat \ {0} /\ Len(r) + 1 \in Nat \ {0}
  BY <1>0
<1>10. \/ FailsAt(ReadResponse(r, i), i + 4)
       \/ ReadResponse(r, i) = Read(200, <<v>>, 1, i + 5)
       \/ FailsAt(ReadResponse(r, i), Len(r) + 1)
  <2>1. i + 4 \in Nat /\ 1 \in Nat /\ 1 # 0
    BY <1>0
  <2>2. \/ FailsAt(ReadLength(r, 200, i + 4, 1), i + 4)
        \/ /\ ItemAt(r, i + 4).kind = "body"
           /\ ReadLength(r, 200, i + 4, 1) = Read(200, <<r[i + 4].value.of>>, 1, i + 4 + 1)
        \/ FailsAt(ReadLength(r, 200, i + 4, 1), Len(r) + 1)
    BY <2>1, ReadLengthIs
  <2>. QED  BY <1>7, <1>8, <1>9, <2>2
<1>11. CASE FailsAt(ReadResponse(r, i), i + 4)
  BY <1>0, <1>11 DEF FailsAt
<1>12. CASE ReadResponse(r, i) = Read(200, <<v>>, 1, i + 5)
  <2>1. ReadResponse(r, i).next = i + 5 /\ ReadResponse(r, i).body = <<v>>
    BY <1>12, Results
  <2>. QED  BY <1>9, <2>1
<1>13. CASE FailsAt(ReadResponse(r, i), Len(r) + 1)
  BY <1>9, <1>13 DEF FailsAt
<1>. QED  BY <1>10, <1>11, <1>12, <1>13

\* The whole of a 400 without a body is read.
LEMMA ReadRefusal ==
    ASSUME NEW S, NEW r \in Seq(S), NEW i \in Nat \ {0},
           i + 2 <= Len(r),
           r[i] = Item("status", 400), r[i + 1] = Item("length", 0),
           r[i + 2] = Item("blank", 0)
    PROVE  /\ ReadResponse(r, i).next \in Nat \ {0}
           /\ ReadResponse(r, i).err = "nil" =>
                  ReadResponse(r, i).next = i + 3 /\ ReadResponse(r, i).status = 400
<1>0. Len(r) \in Nat /\ i + 1 \in Nat /\ i + 2 \in Nat /\ i + 3 \in Nat \ {0}
  OBVIOUS
<1>1. /\ ItemAt(r, i) = Item("status", 400)
      /\ ItemAt(r, i + 1) = Item("length", 0) /\ ItemAt(r, i + 2) = Item("blank", 0)
  BY DEF ItemAt
<1>3. \A j \in (i + 1)..(i + 2 - 1) : j = i + 1
  BY <1>0
<1>2. FirstNot(r, i + 1, HeaderKinds) = i + 2
  <2>1. i + 2 \in (i + 1)..(Len(r) + 1) /\ ItemAt(r, i + 2).kind \notin HeaderKinds
    BY <1>0, <1>1, ItemFields DEF HeaderKinds
  <2>3. \A j \in (i + 1)..(i + 2 - 1) : ItemAt(r, j).kind \in HeaderKinds
    BY <1>1, <1>3, ItemFields DEF HeaderKinds
  <2>. QED  BY <1>0, <2>1, <2>3, FirstNotIs
<1>4. \A k \in (i + 1)..(i + 2 - 1) : r[k].kind # "transfer"
  BY <1>3, ItemFields
<1>5. HeaderOr(r, i + 1, i + 2 - 1, "length", -1) = 0
  <2>1. \A k \in (i + 1)..(i + 2 - 1) : r[k].kind = "length" <=> k = i + 1
    BY <1>0, <1>3, ItemFields
  <2>2. i + 2 - 1 \in Nat /\ i + 1 \in (i + 1)..(i + 2 - 1)
    BY <1>0
  <2>3. HeaderOr(r, i + 1, i + 2 - 1, "length", -1) = r[i + 1].value
    BY <1>0, <2>1, <2>2, HeaderOne
  <2>. QED  BY <2>3, ItemFields
<1>6. ~NoBody(400)
  BY DEF NoBody
<1>7. ReadResponse(r, i) = ReadLength(r, 400, i + 3, 0)
  <2>1. i + 2 + 1 = i + 3
    BY <1>0
  <2>2. ItemAt(r, i).kind = "status" /\ ItemAt(r, i).value = 400
        /\ ItemAt(r, i + 2).kind = "blank"
    BY <1>1, ItemFields
  <2>3. ~NoBody(ItemAt(r, i).value) /\ 0 \in Nat
    BY <1>6, <2>2
  <2>4. ReadResponse(r, i) = ReadLength(r, ItemAt(r, i).value, i + 2 + 1, 0)
    BY <1>2, <1>4, <1>5, <2>2, <2>3, ReadByLength
  <2>. QED  BY <2>1, <2>2, <2>4
<1>9. \/ FailsAt(ReadResponse(r, i), i + 3)
      \/ ReadResponse(r, i) = Read(400, <<>>, 0, i + 3)
  <2>2. \/ FailsAt(ReadLength(r, 400, i + 3, 0), i + 3)
        \/ ReadLength(r, 400, i + 3, 0) = Read(400, <<>>, 0, i + 3)
    BY ReadLengthNone
  <2>. QED  BY <1>7, <2>2
<1>10. CASE FailsAt(ReadResponse(r, i), i + 3)
  BY <1>0, <1>10 DEF FailsAt
<1>11. CASE ReadResponse(r, i) = Read(400, <<>>, 0, i + 3)
  <2>1. ReadResponse(r, i).next = i + 3 /\ ReadResponse(r, i).status = 400
    BY <1>11, Results
  <2>. QED  BY <1>0, <2>1
<1>. QED  BY <1>9, <1>10, <1>11

\* A response is read to where the next one begins, and a 200 carries v; one
\* that is not all there is an error.
LEMMA ReadFrame ==
    ASSUME NEW S, NEW r \in Seq(S), NEW i \in Nat \ {0}, NEW j, NEW v, Frame(r, v, i, j)
    PROVE  /\ ReadResponse(r, i).next \in Nat \ {0}
           /\ ReadResponse(r, i).err = "nil" =>
                  /\ ReadResponse(r, i).next = j
                  /\ ReadResponse(r, i).status = 200 => ReadResponse(r, i).body = <<v>>
<1>0. Len(r) \in Nat
  OBVIOUS
<1>1. CASE i > Len(r)
  BY <1>1, ReadCut
<1>2. CASE /\ i <= Len(r) /\ j = i + 5
           /\ Holds(r, i, Item("status", 200))
           /\ Holds(r, i + 1, Item("field", 0))
           /\ Holds(r, i + 2, Item("length", 1))
           /\ Holds(r, i + 3, Item("blank", 0))
           /\ Holds(r, i + 4, Item("body", [n |-> 1, of |-> v]))
  <2>1. CASE i + 3 <= Len(r)
    BY <1>0, <1>2, <2>1, ReadAnswer DEF Holds
  <2>2. CASE ~(i + 3 <= Len(r))
    <3>1. ItemAt(r, i).kind = "status"
      BY <1>0, <1>2, ItemFields DEF ItemAt, Holds
    <3>2. \A k \in (i + 1)..Len(r) : k = i + 1 \/ k = i + 2
      BY <1>0, <2>2
    <3>3. \A k \in (i + 1)..Len(r) : r[k].kind \in HeaderKinds
      BY <1>0, <1>2, <3>2, ItemFields DEF Holds, HeaderKinds
    <3>. QED  BY <3>1, <3>3, ReadCut
  <2>. QED  BY <2>1, <2>2
<1>3. CASE /\ i <= Len(r) /\ j = i + 3
           /\ Holds(r, i, Item("status", 400))
           /\ Holds(r, i + 1, Item("length", 0))
           /\ Holds(r, i + 2, Item("blank", 0))
  <2>1. CASE i + 2 <= Len(r)
    BY <1>0, <1>3, <2>1, ReadRefusal DEF Holds
  <2>2. CASE ~(i + 2 <= Len(r))
    <3>1. ItemAt(r, i).kind = "status"
      BY <1>0, <1>3, ItemFields DEF ItemAt, Holds
    <3>2. \A k \in (i + 1)..Len(r) : k = i + 1
      BY <1>0, <2>2
    <3>3. \A k \in (i + 1)..Len(r) : r[k].kind \in HeaderKinds
      BY <1>0, <1>3, <3>2, ItemFields DEF Holds, HeaderKinds
    <3>. QED  BY <3>1, <3>3, ReadCut
  <2>. QED  BY <2>1, <2>2
<1>. QED  BY <1>0, <1>1, <1>2, <1>3 DEF Frame

-----------------------------------------------------------------------------
(* Exchange: a response carries the body of its own request *)

\* The request that the handler of c is at.
Current(c) == <<c, handler[c].served + 1>>

\* The handler's response carries its own request's body, itself or by the
\* buffer, which the handler still holds and is then none of the pool's.
Carries(c) ==
    /\ handler[c].at = "respond" => content[handler[c].buf] = Current(c)
    /\ handler[c].at \in {"responded", "returned"} =>
           \/ handler[c].out = Refusal
           \/ handler[c].out = Answer(Item("copy", Current(c)))
           \/ /\ handler[c].out = Answer(Item("buffer", handler[c].buf))
              /\ handler[c].at = "responded" /\ server.body # "pool"
              /\ content[handler[c].buf] = Current(c)

CarryInv ==
    /\ server.body = "pool" => server.copies
    /\ server = OtherServer => \A c \in Conns : handler[c].at = "idle"
    /\ content = [b \in Buffers |-> content[b]]
    /\ \A c \in Conns : Carries(c)

\* A step of c that leaves the buffer of d alone, and its handler.
LEMMA CarriesKept ==
    ASSUME NEW d \in Conns, Carries(d), handler'[d] = handler[d], UNCHANGED server,
           handler[d].at \in Holding => content'[handler[d].buf] = content[handler[d].buf]
    PROVE  Carries(d)'
<1>1. Current(d)' = Current(d)
  BY DEF Current
<1>. QED  BY <1>1 DEF Carries, Holding

LEMMA CarryMoves ==
    ASSUME BufferInv, CarryInv, NEW c \in Conns, Handle(c) \/ OtherAnswers(c)
    PROVE  CarryInv'
<1>1. HandlersHold /\ UNCHANGED server
  BY DEF BufferInv, Handle, GetBuffer, ReadBody, ReadBodyFails, Respond, ReturnBuffer,
         WriteResponse, OtherAnswers
<1>2. CASE GetBuffer(c)
  <2>1. server # OtherServer /\ UNCHANGED content
    BY <1>2 DEF GetBuffer
  <2>2. PICK b : handler' = [handler EXCEPT ![c].at = "read", ![c].buf = b]
    BY <1>2 DEF GetBuffer
  <2>3. handler'[c].at = "read" /\ \A d \in Conns \ {c} : handler'[d] = handler[d]
    BY <1>1, <2>2, HandlerLeaves DEF Leaves
  <2>4. \A d \in Conns \ {c} : Carries(d)'
    BY <1>1, <2>1, <2>3, CarriesKept DEF CarryInv
  <2>5. Carries(c)'
    BY <2>3 DEF Carries
  <2>. QED  BY <1>1, <2>1, <2>4, <2>5 DEF CarryInv
<1>3. CASE ReadBody(c)
  <2>1. handler[c].at = "read"
        /\ content' = [content EXCEPT ![handler[c].buf] = Current(c)]
    BY <1>3 DEF ReadBody, Step, Current
  <2>2. /\ handler'[c].at = "respond" /\ handler'[c].buf = handler[c].buf
        /\ handler'[c].served = handler[c].served
        /\ \A d \in Conns \ {c} : handler'[d] = handler[d]
    BY <1>1, <1>3, HandlerLeaves DEF Leaves
  <2>3. handler[c].buf \in Buffers
    BY <1>1, <2>1 DEF HandlersHold, Holding
  <2>4. \A d \in Conns \ {c} :
            handler[d].at \in Holding => content'[handler[d].buf] = content[handler[d].buf]
    <3>1. \A d \in Conns \ {c} : handler[d].at \in Holding =>
              handler[d].buf \in Buffers /\ handler[d].buf # handler[c].buf
      BY <1>1, <2>3, ApartPointwise, BufferAssumption DEF BufferInv, HandlersHold
    <3>. QED  BY <2>1, <3>1 DEF CarryInv
  <2>5. \A d \in Conns \ {c} : Carries(d)'
    BY <1>1, <2>2, <2>4, CarriesKept DEF CarryInv
  <2>6. content'[handler[c].buf] = Current(c)
    BY <2>1, <2>3 DEF CarryInv
  <2>7. Current(c)' = Current(c)
    BY <2>2 DEF Current
  <2>8. Carries(c)'
    BY <2>2, <2>6, <2>7 DEF Carries
  <2>9. content' = [b \in Buffers |-> content'[b]]
    BY <2>1 DEF CarryInv
  <2>10. server # OtherServer
    BY <2>1 DEF CarryInv
  <2>. QED  BY <1>1, <2>5, <2>8, <2>9, <2>10 DEF CarryInv
<1>4. CASE ReadBodyFails(c) \/ Respond(c) \/ ReturnBuffer(c) \/ WriteResponse(c)
  <2>1. UNCHANGED content
    BY <1>4 DEF ReadBodyFails, Respond, ReturnBuffer, WriteResponse
  <2>2. \A d \in Conns \ {c} : handler'[d] = handler[d]
    BY <1>1, <1>4, HandlerLeaves DEF Leaves
  <2>3. \A d \in Conns \ {c} : Carries(d)'
    BY <1>1, <2>1, <2>2, CarriesKept DEF CarryInv
  <2>4. handler[c].at # "idle" /\ server # OtherServer
    BY <1>4 DEF ReadBodyFails, Respond, ReturnBuffer, WriteResponse, CarryInv
  <2>5. Carries(c)'
    <3>1. CASE ReadBodyFails(c)
      <4>1. handler'[c].at = "responded" /\ handler'[c].out = Refusal
        BY <1>1, <3>1, HandlerLeaves DEF Leaves
      <4>. QED  BY <4>1 DEF Carries
    <3>2. CASE Respond(c)
      <4>1. /\ handler'[c].at = "responded" /\ handler'[c].buf = handler[c].buf
            /\ handler'[c].out = Answer(BodyItem(c)) /\ handler'[c].served = handler[c].served
        BY <1>1, <3>2, HandlerLeaves DEF Leaves
      <4>2. content[handler[c].buf] = Current(c) /\ Current(c)' = Current(c)
        BY <3>2, <4>1 DEF Respond, CarryInv, Carries, Current
      <4>3. CASE server.copies
        <5>1. handler'[c].out = Answer(Item("copy", Current(c)))
          BY <4>1, <4>2, <4>3 DEF BodyItem
        <5>. QED  BY <4>1, <4>2, <5>1 DEF Carries
      <4>4. CASE ~server.copies
        <5>1. handler'[c].out = Answer(Item("buffer", handler[c].buf)) /\ server.body # "pool"
          BY <4>1, <4>4 DEF BodyItem, CarryInv
        <5>. QED  BY <1>1, <2>1, <4>1, <4>2, <5>1 DEF Carries
      <4>. QED  BY <4>3, <4>4
    <3>3. CASE ReturnBuffer(c)
      <4>1. /\ handler'[c].at = AfterReturn(c)
            /\ handler'[c].out = handler[c].out /\ handler'[c].served = handler[c].served
        BY <1>1, <3>3, HandlerLeaves DEF Leaves
      <4>2. CASE handler[c].at = "written"
        BY <4>1, <4>2 DEF Carries, AfterReturn
      <4>3. CASE handler[c].at = "responded" /\ server.body = "pool"
        <5>1. Current(c)' = Current(c) /\ handler'[c].at = "returned"
          BY <4>1, <4>3 DEF Current, AfterReturn
        <5>2. \/ handler[c].out = Refusal
              \/ handler[c].out = Answer(Item("copy", Current(c)))
          BY <4>3 DEF CarryInv, Carries
        <5>. QED  BY <4>1, <5>1, <5>2 DEF Carries
      <4>. QED  BY <3>3, <4>2, <4>3 DEF ReturnBuffer
    <3>4. CASE WriteResponse(c)
      <4>1. handler'[c].at = AfterWrite(c)
        BY <1>1, <3>4, HandlerLeaves DEF Leaves
      <4>. QED  BY <4>1 DEF Carries, AfterWrite
    <3>. QED  BY <1>4, <3>1, <3>2, <3>3, <3>4
  <2>. QED  BY <1>1, <2>1, <2>3, <2>4, <2>5 DEF CarryInv
<1>5. CASE OtherAnswers(c)
  <2>1. UNCHANGED content /\ server = OtherServer
    BY <1>5 DEF OtherAnswers
  <2>2. handler'[c].at = handler[c].at /\ \A d \in Conns \ {c} : handler'[d] = handler[d]
    BY <1>1, <1>5, HandlerLeaves DEF Leaves
  <2>3. \A d \in Conns : handler'[d].at = "idle"
    BY <2>1, <2>2 DEF CarryInv
  <2>4. \A d \in Conns : Carries(d)'
    BY <2>3 DEF Carries
  <2>. QED  BY <1>1, <2>1, <2>3, <2>4 DEF CarryInv
<1>. QED  BY <1>2, <1>3, <1>4, <1>5 DEF Handle

\* Whoever takes its buffers from the pool copies them (Frameworks).
LEMMA PoolCopies ==
    \A f \in DOMAIN GoServers : GoServers[f].body = "pool" => GoServers[f].copies
BY DEF GoServers, Beego, Chi, EchoServer, Fasthttp, Fib, Fiber, Gin, Goji, GorillaMux, Hertz,
       HTTPRouter, NBIO, NetHTTP, OnNetHTTP

LEMMA CarryInductive == Spec => []CarryInv
<1>1. Init => CarryInv
  <2>. SUFFICES ASSUME Init PROVE CarryInv
    OBVIOUS
  <2>1. \A c \in Conns : handler[c].at = "idle"
    BY DEF Init, Idle
  <2>2. server.body = "pool" => server.copies
    BY PoolCopies DEF Init, OtherServer
  <2>3. content = [b \in Buffers |-> content[b]]
    BY DEF Init
  <2>. QED  BY <2>1, <2>2, <2>3 DEF CarryInv, Carries
<1>2. BufferInv /\ CarryInv /\ [Next]_vars => CarryInv'
  <2>. SUFFICES ASSUME BufferInv, CarryInv, [Next]_vars PROVE CarryInv'
    OBVIOUS
  <2>1. CASE UNCHANGED <<server, handler, content>>
    BY <2>1 DEF CarryInv, Carries, Current
  <2>2. ASSUME NEW c \in Conns, Close(c) \/ Send(c) \/ Receive(c)
        PROVE  CarryInv'
    BY <2>1, <2>2 DEF Close, Send, Receive, serverVars
  <2>3. CASE UNCHANGED vars
    BY <2>1, <2>3 DEF vars
  <2>. QED  BY <2>2, <2>3, CarryMoves DEF Next, Terminated
<1>. QED  BY <1>1, <1>2, BufferInductive, PTL DEF Spec

-----------------------------------------------------------------------------
(* Exchange: what a Go server writes is one response per request *)

\* What the responses of a Go server are made of.
StreamItems ==
    {Item("status", 200), Item("status", 400), Item("field", 0),
     Item("length", 1), Item("length", 0), Item("blank", 0)}
    \cup {Item("body", [n |-> 1, of |-> v]) : v \in Conns \X Nat}

\* w is the response to the request v.
Response(w, v) ==
    \/ /\ Len(w) = 5
       /\ w[1] = Item("status", 200) /\ w[2] = Item("field", 0) /\ w[3] = Item("length", 1)
       /\ w[4] = Item("blank", 0) /\ w[5] = Item("body", [n |-> 1, of |-> v])
    \/ /\ Len(w) = 3
       /\ w[1] = Item("status", 400) /\ w[2] = Item("length", 0) /\ w[3] = Item("blank", 0)

\* The two sequences that Written is put together from.
LEMMA Joined ==
    ASSUME NEW S, NEW a \in S, NEW b \in S, NEW c \in S, NEW d, NEW e \in S, NEW f \in S
    PROVE  LET w == SubSeq(<<a, b, c, d>>, 1, 3) \o <<e, f>>
           IN  /\ w \in Seq(S) /\ Len(w) = 5
               /\ w[1] = a /\ w[2] = b /\ w[3] = c /\ w[4] = e /\ w[5] = f
<1>. DEFINE s == <<a, b, c, d>>  u == SubSeq(s, 1, 3)
<1>1. s[1] = a /\ s[2] = b /\ s[3] = c
  OBVIOUS
<1>2. \A i \in 1..3 : s[i] \in S
  BY <1>1
<1>. HIDE DEF s
<1>3. u \in Seq(S) /\ Len(u) = 3 /\ \A i \in 1..3 : u[i] = s[i]
  BY <1>2, SubSeqProperties
<1>. HIDE DEF u
<1>. DEFINE t == <<e, f>>
<1>4. t \in Seq(S) /\ Len(t) = 2 /\ t[1] = e /\ t[2] = f
  OBVIOUS
<1>. HIDE DEF t
<1>5. /\ u \o t \in Seq(S) /\ Len(u \o t) = 5
      /\ \A i \in 1..5 : (u \o t)[i] = IF i <= 3 THEN u[i] ELSE t[i - 3]
  <2>1. /\ u \o t \in Seq(S) /\ Len(u \o t) = Len(u) + Len(t)
        /\ \A i \in 1..(Len(u) + Len(t)) :
               (u \o t)[i] = IF i <= Len(u) THEN u[i] ELSE t[i - Len(u)]
    BY <1>3, <1>4, ConcatProperties
  <2>2. Len(u) + Len(t) = 5
    BY <1>3, <1>4
  <2>. QED  BY <1>3, <2>1, <2>2
<1>6. /\ (u \o t)[1] = a /\ (u \o t)[2] = b /\ (u \o t)[3] = c
      /\ (u \o t)[4] = e /\ (u \o t)[5] = f
  BY <1>1, <1>3, <1>4, <1>5
<1>. QED  BY <1>5, <1>6 DEF s, u, t

LEMMA WrittenIs ==
    ASSUME NEW c \in Conns, handler[c].served \in Nat, Carries(c),
           handler[c].at \in {"responded", "returned"}
    PROVE  /\ Written(handler[c].out) \in Seq(StreamItems)
           /\ Response(Written(handler[c].out), Current(c))
<1>. DEFINE out == handler[c].out
            v == Current(c)
            blank == Item("blank", 0)
            body == Item("body", [n |-> 1, of |-> v])
<1>1. v \in Conns \X Nat
  BY DEF Current
<1>2. /\ Item("status", 200) \in StreamItems /\ Item("status", 400) \in StreamItems
      /\ Item("field", 0) \in StreamItems /\ Item("length", 1) \in StreamItems
      /\ Item("length", 0) \in StreamItems /\ blank \in StreamItems /\ body \in StreamItems
  BY <1>1 DEF StreamItems
<1>3. CASE out = Refusal
  <2>1. out[Len(out)] = Item("length", 0)
    BY <1>3 DEF Refusal
  <2>4. out[Len(out)].kind = "length"
    BY <2>1, ItemFields
  <2>2. Written(out) = Append(Refusal, blank)
    BY <1>3, <2>4 DEF Written
  <2>3. Append(Refusal, blank) \in Seq(StreamItems) /\ Len(Append(Refusal, blank)) = 3
        /\ Append(Refusal, blank)[1] = Item("status", 400)
        /\ Append(Refusal, blank)[2] = Item("length", 0) /\ Append(Refusal, blank)[3] = blank
    BY <1>2 DEF Refusal
  <2>. QED  BY <2>2, <2>3 DEF Response
<1>4. ASSUME NEW item, out = Answer(item),
             Written(out) = SubSeq(out, 1, 3) \o <<blank, body>>
      PROVE  Written(out) \in Seq(StreamItems) /\ Response(Written(out), v)
  <2>. DEFINE w == SubSeq(<<Item("status", 200), Item("field", 0), Item("length", 1), item>>,
                          1, 3) \o <<blank, body>>
  <2>1. /\ w \in Seq(StreamItems) /\ Len(w) = 5
        /\ w[1] = Item("status", 200) /\ w[2] = Item("field", 0) /\ w[3] = Item("length", 1)
        /\ w[4] = blank /\ w[5] = body
    BY <1>2, Joined
  <2>2. Written(out) = w
    BY <1>4 DEF Answer
  <2>. HIDE DEF w
  <2>. QED  BY <2>1, <2>2 DEF Response
<1>5. ASSUME NEW item, out = Answer(item)
      PROVE  Len(out) = 4 /\ out[Len(out)] = item
  BY <1>5 DEF Answer
<1>6. CASE out = Answer(Item("copy", v))
  <2>1. Len(out) = 4 /\ out[Len(out)].kind = "copy" /\ out[Len(out)].value = v
    BY <1>5, <1>6, ItemFields
  <2>2. Written(out) = SubSeq(out, 1, 3) \o <<blank, body>>
    BY <2>1 DEF Written
  <2>. QED  BY <1>4, <1>6, <2>2
<1>7. CASE out = Answer(Item("buffer", handler[c].buf)) /\ content[handler[c].buf] = v
  <2>1. Len(out) = 4 /\ out[Len(out)].kind = "buffer"
        /\ content[out[Len(out)].value] = v
    BY <1>5, <1>7, ItemFields
  <2>2. Written(out) = SubSeq(out, 1, 3) \o <<blank, body>>
    BY <2>1 DEF Written
  <2>. QED  BY <1>4, <1>7, <2>2
<1>. QED  BY <1>3, <1>6, <1>7 DEF Carries

\* The stream r of c is the responses to the requests that have been served,
\* in their order, from starts[1], starts[2] ...: all of them while it is open,
\* and as many as were written or not cut off once it is closed.
Frames(r, c, served, isClosed, starts) ==
    /\ starts[1] = 1
    /\ \A k \in 1..served : Frame(r, <<c, k>>, starts[k], starts[k + 1])
    /\ Len(r) < starts[served + 1]
    /\ ~isClosed => \A k \in 1..(served + 1) : starts[k] <= Len(r) + 1

Starts(served) == [1..(served + 1) -> Nat \ {0}]

\* One more response of length n starts where the last one ended.
OneMore(starts, served, n) ==
    [k \in 1..(served + 2) |-> IF k <= served + 1 THEN starts[k] ELSE starts[served + 1] + n]

LEMMA OneMoreIs ==
    ASSUME NEW served \in Nat, NEW starts \in Starts(served), NEW n \in Nat
    PROVE  /\ OneMore(starts, served, n) \in Starts(served + 1)
           /\ \A k \in 1..(served + 1) : OneMore(starts, served, n)[k] = starts[k]
           /\ OneMore(starts, served, n)[served + 2] = starts[served + 1] + n
<1>1. served + 1 \in 1..(served + 1) /\ served + 1 + 1 = served + 2
      /\ served + 2 \in 1..(served + 2) /\ ~(served + 2 <= served + 1)
  OBVIOUS
<1>2. starts[served + 1] \in Nat \ {0} /\ starts[served + 1] + n \in Nat \ {0}
  BY <1>1 DEF Starts
<1>3. \A k \in 1..(served + 2) :
          (IF k <= served + 1 THEN starts[k] ELSE starts[served + 1] + n) \in Nat \ {0}
  BY <1>2 DEF Starts
<1>. QED  BY <1>1, <1>3 DEF OneMore, Starts

\* A response that is the same in r2, as far as r2 goes.
LEMMA FrameKept ==
    ASSUME NEW S, NEW r \in Seq(S), NEW r2 \in Seq(S), NEW v, NEW i \in Nat \ {0}, NEW j,
           Frame(r, v, i, j),
           \A m \in Nat : i <= m /\ m < j /\ m <= Len(r2) => m <= Len(r) /\ r2[m] = r[m]
    PROVE  Frame(r2, v, i, j)
<1>1. i \in Nat /\ i + 1 \in Nat /\ i + 2 \in Nat /\ i + 3 \in Nat /\ i + 4 \in Nat
      /\ j \in Nat /\ i < j
  BY DEF Frame
<1>2. ASSUME NEW x, NEW m \in Nat, i <= m, m < j, Holds(r, m, x)
      PROVE  Holds(r2, m, x)
  BY <1>2 DEF Holds
<1>. QED  BY <1>1, <1>2 DEF Frame

\* A response at the end of what was written.
LEMMA FrameWritten ==
    ASSUME NEW S, NEW r \in Seq(S), NEW w \in Seq(S), NEW v, Response(w, v)
    PROVE  Frame(r \o w, v, Len(r) + 1, Len(r) + 1 + Len(w)) /\ Len(w) \in Nat \ {0}
<1>1. /\ Len(r) \in Nat /\ Len(w) \in {3, 5}
      /\ \A i \in 1..(Len(r) + Len(w)) :
             (r \o w)[i] = IF i <= Len(r) THEN r[i] ELSE w[i - Len(r)]
  BY ConcatProperties DEF Response
<1>2. ASSUME NEW i \in 1..Len(w) PROVE (r \o w)[Len(r) + i] = w[i]
  <2>1. Len(r) + i \in 1..(Len(r) + Len(w)) /\ ~(Len(r) + i <= Len(r)) /\ Len(r) + i - Len(r) = i
    BY <1>1
  <2>. QED  BY <1>1, <2>1
<1>3. CASE Len(w) = 5
  <2>1. /\ (r \o w)[Len(r) + 1] = w[1] /\ (r \o w)[Len(r) + 2] = w[2]
        /\ (r \o w)[Len(r) + 3] = w[3] /\ (r \o w)[Len(r) + 4] = w[4]
        /\ (r \o w)[Len(r) + 5] = w[5]
    <3>1. 1 \in 1..Len(w) /\ 2 \in 1..Len(w) /\ 3 \in 1..Len(w) /\ 4 \in 1..Len(w)
          /\ 5 \in 1..Len(w)
      BY <1>3
    <3>. QED  BY <1>2, <3>1, Zenon
  <2>2. /\ Len(r) + 1 + 1 = Len(r) + 2 /\ Len(r) + 1 + 2 = Len(r) + 3
        /\ Len(r) + 1 + 3 = Len(r) + 4 /\ Len(r) + 1 + 4 = Len(r) + 5
    BY <1>1
  <2>. QED  BY <1>3, <2>1, <2>2 DEF Response, Frame, Holds
<1>4. CASE Len(w) = 3
  <2>1. /\ (r \o w)[Len(r) + 1] = w[1] /\ (r \o w)[Len(r) + 2] = w[2]
        /\ (r \o w)[Len(r) + 3] = w[3]
    <3>1. 1 \in 1..Len(w) /\ 2 \in 1..Len(w) /\ 3 \in 1..Len(w)
      BY <1>4
    <3>. QED  BY <1>2, <3>1, Zenon
  <2>2. Len(r) + 1 + 1 = Len(r) + 2 /\ Len(r) + 1 + 2 = Len(r) + 3
    BY <1>1
  <2>. QED  BY <1>4, <2>1, <2>2 DEF Response, Frame, Holds
<1>. QED  BY <1>1, <1>3, <1>4

\* A response that is not written, because the stream ends before it.
LEMMA FrameUnwritten ==
    ASSUME NEW r, Len(r) \in Nat, NEW v, NEW i \in Nat, Len(r) < i
    PROVE  Frame(r, v, i, i + 5)
BY DEF Frame, Holds

LEMMA FramesWritten ==
    ASSUME NEW S, NEW r \in Seq(S), NEW w \in Seq(S), NEW c, NEW served \in Nat,
           NEW starts \in Starts(served), Frames(r, c, served, FALSE, starts),
           Response(w, <<c, served + 1>>)
    PROVE  Frames(r \o w, c, served + 1, FALSE, OneMore(starts, served, Len(w)))
<1>. DEFINE n == Len(w)
            more == OneMore(starts, served, n)
            r2 == r \o w
<1>1. /\ more \in Starts(served + 1) /\ n \in Nat \ {0}
      /\ \A k \in 1..(served + 1) : more[k] = starts[k]
      /\ more[served + 2] = starts[served + 1] + n
  BY OneMoreIs, FrameWritten
<1>2. /\ Len(r) \in Nat /\ r2 \in Seq(S) /\ Len(r2) = Len(r) + n
      /\ \A m \in 1..Len(r) : r2[m] = r[m]
  BY ConcatProperties
<1>3. starts[served + 1] = Len(r) + 1
  <2>1. starts[served + 1] \in Nat /\ served + 1 \in 1..(served + 1)
    BY DEF Starts
  <2>. QED  BY <1>2, <2>1 DEF Frames
<1>4. Frame(r2, <<c, served + 1>>, Len(r) + 1, Len(r) + 1 + n)
  BY FrameWritten
<1>. HIDE DEF n, more, r2
<1>5. ASSUME NEW k \in 1..(served + 1)
      PROVE  Frame(r2, <<c, k>>, more[k], more[k + 1])
  <2>1. CASE k = served + 1
    <3>1. k + 1 = served + 2 /\ more[k] = Len(r) + 1 /\ more[k + 1] = Len(r) + 1 + n
      BY <1>1, <1>3, <2>1
    <3>. QED  BY <1>4, <2>1, <3>1
  <2>2. CASE k \in 1..served
    <3>1. k + 1 \in 1..(served + 1) /\ more[k] = starts[k] /\ more[k + 1] = starts[k + 1]
      BY <1>1, <2>2
    <3>2. starts[k] \in Nat \ {0} /\ starts[k + 1] <= Len(r) + 1 /\ starts[k + 1] \in Nat
      BY <2>2, <3>1 DEF Frames, Starts
    <3>3. Frame(r, <<c, k>>, starts[k], starts[k + 1])
      BY <2>2 DEF Frames
    <3>4. \A m \in Nat : starts[k] <= m /\ m < starts[k + 1] /\ m <= Len(r2)
                            => m <= Len(r) /\ r2[m] = r[m]
      BY <1>2, <3>2
    <3>5. Frame(r2, <<c, k>>, starts[k], starts[k + 1])
      BY <1>2, <3>2, <3>3, <3>4, FrameKept
    <3>. QED  BY <3>1, <3>5
  <2>. QED  BY <2>1, <2>2
<1>6. more[1] = 1
  BY <1>1 DEF Frames
<1>7. Len(r2) < more[served + 1 + 1]
  <2>1. served + 1 + 1 = served + 2
    OBVIOUS
  <2>. QED  BY <1>1, <1>2, <1>3, <2>1
<1>8. \A k \in 1..(served + 1 + 1) : more[k] <= Len(r2) + 1
  <2>1. \A k \in 1..(served + 1 + 1) : k \in 1..(served + 1) \/ k = served + 2
    OBVIOUS
  <2>2. \A k \in 1..(served + 1) : more[k] <= Len(r) + 1 /\ more[k] \in Nat
    BY <1>1 DEF Frames, Starts
  <2>. QED  BY <1>1, <1>2, <1>3, <2>1, <2>2
<1>. QED  BY <1>5, <1>6, <1>7, <1>8 DEF Frames, r2, more, n

LEMMA FramesUnwritten ==
    ASSUME NEW S, NEW r \in Seq(S), NEW c, NEW served \in Nat,
           NEW starts \in Starts(served), Frames(r, c, served, TRUE, starts)
    PROVE  Frames(r, c, served + 1, TRUE, OneMore(starts, served, 5))
<1>. DEFINE more == OneMore(starts, served, 5)
<1>1. /\ \A k \in 1..(served + 1) : more[k] = starts[k]
      /\ more[served + 2] = starts[served + 1] + 5
  <2>1. 5 \in Nat
    OBVIOUS
  <2>. QED  BY <2>1, OneMoreIs, Zenon
<1>2. starts[served + 1] \in Nat /\ Len(r) \in Nat /\ Len(r) < starts[served + 1]
  BY DEF Frames, Starts
<1>3. Frame(r, <<c, served + 1>>, starts[served + 1], starts[served + 1] + 5)
  BY <1>2, FrameUnwritten
<1>. HIDE DEF more
<1>4. ASSUME NEW k \in 1..(served + 1)
      PROVE  Frame(r, <<c, k>>, more[k], more[k + 1])
  <2>1. CASE k = served + 1
    <3>1. k + 1 = served + 2
      BY <2>1
    <3>. QED  BY <1>1, <1>3, <2>1, <3>1
  <2>2. CASE k \in 1..served
    <3>1. k + 1 \in 1..(served + 1) /\ more[k] = starts[k] /\ more[k + 1] = starts[k + 1]
      BY <1>1, <2>2
    <3>. QED  BY <2>2, <3>1 DEF Frames
  <2>. QED  BY <2>1, <2>2
<1>5. more[1] = 1
  BY <1>1 DEF Frames
<1>6. Len(r) < more[served + 1 + 1]
  <2>1. served + 1 + 1 = served + 2
    OBVIOUS
  <2>. QED  BY <1>1, <1>2, <2>1
<1>. QED  BY <1>4, <1>5, <1>6 DEF Frames, more

LEMMA FramesCut ==
    ASSUME NEW S, NEW r \in Seq(S), NEW c, NEW served \in Nat, NEW isClosed,
           NEW starts \in Starts(served), Frames(r, c, served, isClosed, starts),
           NEW end \in 0..Len(r)
    PROVE  Frames(SubSeq(r, 1, end), c, served, TRUE, starts)
<1>. DEFINE r2 == SubSeq(r, 1, end)
<1>1. r2 \in Seq(S) /\ Len(r2) = end /\ \A m \in 1..end : r2[m] = r[m]
  <2>1. \A m \in 1..end : r[m] \in S
    OBVIOUS
  <2>. QED  BY <2>1, SubSeqProperties
<1>. HIDE DEF r2
<1>2. ASSUME NEW k \in 1..served
      PROVE  Frame(r2, <<c, k>>, starts[k], starts[k + 1])
  <2>1. starts[k] \in Nat \ {0} /\ Frame(r, <<c, k>>, starts[k], starts[k + 1])
    BY DEF Frames, Starts
  <2>2. \A m \in Nat : starts[k] <= m /\ m < starts[k + 1] /\ m <= Len(r2)
                          => m <= Len(r) /\ r2[m] = r[m]
    BY <1>1, <2>1
  <2>. QED  BY <1>1, <2>1, <2>2, FrameKept
<1>3. starts[served + 1] \in Nat /\ Len(r) < starts[served + 1] /\ Len(r) \in Nat
  BY DEF Frames, Starts
<1>4. Len(r2) < starts[served + 1]
  BY <1>1, <1>3
<1>. QED  BY <1>2, <1>4 DEF Frames, r2

-----------------------------------------------------------------------------
(* Exchange: the client reads the responses one after the other *)

\* The client is where the response to its next request starts.
ReadUpTo(c, starts) ==
    last[c].err = "nil" =>
        answered[c] \in 0..handler[c].served /\ pos[c] = starts[answered[c] + 1]

Framed(c) ==
    \E starts \in Starts(handler[c].served) :
        Frames(stream[c], c, handler[c].served, closed[c], starts) /\ ReadUpTo(c, starts)

\* A 200 it has read has the body of its own request.
Echoed(c) ==
    answered[c] > 0 /\ last[c].err = "nil" /\ last[c].status = 200
        => last[c].body = << <<c, answered[c]>> >>

StreamTypes ==
    /\ stream \in [Conns -> Seq(StreamItems)]
    /\ closed \in [Conns -> BOOLEAN]
    /\ pos \in [Conns -> Nat \ {0}]
    /\ answered = [c \in Conns |-> answered[c]]
    /\ last = [c \in Conns |-> last[c]]

FrameInv ==
    server # OtherServer =>
        StreamTypes /\ \A c \in Conns : Framed(c) /\ Echoed(c)

\* A connection that a step does not write, read or close.
LEMMA FramedKept ==
    ASSUME NEW d, Framed(d) /\ Echoed(d), handler'[d].served = handler[d].served,
           stream'[d] = stream[d], closed'[d] = closed[d], pos'[d] = pos[d],
           answered'[d] = answered[d], last'[d] = last[d]
    PROVE  Framed(d)' /\ Echoed(d)'
BY DEF Framed, Echoed, ReadUpTo

LEMMA WriteFramed ==
    ASSUME BufferInv, CarryInv, StreamTypes, NEW c \in Conns, WriteResponse(c),
           Framed(c), Echoed(c)
    PROVE  StreamTypes' /\ Framed(c)' /\ Echoed(c)'
<1>. DEFINE served == handler[c].served
            w == Written(handler[c].out)
<1>1. /\ HandlersHold /\ served \in Nat /\ Carries(c)
      /\ handler[c].at \in {"responded", "returned"}
      /\ stream' = IF closed[c] THEN stream ELSE [stream EXCEPT ![c] = @ \o w]
      /\ UNCHANGED <<closed, pos, answered, last>>
  BY DEF BufferInv, CarryInv, HandlersHold, WriteResponse, clientVars
<1>2. handler'[c].served = served + 1
  BY <1>1, HandlerLeaves DEF Leaves
<1>3. w \in Seq(StreamItems) /\ Response(w, <<c, served + 1>>)
  BY <1>1, WrittenIs DEF Current
<1>4. stream[c] \in Seq(StreamItems) /\ closed[c] \in BOOLEAN
  BY DEF StreamTypes
<1>5. PICK starts \in Starts(served) :
          Frames(stream[c], c, served, closed[c], starts) /\ ReadUpTo(c, starts)
  BY DEF Framed
<1>. HIDE DEF w
<1>6. StreamTypes'
  <2>1. stream[c] \o w \in Seq(StreamItems)
    BY <1>3, <1>4
  <2>. QED  BY <1>1, <2>1 DEF StreamTypes
<1>7. \E more \in Starts(served + 1) :
          /\ Frames(stream'[c], c, served + 1, closed[c], more)
          /\ \A k \in 1..(served + 1) : more[k] = starts[k]
  <2>1. CASE closed[c]
    <3>1. stream'[c] = stream[c] /\ 5 \in Nat
      BY <1>1, <2>1
    <3>2. Frames(stream[c], c, served, TRUE, starts)
      BY <1>5, <2>1 DEF Frames
    <3>3. Frames(stream[c], c, served + 1, TRUE, OneMore(starts, served, 5))
      BY <1>1, <1>4, <3>2, FramesUnwritten
    <3>4. Frames(stream'[c], c, served + 1, closed[c], OneMore(starts, served, 5))
      BY <2>1, <3>1, <3>3 DEF Frames
    <3>5. /\ OneMore(starts, served, 5) \in Starts(served + 1)
          /\ \A k \in 1..(served + 1) : OneMore(starts, served, 5)[k] = starts[k]
      BY <1>1, <3>1, OneMoreIs, Zenon
    <3>. QED  BY <3>4, <3>5
  <2>2. CASE ~closed[c]
    <3>1. stream'[c] = stream[c] \o w
      BY <1>1, <2>2 DEF StreamTypes
    <3>2. Frames(stream[c], c, served, FALSE, starts)
      BY <1>5, <2>2 DEF Frames
    <3>3. Frames(stream[c] \o w, c, served + 1, FALSE, OneMore(starts, served, Len(w)))
      BY <1>1, <1>3, <1>4, <3>2, FramesWritten
    <3>4. Frames(stream'[c], c, served + 1, closed[c], OneMore(starts, served, Len(w)))
      BY <2>2, <3>1, <3>3 DEF Frames
    <3>5. Len(w) \in Nat
      BY <1>3
    <3>6. /\ OneMore(starts, served, Len(w)) \in Starts(served + 1)
          /\ \A k \in 1..(served + 1) : OneMore(starts, served, Len(w))[k] = starts[k]
      BY <1>1, <3>5, OneMoreIs
    <3>. QED  BY <3>4, <3>6
  <2>. QED  BY <2>1, <2>2
<1>8. PICK more \in Starts(served + 1) :
          /\ Frames(stream'[c], c, served + 1, closed[c], more)
          /\ \A k \in 1..(served + 1) : more[k] = starts[k]
  BY <1>7
<1>9. ReadUpTo(c, more)'
  <2>. SUFFICES ASSUME last[c].err = "nil"
                PROVE  answered[c] \in 0..(served + 1) /\ pos[c] = more[answered[c] + 1]
    BY <1>1, <1>2 DEF ReadUpTo
  <2>1. answered[c] \in 0..served /\ pos[c] = starts[answered[c] + 1]
    BY <1>5 DEF ReadUpTo
  <2>2. answered[c] + 1 \in 1..(served + 1) /\ answered[c] \in 0..(served + 1)
    BY <1>1, <2>1
  <2>. QED  BY <1>8, <2>1, <2>2
<1>10. Framed(c)'
  <2>1. handler'[c].served = served + 1 /\ closed'[c] = closed[c]
    BY <1>1, <1>2
  <2>2. more \in Starts(handler'[c].served)
        /\ Frames(stream'[c], c, handler'[c].served, closed'[c], more)
    BY <1>8, <2>1
  <2>. QED  BY <1>9, <2>2 DEF Framed
<1>11. Echoed(c)'
  BY <1>1 DEF Echoed
<1>. QED  BY <1>6, <1>10, <1>11

LEMMA CloseFramed ==
    ASSUME BufferInv, StreamTypes, NEW c \in Conns, Close(c), Framed(c), Echoed(c)
    PROVE  StreamTypes' /\ Framed(c)' /\ Echoed(c)'
<1>. DEFINE served == handler[c].served
<1>1. served \in Nat /\ UNCHANGED <<handler, pos, answered, last>>
      /\ closed' = [closed EXCEPT ![c] = TRUE]
  BY DEF BufferInv, HandlersHold, Close, clientVars
<1>2. stream[c] \in Seq(StreamItems) /\ pos[c] \in Nat \ {0}
  BY DEF StreamTypes
<1>3. PICK end \in (pos[c] - 1)..Len(stream[c]) :
          stream' = [stream EXCEPT ![c] = SubSeq(@, 1, end)]
  BY DEF Close
<1>4. end \in 0..Len(stream[c])
  BY <1>2, <1>3
<1>5. PICK starts \in Starts(served) :
          Frames(stream[c], c, served, closed[c], starts) /\ ReadUpTo(c, starts)
  BY DEF Framed
<1>6. SubSeq(stream[c], 1, end) \in Seq(StreamItems)
  <2>1. \A m \in 1..end : stream[c][m] \in StreamItems
    BY <1>2, <1>4
  <2>. QED  BY <1>4, <2>1, SubSeqProperties
<1>7. stream'[c] = SubSeq(stream[c], 1, end) /\ closed'[c] = TRUE
  BY <1>1, <1>3 DEF StreamTypes
<1>8. StreamTypes'
  BY <1>1, <1>3, <1>6 DEF StreamTypes
<1>9. Frames(stream'[c], c, served, closed'[c], starts)
  BY <1>1, <1>2, <1>4, <1>5, <1>7, FramesCut
<1>10. ReadUpTo(c, starts)'
  BY <1>1, <1>5 DEF ReadUpTo
<1>11. Framed(c)'
  BY <1>1, <1>9, <1>10 DEF Framed
<1>12. Echoed(c)'
  BY <1>1 DEF Echoed
<1>. QED  BY <1>8, <1>11, <1>12

LEMMA ReceiveFramed ==
    ASSUME BufferInv, StreamTypes, NEW c \in Conns, Receive(c), Framed(c), Echoed(c)
    PROVE  StreamTypes' /\ Framed(c)' /\ Echoed(c)'
<1>. DEFINE served == handler[c].served
            n == answered[c]
            result == ReadResponse(stream[c], pos[c])
<1>1. /\ served \in Nat /\ last[c].err = "nil"
      /\ UNCHANGED <<handler, stream, closed>>
      /\ last' = [last EXCEPT ![c] = result]
      /\ pos' = [pos EXCEPT ![c] = result.next]
      /\ answered' = [answered EXCEPT ![c] = n + 1]
  BY DEF BufferInv, HandlersHold, Receive, serverVars
<1>2. stream[c] \in Seq(StreamItems) /\ pos[c] \in Nat \ {0} /\ Len(stream[c]) \in Nat
  BY DEF StreamTypes
<1>. HIDE DEF result
<1>3. PICK starts \in Starts(served) :
          Frames(stream[c], c, served, closed[c], starts) /\ ReadUpTo(c, starts)
  BY DEF Framed
<1>4. n \in 0..served /\ pos[c] = starts[n + 1]
  BY <1>1, <1>3 DEF ReadUpTo
<1>5. /\ result.next \in Nat \ {0}
      /\ result.err = "nil" =>
             /\ n + 1 \in 0..served /\ result.next = starts[n + 1 + 1]
             /\ result.status = 200 => result.body = << <<c, n + 1>> >>
  <2>1. CASE n = served
    <3>1. pos[c] > Len(stream[c])
      <4>1. starts[served + 1] \in Nat /\ Len(stream[c]) < starts[served + 1]
        BY <1>1, <1>3 DEF Frames, Starts
      <4>. QED  BY <1>2, <1>4, <2>1, <4>1
    <3>2. result.err = "eof" /\ result.next \in Nat \ {0}
      BY <1>2, <3>1, ReadCut DEF result
    <3>. QED  BY <3>2
  <2>2. CASE n # served
    <3>1. n + 1 \in 1..served
      BY <1>1, <1>4, <2>2
    <3>2. Frame(stream[c], <<c, n + 1>>, pos[c], starts[n + 1 + 1])
      BY <1>3, <1>4, <3>1 DEF Frames
    <3>. QED  BY <1>2, <3>1, <3>2, ReadFrame DEF result
  <2>. QED  BY <2>1, <2>2
<1>6. last'[c] = result /\ pos'[c] = result.next /\ answered'[c] = n + 1
  BY <1>1 DEF StreamTypes
<1>7. StreamTypes'
  BY <1>1, <1>5 DEF StreamTypes
<1>8. Framed(c)'
  <2>1. ReadUpTo(c, starts)'
    BY <1>1, <1>5, <1>6 DEF ReadUpTo
  <2>2. starts \in Starts(handler'[c].served)
        /\ Frames(stream'[c], c, handler'[c].served, closed'[c], starts)
    BY <1>1, <1>3
  <2>. QED  BY <2>1, <2>2 DEF Framed
<1>9. Echoed(c)'
  BY <1>5, <1>6 DEF Echoed
<1>. QED  BY <1>7, <1>8, <1>9

\* A connection that the step is not one of.
LEMMA OthersFramed ==
    ASSUME BufferInv, StreamTypes, NEW c \in Conns, NEW d \in Conns \ {c},
           Framed(d) /\ Echoed(d),
           Handle(c) \/ Close(c) \/ Send(c) \/ Receive(c)
    PROVE  Framed(d)' /\ Echoed(d)'
<1>1. HandlersHold
  BY DEF BufferInv
<1>2. handler'[d] = handler[d]
  <2>1. CASE GetBuffer(c)
    <3>1. PICK b : handler' = [handler EXCEPT ![c].at = "read", ![c].buf = b]
      BY <2>1 DEF GetBuffer
    <3>. QED  BY <1>1, <3>1, HandlerLeaves DEF Leaves
  <2>2. CASE ReadBody(c) \/ ReadBodyFails(c) \/ Respond(c) \/ ReturnBuffer(c) \/ WriteResponse(c)
    BY <1>1, <2>2, HandlerLeaves DEF Leaves
  <2>3. CASE Close(c) \/ Send(c) \/ Receive(c)
    BY <2>3 DEF Close, Send, Receive, serverVars
  <2>. QED  BY <2>1, <2>2, <2>3 DEF Handle
<1>3. /\ stream'[d] = stream[d] /\ closed'[d] = closed[d] /\ pos'[d] = pos[d]
      /\ answered'[d] = answered[d] /\ last'[d] = last[d]
  BY DEF StreamTypes, Handle, GetBuffer, ReadBody, ReadBodyFails, Respond, ReturnBuffer,
         WriteResponse, Close, Send, Receive, serverVars, clientVars
<1>. QED  BY <1>2, <1>3, FramedKept

LEMMA FrameMoves ==
    ASSUME BufferInv, CarryInv, StreamTypes, \A d \in Conns : Framed(d) /\ Echoed(d),
           NEW c \in Conns, Handle(c) \/ Close(c) \/ Send(c) \/ Receive(c)
    PROVE  StreamTypes' /\ \A d \in Conns : Framed(d)' /\ Echoed(d)'
<1>1. \A d \in Conns \ {c} : Framed(d)' /\ Echoed(d)'
  BY OthersFramed
<1>2. StreamTypes' /\ Framed(c)' /\ Echoed(c)'
  <2>1. CASE WriteResponse(c)
    BY <2>1, WriteFramed
  <2>2. CASE Close(c)
    BY <2>2, CloseFramed
  <2>3. CASE Receive(c)
    BY <2>3, ReceiveFramed
  <2>4. CASE GetBuffer(c) \/ ReadBody(c) \/ ReadBodyFails(c) \/ Respond(c) \/ ReturnBuffer(c)
             \/ Send(c)
    <3>1. UNCHANGED <<stream, closed, pos, answered, last>>
      BY <2>4 DEF GetBuffer, ReadBody, ReadBodyFails, Respond, ReturnBuffer, Send, clientVars
    <3>2. handler'[c].served = handler[c].served
      <4>1. HandlersHold
        BY DEF BufferInv
      <4>2. CASE GetBuffer(c)
        <5>1. PICK b : handler' = [handler EXCEPT ![c].at = "read", ![c].buf = b]
          BY <4>2 DEF GetBuffer
        <5>. QED  BY <4>1, <5>1, HandlerLeaves DEF Leaves
      <4>3. CASE ReadBody(c) \/ ReadBodyFails(c) \/ Respond(c) \/ ReturnBuffer(c)
        BY <4>1, <4>3, HandlerLeaves DEF Leaves
      <4>4. CASE Send(c)
        BY <4>4 DEF Send, serverVars
      <4>. QED  BY <2>4, <4>2, <4>3, <4>4
    <3>3. Framed(c)' /\ Echoed(c)'
      BY <3>1, <3>2, FramedKept
    <3>4. StreamTypes'
      BY <3>1 DEF StreamTypes
    <3>. QED  BY <3>3, <3>4
  <2>. QED  BY <2>1, <2>2, <2>3, <2>4 DEF Handle
<1>. QED  BY <1>1, <1>2

LEMMA FrameInductive == Spec => []FrameInv
<1>1. Init => FrameInv
  <2>. SUFFICES ASSUME Init PROVE FrameInv
    OBVIOUS
  <2>1. StreamTypes
    BY DEF Init, StreamTypes
  <2>2. ASSUME NEW c \in Conns PROVE Framed(c) /\ Echoed(c)
    <3>1. /\ handler[c].served = 0 /\ stream[c] = <<>> /\ answered[c] = 0 /\ pos[c] = 1
      BY DEF Init, Idle
    <3>. DEFINE starts == [k \in 1..1 |-> 1]
    <3>2. starts \in Starts(0) /\ starts[1] = 1
      BY DEF Starts
    <3>. HIDE DEF starts
    <3>3. Frames(<<>>, c, 0, closed[c], starts)
      BY <3>2 DEF Frames
    <3>4. ReadUpTo(c, starts)
      BY <3>1, <3>2 DEF ReadUpTo
    <3>5. Framed(c)
      BY <3>1, <3>2, <3>3, <3>4 DEF Framed
    <3>. QED  BY <3>1, <3>5 DEF Echoed
  <2>. QED  BY <2>1, <2>2 DEF FrameInv
<1>2. BufferInv /\ CarryInv /\ FrameInv /\ [Next]_vars => FrameInv'
  <2>. SUFFICES ASSUME BufferInv, CarryInv, FrameInv, [Next]_vars, server' # OtherServer
                PROVE  StreamTypes' /\ \A d \in Conns : Framed(d)' /\ Echoed(d)'
    BY DEF FrameInv
  <2>1. UNCHANGED server
    BY DEF Next, Terminated, Handle, GetBuffer, ReadBody, ReadBodyFails, Respond, ReturnBuffer,
           WriteResponse, OtherAnswers, Close, Send, Receive, serverVars, vars
  <2>2. StreamTypes /\ \A d \in Conns : Framed(d) /\ Echoed(d)
    BY <2>1 DEF FrameInv
  <2>3. ASSUME NEW c \in Conns, Handle(c) \/ Close(c) \/ Send(c) \/ Receive(c)
        PROVE  StreamTypes' /\ \A d \in Conns : Framed(d)' /\ Echoed(d)'
    BY <2>2, <2>3, FrameMoves
  <2>4. ASSUME NEW c \in Conns, OtherAnswers(c)
        PROVE  FALSE
    BY <2>1, <2>4 DEF OtherAnswers
  <2>5. CASE UNCHANGED vars
    <3>1. StreamTypes'
      BY <2>2, <2>5 DEF StreamTypes, vars
    <3>2. \A d \in Conns : Framed(d)' /\ Echoed(d)'
      BY <2>2, <2>5, FramedKept DEF vars
    <3>. QED  BY <3>1, <3>2
  <2>. QED  BY <2>3, <2>4, <2>5 DEF Next, Terminated
<1>. QED  BY <1>1, <1>2, BufferInductive, CarryInductive, PTL DEF Spec

\* handlers.go:128: every 200 the client reads from a Go server has the body of
\* the request it answers, whatever the handlers of any number of connections
\* did with their buffers meanwhile.
THEOREM ResponsesEcho == Spec => []EchoedBack
<1>1. FrameInv => EchoedBack
  BY DEF FrameInv, Echoed, EchoedBack
<1>. QED  BY <1>1, FrameInductive, PTL

\* http.go:142: against a Go server, every response read without an error
\* leaves the stream at the next response, or at its end.  What another server
\* answers is checked for MCExchange's Answers only.
THEOREM ReaderStaysAligned == Spec => [](server # OtherServer => Aligned)
<1>1. BufferInv /\ FrameInv => (server # OtherServer => Aligned)
  <2>. SUFFICES ASSUME BufferInv, FrameInv, server # OtherServer,
                       NEW c \in Conns, last[c].err = "nil"
                PROVE  ItemAt(stream[c], pos[c]).kind \in {"status", "eof"}
    BY DEF Aligned
  <2>. DEFINE served == handler[c].served
  <2>1. served \in Nat
    BY DEF BufferInv, HandlersHold
  <2>2. stream[c] \in Seq(StreamItems) /\ pos[c] \in Nat \ {0} /\ Len(stream[c]) \in Nat
    BY DEF FrameInv, StreamTypes
  <2>3. PICK starts \in Starts(served) :
            Frames(stream[c], c, served, closed[c], starts) /\ ReadUpTo(c, starts)
    BY DEF FrameInv, Framed
  <2>4. answered[c] \in 0..served /\ pos[c] = starts[answered[c] + 1]
    BY <2>3 DEF ReadUpTo
  <2>5. CASE pos[c] > Len(stream[c])
    BY <2>2, <2>5, EndOfStream
  <2>6. CASE pos[c] <= Len(stream[c])
    <3>1. answered[c] # served
      <4>1. starts[served + 1] \in Nat /\ Len(stream[c]) < starts[served + 1]
        BY <2>1, <2>3 DEF Frames, Starts
      <4>. QED  BY <2>2, <2>4, <2>6, <4>1
    <3>2. answered[c] + 1 \in 1..served
      BY <2>1, <2>4, <3>1
    <3>3. Frame(stream[c], <<c, answered[c] + 1>>, pos[c], starts[answered[c] + 1 + 1])
      BY <2>3, <2>4, <3>2 DEF Frames
    <3>4. stream[c][pos[c]] \in {Item("status", 200), Item("status", 400)}
      BY <2>6, <3>3 DEF Frame, Holds
    <3>5. ItemAt(stream[c], pos[c]) = stream[c][pos[c]]
      BY <2>2, <2>6, EndOfStream
    <3>. QED  BY <3>4, <3>5, ItemFields
  <2>. QED  BY <2>2, <2>5, <2>6
<1>. QED  BY <1>1, BufferInductive, FrameInductive, PTL

=============================================================================
