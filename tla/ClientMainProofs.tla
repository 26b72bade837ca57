-------------------------- MODULE ClientMainProofs --------------------------
(***************************************************************************)
(* Proofs about ClientMain, and Sampling in it: the samples of the server  *)
(* and of the client, and the rows of the report, for every number of      *)
(* attempts, samples and processes, and every set of runs.                 *)
(***************************************************************************)
EXTENDS ClientMain, TLAPS

-----------------------------------------------------------------------------
(* What each party leaves alone *)

\* main itself leaves the sampling alone, but for the report it clears.
LEMMA MainFrame ==
    ASSUME Main
    PROVE  /\ UNCHANGED <<want, shared, left, faulty, try, post, setupErr, source, sampler, spid,
                          errs, cpu, cancelled, up, psStarted, starting, counting, srv>>
           /\ pc' \in {"exit", "dial", "save", "run", "readcpu", "readmem", "psinfo", "setup",
                       "ready", "stop"}
<1>1. CASE Save \/ SaveFails
  BY <1>1 DEF Save, SaveFails, AfterSave, samplingButRep, clientVars, requestVars, setupVars,
         samplerVars, serverVars
<1>2. CASE Main /\ ~(Save \/ SaveFails)
  BY <1>2 DEF Main, CheckFlags, Dial, StartBench, BenchEnds, ReadCpu, ReadCpuOf, ReadMem, Finish,
         Exit, samplingOnly, samplingButRep, clientVars, requestVars, setupVars, samplerVars,
         serverVars
<1> QED BY <1>1, <1>2

\* The callbacks leave all of it alone.
LEMMA CallbackFrame ==
    ASSUME (\E b \in Profiled : Callback(b)) \/ UNCHANGED vars
    PROVE  UNCHANGED <<samplingVars, flags, conns, bench, report, profile, json, told, status>>
BY DEF Callback, AskProfile, CpuProfiled, MemProfiled, HttpGetFails, SetPprofData, vars, mainVars

\* SetupPS, PsInfo, Stop and the sampler leave the server alone.
LEMMA SamplingFrame ==
    ASSUME SetupPS \/ PsInfo \/ Stop \/ StopReturns \/ Sampler
    PROVE  UNCHANGED serverVars
<1>1. CASE SetupPS
  BY <1>1 DEF SetupPS, FindServer, AskServer, StartAlone, CannotStart, InitAnsweredHere,
         InitAnswered, InitFails, InitRefused
<1>2. CASE PsInfo \/ Stop \/ StopReturns
  BY <1>2 DEF PsInfo, ReadSamples, NoSamples, AskPs, PsAnswered, PsFails, PsRefused, Stop,
         StopReturns
<1>3. CASE Sampler
  BY <1>3 DEF Sampler, PercentOk, PercentFails, AppendSample, SamplerCancelled
<1> QED BY <1>1, <1>2, <1>3

\* The server leaves the client alone, but for the fate of an attempt of /init.
LEMMA ServerFrame ==
    ASSUME Server
    PROVE  UNCHANGED <<pc, want, shared, left, faulty, try, setupErr, source, sampler, spid, errs,
                       cpu, cancelled, rep>>
BY DEF Server, ServeInit, StartCounter, ServerSamples, ServerDies, clientVars, requestVars,
       setupVars, samplerVars

\* Who steps: the cases of Next that the proofs below go through.
LEMMA Steps ==
    ASSUME [Next]_vars
    PROVE  \/ Main \/ MainSampling
           \/ (Server \/ Sampler) /\ UNCHANGED <<mainVars, pprof, serving>>
           \/ (\E b \in Profiled : Callback(b)) \/ UNCHANGED vars
BY DEF Next, Background, Terminated

-----------------------------------------------------------------------------
(* The server's counter *)

\* The counter runs, or waits to, only after psStarted was set, and it has no
\* sample before it runs.
CounterInv ==
    /\ psStarted \in BOOLEAN
    /\ starting \in BOOLEAN
    /\ counting \in BOOLEAN
    /\ srv \in Nat
    /\ starting => psStarted /\ ~counting
    /\ counting => psStarted
    /\ ~counting => srv = 0

\* A step keeps the counter in order, and drops no sample.
LEMMA CounterStep ==
    ASSUME CounterInv, [Next]_vars
    PROVE  CounterInv' /\ srv' >= srv
<1>1. CASE Main \/ MainSampling \/ Sampler \/ (\E b \in Profiled : Callback(b)) \/ UNCHANGED vars
  <2>1. UNCHANGED serverVars
    BY <1>1, MainFrame, SamplingFrame, CallbackFrame DEF MainSampling, samplingVars, serverVars
  <2> QED BY <2>1 DEF CounterInv, serverVars
<1>2. ASSUME NEW attempt \in 1..Attempts, ServeInit(attempt)
      PROVE  CounterInv' /\ srv' >= srv
  BY <1>2 DEF CounterInv, ServeInit
<1>3. CASE StartCounter
  <2>1. psStarted /\ srv = 0
    BY <1>3 DEF CounterInv, StartCounter
  <2>2. psStarted' = psStarted /\ starting' = FALSE /\ counting' = TRUE /\ srv' = 0
    BY <1>3 DEF StartCounter
  <2>3. srv' >= srv /\ srv' \in Nat
    BY <2>1, <2>2
  <2> QED BY <2>1, <2>2, <2>3, Zenon DEF CounterInv
<1>4. CASE ServerSamples
  BY <1>4 DEF CounterInv, ServerSamples
<1>5. CASE ServerDies
  BY <1>5 DEF CounterInv, ServerDies
<1> QED BY <1>1, <1>2, <1>3, <1>4, <1>5, Steps DEF Server

\* Whatever /init is retried, served twice or served late, the samples the
\* server has taken are kept (frameworks/handlers.go:54).
THEOREM ServerKeepsSamples == Spec => SamplesKept
<1>1. Init => CounterInv
  <2>1. ASSUME NEW mode, NEW host, NEW isShared, NEW leftovers, NEW mayFail,
               SamplingInit(mode, host, isShared, leftovers, mayFail)
        PROVE  CounterInv
    BY <2>1 DEF SamplingInit, CounterInv
  <2> QED BY <2>1 DEF Init
<1>2. CounterInv /\ [Next]_vars => CounterInv'
  BY CounterStep
<1>3. CounterInv /\ [Next]_vars => [srv' >= srv]_samplingVars
  BY CounterStep
<1> QED BY <1>1, <1>2, <1>3, PTL DEF Spec, SamplesKept
-----------------------------------------------------------------------------
(* The client's sampler *)

\* A sampler exists only where SetupPS has made it the source, and Stop has
\* returned only when there is none or it has ended.
SamplerInv ==
    /\ source = "remote" => sampler = "off"
    /\ pc = "stopped" => sampler \in {"off", "done"}

LEMMA SamplerStep ==
    ASSUME SamplerInv, [Next]_vars
    PROVE  SamplerInv' /\ (pc = "stopped" => cpu' = cpu)
<1>1. CASE Main
  BY <1>1, MainFrame DEF SamplerInv
<1>2. CASE MainSampling
  <2>1. CASE SetupPS
    BY <2>1 DEF SetupPS, FindServer, AskServer, StartAlone, CannotStart, InitAnsweredHere,
           InitAnswered, InitFails, InitRefused, StartSampler, Send, SamplerInv, setupVars,
           samplerVars
  <2>2. CASE PsInfo
    BY <2>2 DEF PsInfo, ReadSamples, NoSamples, AskPs, PsAnswered, PsFails, PsRefused, SamplerInv,
           setupVars, samplerVars
  <2>3. CASE Stop \/ StopReturns
    BY <2>3 DEF Stop, StopReturns, SamplerInv, setupVars, samplerVars
  <2> QED BY <1>2, <2>1, <2>2, <2>3 DEF MainSampling
<1>3. CASE Sampler
  BY <1>3 DEF Sampler, PercentOk, PercentFails, AppendSample, SamplerCancelled, SamplerInv,
         setupVars
<1>4. CASE Server
  BY <1>4, ServerFrame DEF SamplerInv
<1>5. CASE (\E b \in Profiled : Callback(b)) \/ UNCHANGED vars
  BY <1>5, CallbackFrame DEF SamplerInv, samplingVars, setupVars, samplerVars
<1> QED BY <1>1, <1>2, <1>3, <1>4, <1>5, Steps

\* Stop waits for the goroutine it cancels: no sample arrives after it
\* (localps.go:309).
THEOREM StopEndsSampling == Spec => NoSampleAfterStop
<1>1. Init => SamplerInv
  <2>1. ASSUME NEW mode, NEW host, NEW isShared, NEW leftovers, NEW mayFail,
               SamplingInit(mode, host, isShared, leftovers, mayFail), pc = "flags"
        PROVE  SamplerInv
    BY <2>1 DEF SamplingInit, SamplerInv
  <2> QED BY <2>1 DEF Init
<1>2. SamplerInv /\ [Next]_vars => SamplerInv'
  BY SamplerStep
<1>3. SamplerInv /\ [Next]_vars => [pc = "stopped" => cpu' = cpu]_samplingVars
  BY SamplerStep
<1> QED BY <1>1, <1>2, <1>3, PTL DEF Spec, NoSampleAfterStop

-----------------------------------------------------------------------------
(* Which process is sampled *)

\* The process SetupPS found, of a server that runs here, is the server's.
PidInv == pc = "start" /\ shared /\ up => spid = ServerPid

LEMMA PidStep ==
    ASSUME PidInv, SamplerInv, [Next]_vars
    PROVE  /\ PidInv'
           /\ sampler = "off" /\ sampler' # "off" /\ shared /\ up => spid' = ServerPid
<1>1. CASE Main
  BY <1>1, MainFrame DEF PidInv
<1>2. CASE MainSampling
  <2>1. CASE FindServer
    BY <2>1 DEF FindServer, Named, PidInv, clientVars, serverVars
  <2>2. CASE StartAlone \/ InitAnsweredHere
    BY <2>2 DEF StartAlone, InitAnsweredHere, StartSampler, PidInv
  <2>3. CASE AskServer \/ CannotStart \/ InitAnswered \/ InitFails \/ InitRefused
    BY <2>3 DEF AskServer, CannotStart, InitAnswered, InitFails, InitRefused, Send, PidInv,
           samplerVars
  <2>4. CASE PsInfo \/ Stop \/ StopReturns
    BY <2>4 DEF PsInfo, ReadSamples, NoSamples, AskPs, PsAnswered, PsFails, PsRefused, Stop,
           StopReturns, PidInv, samplerVars
  <2> QED BY <1>2, <2>1, <2>2, <2>3, <2>4 DEF MainSampling, SetupPS
<1>3. CASE Sampler
  BY <1>3, SamplingFrame DEF Sampler, PercentOk, PercentFails, AppendSample, SamplerCancelled,
         PidInv, clientVars, serverVars
<1>4. CASE Server
  <2>1. up' => up
    BY <1>4 DEF Server, ServeInit, StartCounter, ServerSamples, ServerDies
  <2> QED BY <1>4, <2>1, ServerFrame DEF PidInv
<1>5. CASE (\E b \in Profiled : Callback(b)) \/ UNCHANGED vars
  BY <1>5, CallbackFrame DEF PidInv, samplingVars, clientVars, samplerVars, serverVars
<1> QED BY <1>1, <1>2, <1>3, <1>4, <1>5, Steps

\* A leftover of an earlier run, or a process of another process table, is
\* never taken for a server that runs here (localps.go:29, pssource.go:143).
THEOREM ServerIsSampled == Spec => SamplesTheServer
<1>1. Init => PidInv /\ SamplerInv
  <2>1. ASSUME NEW mode, NEW host, NEW isShared, NEW leftovers, NEW mayFail,
               SamplingInit(mode, host, isShared, leftovers, mayFail), pc = "flags"
        PROVE  PidInv /\ SamplerInv
    BY <2>1 DEF SamplingInit, PidInv, SamplerInv
  <2> QED BY <2>1 DEF Init
<1>2. PidInv /\ SamplerInv /\ [Next]_vars => PidInv' /\ SamplerInv'
  BY PidStep, SamplerStep
<1>3. PidInv /\ SamplerInv /\ [Next]_vars
         => [sampler = "off" /\ sampler' # "off" /\ shared /\ up => spid' = ServerPid]_samplingVars
  BY PidStep
<1> QED BY <1>1, <1>2, <1>3, PTL DEF Spec, SamplesTheServer

-----------------------------------------------------------------------------
(* A report without samples *)

Unasked == \A a \in 1..Attempts : post[a] = "unsent"

BeforeSetup ==
    pc \in {"flags", "dial", "setup", "start"} \/ (pc = "save" /\ bench = "connections")

\* The client samples alone only if it has never sent /init; then the server
\* has not been asked to sample.
SourceInv ==
    /\ post \in [1..Attempts -> {"unsent", "sent", "served", "refused"}]
    /\ BeforeSetup \/ source = "local" => Unasked
    /\ BeforeSetup \/ pc = "init" => source = "remote"
    /\ psStarted => ~Unasked
    /\ pc \in {"run", "readcpu", "readmem", "psinfo", "ask"} => bench # "connections"

LEMMA SourceStep ==
    ASSUME SourceInv, [Next]_vars
    PROVE  SourceInv'
<1>1. CASE Main
  <2>1. UNCHANGED <<post, source, psStarted>>
    BY <1>1, MainFrame
  <2>2. (BeforeSetup' => BeforeSetup) /\ pc' # "init"
    BY <1>1 DEF Main, CheckFlags, Dial, StartBench, BenchEnds, ReadCpu, ReadCpuOf, ReadMem, Save,
           SaveFails, Finish, AfterSave, Exit, BeforeSetup
  <2>3. pc' \in {"run", "readcpu", "readmem", "psinfo", "ask"} => bench' # "connections"
    <3>1. pc \in {"run", "readcpu", "readmem"} => bench # "connections"
      BY DEF SourceInv
    <3>2. CASE Save \/ SaveFails
      BY <3>2 DEF Save, SaveFails, AfterSave
    <3>3. CASE StartBench
      BY <3>3 DEF StartBench, Exit
    <3>4. CASE BenchEnds \/ ReadCpu \/ ReadMem
      BY <3>1, <3>4 DEF BenchEnds, ReadCpu, ReadCpuOf, ReadMem, mainVars
    <3>5. CASE CheckFlags \/ Dial \/ Finish
      BY <3>5 DEF CheckFlags, Dial, Finish, Exit
    <3> QED BY <1>1, <3>2, <3>3, <3>4, <3>5 DEF Main
  <2> QED BY <2>1, <2>2, <2>3 DEF SourceInv, Unasked
<1>2. CASE MainSampling
  <2>1. UNCHANGED <<bench, psStarted>>
    BY <1>2, SamplingFrame DEF MainSampling, mainVars, serverVars
  <2>2. CASE FindServer
    BY <2>1, <2>2 DEF FindServer, SourceInv, Unasked, BeforeSetup, requestVars, setupVars
  <2>3. CASE AskServer \/ CannotStart \/ InitFails \/ InitRefused
    <3>1. UNCHANGED source /\ pc' \in {"init", "ready"} /\ source = "remote"
      BY <2>3 DEF AskServer, CannotStart, InitFails, InitRefused, Send, SourceInv, BeforeSetup,
             setupVars
    <3>2. post' \in [1..Attempts -> {"unsent", "sent", "served", "refused"}]
      BY <2>3 DEF AskServer, CannotStart, InitFails, InitRefused, Send, SourceInv, requestVars
    <3>3. Unasked' => Unasked
      BY <2>3 DEF AskServer, CannotStart, InitFails, InitRefused, Send, SourceInv, Unasked,
             requestVars
    <3> QED BY <2>1, <3>1, <3>2, <3>3 DEF SourceInv, BeforeSetup
  <2>4. CASE StartAlone \/ InitAnsweredHere \/ InitAnswered
    BY <2>1, <2>4 DEF StartAlone, InitAnsweredHere, InitAnswered, StartSampler, SourceInv, Unasked,
           BeforeSetup, requestVars, setupVars
  <2>5. CASE PsInfo \/ Stop \/ StopReturns
    BY <2>1, <2>5 DEF PsInfo, ReadSamples, NoSamples, AskPs, PsAnswered, PsFails, PsRefused, Stop,
           StopReturns, SourceInv, Unasked, BeforeSetup, requestVars, setupVars
  <2> QED BY <1>2, <2>2, <2>3, <2>4, <2>5 DEF MainSampling, SetupPS
<1>3. CASE Sampler /\ UNCHANGED mainVars
  <2>1. UNCHANGED <<pc, bench, post, source, psStarted>>
    BY <1>3, SamplingFrame DEF Sampler, PercentOk, PercentFails, AppendSample, SamplerCancelled,
           mainVars, requestVars, setupVars, serverVars
  <2> QED BY <2>1 DEF SourceInv, Unasked, BeforeSetup
<1>4. CASE Server /\ UNCHANGED mainVars
  <2>1. UNCHANGED <<pc, bench, source>>
    BY <1>4, ServerFrame DEF mainVars
  <2>2. CASE UNCHANGED <<post, psStarted>>
    BY <2>1, <2>2 DEF SourceInv, Unasked, BeforeSetup
  <2>3. ASSUME NEW attempt \in 1..Attempts, ServeInit(attempt)
        PROVE  SourceInv'
    <3>1. ~Unasked /\ ~Unasked'
      BY <2>3 DEF ServeInit, SourceInv, Unasked
    <3>2. post' \in [1..Attempts -> {"unsent", "sent", "served", "refused"}]
      BY <2>3 DEF ServeInit, SourceInv
    <3> QED BY <2>1, <3>1, <3>2 DEF SourceInv, BeforeSetup
  <2> QED BY <1>4, <2>2, <2>3 DEF Server, StartCounter, ServerSamples, ServerDies, requestVars
<1>5. CASE (\E b \in Profiled : Callback(b)) \/ UNCHANGED vars
  <2>1. UNCHANGED <<pc, bench, post, source, psStarted>>
    BY <1>5, CallbackFrame DEF samplingVars, requestVars, setupVars, serverVars
  <2> QED BY <2>1 DEF SourceInv, Unasked, BeforeSetup
<1> QED BY <1>1, <1>2, <1>3, <1>4, <1>5, Steps

\* A report says that there are no samples only if the server has none: they
\* are never missed for want of asking it (localps.go:288).
THEOREM SamplesNeverMissed == Spec => NoSamplesMissed
<1>1. Init => CounterInv /\ SourceInv
  <2>1. ASSUME NEW mode, NEW host, NEW isShared, NEW leftovers, NEW mayFail,
               SamplingInit(mode, host, isShared, leftovers, mayFail), pc = "flags"
        PROVE  CounterInv /\ SourceInv
    BY <2>1 DEF SamplingInit, CounterInv, SourceInv, Unasked, BeforeSetup
  <2> QED BY <2>1 DEF Init
<1>2. CounterInv /\ SourceInv /\ [Next]_vars => CounterInv' /\ SourceInv'
  BY CounterStep, SourceStep
<1>3. CounterInv /\ SourceInv /\ [Next]_vars
         => [(pc \in {"psinfo", "ask"} /\ pc' = "save" /\ rep'.cpu = 0 /\ ~rep'.failed)
                => srv = 0]_samplingVars
  <2> SUFFICES ASSUME CounterInv, SourceInv, [Next]_vars, pc \in {"psinfo", "ask"}, pc' = "save",
                      rep'.cpu = 0, ~rep'.failed
               PROVE  srv = 0
    OBVIOUS
  <2>1. ReadSamples \/ NoSamples \/ PsAnswered \/ PsFails \/ PsRefused
    <3>1. ~Main
      BY DEF Main, CheckFlags, Dial, StartBench, BenchEnds, ReadCpu, ReadCpuOf, ReadMem, Save,
             SaveFails, Finish
    <3>2. MainSampling => PsInfo /\ ~AskPs
      BY DEF MainSampling, SetupPS, FindServer, AskServer, StartAlone, CannotStart,
             InitAnsweredHere, InitAnswered, InitFails, InitRefused, Stop, StopReturns, PsInfo,
             AskPs
    <3>3. ~Sampler
      BY DEF Sampler, PercentOk, PercentFails, AppendSample, SamplerCancelled
    <3>4. ~Server /\ ~(\E b \in Profiled : Callback(b)) /\ ~UNCHANGED vars
      BY ServerFrame, CallbackFrame DEF samplingVars
    <3> QED BY <3>1, <3>2, <3>3, <3>4, Steps DEF PsInfo
  <2>2. CASE ReadSamples
    BY <2>2 DEF ReadSamples
  <2>3. CASE NoSamples
    BY <2>3 DEF NoSamples, SourceInv, CounterInv
  <2>4. CASE PsAnswered
    BY <2>4 DEF PsAnswered
  <2>5. CASE PsFails \/ PsRefused
    BY <2>5 DEF PsFails, PsRefused
  <2> QED BY <2>1, <2>2, <2>3, <2>4, <2>5
<1> QED BY <1>1, <1>2, <1>3, PTL DEF Spec, NoSamplesMissed
-----------------------------------------------------------------------------
(* The reports of a run *)

\* A report has been written, or its failure logged.
Settled(b) == json[b] = "new" \/ b \in told

\* The benchmarks before the one main is at are settled, and main stops only
\* after the last that was asked for.
RowInv ==
    /\ bench \in Benches
    /\ json \in [Benches -> {"old", "new", "damaged"}]
    /\ bench # "connections" => Settled("connections")
    /\ bench = "rate" => Settled("echo")
    /\ pc \in {"setup", "start", "init", "ready", "stop", "stopping", "stopped"} => Settled(bench)
    /\ pc \in {"setup", "start", "init", "ready"} => bench # "rate"
    /\ pc \in {"stop", "stopping", "stopped"} => bench # "connections"
    /\ pc \in {"stop", "stopping", "stopped"} /\ bench = "echo" => ~flags.rate
    /\ NoRowMissing

\* A report that is saved, or fails to be, is settled, and stays so.
LEMMA SaveSettles ==
    ASSUME RowInv, Save \/ SaveFails
    PROVE  /\ json' \in [Benches -> {"old", "new", "damaged"}]
           /\ \A b \in Benches : Settled(b) \/ b = bench => Settled(b)'
<1>1. bench \in Benches /\ json \in [Benches -> {"old", "new", "damaged"}]
  BY DEF RowInv
<1>2. CASE Save
  <2>1. json' = [json EXCEPT ![bench] = "new"] /\ told' = told
    BY <1>2 DEF Save
  <2> QED BY <1>1, <2>1 DEF Settled
<1>3. CASE SaveFails
  <2>1. told' = told \cup {bench} /\ json' \in {json, [json EXCEPT ![bench] = "damaged"]}
    BY <1>3 DEF SaveFails
  <2> QED BY <1>1, <2>1 DEF Settled
<1> QED BY <1>2, <1>3

LEMMA RowStep ==
    ASSUME RowInv, [Next]_vars
    PROVE  RowInv'
<1>1. CASE Save \/ SaveFails
  <2>1. json' \in [Benches -> {"old", "new", "damaged"}] /\ UNCHANGED flags
    BY <1>1, SaveSettles DEF Save, SaveFails
  <2>2. Settled("connections")' /\ (bench # "connections" => Settled("echo")')
        /\ (bench = "rate" => Settled("rate")')
    BY <1>1, SaveSettles DEF RowInv, Benches
  <2>3. \/ bench = "connections" /\ bench' = bench /\ pc' = "setup"
        \/ bench = "echo" /\ bench' = bench /\ pc' = "ready"
        \/ bench = "echo" /\ bench' = "rate" /\ pc' = "save"
        \/ bench = "echo" /\ bench' = bench /\ pc' = "stop" /\ ~flags.rate
        \/ bench = "rate" /\ bench' = bench /\ pc' = "stop"
    BY <1>1 DEF Save, SaveFails, AfterSave, RowInv, Benches
  <2> QED BY <2>1, <2>2, <2>3 DEF RowInv, NoRowMissing, Benches
<1>2. CASE Finish
  <2>1. UNCHANGED <<bench, json, told, flags>> /\ pc = "stopped" /\ pc' = "exit"
    BY <1>2 DEF Finish, Exit
  <2>2. \A b \in Wanted : Settled(b)
    BY <2>1 DEF RowInv, Wanted, Benches
  <2>3. RowInv' \/ ~NoRowMissing'
    BY <2>1 DEF RowInv, Settled
  <2>4. NoRowMissing'
    BY <2>1, <2>2 DEF NoRowMissing, Wanted, Settled
  <2> QED BY <2>3, <2>4
<1>3. CASE CheckFlags \/ Dial
  BY <1>3 DEF CheckFlags, Dial, Exit, RowInv, Settled, NoRowMissing
<1>4. CASE StartBench
  <2>1. UNCHANGED <<json, told, flags>> /\ pc = "ready"
    BY <1>4 DEF StartBench
  <2>2. \/ pc' = "run" /\ bench' = IF bench = "connections" THEN "echo" ELSE "rate"
        \/ pc' = "exit" /\ bench' = bench /\ status' = 1
    BY <1>4 DEF StartBench, Exit
  <2> QED BY <2>1, <2>2 DEF RowInv, Benches, Settled, NoRowMissing
<1>5. CASE BenchEnds \/ ReadCpu \/ ReadMem
  BY <1>5 DEF BenchEnds, ReadCpu, ReadCpuOf, ReadMem, RowInv, Settled, NoRowMissing, mainVars
<1>6. CASE MainSampling
  <2>1. UNCHANGED <<bench, json, told, flags, status>>
    BY <1>6 DEF MainSampling, mainVars
  <2>2. \/ pc \in {"setup", "start", "init"} /\ pc' \in {"setup", "start", "init", "ready"}
        \/ pc \in {"psinfo", "ask"} /\ pc' \in {"psinfo", "ask", "save"}
        \/ pc \in {"stop", "stopping"} /\ pc' \in {"stopping", "stopped"}
    BY <1>6 DEF MainSampling, SetupPS, FindServer, AskServer, StartAlone, CannotStart,
           InitAnsweredHere, InitAnswered, InitFails, InitRefused, StartSampler, Send, PsInfo,
           ReadSamples, NoSamples, AskPs, PsAnswered, PsFails, PsRefused, Stop, StopReturns
  <2> QED BY <2>1, <2>2 DEF RowInv, Settled, NoRowMissing
<1>7. CASE \/ (Server \/ Sampler) /\ UNCHANGED <<mainVars, pprof, serving>>
           \/ (\E b \in Profiled : Callback(b)) \/ UNCHANGED vars
  <2>1. UNCHANGED <<pc, bench, json, told, flags, status>>
    BY <1>7, ServerFrame, CallbackFrame DEF mainVars, samplingVars, Sampler, PercentOk,
           PercentFails, AppendSample, SamplerCancelled
  <2> QED BY <2>1 DEF RowInv, Settled, NoRowMissing, Wanted
<1> QED BY <1>1, <1>2, <1>3, <1>4, <1>5, <1>6, <1>7, Steps DEF Main

\* A run that ends well has a new row for everything it was asked for, or has
\* said that it has none (client.go:247).
THEOREM RowsNeverMissing == Spec => []NoRowMissing
<1>1. Init => RowInv
  <2>1. ASSUME Init
        PROVE  /\ bench = "connections" /\ pc = "flags"
               /\ json = [b \in Benches |-> "old"]
    BY <2>1 DEF Init
  <2> QED BY <2>1 DEF RowInv, NoRowMissing, Benches
<1>2. RowInv /\ [Next]_vars => RowInv'
  BY RowStep
<1>3. RowInv => NoRowMissing
  BY DEF RowInv
<1> QED BY <1>1, <1>2, <1>3, PTL DEF Spec

-----------------------------------------------------------------------------
(* The profiles of a report *)

\* A callback runs only for a benchmark that has begun; the server's profile
\* in progress is the one a callback waits for.
CallbackInv ==
    /\ pprof \in [Profiled -> [at : {"off", "timer", "cpu", "mem", "set", "done"},
                               of : SUBSET Benches]]
    /\ serving \in [of : Profiled \cup {"none"}, during : SUBSET Benches]
    /\ bench \in Benches
    /\ bench = "connections" => pprof["echo"].at = "off"
    /\ bench # "rate" => pprof["rate"].at = "off"
    /\ \A b \in Profiled : serving.of = b <=> pprof[b].at = "cpu"

\* What a slice of a profile may be.
Slice == {"nil", "torn", "empty", "whole"}

\* What a profile was taken of.  Echo's may go on into the pipeline benchmark,
\* but its report has been built by then.
TakenInv ==
    /\ serving.of = "rate" => serving.during \subseteq {"rate"}
    /\ bench # "rate" => serving.during \subseteq {"echo"}
    /\ data \in [Profiled -> [cpu : Slice, mem : Slice, of : SUBSET Benches]]
    /\ pprof["rate"].of \subseteq {"rate"} /\ data["rate"].of \subseteq {"rate"}
    /\ bench # "rate" => pprof["echo"].of \subseteq {"echo"} /\ data["echo"].of \subseteq {"echo"}

ReportInv ==
    /\ report \in [cpu : Slice, mem : Slice, of : SUBSET {bench}]
    /\ pc \notin {"readmem", "psinfo", "ask", "save"} => report.of = {}
    /\ pc \in {"run", "readcpu", "readmem"} => bench \in Profiled
    /\ profile \in [Profiled -> SUBSET Benches]
    /\ ProfileOfItsBenchmark

LEMMA CallbackStep ==
    ASSUME CallbackInv, RowInv, [Next]_vars
    PROVE  CallbackInv'
<1>1. CASE Main
  <2>1. CASE StartBench /\ conns /\ flags.pprof
    <3>1. bench' = IF bench = "connections" THEN "echo" ELSE "rate"
      BY <2>1 DEF StartBench
    <3>2. pprof' = [pprof EXCEPT ![bench'].at = "timer"]
      BY <2>1 DEF StartBench
    <3>3. serving' = IF serving.of = "none" THEN serving
                     ELSE [serving EXCEPT !.during = @ \cup {bench'}]
      BY <2>1 DEF StartBench
    <3>4. serving' \in [of : Profiled \cup {"none"}, during : SUBSET Benches]
             /\ serving'.of = serving.of
      BY <3>1, <3>3 DEF CallbackInv, Benches
    <3>5. pprof' \in [Profiled -> [at : {"off", "timer", "cpu", "mem", "set", "done"},
                                  of : SUBSET Benches]]
      BY <3>1, <3>2 DEF CallbackInv, Benches, Profiled
    <3>6. \A b \in Profiled : pprof'[b].at = IF b = bench' THEN "timer" ELSE pprof[b].at
      BY <3>2 DEF CallbackInv
    <3>7. bench # "rate"
      BY <2>1 DEF StartBench, RowInv
    <3>8. serving.of # bench'
      BY <3>1, <3>7 DEF CallbackInv, Profiled
    <3> QED BY <3>1, <3>4, <3>5, <3>6, <3>7, <3>8 DEF CallbackInv, Benches, Profiled
  <2>2. CASE ~(StartBench /\ conns /\ flags.pprof)
    <3>1. UNCHANGED pprof
      BY <1>1, <2>2 DEF Main, CheckFlags, Dial, StartBench, BenchEnds, ReadCpu, ReadCpuOf, ReadMem,
             Save, SaveFails, Finish
    <3>4. UNCHANGED serving \/ (serving' = [serving EXCEPT !.during = @ \cup {bench'}])
      BY <1>1, <2>2 DEF Main, CheckFlags, Dial, StartBench, BenchEnds, ReadCpu, ReadCpuOf, ReadMem,
             Save, SaveFails, Finish
    <3>2. bench' \in Benches /\ (bench' = "connections" => bench = "connections")
             /\ (bench = "rate" => bench' = "rate")
      BY <1>1, <2>2 DEF Main, CheckFlags, Dial, StartBench, BenchEnds, ReadCpu, ReadCpuOf, ReadMem,
             Save, SaveFails, Finish, AfterSave, CallbackInv, Benches, mainVars
    <3>3. serving' \in [of : Profiled \cup {"none"}, during : SUBSET Benches]
             /\ serving'.of = serving.of
      BY <3>4, <3>2 DEF CallbackInv
    <3> QED BY <3>1, <3>2, <3>3 DEF CallbackInv
  <2> QED BY <2>1, <2>2
<1>2. CASE MainSampling \/ ((Server \/ Sampler) /\ UNCHANGED <<mainVars, pprof, serving>>)
        \/ UNCHANGED vars
  BY <1>2 DEF MainSampling, mainVars, vars, CallbackInv
<1>3. ASSUME NEW b \in Profiled, Callback(b)
      PROVE  CallbackInv'
  <2>1. UNCHANGED bench
    BY <1>3, CallbackFrame
  <2>2. CASE AskProfile(b)
    BY <2>1, <2>2 DEF AskProfile, CallbackInv, Profiled, Benches
  <2>3. CASE CpuProfiled(b)
    BY <2>1, <2>3 DEF CpuProfiled, CallbackInv, Profiled, Benches
  <2>4. CASE MemProfiled(b) \/ HttpGetFails(b)
    BY <2>1, <2>4 DEF MemProfiled, HttpGetFails, CallbackInv, Profiled, Benches
  <2>5. CASE SetPprofData(b)
    BY <2>1, <2>5 DEF SetPprofData, CallbackInv, Profiled, Benches
  <2> QED BY <1>3, <2>2, <2>3, <2>4, <2>5 DEF Callback
<1> QED BY <1>1, <1>2, <1>3, Steps

LEMMA TakenStep ==
    ASSUME CallbackInv, RowInv, TakenInv, [Next]_vars
    PROVE  TakenInv'
<1>1. CASE Main
  <2>1. UNCHANGED data /\ (bench = "rate" => bench' = "rate")
    BY <1>1 DEF Main, CheckFlags, Dial, StartBench, BenchEnds, ReadCpu, ReadCpuOf, ReadMem, Save,
           SaveFails, Finish, AfterSave, mainVars, RowInv
  <2>2. CASE StartBench /\ conns
    <3>1. bench' = (IF bench = "connections" THEN "echo" ELSE "rate") /\ bench # "rate"
      BY <2>2 DEF StartBench, RowInv
    <3>2. \A b \in Profiled : pprof'[b].of = pprof[b].of
      BY <2>2 DEF StartBench, CallbackInv
    <3>3. \/ serving' = serving
          \/ serving.of # "none" /\ serving' = [serving EXCEPT !.during = @ \cup {bench'}]
      BY <2>2 DEF StartBench
    <3>4. serving'.of = serving.of /\ serving'.during \subseteq serving.during \cup {bench'}
      BY <3>3 DEF CallbackInv
    <3>5. serving'.of # "none" \/ serving' = serving
      BY <3>3, <3>4
    <3> QED BY <2>1, <3>1, <3>2, <3>4, <3>5 DEF TakenInv, CallbackInv, Profiled
  <2>3. CASE ~(StartBench /\ conns)
    BY <1>1, <2>1, <2>3 DEF Main, CheckFlags, Dial, StartBench, BenchEnds, ReadCpu, ReadCpuOf,
           ReadMem, Save, SaveFails, Finish, TakenInv
  <2> QED BY <2>2, <2>3
<1>2. CASE MainSampling \/ ((Server \/ Sampler) /\ UNCHANGED <<mainVars, pprof, serving>>)
        \/ UNCHANGED vars
  BY <1>2 DEF MainSampling, mainVars, vars, TakenInv
<1>3. ASSUME NEW b \in Profiled, Callback(b)
      PROVE  TakenInv'
  <2>1. UNCHANGED bench
    BY <1>3, CallbackFrame
  <2>2. CASE AskProfile(b)
    BY <2>1, <2>2 DEF AskProfile, CallbackInv, TakenInv, Profiled, Benches, mainVars
  <2>3. CASE CpuProfiled(b)
    BY <2>1, <2>3 DEF CpuProfiled, CallbackInv, TakenInv, Profiled, Benches, mainVars
  <2>4. CASE MemProfiled(b) \/ HttpGetFails(b)
    BY <2>1, <2>4 DEF MemProfiled, HttpGetFails, CallbackInv, TakenInv, Profiled, Benches, mainVars
  <2>5. CASE SetPprofData(b)
    <3>1. PICK c \in Slice, m \in Slice :
             data' = [data EXCEPT ![b] = [cpu |-> c, mem |-> m, of |-> pprof[b].of]]
      BY <2>5 DEF SetPprofData, Slice
    <3>2. pprof' = pprof \/ pprof' = [pprof EXCEPT ![b].at = "done"]
      BY <2>5 DEF SetPprofData
    <3>3. \A x \in Profiled : pprof'[x].of = pprof[x].of
      BY <3>2 DEF CallbackInv
    <3>4. pprof[b].of \in SUBSET Benches
      BY DEF CallbackInv
    <3>5. data' \in [Profiled -> [cpu : Slice, mem : Slice, of : SUBSET Benches]]
      BY <3>1, <3>4 DEF TakenInv
    <3>6. \A x \in Profiled : data'[x].of = IF x = b THEN pprof[b].of ELSE data[x].of
      BY <3>1 DEF TakenInv
    <3>7. UNCHANGED serving
      BY <2>5 DEF SetPprofData
    <3> QED BY <2>1, <3>3, <3>5, <3>6, <3>7 DEF TakenInv, Profiled
  <2> QED BY <1>3, <2>2, <2>3, <2>4, <2>5 DEF Callback
<1> QED BY <1>1, <1>2, <1>3, Steps

LEMMA ReportStep ==
    ASSUME TakenInv, RowInv, ReportInv, [Next]_vars
    PROVE  ReportInv'
<1>1. CASE Main
  <2>1. CASE ReadCpu
    <3>1. PICK v \in Found(data[bench].cpu) :
             report' = [report EXCEPT !.cpu = v, !.of = data[bench].of]
      BY <2>1 DEF ReadCpu, ReadCpuOf
    <3>2. pc = "readcpu" /\ pc' = "readmem" /\ UNCHANGED <<bench, profile>>
      BY <2>1 DEF ReadCpu, ReadCpuOf
    <3>3. bench \in Profiled /\ data[bench] \in [cpu : Slice, mem : Slice, of : SUBSET Benches]
      BY <3>2 DEF ReportInv, TakenInv
    <3>4. v \in Slice
      BY <3>3 DEF Found, Slice
    <3>5. data[bench].of \subseteq {bench}
      BY <3>3 DEF TakenInv, Profiled
    <3>6. report' \in [cpu : Slice, mem : Slice, of : SUBSET {bench}]
      BY <3>1, <3>4, <3>5 DEF ReportInv
    <3> QED BY <3>2, <3>3, <3>6 DEF ReportInv, ProfileOfItsBenchmark
  <2>2. CASE ReadMem
    <3>1. PICK v \in Found(data[bench].mem) : report' = [report EXCEPT !.mem = v]
      BY <2>2 DEF ReadMem
    <3>2. pc = "readmem" /\ pc' = "psinfo" /\ UNCHANGED <<bench, profile>>
      BY <2>2 DEF ReadMem
    <3>3. bench \in Profiled /\ data[bench] \in [cpu : Slice, mem : Slice, of : SUBSET Benches]
      BY <3>2 DEF ReportInv, TakenInv
    <3>4. v \in Slice
      BY <3>3 DEF Found, Slice
    <3>5. report' \in [cpu : Slice, mem : Slice, of : SUBSET {bench}]
      BY <3>1, <3>2, <3>4 DEF ReportInv
    <3> QED BY <3>2, <3>5 DEF ReportInv, ProfileOfItsBenchmark
  <2>3. CASE Save \/ SaveFails
    <3>1. report' = NoProfile /\ pc' \notin {"run", "readcpu", "readmem"}
      BY <2>3 DEF Save, SaveFails, AfterSave
    <3>2. profile' = profile \/ profile' = [profile EXCEPT ![bench] = report.of]
      BY <2>3 DEF Save, SaveFails, WriteCpuProfile
    <3>3. profile' \in [Profiled -> SUBSET Benches] /\ ProfileOfItsBenchmark'
      BY <3>2 DEF ReportInv, RowInv, ProfileOfItsBenchmark, Benches, Profiled
    <3>4. NoProfile \in [cpu : Slice, mem : Slice, of : SUBSET {bench'}] /\ NoProfile.of = {}
      BY DEF NoProfile, Slice
    <3> QED BY <3>1, <3>3, <3>4 DEF ReportInv
  <2>4. CASE StartBench
    BY <2>4 DEF StartBench, Exit, ReportInv, ProfileOfItsBenchmark, Profiled
  <2>5. CASE CheckFlags \/ Dial \/ BenchEnds \/ Finish
    BY <2>5 DEF CheckFlags, Dial, BenchEnds, Finish, Exit, ReportInv, ProfileOfItsBenchmark, mainVars
  <2> QED BY <1>1, <2>1, <2>2, <2>3, <2>4, <2>5 DEF Main
<1>2. CASE MainSampling
  <2>1. UNCHANGED <<bench, report, profile>>
    BY <1>2 DEF MainSampling, mainVars
  <2>2. /\ pc \in {"readmem", "psinfo", "ask", "save"} => pc' \in {"readmem", "psinfo", "ask", "save"}
        /\ pc' \notin {"run", "readcpu", "readmem"}
    BY <1>2 DEF MainSampling, SetupPS, FindServer, AskServer, StartAlone, CannotStart,
           InitAnsweredHere, InitAnswered, InitFails, InitRefused, StartSampler, Send, PsInfo,
           ReadSamples, NoSamples, AskPs, PsAnswered, PsFails, PsRefused, Stop, StopReturns
  <2> QED BY <2>1, <2>2 DEF ReportInv, ProfileOfItsBenchmark
<1>3. CASE \/ (Server \/ Sampler) /\ UNCHANGED <<mainVars, pprof, serving>>
           \/ (\E b \in Profiled : Callback(b)) \/ UNCHANGED vars
  <2>1. UNCHANGED <<pc, bench, report, profile>>
    BY <1>3, ServerFrame, CallbackFrame DEF mainVars, samplingVars, Sampler, PercentOk,
           PercentFails, AppendSample, SamplerCancelled
  <2> QED BY <2>1 DEF ReportInv, ProfileOfItsBenchmark
<1> QED BY <1>1, <1>2, <1>3, Steps

\* The profile saved with a report was taken of that benchmark, although no
\* callback is waited for (client.go:183, :219).
THEOREM ProfilesBelong == Spec => []ProfileOfItsBenchmark
<1>1. Init => CallbackInv /\ RowInv /\ TakenInv /\ ReportInv
  <2>1. ASSUME Init
        PROVE  /\ bench = "connections" /\ pc = "flags" /\ json = [b \in Benches |-> "old"]
               /\ pprof = [b \in Profiled |-> [at |-> "off", of |-> {}]]
               /\ serving = [of |-> "none", during |-> {}]
               /\ data = [b \in Profiled |-> NoProfile]
               /\ report = NoProfile
               /\ profile = [b \in Profiled |-> {}]
    BY <2>1 DEF Init
  <2>2. Init => CallbackInv
    BY <2>1 DEF CallbackInv, Benches, Profiled
  <2>3. Init => RowInv
    BY <2>1 DEF RowInv, NoRowMissing, Benches
  <2>4. NoProfile \in [cpu : Slice, mem : Slice, of : SUBSET {}] /\ NoProfile.of = {}
    BY DEF NoProfile, Slice
  <2>5. Init => TakenInv
    BY <2>1, <2>4 DEF TakenInv, Profiled
  <2>6. Init => ReportInv
    BY <2>1, <2>4 DEF ReportInv, ProfileOfItsBenchmark, Profiled
  <2> QED BY <2>2, <2>3, <2>5, <2>6
<1>2. CallbackInv /\ RowInv /\ TakenInv /\ ReportInv /\ [Next]_vars
         => CallbackInv' /\ RowInv' /\ TakenInv' /\ ReportInv'
  BY CallbackStep, RowStep, TakenStep, ReportStep
<1>3. ReportInv => ProfileOfItsBenchmark
  BY DEF ReportInv
<1> QED BY <1>1, <1>2, <1>3, PTL DEF Spec
=============================================================================
