----------------------------- MODULE ClientMain -----------------------------
(***************************************************************************)
(* The main of the Go client, src/benchcli-go/client.go: the flags it      *)
(* refuses, the benchmarks in order, each report built (Report) and saved  *)
(* (report.ToFile), the deferred Stops, and the pprof callbacks that main  *)
(* never waits for.  EXTENDS Sampling, which SetupPS, PsInfo and Stop      *)
(* belong to.  The benchmarks themselves are Connections, BenchEcho and    *)
(* BenchRate.                                                              *)
(*                                                                         *)
(* SetPprofData assigns two slices while Report may read them, without a   *)
(* lock: a slice read while it is assigned is absent, empty or whole.      *)
(***************************************************************************)
EXTENDS Sampling

CONSTANTS
    Runs,        \* the runs: a command line, and the machine it is given on
    MaxFailures  \* bound: how many reports cannot be written

Benches == {"connections", "echo", "rate"}
Profiled == {"echo", "rate"}

VARIABLES
    flags,    \* the command line
    conns,    \* some connection was dialled
    bench,    \* the benchmark whose report is next
    pprof,    \* the pprof callback of each benchmark, and what it was given
    serving,  \* the server's CPU profile in progress, and the benchmarks in it
    data,     \* pprofDataCPU and pprofDataMEM of each benchmark
    report,   \* the profiles of the report being saved
    profile,  \* the CPU profile files: the benchmarks profiled
    json,     \* the report files: of an earlier run, of this one, or damaged
    told,     \* the reports whose failure was logged
    status    \* the exit status

mainVars == <<flags, conns, bench, data, report, profile, json, told, status>>
vars == <<samplingVars, mainVars, pprof, serving>>

NoProfile == [cpu |-> "nil", mem |-> "nil", of |-> {}]

Init ==
    /\ \E run \in Runs :
           /\ flags = run.flags
           /\ SamplingInit(run.mode, run.host, run.shared, run.left, run.faulty)
    /\ pc = "flags"
    /\ conns = FALSE
    /\ bench = "connections"
    /\ pprof = [b \in Profiled |-> [at |-> "off", of |-> {}]]
    /\ serving = [of |-> "none", during |-> {}]
    /\ data = [b \in Profiled |-> NoProfile]
    /\ report = NoProfile
    /\ profile = [b \in Profiled |-> {}]
    /\ json = [b \in Benches |-> "old"]
    /\ told = {}
    /\ status = 0

samplingButRep == <<clientVars, requestVars, setupVars, samplerVars, serverVars>>
samplingOnly == <<samplingButRep, rep>>

-----------------------------------------------------------------------------
(* main *)

Exit(code) == pc' = "exit" /\ status' = code

\* -sort, -ps, -rpl and -f are checked before a connection is dialled; -r
\* generates the tables of an earlier run's reports, and no more.
CheckFlags ==
    /\ pc = "flags"
    /\ \/ ~flags.valid /\ Exit(1)
       \/ flags.valid /\ flags.gen /\ Exit(0)
       \/ flags.valid /\ ~flags.gen /\ pc' = "dial" /\ UNCHANGED status
    /\ UNCHANGED <<samplingOnly, flags, conns, bench, data, report, profile, json, told,
                   pprof, serving>>

\* cs.Run: some connections, or none.
Dial ==
    /\ pc = "dial"
    /\ conns' \in BOOLEAN
    /\ pc' = "save"
    /\ UNCHANGED <<samplingOnly, flags, bench, data, report, profile, json, told, status,
                   pprof, serving>>

\* be.Run and br.Run.  Both refuse to run on no connections: Fatalf, which
\* runs no deferred Stop.  A pprof timer is set when the run begins, and the
\* server's profile in progress is of this benchmark, too.
StartBench ==
    /\ pc = "ready"
    /\ IF conns
       THEN /\ pc' = "run"
            /\ bench' = IF bench = "connections" THEN "echo" ELSE "rate"
            /\ pprof' = IF flags.pprof
                        THEN [pprof EXCEPT ![bench'].at = "timer"] ELSE pprof
            /\ serving' = IF serving.of = "none" THEN serving
                          ELSE [serving EXCEPT !.during = @ \cup {bench'}]
            /\ UNCHANGED status
       ELSE Exit(1) /\ UNCHANGED <<bench, pprof, serving>>
    /\ UNCHANGED <<samplingOnly, flags, conns, data, report, profile, json, told>>

\* Run returns, if it does: the client waits on the server without a deadline.
BenchEnds ==
    /\ pc = "run"
    /\ pc' = "readcpu"
    /\ UNCHANGED <<samplingOnly, mainVars, pprof, serving>>

\* What a read of one of the slices finds.
Found(value) == IF value = "torn" THEN {"nil", "empty", "whole"} ELSE {value}

\* r.SetPprofData(pprofDataCPU, pprofDataMEM): one read after the other.
ReadCpuOf(b) ==
    /\ pc = "readcpu"
    /\ \E v \in Found(data[b].cpu) :
           report' = [report EXCEPT !.cpu = v, !.of = data[b].of]
    /\ pc' = "readmem"
    /\ UNCHANGED <<samplingOnly, flags, conns, bench, data, profile, json, told, status,
                   pprof, serving>>

\* Mutant of ReadCpu: the pipeline benchmark's callback fills BenchEcho.
ReadCpuOfEcho == ReadCpuOf("echo")

ReadCpu == ReadCpuOf(bench)

ReadMem ==
    /\ pc = "readmem"
    /\ \E v \in Found(data[bench].mem) : report' = [report EXCEPT !.mem = v]
    /\ pc' = "psinfo"
    /\ UNCHANGED <<samplingOnly, flags, conns, bench, data, profile, json, told, status,
                   pprof, serving>>

\* Mutant of AfterSave: a framework without pipelining gets no report.
AfterSaveUnskipped ==
    CASE bench = "connections" -> pc' = "setup" /\ UNCHANGED bench
      [] bench = "echo" /\ flags.rate /\ flags.pipelines -> pc' = "ready" /\ UNCHANGED bench
      [] OTHER -> pc' = "stop" /\ UNCHANGED bench

\* After a report: SetupPS, the pipeline benchmark or its "skipped" report, or
\* the deferred Stops.
AfterSave ==
    CASE bench = "connections" -> pc' = "setup" /\ UNCHANGED bench
      [] bench = "echo" /\ flags.rate /\ flags.pipelines -> pc' = "ready" /\ UNCHANGED bench
      [] bench = "echo" /\ flags.rate /\ ~flags.pipelines -> pc' = "save" /\ bench' = "rate"
      [] OTHER -> pc' = "stop" /\ UNCHANGED bench

\* The profile's file, when the report has one.
WriteCpuProfile ==
    profile' = IF report.cpu = "whole" THEN [profile EXCEPT ![bench] = report.of] ELSE profile

\* saveReport, ToFile: the CPU profile, the memory profile, then the JSON.
Save ==
    /\ pc = "save"
    /\ WriteCpuProfile
    /\ json' = [json EXCEPT ![bench] = "new"]
    /\ AfterSave
    /\ report' = NoProfile
    /\ rep' = NoSample
    /\ UNCHANGED <<samplingButRep, flags, conns, data, told, status, pprof, serving>>

\* The first write that fails is returned, with those after it not tried, and
\* saveReport logs it; a file that was opened is damaged.
SaveFails ==
    /\ pc = "save"
    /\ Cardinality(told) < MaxFailures
    /\ \/ report.cpu # "nil" /\ UNCHANGED <<profile, json>>
       \/ report.mem # "nil" /\ WriteCpuProfile /\ UNCHANGED json
       \/ WriteCpuProfile /\ json' \in {json, [json EXCEPT ![bench] = "damaged"]}
    /\ told' = told \cup {bench}
    /\ AfterSave
    /\ report' = NoProfile
    /\ rep' = NoSample
    /\ UNCHANGED <<samplingButRep, flags, conns, data, status, pprof, serving>>

\* The deferred calls, the last first: Source.Stop, then cs.Stop.
Finish ==
    /\ pc = "stopped"
    /\ Exit(0)
    /\ UNCHANGED <<samplingOnly, flags, conns, bench, data, report, profile, json, told,
                   pprof, serving>>

-----------------------------------------------------------------------------
(* The pprof callbacks: time.AfterFunc, two httpGets without a time-out *)

\* The server takes one CPU profile at a time and refuses another.
AskProfile(b) ==
    /\ pprof[b].at = "timer"
    /\ IF up /\ serving.of = "none"
       THEN /\ pprof' = [pprof EXCEPT ![b].at = "cpu"]
            /\ serving' = [of |-> b, during |-> IF pc = "run" THEN {bench} ELSE {}]
       ELSE pprof' = [pprof EXCEPT ![b].at = "done"] /\ UNCHANGED serving
    /\ UNCHANGED <<samplingVars, mainVars>>

CpuProfiled(b) ==
    /\ pprof[b].at = "cpu"
    /\ up
    /\ pprof' = [pprof EXCEPT ![b] = [at |-> "mem", of |-> serving.during]]
    /\ serving' = [of |-> "none", during |-> {}]
    /\ UNCHANGED <<samplingVars, mainVars>>

MemProfiled(b) ==
    /\ pprof[b].at = "mem"
    /\ up
    /\ pprof' = [pprof EXCEPT ![b].at = "set"]
    /\ UNCHANGED <<samplingVars, mainVars, serving>>

HttpGetFails(b) ==
    /\ pprof[b].at \in {"cpu", "mem"}
    /\ pprof' = [pprof EXCEPT ![b].at = "done"]
    /\ serving' = IF serving.of = b THEN [of |-> "none", during |-> {}] ELSE serving
    /\ UNCHANGED <<samplingVars, mainVars>>

\* Two assignments of a slice each, that Report may read half way.
SetPprofData(b) ==
    /\ pprof[b].at = "set"
    /\ LET set(cpuData, memData) ==
               data' = [data EXCEPT ![b] = [cpu |-> cpuData, mem |-> memData, of |-> pprof[b].of]]
       IN  CASE data[b].cpu = "nil"   -> set("torn", "nil") /\ UNCHANGED pprof
             [] data[b].cpu = "torn"  -> set("whole", "nil") /\ UNCHANGED pprof
             [] data[b].mem = "nil"   -> set("whole", "torn") /\ UNCHANGED pprof
             [] OTHER -> set("whole", "whole") /\ pprof' = [pprof EXCEPT ![b].at = "done"]
    /\ UNCHANGED <<samplingVars, flags, conns, bench, report, profile, json, told, status, serving>>

-----------------------------------------------------------------------------
Main ==
    \/ CheckFlags \/ Dial \/ StartBench \/ BenchEnds \/ ReadCpu \/ ReadMem
    \/ Save \/ SaveFails \/ Finish

\* What of Sampling the main goroutine runs.
MainSampling == (SetupPS \/ PsInfo \/ Stop \/ StopReturns) /\ UNCHANGED <<mainVars, pprof, serving>>

Background ==
    /\ pc # "exit"
    /\ Server \/ Sampler
    /\ UNCHANGED <<mainVars, pprof, serving>>

Callback(b) ==
    /\ pc # "exit"
    /\ \/ AskProfile(b) \/ CpuProfiled(b) \/ MemProfiled(b) \/ HttpGetFails(b)
       \/ SetPprofData(b)

Terminated == pc = "exit" /\ UNCHANGED vars

Next ==
    \/ Main \/ MainSampling \/ Background
    \/ \E b \in Profiled : Callback(b)
    \/ Terminated

\* The goroutines of the client run; control requests have a time-out, and the
\* connections of a server that dies fail.  Nothing is promised of a server that
\* runs: a benchmark writes and reads without a deadline (benchecho.go:266,
\* benchrate.go:295), so BenchEnds is not fair while it is up, nor is a profile
\* that is asked for without a time-out.
Fairness ==
    /\ WF_vars((pc = "run" => ~up) /\ (Main \/ MainSampling))
    /\ WF_vars(Sampler /\ pc # "exit" /\ UNCHANGED <<mainVars, pprof, serving>>)

Spec == Init /\ [][Next]_vars /\ Fairness

-----------------------------------------------------------------------------
(* Properties *)

\* The reports the command line asks for.
Wanted == {"connections", "echo"} \cup IF flags.rate THEN {"rate"} ELSE {}

\* A run that exits with 0 has written every report it was asked for, the
\* skipped one included, or has logged that it could not: an old row never
\* passes for one of this run without a word (client.go:247).
NoRowMissing ==
    pc = "exit" /\ status = 0 /\ flags.valid /\ ~flags.gen =>
        \A b \in Wanted : json[b] = "new" \/ b \in told

\* The CPU profile saved with a report is of that benchmark and no other,
\* although the other's callback may still be running (client.go:183, :219).
ProfileOfItsBenchmark == \A b \in Profiled : profile[b] \subseteq {b}

\* The run ends, or a benchmark waits for ever on a server that runs: nothing
\* else can hold main, no lost request and no profile that is never sent, and no
\* Stop that waits on a sampler (localps.go:309).
RunEnds == <>(pc = "exit") \/ <>[](pc = "run" /\ up)
=============================================================================
