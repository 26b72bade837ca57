------------------------------ MODULE Sampling ------------------------------
(***************************************************************************)
(* How a run gets the CPU samples of the server it measures:               *)
(* src/config/pssource.go (SetupPS), src/config/localps.go (the client's   *)
(* own sampler), the control requests of src/config/config.go, and the     *)
(* routes /init and /ps of src/frameworks/handlers.go.                     *)
(*                                                                         *)
(* Three parties interleave: the client's main goroutine (pc), the         *)
(* client's sampling goroutine (sampler) and the server.  A control        *)
(* request that fails may have been served, or may be served later, when   *)
(* the client has already sent the next one.  Only the CPU samples are     *)
(* modelled; the memory samples are appended with them.                    *)
(***************************************************************************)
EXTENDS Naturals, FiniteSets

CONSTANTS
    Attempts,      \* controlAttempts
    ErrorLimit,    \* consecutiveSampleErrors
    MaxSamples,    \* bound: how many samples the client, or the server, takes
    Pids,          \* process ids
    ServerPid,     \* the measured server's, in its own process table
    HereAddrs      \* loopback, unspecified and interface addresses of the client

ASSUME SamplingAssumption ==
    /\ Attempts \in Nat \ {0}
    /\ ErrorLimit \in Nat \ {0}
    /\ MaxSamples \in Nat
    /\ ServerPid \in Pids
    /\ IsFiniteSet(Pids)

VARIABLES
    pc,         \* where the client's main goroutine is
    want,       \* wantLocal of SetupPS
    shared,     \* the server's process is in the client's process table
    left,       \* the other processes there named <framework>.server
    faulty,     \* bound: whether the server may die, or not be readable, in this run
    try,        \* the attempt of the control request in progress
    post,       \* what became of each attempt of /init
    setupErr,   \* SetupPS returned an error
    source,     \* psSetup.Source: "remote", "local", "both" (local with fallback)
    sampler,    \* the client's sampling goroutine
    spid,       \* the process it samples
    errs,       \* errCount
    cpu,        \* LocalPSSampler.cpu: how many samples it holds
    cancelled,  \* its context is cancelled
    up,         \* the server is running
    psStarted,  \* the server's flag that /init has started its counter
    starting,   \* the goroutine that calls psCounter.Start has not run yet
    counting,   \* psCounter is sampling
    srv,        \* how many samples psCounter holds
    rep         \* what the last PsInfo returned

clientVars  == <<want, shared, left, faulty>>
requestVars == <<try, post>>
setupVars   == <<setupErr, source>>
samplerVars == <<sampler, spid, errs, cpu, cancelled>>
serverVars  == <<up, psStarted, starting, counting, srv>>
samplingVars == <<pc, clientVars, requestVars, setupVars, samplerVars, serverVars, rep>>

-----------------------------------------------------------------------------
(* SetupPS *)

\* IsLocalHost: one of the addresses the host resolves to is of this machine.
IsLocalHost(host) == host \cap HereAddrs # {}

\* Whether SetupPS tries to sample here, for a -ps mode and an -ip.
WantLocal(mode, host) == mode = "local" \/ (mode = "auto" /\ IsLocalHost(host))

\* findProcessesByName: the running processes of the server's name here.
\* A server of another process table is not among them; a process here may
\* have its number, and its name.
Named == left \cup (IF shared /\ up THEN {ServerPid} ELSE {})

NoSample == [cpu |-> 0, failed |-> FALSE]

\* A run with a -ps mode, an -ip, and the processes of the client's machine.
SamplingInit(mode, host, isShared, leftovers, mayFail) ==
    /\ want = WantLocal(mode, host)
    /\ shared = isShared
    /\ left = leftovers
    /\ faulty = mayFail
    /\ try = 0
    /\ post = [a \in 1..Attempts |-> "unsent"]
    /\ setupErr = FALSE
    /\ source = "remote"
    /\ sampler = "off"
    /\ spid = ServerPid
    /\ errs = 0
    /\ cpu = 0
    /\ cancelled = FALSE
    /\ up = TRUE
    /\ psStarted = FALSE
    /\ starting = FALSE
    /\ counting = FALSE
    /\ srv = 0
    /\ rep = NoSample

\* controlRequest sends an attempt of POST /init.
Send(attempt) ==
    /\ pc' = "init"
    /\ try' = attempt
    /\ post' = [post EXCEPT ![attempt] = "sent"]

\* FindServerProcess: exactly one process of the name.
FindServer ==
    /\ pc = "setup"
    /\ want
    /\ \E pid \in Pids : Named = {pid} /\ spid' = pid
    /\ pc' = "start"
    /\ UNCHANGED <<clientVars, requestVars, setupVars, sampler, errs, cpu, cancelled,
                   serverVars, rep>>

\* Not wanted, no process of the name, or several: the server is asked.
AskServer ==
    /\ pc = "setup"
    /\ ~want \/ Cardinality(Named) # 1
    /\ Send(1)
    /\ UNCHANGED <<clientVars, setupVars, samplerVars, serverVars, rep>>

\* StartLocalPSSampler reads the process once before its goroutine starts.
StartSampler(pid, kind) ==
    /\ pid \in Named
    /\ spid' = pid
    /\ sampler' = "percent"
    /\ source' = kind
    /\ pc' = "ready"

StartAlone ==
    /\ pc = "start"
    /\ StartSampler(spid, "local")
    /\ UNCHANGED <<clientVars, requestVars, setupErr, errs, cpu, cancelled, serverVars, rep>>

\* The process is gone, or another user's.
CannotStart ==
    /\ pc = "start"
    /\ faulty \/ spid \notin Named
    /\ Send(1)
    /\ UNCHANGED <<clientVars, setupVars, samplerVars, serverVars, rep>>

\* Mutant of InitAnsweredHere: the process that was looked at before is
\* sampled, not the one the server named.
InitAnsweredOther ==
    /\ pc = "init"
    /\ post[try] = "served"
    /\ want
    /\ \E pid \in Named : StartSampler(pid, "both")
    /\ UNCHANGED <<clientVars, requestVars, setupErr, errs, cpu, cancelled, serverVars, rep>>

\* The answer to /init: a pid of the server's own process table, verified by
\* its name before it is sampled here, with /ps as the fallback.
InitAnsweredHere ==
    /\ pc = "init"
    /\ post[try] = "served"
    /\ want
    /\ StartSampler(ServerPid, "both")
    /\ UNCHANGED <<clientVars, requestVars, setupErr, errs, cpu, cancelled, serverVars, rep>>

\* Not wanted, not this framework's server here, or not to be sampled.
InitAnswered ==
    /\ pc = "init"
    /\ post[try] = "served"
    /\ pc' = "ready"
    /\ UNCHANGED <<clientVars, requestVars, setupVars, samplerVars, serverVars, rep>>

\* A transport failure (time-out, reset): the next attempt, or the last error.
InitFails ==
    /\ pc = "init"
    /\ IF try < Attempts
       THEN Send(try + 1) /\ UNCHANGED setupErr
       ELSE pc' = "ready" /\ setupErr' = TRUE /\ UNCHANGED requestVars
    /\ UNCHANGED <<clientVars, source, samplerVars, serverVars, rep>>

\* An answer that is not 200 is not retried.
InitRefused ==
    /\ pc = "init"
    /\ up
    /\ post[try] = "sent"
    /\ post' = [post EXCEPT ![try] = "refused"]
    /\ pc' = "ready"
    /\ setupErr' = TRUE
    /\ UNCHANGED <<clientVars, try, source, samplerVars, serverVars, rep>>

SetupPS ==
    \/ FindServer \/ AskServer \/ StartAlone \/ CannotStart
    \/ InitAnsweredHere \/ InitAnswered \/ InitFails \/ InitRefused

-----------------------------------------------------------------------------
(* The server: HandleCommon.  perf.PSCounter.Start resets its samples. *)

\* Mutant of ServeInit: every /init starts the counter.
ServeInitAlways(attempt) ==
    /\ up
    /\ post[attempt] = "sent"
    /\ post' = [post EXCEPT ![attempt] = "served"]
    /\ psStarted' = TRUE
    /\ starting' = TRUE
    /\ UNCHANGED <<pc, clientVars, try, setupVars, samplerVars, up, counting, srv, rep>>

\* psStarted.CompareAndSwap(false, true) and the answer; an attempt the client
\* gave up on may still be served.
ServeInit(attempt) ==
    /\ up
    /\ post[attempt] = "sent"
    /\ post' = [post EXCEPT ![attempt] = "served"]
    /\ psStarted' = TRUE
    /\ starting' = (starting \/ ~psStarted)
    /\ UNCHANGED <<pc, clientVars, try, setupVars, samplerVars, up, counting, srv, rep>>

StartCounter ==
    /\ up
    /\ starting
    /\ starting' = FALSE
    /\ counting' = TRUE
    /\ srv' = 0
    /\ UNCHANGED <<pc, clientVars, requestVars, setupVars, samplerVars, up, psStarted, rep>>

ServerSamples ==
    /\ up
    /\ counting
    /\ srv < MaxSamples
    /\ srv' = srv + 1
    /\ UNCHANGED <<pc, clientVars, requestVars, setupVars, samplerVars,
                   up, psStarted, starting, counting, rep>>

ServerDies ==
    /\ faulty
    /\ up
    /\ up' = FALSE
    /\ UNCHANGED <<pc, clientVars, requestVars, setupVars, samplerVars,
                   psStarted, starting, counting, srv, rep>>

Server ==
    \/ \E attempt \in 1..Attempts : ServeInit(attempt)
    \/ StartCounter \/ ServerSamples \/ ServerDies

-----------------------------------------------------------------------------
(* LocalPSSampler.run *)

\* PercentWithContext answers, and the context is not done.
PercentOk ==
    /\ sampler = "percent"
    /\ ~cancelled
    /\ spid \in Named
    /\ cpu < MaxSamples
    /\ sampler' = "append"
    /\ errs' = 0
    /\ UNCHANGED <<pc, clientVars, requestVars, setupVars, spid, cpu, cancelled, serverVars, rep>>

PercentFails ==
    /\ sampler = "percent"
    /\ ~cancelled
    /\ errs' = errs + 1
    /\ sampler' = IF errs + 1 >= ErrorLimit THEN "done" ELSE "percent"
    /\ UNCHANGED <<pc, clientVars, requestVars, setupVars, spid, cpu, cancelled, serverVars, rep>>

\* Under the sampler's mutex; the context may be cancelled by now.
AppendSample ==
    /\ sampler = "append"
    /\ sampler' = "percent"
    /\ cpu' = cpu + 1
    /\ UNCHANGED <<pc, clientVars, requestVars, setupVars, spid, errs, cancelled, serverVars, rep>>

\* Mutant of SamplerCancelled: a cancelled context is an error like any other,
\* and the loop continues with it.
SamplerContinues ==
    /\ sampler = "percent"
    /\ cancelled
    /\ UNCHANGED samplingVars

\* PercentWithContext returns promptly, and run returns.
SamplerCancelled ==
    /\ sampler = "percent"
    /\ cancelled
    /\ sampler' = "done"
    /\ UNCHANGED <<pc, clientVars, requestVars, setupVars, spid, errs, cpu, cancelled,
                   serverVars, rep>>

Sampler == PercentOk \/ PercentFails \/ AppendSample \/ SamplerCancelled

-----------------------------------------------------------------------------
(* PSSource.PsInfo, called when a report is built *)

\* The client's own samples, copied under the sampler's mutex.
ReadSamples ==
    /\ pc = "psinfo"
    /\ source # "remote"
    /\ cpu > 0
    /\ rep' = [cpu |-> cpu, failed |-> FALSE]
    /\ pc' = "save"
    /\ UNCHANGED <<clientVars, requestVars, setupVars, samplerVars, serverVars>>

\* Mutant of NoSamples: the fallback is forgotten.
NoSamplesFallback ==
    /\ pc = "psinfo"
    /\ source # "remote"
    /\ cpu = 0
    /\ rep' = NoSample
    /\ pc' = "save"
    /\ UNCHANGED <<clientVars, requestVars, setupVars, samplerVars, serverVars>>

\* No sample, and the server was never asked to take any: an error with the
\* empty counter.
NoSamples ==
    /\ pc = "psinfo"
    /\ source = "local"
    /\ cpu = 0
    /\ rep' = NoSample
    /\ pc' = "save"
    /\ UNCHANGED <<clientVars, requestVars, setupVars, samplerVars, serverVars>>

\* GetFrameworkPsInfo of RemotePSSource, the source or its fallback.
AskPs ==
    /\ pc = "psinfo"
    /\ source = "remote" \/ (source = "both" /\ cpu = 0)
    /\ try' = 1
    /\ pc' = "ask"
    /\ UNCHANGED <<clientVars, post, setupVars, samplerVars, serverVars, rep>>

\* The counter as JSON; one without samples is returned with an error.
PsAnswered ==
    /\ pc = "ask"
    /\ up
    /\ rep' = [cpu |-> srv, failed |-> FALSE]
    /\ pc' = "save"
    /\ UNCHANGED <<clientVars, requestVars, setupVars, samplerVars, serverVars>>

PsFails ==
    /\ pc = "ask"
    /\ IF try < Attempts
       THEN try' = try + 1 /\ UNCHANGED <<pc, rep>>
       ELSE /\ rep' = [cpu |-> 0, failed |-> TRUE]
            /\ pc' = "save"
            /\ UNCHANGED try
    /\ UNCHANGED <<clientVars, post, setupVars, samplerVars, serverVars>>

PsRefused ==
    /\ pc = "ask"
    /\ up
    /\ rep' = [cpu |-> 0, failed |-> TRUE]
    /\ pc' = "save"
    /\ UNCHANGED <<clientVars, requestVars, setupVars, samplerVars, serverVars>>

PsInfo == ReadSamples \/ NoSamples \/ AskPs \/ PsAnswered \/ PsFails \/ PsRefused

-----------------------------------------------------------------------------
(* PSSource.Stop: cancels the sampler, and waits for its goroutine *)

Stop ==
    /\ pc = "stop"
    /\ IF source = "remote"
       THEN pc' = "stopped" /\ UNCHANGED cancelled
       ELSE pc' = "stopping" /\ cancelled' = TRUE
    /\ UNCHANGED <<clientVars, requestVars, setupVars, sampler, spid, errs, cpu, serverVars, rep>>

\* Mutant of StopReturns: Stop does not wait.
StopAtOnce ==
    /\ pc = "stopping"
    /\ pc' = "stopped"
    /\ UNCHANGED <<clientVars, requestVars, setupVars, samplerVars, serverVars, rep>>

StopReturns ==
    /\ pc = "stopping"
    /\ sampler = "done"
    /\ pc' = "stopped"
    /\ UNCHANGED <<clientVars, requestVars, setupVars, samplerVars, serverVars, rep>>

-----------------------------------------------------------------------------
(* Properties *)

\* The server's samples are never dropped once it has begun to take them,
\* whatever is retried, duplicated or served late: psStarted lets one /init
\* start the counter (frameworks/handlers.go:54).
SamplesKept == [][srv' >= srv]_samplingVars

\* A sampler started while the server runs in this process table samples the
\* server, never a leftover of an earlier run (localps.go:29, pssource.go:143).
SamplesTheServer ==
    [][sampler = "off" /\ sampler' # "off" /\ shared /\ up => spid' = ServerPid]_samplingVars

\* A report reads no CPU only when its request failed or the server has no
\* sample either: where this client has none of its own, those the server
\* took for it are found (localps.go:288).
NoSamplesMissed ==
    [][(pc \in {"psinfo", "ask"} /\ pc' = "save" /\ rep'.cpu = 0 /\ ~rep'.failed)
          => srv = 0]_samplingVars

\* When Stop has returned no sample arrives any more (localps.go:309).
NoSampleAfterStop == [][pc = "stopped" => cpu' = cpu]_samplingVars
=============================================================================
