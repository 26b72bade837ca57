------------------------------ MODULE BenchRun ------------------------------
(***************************************************************************)
(* A single-node run: script/clients.sh starts each framework's server,    *)
(* points the client at it and stops it (start_server and stop_server of   *)
(* script/env.sh), while the servers come up and go down on their own      *)
(* (src/frameworks/frameworks.go).  ClientMain is the client that runs in  *)
(* between; here it is its exit status.                                    *)
(*                                                                         *)
(* Time is the script's 0.1 s polls, FirstCheck of them in the second that *)
(* start_server gives server.sh's fork to exec; the model takes from that  *)
(* comment that the fork has exec'd by then.  The servers run at any speed.*)
(***************************************************************************)
EXTENDS Frameworks

CONSTANTS
    Turns,        \* the frameworks of the run, in order
    FirstCheck,   \* polls before start_server looks for the process
    StartTimeout, \* polls before it gives up on the server
    StopTimeout   \* polls before stop_server kills it

ASSUME BenchRunAssumption ==
    /\ Turns \in Seq(DOMAIN GoServers) /\ Turns # <<>>
    /\ \A i, j \in DOMAIN Turns : Turns[i] = Turns[j] => i = j
    /\ FirstCheck \in Nat \ {0} /\ StartTimeout \in Nat /\ StartTimeout >= FirstCheck
    /\ StopTimeout \in Nat

VARIABLES
    pc,      \* where clients.sh and benchmark.sh are
    turn,    \* the framework it is at
    port,    \* the port start_server probes
    waited,  \* the polls it has waited
    status,  \* clients_status
    failed,  \* the frameworks not started, or whose client exited with another status than 0
    server,  \* the server process of each framework
    open     \* the ports each listens on

scriptVars == <<pc, turn, port, waited, status, failed>>
serverVars == <<server, open>>
vars == <<scriptVars, serverVars>>

Frameworks == {Turns[i] : i \in DOMAIN Turns}
F == Turns[turn]
Ports(f) == BenchmarkPorts(f) \cup {ControlPort(f)}
FirstOf(ports) == {p \in ports : \A q \in ports : p <= q}

Init ==
    /\ pc = "start"
    /\ turn = 1
    /\ port = 0
    /\ waited = 0
    /\ status = 0
    /\ failed = {}
    /\ server = [f \in Frameworks |-> "none"]
    /\ open = [f \in Frameworks |-> {}]

\* server_running: a process by the server's name, which a fork is not yet.
ServerRunning(f) == server[f] \notin {"none", "forked", "gone"}

-----------------------------------------------------------------------------
(* The servers *)

\* The fork runs the binary: Init, then StartControlServer's goroutine, which
\* listens whenever it gets to run, and the benchmark ports.
Exec(f) ==
    /\ server[f] = "forked"
    /\ server' = [server EXCEPT ![f] = "starting"]
    /\ UNCHANGED <<scriptVars, open>>

StartControlServer(f) ==
    /\ server[f] \in {"starting", "listening", "up", "told", "closed"}
    /\ ControlPort(f) \notin open[f]
    /\ open' = [open EXCEPT ![f] = @ \cup {ControlPort(f)}]
    /\ UNCHANGED <<scriptVars, server>>

\* listenAll, a port after the other, or an engine bound to all of them.
ListenAll(f) ==
    /\ server[f] = "starting"
    /\ LET ports == BenchmarkPorts(f) \ open[f]
           new == IF GoServers[f].binds = "each" THEN FirstOf(ports) ELSE ports
       IN  /\ open' = [open EXCEPT ![f] = @ \cup new]
           /\ server' = [server EXCEPT ![f] = IF new = ports THEN "listening" ELSE "starting"]
    /\ UNCHANGED scriptVars

\* signal.Notify.  Up to then a SIGINT does nothing: the shell starts a
\* background command with it ignored.
WaitSignal(f) ==
    /\ server[f] = "listening"
    /\ server' = [server EXCEPT ![f] = "up"]
    /\ UNCHANGED <<scriptVars, open>>

\* Close of every server, or of the one.
CloseServers(f) ==
    /\ server[f] = "told"
    /\ LET ports == BenchmarkPorts(f) \cap open[f]
           closed == IF GoServers[f].servers = "port" THEN FirstOf(ports) ELSE ports
       IN  /\ open' = [open EXCEPT ![f] = @ \ closed]
           /\ server' = [server EXCEPT ![f] = IF closed = ports THEN "closed" ELSE "told"]
    /\ UNCHANGED scriptVars

\* main returns; a port that is taken is fatal in listenAll and in the control
\* server's goroutine; a server may crash; one that was killed dies in time.
Exits(f) ==
    /\ server[f] \notin {"none", "forked", "gone"}
    /\ server' = [server EXCEPT ![f] = "gone"]
    /\ open' = [open EXCEPT ![f] = {}]
    /\ UNCHANGED scriptVars

Server(f) ==
    \/ Exec(f) \/ StartControlServer(f) \/ ListenAll(f) \/ WaitSignal(f)
    \/ CloseServers(f) \/ Exits(f)

-----------------------------------------------------------------------------
(* script/clients.sh *)

\* start_server: server.sh's fork.
StartServer ==
    /\ pc = "start"
    /\ server' = [server EXCEPT ![F] = "forked"]
    /\ port' = FirstPort[F]
    /\ waited' = 0
    /\ pc' = "probe"
    /\ UNCHANGED <<turn, status, failed, open>>

\* Mutant of LastProbed: the control port is not waited for.
LastBenchmarkPort(f) == ControlPort(f) - 1

LastProbed(f) == ControlPort(f)

\* A port that is open is not probed again.
ProbeOpen ==
    /\ pc = "probe" /\ port \in open[F]
    /\ IF port = LastProbed(F) THEN pc' = "run" /\ UNCHANGED port
       ELSE port' = port + 1 /\ UNCHANGED pc
    /\ UNCHANGED <<turn, waited, status, failed, serverVars>>

FailStart == status' = 1 /\ failed' = failed \cup {F}

GoneEarly == waited >= FirstCheck /\ ~ServerRunning(F)

\* Exited: nothing to stop.
ServerExited ==
    /\ pc = "probe" /\ port \notin open[F]
    /\ GoneEarly
    /\ FailStart
    /\ pc' = "next"
    /\ UNCHANGED <<turn, port, waited, serverVars>>

\* Mutant of StartTimesOut: the server is left to itself.
StartTimesOutRunning ==
    /\ pc = "probe" /\ port \notin open[F]
    /\ ~GoneEarly /\ waited >= StartTimeout
    /\ FailStart
    /\ pc' = "next"
    /\ UNCHANGED <<turn, port, waited, serverVars>>

StartTimesOut ==
    /\ pc = "probe" /\ port \notin open[F]
    /\ ~GoneEarly /\ waited >= StartTimeout
    /\ FailStart
    /\ pc' = "stop"
    /\ UNCHANGED <<turn, port, waited, serverVars>>

\* sleep 0.1
ProbeAgain ==
    /\ pc = "probe" /\ port \notin open[F]
    /\ ~GoneEarly /\ waited < StartTimeout
    /\ server[F] = "forked" => waited + 1 < FirstCheck
    /\ waited' = waited + 1
    /\ UNCHANGED <<pc, turn, port, status, failed, serverVars>>

\* The client dials: no benchmark runs without a connection.
RunClient ==
    /\ pc = "run"
    /\ pc' = IF open[F] \cap BenchmarkPorts(F) = {} THEN "refused" ELSE "client"
    /\ UNCHANGED <<turn, port, waited, status, failed, serverVars>>

\* Mutant of ClientEnds: the last client's status is the run's.
ClientEndsLast ==
    /\ pc \in {"client", "refused"}
    /\ \E code \in IF pc = "client" THEN {0, 1} ELSE {1} :
           /\ status' = code
           /\ failed' = IF code = 0 THEN failed ELSE failed \cup {F}
    /\ pc' = "stop"
    /\ UNCHANGED <<turn, port, waited, serverVars>>

\* || clients_status=$?, if the client ends: it is run without a time-out.
ClientEnds ==
    /\ pc \in {"client", "refused"}
    /\ \E code \in IF pc = "client" THEN {0, 1} ELSE {1} :
           /\ status' = IF code = 0 THEN status ELSE code
           /\ failed' = IF code = 0 THEN failed ELSE failed \cup {F}
    /\ pc' = "stop"
    /\ UNCHANGED <<turn, port, waited, serverVars>>

\* stop_server: SIGINT, which the server sees once it has asked for it.
StopServer ==
    /\ pc = "stop"
    /\ server' = IF server[F] = "up" THEN [server EXCEPT ![F] = "told"] ELSE server
    /\ waited' = 0
    /\ pc' = "stopping"
    /\ UNCHANGED <<turn, port, status, failed, open>>

ServerStopped ==
    /\ pc = "stopping" /\ ~ServerRunning(F)
    /\ pc' = "next"
    /\ UNCHANGED <<turn, port, waited, status, failed, serverVars>>

StopAgain ==
    /\ pc = "stopping" /\ ServerRunning(F)
    /\ waited < StopTimeout
    /\ waited' = waited + 1
    /\ UNCHANGED <<pc, turn, port, status, failed, serverVars>>

\* Mutant of KillServer: SIGINT again, and again.
KillNever ==
    /\ pc = "stopping" /\ ServerRunning(F)
    /\ waited >= StopTimeout
    /\ waited' = 0
    /\ UNCHANGED <<pc, turn, port, status, failed, serverVars>>

\* kill -9, and on without waiting.
KillServer ==
    /\ pc = "stopping" /\ ServerRunning(F)
    /\ waited >= StopTimeout
    /\ server' = [server EXCEPT ![F] = "killed"]
    /\ pc' = "next"
    /\ UNCHANGED <<turn, port, waited, status, failed, open>>

\* After the last framework benchmark.sh makes the report, if all went well.
NextFramework ==
    /\ pc = "next"
    /\ IF turn < Len(Turns) THEN turn' = turn + 1 /\ pc' = "start"
       ELSE pc' = (IF status = 0 THEN "reported" ELSE "failed") /\ UNCHANGED turn
    /\ UNCHANGED <<port, waited, status, failed, serverVars>>

Script ==
    \/ StartServer \/ ProbeOpen \/ ServerExited \/ StartTimesOut \/ ProbeAgain
    \/ RunClient \/ ClientEnds \/ StopServer \/ ServerStopped \/ StopAgain \/ KillServer
    \/ NextFramework

Ended == pc \in {"reported", "failed"}

Terminated == Ended /\ UNCHANGED vars

Next == Script \/ (\E f \in Frameworks : Server(f)) \/ Terminated

\* The script goes on, and a fork execs; nothing else is promised of a server.  A
\* client ends without a connection, or when its server has died; it may wait
\* for ever on one that runs, and clients.sh:37 with it.
Fairness ==
    /\ WF_vars((pc = "client" => server[F] = "gone") /\ Script)
    /\ \A f \in Frameworks : WF_vars(Exec(f))

Spec == Init /\ [][Next]_vars /\ Fairness

-----------------------------------------------------------------------------
(* Properties *)

\* While a client measures no other framework's server runs, but for one that
\* was killed and is still dying (clients.sh:21, env.sh:197).
OneServerAtATime ==
    pc = "client" =>
        \A f \in Frameworks \ {F} : server[f] \in {"none", "gone", "killed"}

\* The client is started on a server with every benchmark port and its control
\* port open, unless that server has died since its ports were probed
\* (env.sh:164, frameworks.go:149).
ClientFindsAll == pc = "run" => open[F] = Ports(F) \/ server[F] = "gone"

\* The tables are made if every framework's server was started and its client
\* exited with 0, and only then: no failure is lost among the frameworks after
\* it (clients.sh:37).
FailuresTold == Ended => (pc = "reported") = (failed = {})

\* The run ends, or a client waits for ever on a server that runs: the script
\* itself waits for no server without giving up, to come up (env.sh:173) or to
\* go down (env.sh:195).
RunReturns == <>Ended \/ <>[](pc = "client" /\ server[F] # "gone")
=============================================================================
