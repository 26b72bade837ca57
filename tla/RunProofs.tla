----------------------------- MODULE RunProofs -----------------------------
(***************************************************************************)
(* Proofs about a run.  Of the scripts that make one, BenchRun: the        *)
(* failures it tells of, that one server at a time is measured, and that   *)
(* all of it is there, for every list of different Go frameworks and every *)
(* number of polls.  Of the tables made of its files, Reports: the order   *)
(* of the rows, their shares and the Summary, for every set of files with  *)
(* numbers for results and every number of frameworks.                     *)
(***************************************************************************)
EXTENDS BenchRun, Reports, WellFoundedInduction, FiniteSetTheorems, SequenceTheorems, TLAPS

-----------------------------------------------------------------------------
(* BenchRun: failures *)

\* clients_status is 0 as long as no framework has failed.
StatusInv ==
    /\ (status = 0) = (failed = {})
    /\ pc = "reported" => status = 0
    /\ pc = "failed" => status # 0

LEMMA StatusStep ==
    ASSUME StatusInv, [Next]_vars
    PROVE  StatusInv'
<1>1. CASE ServerExited \/ StartTimesOut
  BY <1>1 DEF ServerExited, StartTimesOut, FailStart, StatusInv
<1>2. CASE ClientEnds
  BY <1>2 DEF ClientEnds, StatusInv
<1>3. CASE NextFramework
  BY <1>3 DEF NextFramework, StatusInv
<1>4. CASE \/ StartServer \/ ProbeOpen \/ ProbeAgain \/ RunClient \/ StopServer
           \/ ServerStopped \/ StopAgain \/ KillServer
  BY <1>4 DEF StartServer, ProbeOpen, ProbeAgain, RunClient, StopServer, ServerStopped, StopAgain,
         KillServer, StatusInv
<1>5. CASE (\E f \in Frameworks : Server(f)) \/ Terminated \/ UNCHANGED vars
  BY <1>5 DEF Server, Exec, StartControlServer, ListenAll, WaitSignal, CloseServers, Exits,
         Terminated, vars, scriptVars, StatusInv
<1> QED BY <1>1, <1>2, <1>3, <1>4, <1>5 DEF Next, Script

\* No failure is lost among the frameworks after it, and no table is made of a
\* run that had one (clients.sh:37).
THEOREM FailuresAreTold == Spec => []FailuresTold
<1>1. Init => StatusInv
  BY DEF Init, StatusInv
<1>2. StatusInv /\ [Next]_vars => StatusInv'
  BY StatusStep
<1>3. StatusInv => FailuresTold
  BY DEF StatusInv, FailuresTold, Ended
<1> QED BY <1>1, <1>2, <1>3, PTL DEF Spec

-----------------------------------------------------------------------------
(* One server at a time *)

States == {"none", "forked", "starting", "listening", "up", "told", "closed", "killed", "gone"}

\* The servers of the other turns are gone or dying, and so is this turn's
\* before it begins and when it is over; a fork has exec'd by the time the
\* script looks for it.
TurnInv ==
    /\ turn \in 1..Len(Turns)
    /\ waited \in Nat
    /\ server \in [Frameworks -> States]
    /\ open \in [Frameworks -> SUBSET Int]
    /\ \A f \in Frameworks : server[f] \in {"none", "forked"} => open[f] = {}
    /\ \A f \in Frameworks : f # F => server[f] \in {"none", "gone", "killed"}
    /\ \A i \in 1..Len(Turns) : i > turn => server[Turns[i]] = "none"
    /\ pc = "start" => server[F] = "none"
    /\ pc = "next" => server[F] \in {"gone", "killed"}
    /\ pc \in {"probe", "run", "client", "refused", "stop", "stopping"} => server[F] # "none"
    /\ pc = "probe" /\ server[F] = "forked" => waited < FirstCheck
    /\ pc \in {"run", "client", "refused", "stop", "stopping"} => server[F] # "forked"

LEMMA TurnIsFramework ==
    ASSUME TurnInv
    PROVE  F \in Frameworks
BY BenchRunAssumption DEF TurnInv, F, Frameworks

LEMMA FirstPortIsInt ==
    ASSUME NEW f \in Frameworks
    PROVE  f \in DOMAIN GoServers /\ FirstPort[f] \in Int
<1>1. f \in DOMAIN GoServers
  BY BenchRunAssumption DEF Frameworks
<1>2. f \in {"beego", "chi", "echo", "fasthttp", "fib", "fiber", "gin", "goji", "gorillamux",
             "hertz", "httprouter", "nbio", "nethttp"}
  BY <1>1 DEF GoServers
<1> QED BY <1>1, <1>2 DEF FirstPort

LEMMA PortsAreInts ==
    ASSUME NEW f \in Frameworks
    PROVE  BenchmarkPorts(f) \subseteq Int /\ ControlPort(f) \in Int
BY FirstPortIsInt DEF BenchmarkPorts, ControlPort

LEMMA TurnStepServer ==
    ASSUME TurnInv, NEW f \in Frameworks, Server(f)
    PROVE  TurnInv'
<1>1. UNCHANGED scriptVars /\ F' = F
  BY DEF Server, Exec, StartControlServer, ListenAll, WaitSignal, CloseServers, Exits, scriptVars, F
<1>2. server \in [Frameworks -> States] /\ open \in [Frameworks -> SUBSET Int]
  BY DEF TurnInv
<1>3. server[f] \notin {"none", "gone"}
  BY DEF Server, Exec, StartControlServer, ListenAll, WaitSignal, CloseServers, Exits
<1>4. PICK s \in States \ {"none", "forked"} :
         server' = [server EXCEPT ![f] = s] /\ (server[f] = "killed" => s \in {"killed", "gone"})
  <2>1. CASE Exec(f)
    BY <2>1 DEF Exec, States
  <2>2. CASE StartControlServer(f)
    BY <1>2, <2>2 DEF StartControlServer, States
  <2>3. CASE ListenAll(f)
    BY <2>3 DEF ListenAll, States
  <2>4. CASE WaitSignal(f)
    BY <2>4 DEF WaitSignal, States
  <2>5. CASE CloseServers(f)
    BY <2>5 DEF CloseServers, States
  <2>6. CASE Exits(f)
    BY <2>6 DEF Exits, States
  <2> QED BY <2>1, <2>2, <2>3, <2>4, <2>5, <2>6 DEF Server
<1>5. PICK ports \in SUBSET Int : open' = [open EXCEPT ![f] = ports]
  <2>1. CASE Exec(f) \/ WaitSignal(f)
    BY <1>2, <2>1 DEF Exec, WaitSignal
  <2>2. CASE StartControlServer(f)
    BY <1>2, <2>2, PortsAreInts DEF StartControlServer
  <2>3. CASE ListenAll(f)
    BY <1>2, <2>3, PortsAreInts DEF ListenAll, FirstOf
  <2>4. CASE CloseServers(f)
    BY <1>2, <2>4 DEF CloseServers
  <2>5. CASE Exits(f)
    BY <2>5 DEF Exits
  <2> QED BY <2>1, <2>2, <2>3, <2>4, <2>5 DEF Server
<1>6. pc' = pc /\ turn' = turn /\ waited' = waited
  BY <1>1 DEF scriptVars
<1>7. server' \in [Frameworks -> States] /\ open' \in [Frameworks -> SUBSET Int]
  BY <1>2, <1>4, <1>5
<1>8. \A g \in Frameworks :
         /\ server'[g] = IF g = f THEN s ELSE server[g]
         /\ open'[g] = IF g = f THEN ports ELSE open[g]
  BY <1>2, <1>4, <1>5
<1>9. F \in Frameworks
  BY TurnIsFramework
<1>10. \A i \in 1..Len(Turns) : Turns[i] \in Frameworks
  BY BenchRunAssumption DEF Frameworks
<1> QED BY <1>1, <1>3, <1>4, <1>6, <1>7, <1>8, <1>9, <1>10 DEF TurnInv

LEMMA TurnStepScript ==
    ASSUME TurnInv, Script
    PROVE  TurnInv'
<1>1. /\ turn \in 1..Len(Turns) /\ F \in Frameworks /\ waited \in Nat
      /\ server \in [Frameworks -> States] /\ FirstCheck \in Nat \ {0}
      /\ StartTimeout >= FirstCheck /\ StartTimeout \in Nat
  BY TurnIsFramework, BenchRunAssumption DEF TurnInv
<1>2. /\ \A i \in 1..Len(Turns) : Turns[i] \in Frameworks
      /\ \A i \in 1..Len(Turns) : Turns[i] = F => i = turn
  BY <1>1, BenchRunAssumption DEF Frameworks, F
<1>3. CASE StartServer
  <2>1. /\ server' = [server EXCEPT ![F] = "forked"] /\ waited' = 0
        /\ pc = "start" /\ pc' = "probe" /\ UNCHANGED <<turn, open>> /\ F' = F
    BY <1>3 DEF StartServer, F
  <2>2. server[F] = "none" /\ open[F] = {}
    BY <1>1, <2>1 DEF TurnInv
  <2>3. server' \in [Frameworks -> States]
    BY <1>1, <2>1 DEF States
  <2>4. \A f \in Frameworks : server'[f] = IF f = F THEN "forked" ELSE server[f]
    BY <1>1, <2>1
  <2> QED BY <1>1, <1>2, <2>1, <2>2, <2>3, <2>4 DEF TurnInv
<1>4. CASE ProbeOpen
  <2>1. /\ port \in open[F] /\ pc = "probe" /\ pc' \in {"probe", "run"}
        /\ UNCHANGED <<turn, waited, server, open>> /\ F' = F
    BY <1>4 DEF ProbeOpen, serverVars, F
  <2>2. server[F] \notin {"none", "forked"}
    BY <1>1, <2>1 DEF TurnInv
  <2> QED BY <2>1, <2>2 DEF TurnInv
<1>5. CASE ServerExited
  <2>1. /\ pc = "probe" /\ waited >= FirstCheck /\ server[F] \in {"none", "forked", "gone"}
        /\ pc' = "next" /\ UNCHANGED <<turn, waited, server, open>> /\ F' = F
    BY <1>5 DEF ServerExited, GoneEarly, ServerRunning, serverVars, F
  <2>2. server[F] = "gone"
    BY <1>1, <2>1 DEF TurnInv
  <2> QED BY <2>1, <2>2 DEF TurnInv
<1>6. CASE StartTimesOut
  <2>1. /\ pc = "probe" /\ waited >= StartTimeout
        /\ pc' = "stop" /\ UNCHANGED <<turn, waited, server, open>> /\ F' = F
    BY <1>6 DEF StartTimesOut, serverVars, F
  <2>2. server[F] \notin {"none", "forked"}
    BY <1>1, <2>1 DEF TurnInv
  <2> QED BY <2>1, <2>2 DEF TurnInv
<1>7. CASE ProbeAgain
  <2>1. /\ pc = "probe"
        /\ server[F] = "forked" => waited + 1 < FirstCheck
        /\ waited' = waited + 1 /\ UNCHANGED <<pc, turn, server, open>> /\ F' = F
    BY <1>7 DEF ProbeAgain, serverVars, F
  <2>2. waited' \in Nat
    BY <1>1, <2>1
  <2> QED BY <1>1, <2>1, <2>2 DEF TurnInv
<1>8. CASE RunClient \/ ClientEnds
  <2>1. /\ pc \in {"run", "client", "refused"} /\ pc' \in {"client", "refused", "stop"}
        /\ UNCHANGED <<turn, waited, server, open>> /\ F' = F
    BY <1>8 DEF RunClient, ClientEnds, serverVars, F
  <2> QED BY <2>1 DEF TurnInv
<1>9. CASE StopServer
  <2>1. /\ server' = IF server[F] = "up" THEN [server EXCEPT ![F] = "told"] ELSE server
        /\ pc = "stop" /\ pc' = "stopping" /\ waited' = 0 /\ UNCHANGED <<turn, open>> /\ F' = F
    BY <1>9 DEF StopServer, F
  <2>2. server' \in [Frameworks -> States]
    BY <1>1, <2>1 DEF States
  <2>3. /\ \A f \in Frameworks : f # F => server'[f] = server[f]
        /\ server'[F] = server[F] \/ (server[F] = "up" /\ server'[F] = "told")
    BY <1>1, <2>1
  <2> QED BY <1>1, <1>2, <2>1, <2>2, <2>3 DEF TurnInv
<1>10. CASE ServerStopped
  <2>1. /\ pc = "stopping" /\ server[F] \in {"none", "forked", "gone"}
        /\ pc' = "next" /\ UNCHANGED <<turn, waited, server, open>> /\ F' = F
    BY <1>10 DEF ServerStopped, ServerRunning, serverVars, F
  <2>2. server[F] = "gone"
    BY <2>1 DEF TurnInv
  <2> QED BY <2>1, <2>2 DEF TurnInv
<1>11. CASE StopAgain
  <2>1. pc = "stopping" /\ waited' = waited + 1 /\ UNCHANGED <<pc, turn, server, open>> /\ F' = F
    BY <1>11 DEF StopAgain, serverVars, F
  <2>2. waited' \in Nat
    BY <1>1, <2>1
  <2> QED BY <2>1, <2>2 DEF TurnInv
<1>12. CASE KillServer
  <2>1. /\ server' = [server EXCEPT ![F] = "killed"] /\ pc = "stopping" /\ pc' = "next"
        /\ UNCHANGED <<turn, waited, open>> /\ F' = F
    BY <1>12 DEF KillServer, F
  <2>2. server' \in [Frameworks -> States]
    BY <1>1, <2>1 DEF States
  <2>3. \A f \in Frameworks : server'[f] = IF f = F THEN "killed" ELSE server[f]
    BY <1>1, <2>1
  <2> QED BY <1>1, <1>2, <2>1, <2>2, <2>3 DEF TurnInv
<1>13. CASE NextFramework
  <2>1. pc = "next" /\ server[F] \in {"gone", "killed"} /\ UNCHANGED <<waited, server, open>>
    BY <1>13 DEF NextFramework, TurnInv, serverVars
  <2>2. CASE turn < Len(Turns)
    <3>1. turn' = turn + 1 /\ pc' = "start" /\ F' = Turns[turn + 1]
      BY <1>13, <2>2 DEF NextFramework, F
    <3>2. turn' \in 1..Len(Turns) /\ turn' > turn /\ Len(Turns) \in Nat
      BY <1>1, <2>2, <3>1, BenchRunAssumption
    <3>3. server[F'] = "none" /\ (\A f \in Frameworks : server[f] \in {"none", "gone", "killed"})
      BY <2>1, <3>1, <3>2 DEF TurnInv
    <3>4. \A i \in 1..Len(Turns) : i > turn' => server[Turns[i]] = "none"
      BY <1>1, <3>1, <3>2 DEF TurnInv
    <3> QED BY <2>1, <3>1, <3>2, <3>3, <3>4 DEF TurnInv
  <2>3. CASE ~(turn < Len(Turns))
    <3>1. turn' = turn /\ pc' \in {"reported", "failed"} /\ F' = F
      BY <1>13, <2>3 DEF NextFramework, F
    <3> QED BY <2>1, <3>1 DEF TurnInv
  <2> QED BY <2>2, <2>3
<1> QED BY <1>3, <1>4, <1>5, <1>6, <1>7, <1>8, <1>9, <1>10, <1>11, <1>12, <1>13 DEF Script

LEMMA InitTurn == Init => TurnInv
<1> SUFFICES ASSUME Init PROVE TurnInv
  OBVIOUS
<1>1. /\ pc = "start" /\ turn = 1 /\ waited = 0
      /\ server = [f \in Frameworks |-> "none"] /\ open = [f \in Frameworks |-> {}]
  BY DEF Init
<1>2. 1 \in 1..Len(Turns) /\ (\A i \in 1..Len(Turns) : Turns[i] \in Frameworks)
  BY BenchRunAssumption DEF Frameworks
<1> QED BY <1>1, <1>2 DEF TurnInv, States, F

LEMMA TurnStep == TurnInv /\ [Next]_vars => TurnInv'
<1>1. ASSUME TurnInv, UNCHANGED vars
      PROVE  TurnInv'
  BY <1>1 DEF TurnInv, vars, scriptVars, serverVars, F
<1> QED BY <1>1, TurnStepServer, TurnStepScript DEF Next, Terminated

\* No two servers share the machine while a client measures, but for one that
\* was killed and is still dying (clients.sh:21, env.sh:197).
THEOREM OneServerMeasured == Spec => []OneServerAtATime
<1>1. Init => TurnInv
  BY InitTurn
<1>2. TurnInv /\ [Next]_vars => TurnInv'
  BY TurnStep
<1>3. TurnInv => OneServerAtATime
  BY DEF TurnInv, OneServerAtATime
<1> QED BY <1>1, <1>2, <1>3, PTL DEF Spec

-----------------------------------------------------------------------------
(* All of the server *)

\* The ports that start_server has probed are open, of a server that runs; no
\* server is told to stop before the client was run.
FoundInv ==
    /\ \A f \in Frameworks : open[f] \subseteq Ports(f)
    /\ pc \in {"start", "probe", "run"} => server[F] \notin {"told", "closed", "killed"}
    /\ pc = "probe" => port \in FirstPort[F]..ControlPort(F)
    /\ pc = "probe" /\ server[F] # "gone" => FirstPort[F]..(port - 1) \subseteq open[F]
    /\ ClientFindsAll

LEMMA PortsAreARange ==
    ASSUME NEW f \in Frameworks
    PROVE  /\ Ports(f) = FirstPort[f]..ControlPort(f)
           /\ FirstPort[f] \in Int /\ ControlPort(f) = FirstPort[f] + 50
BY FirstPortIsInt DEF Ports, BenchmarkPorts, ControlPort

LEMMA FoundStepServer ==
    ASSUME TurnInv, FoundInv, NEW f \in Frameworks, Server(f)
    PROVE  FoundInv'
<1>1. UNCHANGED <<pc, port>> /\ F' = F /\ F \in Frameworks
  BY TurnIsFramework DEF Server, Exec, StartControlServer, ListenAll, WaitSignal, CloseServers,
     Exits, scriptVars, F
<1>2. server \in [Frameworks -> States] /\ open \in [Frameworks -> SUBSET Int]
  BY DEF TurnInv
<1>3. \A g \in Frameworks : g # f => server'[g] = server[g] /\ open'[g] = open[g]
  BY <1>2 DEF Server, Exec, StartControlServer, ListenAll, WaitSignal, CloseServers, Exits
<1>4. open[f] \subseteq Ports(f)
  BY DEF FoundInv
<1>5. CASE Exec(f) \/ StartControlServer(f) \/ ListenAll(f) \/ WaitSignal(f)
  <2>1. open[f] \subseteq open'[f] /\ open'[f] \subseteq Ports(f)
    BY <1>2, <1>4, <1>5 DEF Exec, StartControlServer, ListenAll, WaitSignal, FirstOf, Ports
  <2>2. server[f] # "gone" /\ (server'[f] \in {"starting", "listening", "up"} \/ server'[f] = server[f])
    BY <1>2, <1>5 DEF Exec, StartControlServer, ListenAll, WaitSignal
  <2> QED BY <1>1, <1>3, <2>1, <2>2 DEF FoundInv, ClientFindsAll
<1>6. CASE CloseServers(f)
  <2>1. server[f] = "told" /\ open'[f] \subseteq open[f]
    BY <1>2, <1>6 DEF CloseServers
  <2>2. pc \in {"start", "probe", "run"} => F # f
    BY <2>1 DEF FoundInv
  <2> QED BY <1>1, <1>3, <1>4, <2>1, <2>2 DEF FoundInv, ClientFindsAll
<1>7. CASE Exits(f)
  <2>1. server'[f] = "gone" /\ open'[f] = {}
    BY <1>2, <1>7 DEF Exits
  <2> QED BY <1>1, <1>3, <2>1 DEF FoundInv, ClientFindsAll
<1> QED BY <1>5, <1>6, <1>7 DEF Server

LEMMA FoundStepScript ==
    ASSUME TurnInv, FoundInv, Script
    PROVE  FoundInv'
<1>1. F \in Frameworks /\ server \in [Frameworks -> States]
  BY TurnIsFramework DEF TurnInv
<1>2. UNCHANGED open
  BY DEF Script, StartServer, ProbeOpen, ServerExited, StartTimesOut, ProbeAgain, RunClient,
     ClientEnds, StopServer, ServerStopped, StopAgain, KillServer, NextFramework, serverVars
<1>3. CASE StartServer
  <2>1. /\ pc' = "probe" /\ F' = F /\ port' = FirstPort[F]
        /\ server' = [server EXCEPT ![F] = "forked"]
    BY <1>3 DEF StartServer, F
  <2>2. server'[F] = "forked"
    BY <1>1, <2>1
  <2>3. port' \in FirstPort[F]..ControlPort(F) /\ FirstPort[F]..(port' - 1) = {}
    BY <1>1, <2>1, PortsAreARange
  <2> QED BY <1>2, <2>1, <2>2, <2>3 DEF FoundInv, ClientFindsAll
<1>4. CASE ProbeOpen
  <2>1. pc = "probe" /\ port \in open[F] /\ UNCHANGED server /\ F' = F
    BY <1>4 DEF ProbeOpen, serverVars, F
  <2>2. port \in FirstPort[F]..ControlPort(F)
    BY <2>1 DEF FoundInv
  <2>3. server[F] # "gone" => FirstPort[F]..port \subseteq open[F]
    <3>1. server[F] # "gone" => FirstPort[F]..(port - 1) \subseteq open[F]
      BY <2>1 DEF FoundInv
    <3>2. FirstPort[F]..port = (FirstPort[F]..(port - 1)) \cup {port}
      BY <1>1, <2>2, PortsAreARange
    <3> QED BY <2>1, <3>1, <3>2
  <2>4. CASE port = LastProbed(F)
    <3>1. pc' = "run" /\ port = ControlPort(F)
      BY <1>4, <2>4 DEF ProbeOpen, LastProbed
    <3>2. server[F] = "gone" \/ open[F] = Ports(F)
      BY <1>1, <2>3, <3>1, PortsAreARange DEF FoundInv
    <3> QED BY <1>2, <2>1, <3>1, <3>2 DEF FoundInv, ClientFindsAll
  <2>5. CASE port # LastProbed(F)
    <3>1. pc' = "probe" /\ port' = port + 1 /\ port # ControlPort(F)
      BY <1>4, <2>1, <2>5 DEF ProbeOpen, LastProbed
    <3>2. port' \in FirstPort[F]..ControlPort(F) /\ port' - 1 = port
      BY <1>1, <2>2, <3>1, PortsAreARange
    <3> QED BY <1>2, <2>1, <2>3, <3>1, <3>2 DEF FoundInv, ClientFindsAll
  <2> QED BY <2>4, <2>5
<1>5. CASE ProbeAgain
  BY <1>2, <1>5 DEF ProbeAgain, FoundInv, ClientFindsAll, serverVars, F
<1>6. CASE NextFramework
  <2>1. /\ pc' \in {"start", "reported", "failed"} /\ UNCHANGED server
        /\ pc' = "start" => turn < Len(Turns) /\ F' = Turns[turn + 1]
    BY <1>6 DEF NextFramework, serverVars, F
  <2>2. pc' = "start" => server[F'] = "none"
    <3>1. turn \in 1..Len(Turns) /\ Len(Turns) \in Nat
      BY BenchRunAssumption DEF TurnInv
    <3>2. pc' = "start" => turn + 1 \in 1..Len(Turns) /\ turn + 1 > turn
      BY <2>1, <3>1
    <3> QED BY <2>1, <3>2 DEF TurnInv
  <2> QED BY <1>2, <2>1, <2>2 DEF FoundInv, ClientFindsAll
<1>7. CASE \/ ServerExited \/ StartTimesOut \/ RunClient \/ ClientEnds \/ StopServer
           \/ ServerStopped \/ StopAgain \/ KillServer
  <2>1. pc' \in {"next", "stop", "client", "refused", "stopping"}
    BY <1>7 DEF ServerExited, StartTimesOut, RunClient, ClientEnds, StopServer, ServerStopped,
           StopAgain, KillServer
  <2> QED BY <1>2, <2>1 DEF FoundInv, ClientFindsAll
<1> QED BY <1>3, <1>4, <1>5, <1>6, <1>7 DEF Script

\* The client is never started on half a server: every benchmark port and the
\* control port are open, unless the server has died in between (env.sh:164).
THEOREM ClientFindsAllPorts == Spec => []ClientFindsAll
<1>1. Init => TurnInv /\ FoundInv
  <2>1. ASSUME Init
        PROVE  FoundInv
    <3>1. pc = "start" /\ turn = 1 /\ server = [f \in Frameworks |-> "none"]
             /\ open = [f \in Frameworks |-> {}]
      BY <2>1 DEF Init
    <3>2. F \in Frameworks
      BY <2>1, InitTurn, TurnIsFramework
    <3> QED BY <3>1, <3>2 DEF FoundInv, ClientFindsAll
  <2> QED BY <2>1, InitTurn
<1>2. TurnInv /\ FoundInv /\ [Next]_vars => TurnInv' /\ FoundInv'
  <2>1. ASSUME FoundInv, UNCHANGED vars
        PROVE  FoundInv'
    BY <2>1 DEF FoundInv, ClientFindsAll, vars, scriptVars, serverVars, F
  <2> QED BY <2>1, TurnStep, FoundStepServer, FoundStepScript DEF Next, Terminated
<1>3. FoundInv => ClientFindsAll
  BY DEF FoundInv
<1> QED BY <1>1, <1>2, <1>3, PTL DEF Spec

-----------------------------------------------------------------------------
(* Reports: greatest elements *)

\* A set of naturals has a least element.
LEMMA LeastNat ==
    ASSUME NEW S \in SUBSET Nat, S # {}
    PROVE  \E m \in S : \A n \in S : m <= n
<1>1. PICK m \in S : \A n \in S : <<n, m>> \notin OpToRel(<, Nat)
  BY NatLessThanWellFounded, WFMin, ZenonT(30)
<1>2. \A n \in S : n < m => <<n, m>> \in OpToRel(<, Nat)
  <2>. SUFFICES ASSUME NEW n \in S, n < m PROVE <<n, m>> \in OpToRel(<, Nat)
    OBVIOUS
  <2>1. <<n, m>> \in Nat \X Nat /\ <<n, m>>[1] < <<n, m>>[2]
    BY SMT
  <2>. QED BY <2>1, Zenon DEF OpToRel
<1>3. \A n \in S : ~(n < m)
  BY <1>1, <1>2, Zenon
<1>. QED BY <1>3

\* A finite set of integers has a greatest element: one with the fewest above.
LEMMA GreatestInt ==
    ASSUME NEW S \in SUBSET Int, IsFiniteSet(S), S # {}
    PROVE  \E m \in S : \A n \in S : n <= m
<1>. DEFINE Above(m) == {n \in S : n > m}
<1>1. \A m \in S : IsFiniteSet(Above(m)) /\ Cardinality(Above(m)) \in Nat
  BY FS_Subset, FS_CardinalityType
<1>2. PICK m \in S : \A n \in S : Cardinality(Above(m)) <= Cardinality(Above(n))
  <2>. DEFINE C == {Cardinality(Above(n)) : n \in S}
  <2>1. C \in SUBSET Nat /\ C # {}
    BY <1>1
  <2>. HIDE DEF Above
  <2>2. PICK c \in C : \A n \in C : c <= n
    BY <2>1, LeastNat
  <2>. QED BY <2>2
<1>3. \A n \in S : n > m => Cardinality(Above(n)) < Cardinality(Above(m))
  <2>. SUFFICES ASSUME NEW n \in S, n > m PROVE Cardinality(Above(n)) < Cardinality(Above(m))
    OBVIOUS
  <2>1. Above(n) \in SUBSET Above(m) /\ n \in Above(m) /\ n \notin Above(n)
    <3>1. n \in Int /\ m \in Int /\ \A k \in S : k \in Int
      OBVIOUS
    <3>2. \A k : k \in Above(n) <=> k \in S /\ k > n
      OBVIOUS
    <3>3. \A k : k \in Above(m) <=> k \in S /\ k > m
      OBVIOUS
    <3>4. n \in Above(m) /\ n \notin Above(n)
      BY <3>1
    <3>5. ASSUME NEW k \in Above(n) PROVE k \in Above(m)
      <4>1. k \in S /\ k > n /\ k \in Int
        BY <3>1, <3>2
      <4>2. k > m
        BY <3>1, <4>1
      <4>. QED BY <3>3, <4>1, <4>2, Zenon
    <3>. QED BY <3>4, <3>5, Zenon
  <2>. HIDE DEF Above
  <2>2. /\ Cardinality(Above(n)) <= Cardinality(Above(m))
        /\ Cardinality(Above(n)) = Cardinality(Above(m)) => Above(n) = Above(m)
    BY <1>1, <2>1, FS_Subset, Zenon
  <2>. QED BY <2>1, <2>2, <1>1
<1>. HIDE DEF Above
<1>. QED BY <1>1, <1>2, <1>3

-----------------------------------------------------------------------------
(* The fields each table is ranked by *)

\* A field of s \o t is a field of one of the two.
LEMMA ToSetConcat ==
    ASSUME NEW R, NEW s \in Seq(R), NEW t \in Seq(R)
    PROVE  s \o t \in Seq(R) /\ ToSet(s \o t) = ToSet(s) \cup ToSet(t)
<1>1. /\ s \o t \in Seq(R) /\ Len(s \o t) = Len(s) + Len(t)
      /\ \A i \in 1..(Len(s) + Len(t)) :
            (s \o t)[i] = IF i <= Len(s) THEN s[i] ELSE t[i - Len(s)]
  BY ConcatProperties
<1>2. DOMAIN s = 1..Len(s) /\ DOMAIN t = 1..Len(t) /\ DOMAIN (s \o t) = 1..(Len(s) + Len(t))
      /\ Len(s) \in Nat /\ Len(t) \in Nat
  BY <1>1
<1>3. ASSUME NEW i \in DOMAIN t PROVE t[i] \in ToSet(s \o t)
  <2>1. i + Len(s) \in 1..(Len(s) + Len(t)) /\ (s \o t)[i + Len(s)] = t[i]
    BY <1>1, <1>2
  <2>. QED BY <2>1, <1>2 DEF ToSet
<1>4. ASSUME NEW i \in DOMAIN s PROVE s[i] \in ToSet(s \o t)
  <2>1. i \in 1..(Len(s) + Len(t)) /\ (s \o t)[i] = s[i]
    BY <1>1, <1>2
  <2>. QED BY <2>1, <1>2 DEF ToSet
<1>5. ASSUME NEW i \in DOMAIN (s \o t) PROVE (s \o t)[i] \in ToSet(s) \cup ToSet(t)
  <2>1. CASE i <= Len(s)
    <3>1. i \in DOMAIN s /\ (s \o t)[i] = s[i]
      BY <1>1, <1>2, <2>1
    <3>. QED BY <3>1 DEF ToSet
  <2>2. CASE i > Len(s)
    <3>1. i - Len(s) \in DOMAIN t /\ (s \o t)[i] = t[i - Len(s)]
      BY <1>1, <1>2, <2>2
    <3>. QED BY <3>1 DEF ToSet
  <2>. QED BY <1>2, <2>1, <2>2
<1>. QED BY <1>1, <1>3, <1>4, <1>5, Zenon DEF ToSet

\* The fields of s that a table is ranked by.
RankedIn(s, fields) ==
    s \in Seq(ToSet(s)) /\ {field \in ToSet(s) : field.rank > 0} = fields

LEMMA RankedInConcat ==
    ASSUME NEW s, NEW t, NEW A, NEW B, RankedIn(s, A), RankedIn(t, B)
    PROVE  RankedIn(s \o t, A \cup B)
<1>. DEFINE R == ToSet(s) \cup ToSet(t)
<1>1. s \in Seq(R) /\ t \in Seq(R)
  <2>1. s \in Seq(ToSet(s)) /\ t \in Seq(ToSet(t))
    BY DEF RankedIn
  <2>. HIDE DEF R
  <2>2. ToSet(s) \subseteq R /\ ToSet(t) \subseteq R
    BY DEF R
  <2>. QED BY <2>1, <2>2
<1>2. s \o t \in Seq(R) /\ ToSet(s \o t) = R
  BY <1>1, ToSetConcat
<1>3. {field \in R : field.rank > 0} = A \cup B
  BY Zenon DEF RankedIn
<1>. QED BY <1>2, <1>3, Zenon DEF RankedIn

LEMMA FieldRanks ==
    /\ \A md : Column(md).rank = 0
    /\ \A md, n : Ranked(md, n).rank = n /\ Ranked(md, n).md = md
    /\ \A md, name : Param(md, name).rank = 0
    /\ \A md : Percentile(md).rank = 0
    /\ Hidden.rank = 0
BY Zenon DEF Column, Ranked, Param, Percentile, Hidden, Field

\* No field that is not ranked is among those of a tuple.
LEMMA UnrankedTuples ==
    ASSUME NEW a, NEW b, NEW c, NEW d, NEW e, NEW f, NEW g, NEW h, NEW i, NEW j,
           a.rank = 0, b.rank = 0, c.rank = 0, d.rank = 0, e.rank = 0, f.rank = 0, g.rank = 0,
           h.rank = 0, i.rank = 0, j.rank = 0
    PROVE  /\ RankedIn(<<a>>, {})
           /\ RankedIn(<<a, b, c>>, {})
           /\ RankedIn(<<a, b, c, d>>, {})
           /\ RankedIn(<<a, b, c, d, e, f>>, {})
           /\ RankedIn(<<a, b, c, d, e, f, g>>, {})
           /\ RankedIn(<<a, b, c, d, e, f, g, h, i>>, {})
           /\ RankedIn(<<a, b, c, d, e, f, g, h, i, j>>, {})
<1>1. RankedIn(<<a>>, {}) BY DEF RankedIn, ToSet
<1>2. RankedIn(<<a, b, c>>, {}) BY DEF RankedIn, ToSet
<1>3. RankedIn(<<a, b, c, d>>, {}) BY DEF RankedIn, ToSet
<1>4. RankedIn(<<a, b, c, d, e, f>>, {}) BY DEF RankedIn, ToSet
<1>5. RankedIn(<<a, b, c, d, e, f, g>>, {}) BY DEF RankedIn, ToSet
<1>6. RankedIn(<<a, b, c, d, e, f, g, h, i>>, {}) BY DEF RankedIn, ToSet
<1>7. RankedIn(<<a, b, c, d, e, f, g, h, i, j>>, {}) BY SMTT(60) DEF RankedIn, ToSet
<1>. QED BY <1>1, <1>2, <1>3, <1>4, <1>5, <1>6, <1>7

LEMMA RankedPair ==
    ASSUME NEW a, NEW b, b.rank \in Nat \ {0}
    PROVE  /\ RankedIn(<<b>>, {b})
           /\ a.rank = 0 => RankedIn(<<a, b>>, {b})
           /\ a.rank \in Nat \ {0} => RankedIn(<<a, b>>, {a, b})
BY DEF RankedIn, ToSet

LEMMA RankedParts ==
    /\ RankedIn(FirstFields, {}) /\ RankedIn(Times, {}) /\ RankedIn(Resources, {})
    /\ RankedIn(Eers, {Ranked("CPU EER", 2), Ranked("MEM EER", 3)})
    /\ RankedIn(<<Ranked("TPS", 1)>>, {Ranked("TPS", 1)})
<1>1. RankedIn(FirstFields, {})
  BY UnrankedTuples, FieldRanks, Zenon DEF FirstFields
<1>2. RankedIn(Times, {})
  BY UnrankedTuples, FieldRanks, Zenon DEF Times
<1>3. RankedIn(Resources, {})
  BY UnrankedTuples, FieldRanks, Zenon DEF Resources
<1>4. 1 \in Nat \ {0} /\ 2 \in Nat \ {0} /\ 3 \in Nat \ {0}
  OBVIOUS
<1>5. RankedIn(Eers, {Ranked("CPU EER", 2), Ranked("MEM EER", 3)})
  <2>. DEFINE a == Ranked("CPU EER", 2)
              b == Ranked("MEM EER", 3)
  <2>1. a.rank = 2 /\ b.rank = 3
    BY FieldRanks, Zenon
  <2>2. Eers = <<a, b>>
    BY Zenon DEF Eers
  <2>. HIDE DEF a, b
  <2>. a.rank \in Nat \ {0} /\ b.rank \in Nat \ {0}
    BY <2>1
  <2>3. RankedIn(<<a, b>>, {a, b})
    BY RankedPair, Zenon
  <2>. QED BY <2>2, <2>3, Zenon DEF a, b
<1>6. RankedIn(<<Ranked("TPS", 1)>>, {Ranked("TPS", 1)})
  BY RankedPair, FieldRanks, <1>4, Zenon
<1>. QED BY <1>1, <1>2, <1>3, <1>5, <1>6, Zenon

OneKey == {Ranked("TPS", 1)}
ThreeKeys == {Ranked("TPS", 1), Ranked("CPU EER", 2), Ranked("MEM EER", 3)}

\* The connections table is ranked by the TPS, the others by the EERs too.
LEMMA RankedTypes ==
    /\ RankedIn(ConnectionsReport, OneKey)
    /\ RankedIn(BenchEchoReport, ThreeKeys)
    /\ RankedIn(BenchRateReport, ThreeKeys)
<1>. DEFINE one == {Ranked("TPS", 1)}
            two == {Ranked("CPU EER", 2), Ranked("MEM EER", 3)}
            ctail == <<Column("Total"), Column("Success"), Column("Failed"),
                       Param("Concurrency", "Dial Concurrency")>>
            etail == <<Param("Total", "Echo Total"), Column("Success"), Column("Failed"),
                       Param("Conns", "Conns"), Param("Concurrency", "Echo Concurrency"),
                       Param("Payload", "Payload"), Param("Pprof", "Echo Pprof")>>
            rhead == <<Param("Duration", "Rate Duration"), Ranked("TPS", 1)>>
            rtail == <<Column("Req Sent"), Column("Bytes Sent"), Column("Resp Recv"),
                       Column("Bytes Recv"), Param("Conns", "Conns"),
                       Param("Concurrency", "Rate Concurrency"), Param("SendRate", "Rate SendRate"),
                       Param("Pipeline", "Rate Pipeline"), Param("Payload", "Payload"),
                       Param("Pprof", "Rate Pprof")>>
<1>1. RankedIn(ctail, {})
  BY UnrankedTuples, FieldRanks, Zenon
<1>2. RankedIn(etail, {})
  BY UnrankedTuples, FieldRanks, Zenon
<1>3. RankedIn(rtail, {})
  BY UnrankedTuples, FieldRanks, Zenon
<1>4. RankedIn(<<Hidden>>, {})
  BY UnrankedTuples, FieldRanks, Zenon
<1>5. RankedIn(rhead, one)
  <2>. DEFINE a == Param("Duration", "Rate Duration")
              b == Ranked("TPS", 1)
  <2>1. 1 \in Nat \ {0}
    OBVIOUS
  <2>2. a.rank = 0 /\ b.rank \in Nat \ {0}
    BY <2>1, FieldRanks, Zenon
  <2>. HIDE DEF a, b
  <2>3. RankedIn(<<a, b>>, {b})
    BY <2>2, RankedPair, Zenon
  <2>. QED BY <2>3, Zenon DEF a, b
<1>6. ConnectionsReport = FirstFields \o <<Ranked("TPS", 1)>> \o Times \o ctail
  BY Zenon DEF ConnectionsReport
<1>7. BenchEchoReport = FirstFields \o <<Ranked("TPS", 1)>> \o Eers \o Times \o etail \o Resources
  BY Zenon DEF BenchEchoReport
<1>8. BenchRateReport = FirstFields \o rhead \o Eers \o rtail \o Resources \o <<Hidden>>
  BY Zenon DEF BenchRateReport
<1>. HIDE DEF ctail, etail, rhead, rtail
<1>9. RankedIn(ConnectionsReport, (({} \cup one) \cup {}) \cup {})
  BY <1>1, <1>6, RankedParts, RankedInConcat, Zenon
<1>10. RankedIn(BenchEchoReport, (((({} \cup one) \cup two) \cup {}) \cup {}) \cup {})
  BY <1>2, <1>7, RankedParts, RankedInConcat, Zenon
<1>11. RankedIn(BenchRateReport, (((({} \cup one) \cup two) \cup {}) \cup {}) \cup {})
  BY <1>3, <1>4, <1>5, <1>8, RankedParts, RankedInConcat, Zenon
<1>12. (({} \cup one) \cup {}) \cup {} = OneKey
  BY Zenon DEF OneKey
<1>13. (((({} \cup one) \cup two) \cup {}) \cup {}) \cup {} = ThreeKeys
  BY Zenon DEF ThreeKeys
<1>. QED BY <1>9, <1>10, <1>11, <1>12, <1>13, Zenon

\* What a table is ranked by, numbered as RankFields has it.
Numbered(keys) == [n \in {field.rank : field \in keys} |-> CHOOSE field \in keys : field.rank = n]

LEMMA OneNumbered ==
    DOMAIN Numbered(OneKey) = 1..1 /\ Numbered(OneKey)[1] = Ranked("TPS", 1)
<1>. DEFINE a == Ranked("TPS", 1)
<1>1. a.rank = 1
  BY FieldRanks, Zenon
<1>. HIDE DEF a
<1>. DEFINE ks == {a}
<1>2. DOMAIN Numbered(ks) = 1..1 /\ Numbered(ks)[1] = a
  BY <1>1 DEF Numbered
<1>. QED BY <1>2, Zenon DEF OneKey, a, ks

LEMMA ThreeNumbered ==
    /\ DOMAIN Numbered(ThreeKeys) = 1..3
    /\ Numbered(ThreeKeys)[1].md = "TPS"
    /\ Numbered(ThreeKeys)[2].md = "CPU EER"
    /\ Numbered(ThreeKeys)[3].md = "MEM EER"
<1>. DEFINE a == Ranked("TPS", 1)
            b == Ranked("CPU EER", 2)
            c == Ranked("MEM EER", 3)
<1>1. a.rank = 1 /\ b.rank = 2 /\ c.rank = 3
  BY FieldRanks, Zenon
<1>2. a.md = "TPS" /\ b.md = "CPU EER" /\ c.md = "MEM EER"
  BY FieldRanks, Zenon
<1>. HIDE DEF a, b, c
<1>. DEFINE ks == {a, b, c}
<1>3. DOMAIN Numbered(ks) = 1..3 /\ Numbered(ks)[1] = a /\ Numbered(ks)[2] = b /\ Numbered(ks)[3] = c
  BY <1>1 DEF Numbered
<1>4. ThreeKeys = ks
  BY Zenon DEF ThreeKeys, a, b, c
<1>. HIDE DEF ks
<1>. QED BY <1>2, <1>3, <1>4, Zenon

-----------------------------------------------------------------------------
(* The order of two rows *)

TableNames == {"Connections", "BenchEcho", "BenchPipeline"}

LEMMA TableNamed == \A i \in 1..3 : Tables[i] \in TableNames
BY DEF Tables, TableNames

LEMMA RankFieldsNumbered ==
    ASSUME NEW t \in TableNames
    PROVE  RankFields(t) = Numbered(OneKey) \/ RankFields(t) = Numbered(ThreeKeys)
<1>1. RankedIn(TypeOfTable(t), OneKey) \/ RankedIn(TypeOfTable(t), ThreeKeys)
  BY RankedTypes, Zenon DEF TableNames, TypeOfTable
<1>. DEFINE keys == {field \in ToSet(TypeOfTable(t)) : field.rank > 0}
<1>2. keys = OneKey \/ keys = ThreeKeys
  BY <1>1, Zenon DEF RankedIn
<1>3. RankFields(t) = Numbered(keys)
  BY Zenon DEF RankFields, Numbered
<1>. HIDE DEF keys
<1>. QED BY <1>2, <1>3, Zenon

\* What a report has to have to be ranked: numbers.
Rankable(r) ==
    r.tps \in Int /\ r.cpuEer \in Int /\ r.memEer \in Int /\ r.skipped \in BOOLEAN

KeyNames == {"TPS", "CPU EER", "MEM EER"}

LEMMA RankKeyTypes ==
    ASSUME NEW t \in TableNames
    PROVE  \E n \in {1, 3} :
               /\ DOMAIN RankFields(t) = 1..n
               /\ \A r : Rankable(r) => RankKeys(t, r) \in [1..n -> Int]
<1>1. ASSUME NEW r, Rankable(r), NEW field, field.md \in KeyNames
      PROVE  KeyOf(r, field) \in Int
  BY <1>1, Zenon DEF Rankable, KeyOf, KeyNames
<1>2. CASE RankFields(t) = Numbered(OneKey)
  <2>1. DOMAIN RankFields(t) = 1..1
    BY <1>2, OneNumbered, Zenon
  <2>2. RankFields(t)[1].md \in KeyNames
    <3>1. RankFields(t)[1].md = Ranked("TPS", 1).md
      BY <1>2, OneNumbered, Zenon
    <3>2. RankFields(t)[1].md = "TPS"
      BY <3>1, FieldRanks, Zenon
    <3>. QED BY <3>2, Zenon DEF KeyNames
  <2>3. ASSUME NEW r, Rankable(r) PROVE KeyOf(r, RankFields(t)[1]) \in Int
    BY <1>1, <2>2, <2>3
  <2>4. ASSUME NEW r, Rankable(r) PROVE RankKeys(t, r) \in [1..1 -> Int]
    BY <2>1, <2>3, <2>4 DEF RankKeys
  <2>. QED BY <2>1, <2>4
<1>3. CASE RankFields(t) = Numbered(ThreeKeys)
  <2>1. DOMAIN RankFields(t) = 1..3
    BY <1>3, ThreeNumbered, Zenon
  <2>2. /\ RankFields(t)[1].md \in KeyNames
        /\ RankFields(t)[2].md \in KeyNames
        /\ RankFields(t)[3].md \in KeyNames
    BY <1>3, ThreeNumbered, Zenon DEF KeyNames
  <2>3. ASSUME NEW r, Rankable(r)
        PROVE  /\ KeyOf(r, RankFields(t)[1]) \in Int
               /\ KeyOf(r, RankFields(t)[2]) \in Int
               /\ KeyOf(r, RankFields(t)[3]) \in Int
    BY <1>1, <2>2, <2>3
  <2>4. ASSUME NEW r, Rankable(r) PROVE RankKeys(t, r) \in [1..3 -> Int]
    BY <2>1, <2>3, <2>4 DEF RankKeys
  <2>. QED BY <2>1, <2>4
<1>. QED BY <1>2, <1>3, RankFieldsNumbered

\* Lexicographic, on one key or on three.
LEMMA KeysLexical ==
    ASSUME NEW n \in {1, 3}, NEW p \in [1..n -> Int], NEW q \in [1..n -> Int]
    PROVE  RankedBefore(p, q) <=>
               \/ p[1] > q[1]
               \/ n = 3 /\ p[1] = q[1] /\ p[2] > q[2]
               \/ n = 3 /\ p[1] = q[1] /\ p[2] = q[2] /\ p[3] > q[3]
<1>1. CASE n = 1
  BY <1>1 DEF RankedBefore
<1>2. CASE n = 3
  BY <1>2 DEF RankedBefore
<1>. QED BY <1>1, <1>2

\* A strict order, total but for equal keys.
LEMMA KeysOrdered ==
    ASSUME NEW n \in {1, 3}, NEW p \in [1..n -> Int], NEW q \in [1..n -> Int],
           NEW r \in [1..n -> Int]
    PROVE  /\ ~RankedBefore(p, p)
           /\ RankedBefore(p, q) /\ RankedBefore(q, r) => RankedBefore(p, r)
           /\ p = q \/ RankedBefore(p, q) \/ RankedBefore(q, p)
<1>1. CASE n = 1
  <2>1. p[1] = q[1] => p = q
    BY <1>1
  <2>. QED BY <1>1, <2>1, KeysLexical
<1>2. CASE n = 3
  <2>1. p[1] = q[1] /\ p[2] = q[2] /\ p[3] = q[3] => p = q
    BY <1>2
  <2>. QED BY <1>2, <2>1, KeysLexical
<1>. QED BY <1>1, <1>2

Differ(p, q) == {k \in DOMAIN p : p[k] # q[k]}

\* The first key that differs, as Ahead has it.
LEMMA KeysDiffer ==
    ASSUME NEW n \in {1, 3}, NEW p \in [1..n -> Int], NEW q \in [1..n -> Int]
    PROVE  /\ Differ(p, q) = {} <=> p = q
           /\ (\E k \in Differ(p, q) : p[k] > q[k] /\ \A j \in Differ(p, q) : k <= j)
                  <=> RankedBefore(p, q)
<1>1. Differ(p, q) = {k \in 1..n : p[k] # q[k]}
  BY DEF Differ
<1>2. Differ(p, q) = {} <=> p = q
  BY <1>1
<1>3. CASE n = 1
  BY <1>1, <1>3, KeysLexical
<1>4. CASE n = 3
  BY <1>1, <1>4, KeysLexical
<1>. QED BY <1>2, <1>3, <1>4

Tie(t, a, b) == a.skipped = b.skipped /\ RankKeys(t, a) = RankKeys(t, b)

\* Ahead is the comparison of the sort, with ties in framework order.
LEMMA AheadIsLess ==
    ASSUME T \in TableNames, NEW a, NEW b, Rankable(a), Rankable(b)
    PROVE  Ahead(a, b) <=>
               Less(T, a, b) \/ (Tie(T, a, b) /\ Position(a.framework) < Position(b.framework))
<1>1. PICK n \in {1, 3} : \A r : Rankable(r) => RankKeys(T, r) \in [1..n -> Int]
  BY RankKeyTypes
<1>. DEFINE p == RankKeys(T, a)
            q == RankKeys(T, b)
<1>2. p \in [1..n -> Int] /\ q \in [1..n -> Int]
  BY <1>1
<1>3. /\ Differ(p, q) = {} <=> p = q
      /\ (\E k \in Differ(p, q) : p[k] > q[k] /\ \A j \in Differ(p, q) : k <= j)
             <=> RankedBefore(p, q)
  <2>. HIDE DEF p, q
  <2>. QED BY <1>2, KeysDiffer
<1>4. p = q => ~RankedBefore(p, q)
  <2>. HIDE DEF p, q
  <2>. QED BY <1>2, KeysOrdered
<1>5. /\ Less(T, a, b) <=> IF a.skipped # b.skipped THEN b.skipped ELSE RankedBefore(p, q)
      /\ Tie(T, a, b) <=> a.skipped = b.skipped /\ p = q
      /\ Ahead(a, b) <=>
            \/ ~a.skipped /\ b.skipped
            \/ /\ a.skipped = b.skipped
               /\ IF Differ(p, q) = {} THEN Position(a.framework) < Position(b.framework)
                  ELSE \E k \in Differ(p, q) : p[k] > q[k] /\ \A j \in Differ(p, q) : k <= j
  BY Zenon DEF Less, Tie, Ahead, Differ
<1>. HIDE DEF p, q
<1>6. a.skipped \in BOOLEAN /\ b.skipped \in BOOLEAN
  BY DEF Rankable
<1>. QED BY <1>3, <1>4, <1>5, <1>6, Zenon

\* The comparison is transitive, also past ties, and total but for them.
LEMMA LessOrdered ==
    ASSUME NEW t \in TableNames, NEW a, NEW b, NEW c, Rankable(a), Rankable(b), Rankable(c)
    PROVE  /\ Less(t, a, b) /\ Less(t, b, c) => Less(t, a, c)
           /\ Less(t, a, b) /\ Tie(t, b, c) => Less(t, a, c)
           /\ Tie(t, a, b) /\ Less(t, b, c) => Less(t, a, c)
           /\ Tie(t, a, b) /\ Tie(t, b, c) => Tie(t, a, c)
           /\ Less(t, a, b) \/ Tie(t, a, b) \/ Less(t, b, a)
<1>1. PICK n \in {1, 3} : \A r : Rankable(r) => RankKeys(t, r) \in [1..n -> Int]
  BY RankKeyTypes
<1>. DEFINE p == RankKeys(t, a)
            q == RankKeys(t, b)
            r == RankKeys(t, c)
<1>2. p \in [1..n -> Int] /\ q \in [1..n -> Int] /\ r \in [1..n -> Int]
  BY <1>1
<1>3. /\ RankedBefore(p, q) /\ RankedBefore(q, r) => RankedBefore(p, r)
      /\ p = q \/ RankedBefore(p, q) \/ RankedBefore(q, p)
  <2>. HIDE DEF p, q, r
  <2>. QED BY <1>2, KeysOrdered
<1>. QED BY <1>3 DEF Less, Tie, Rankable

\* What a stable sort goes by.
LEMMA AheadOrdered ==
    ASSUME T \in TableNames, NEW a, NEW b, NEW c, Rankable(a), Rankable(b), Rankable(c),
           Position(a.framework) \in Nat, Position(b.framework) \in Nat,
           Position(c.framework) \in Nat
    PROVE  /\ Ahead(a, b) /\ Ahead(b, c) => Ahead(a, c)
           /\ Less(T, a, b) => Ahead(a, b)
           /\ ~Less(T, b, a) /\ Position(a.framework) < Position(b.framework) => Ahead(a, b)
<1>1. /\ Ahead(a, b) <=>
            Less(T, a, b) \/ (Tie(T, a, b) /\ Position(a.framework) < Position(b.framework))
      /\ Ahead(b, c) <=>
            Less(T, b, c) \/ (Tie(T, b, c) /\ Position(b.framework) < Position(c.framework))
      /\ Ahead(a, c) <=>
            Less(T, a, c) \/ (Tie(T, a, c) /\ Position(a.framework) < Position(c.framework))
  BY AheadIsLess
<1>. QED BY <1>1, LessOrdered

-----------------------------------------------------------------------------
(* Rows *)

LEMMA ListIsLong == Len(FrameworkList) = 15 /\ DOMAIN FrameworkList = 1..15
BY DEF FrameworkList

\* No framework is listed twice.
LEMMA ListIsInjective ==
    ASSUME NEW i \in 1..15, NEW j \in 1..15, FrameworkList[i] = FrameworkList[j]
    PROVE  i = j
BY SMTT(30) DEF FrameworkList

LEMMA PositionOfListed ==
    ASSUME NEW i \in 1..15
    PROVE  Position(FrameworkList[i]) = i
BY ListIsLong, ListIsInjective DEF Position

LEMMA ListedRange == Listed \in 1..15
BY ReportsAssumption, ListIsLong

LEMMA TableSet == ToSet(Tables) = TableNames /\ Len(Tables) = 3
BY DEF Tables, ToSet, TableNames

Read(t) == {i \in 1..Listed : Readable(t, i)}

\* A report that was read can be ranked, and is its framework's.
LEMMA ReportTypes ==
    ASSUME files \in Runs, NEW t \in TableNames, NEW i \in Read(t)
    PROVE  /\ Rankable(ReportOf(t, i))
           /\ ReportOf(t, i).framework = FrameworkList[i]
           /\ Position(ReportOf(t, i).framework) = i
<1>. DEFINE file == files[t][i]
<1>1. i \in 1..Listed /\ WellFormed(file)
  BY ReportsAssumption, TableSet DEF Read, Readable
<1>2. Position(FrameworkList[i]) = i
  BY <1>1, ListedRange, PositionOfListed
<1>3. /\ ReportOf(t, i).framework = FrameworkList[i]
      /\ ReportOf(t, i).tps = IF t = "BenchPipeline" THEN FillTPS(file) ELSE file.tps
      /\ ReportOf(t, i).cpuEer = file.cpuEer
      /\ ReportOf(t, i).memEer = file.memEer
      /\ ReportOf(t, i).skipped = file.skipped
  BY DEF ReportOf
<1>. HIDE DEF file
<1>4. FillTPS(file) \in Int /\ file.tps \in Int
  <2>1. ASSUME NEW a \in Int, NEW b \in Int, b > 0 PROVE a \div b \in Int
    BY <2>1, Z3
  <2>. QED BY <1>1, <2>1 DEF WellFormed, FillTPS, RateTPS
<1>. QED BY <1>1, <1>2, <1>3, <1>4 DEF Rankable, WellFormed

\* The i-th moves up to p.
Moving(s, i, p) == InsertAt(RemoveAt(s, i), p, s[i])

MovesUp(s, i, p, after) ==
    \A q \in 1..Len(s) :
        after[q] = IF q < p \/ q > i THEN s[q] ELSE IF q = p THEN s[i] ELSE s[q - 1]

\* The rows before p and after i stay, those between move down by one.
LEMMA MovedUp ==
    \A R, s, i, p :
        s \in Seq(R) /\ i \in 1..Len(s) /\ p \in 1..i
        => /\ Moving(s, i, p) \in Seq(R) /\ Len(Moving(s, i, p)) = Len(s)
           /\ MovesUp(s, i, p, Moving(s, i, p))
<1>. SUFFICES ASSUME NEW R, NEW s, NEW i, NEW p,
                     s \in Seq(R), i \in 1..Len(s), p \in 1..i
              PROVE  /\ Moving(s, i, p) \in Seq(R) /\ Len(Moving(s, i, p)) = Len(s)
                     /\ MovesUp(s, i, p, Moving(s, i, p))
  BY Zenon
<1>. DEFINE m == Len(s)
            front == SubSeq(s, 1, i - 1)
            back == SubSeq(s, i + 1, m)
            rest == front \o back
            head == SubSeq(rest, 1, p - 1)
            tail == SubSeq(rest, p, Len(rest))
<1>1. m \in Nat /\ i \in Nat /\ p \in Nat /\ p <= i /\ i <= m /\ 1 <= p
  OBVIOUS
<1>2. front \in Seq(R) /\ Len(front) = i - 1 /\ \A q \in 1..(i - 1) : front[q] = s[q]
  BY SubSeqProperties
<1>3. back \in Seq(R) /\ Len(back) = m - i /\ \A q \in 1..(m - i) : back[q] = s[q + i]
  <2>1. back \in Seq(R) /\ Len(back) = m - i
    BY SubSeqProperties
  <2>2. ASSUME NEW q \in 1..(m - i) PROVE back[q] = s[q + i]
    <3>1. back[q] = s[(i + 1) + q - 1]
      BY <2>1, SubSeqProperties
    <3>2. (i + 1) + q - 1 = q + i
      OBVIOUS
    <3>. QED BY <3>1, <3>2
  <2>. QED BY <2>1, <2>2
<1>. HIDE DEF front, back
<1>4. /\ rest \in Seq(R) /\ Len(rest) = m - 1
      /\ \A q \in 1..(m - 1) : rest[q] = IF q < i THEN s[q] ELSE s[q + 1]
  <2>1. /\ rest \in Seq(R) /\ Len(rest) = (i - 1) + (m - i)
        /\ \A q \in 1..((i - 1) + (m - i)) :
              rest[q] = IF q <= i - 1 THEN front[q] ELSE back[q - (i - 1)]
    <3>1. i - 1 \in Nat /\ m - i \in Nat
      BY <1>1
    <3>2. front \in Seq(R) /\ back \in Seq(R) /\ Len(front) = i - 1 /\ Len(back) = m - i
      BY <1>2, <1>3
    <3>. DEFINE a == i - 1
                b == m - i
    <3>3. a \in Nat /\ b \in Nat /\ Len(front) = a /\ Len(back) = b
      BY <3>1, <3>2
    <3>. HIDE DEF a, b
    <3>4. /\ rest \in Seq(R) /\ Len(rest) = a + b
          /\ \A q \in 1..(a + b) : rest[q] = IF q <= a THEN front[q] ELSE back[q - a]
      <4>1. /\ rest \in Seq(R) /\ Len(rest) = Len(front) + Len(back)
            /\ \A q \in 1..(Len(front) + Len(back)) :
                  rest[q] = IF q <= Len(front) THEN front[q] ELSE back[q - Len(front)]
        BY <3>2, ConcatProperties, Zenon
      <4>. QED BY <3>3, <4>1, Zenon
    <3>. QED BY <3>4, Zenon DEF a, b
  <2>2. (i - 1) + (m - i) = m - 1
    BY <1>1
  <2>3. ASSUME NEW q \in 1..(m - 1), q < i PROVE rest[q] = s[q]
    BY <2>1, <2>2, <2>3, <1>1, <1>2
  <2>4. ASSUME NEW q \in 1..(m - 1), q >= i PROVE rest[q] = s[q + 1]
    <3>1. q - (i - 1) \in 1..(m - i) /\ q - (i - 1) + i = q + 1 /\ ~(q <= i - 1)
      BY <1>1, <2>4
    <3>2. rest[q] = back[q - (i - 1)]
      BY <2>1, <2>2, <3>1
    <3>3. back[q - (i - 1)] = s[q - (i - 1) + i]
      BY <1>3, <3>1
    <3>. QED BY <3>1, <3>2, <3>3
  <2>5. \A q \in 1..(m - 1) : q < i \/ q >= i
    BY <1>1
  <2>. HIDE DEF rest
  <2>. QED BY <2>1, <2>2, <2>3, <2>4, <2>5
<1>. HIDE DEF rest
<1>5. head \in Seq(R) /\ Len(head) = p - 1 /\ \A q \in 1..(p - 1) : head[q] = rest[q]
  BY <1>1, <1>4, SubSeqProperties
<1>6. tail \in Seq(R) /\ Len(tail) = m - p /\ \A q \in 1..(m - p) : tail[q] = rest[q + p - 1]
  <2>1. tail \in Seq(R) /\ Len(tail) = m - p
    BY <1>1, <1>4, SubSeqProperties
  <2>2. ASSUME NEW q \in 1..(m - p) PROVE tail[q] = rest[q + p - 1]
    <3>1. tail[q] = rest[p + q - 1]
      BY <1>1, <1>4, <2>1, SubSeqProperties
    <3>2. p + q - 1 = q + p - 1
      BY <1>1
    <3>. QED BY <3>1, <3>2
  <2>. QED BY <2>1, <2>2
<1>. DEFINE middle == head \o <<s[i]>>
            moved == middle \o tail
<1>7. /\ middle \in Seq(R) /\ Len(middle) = p
      /\ \A q \in 1..(p - 1) : middle[q] = rest[q]
      /\ middle[p] = s[i]
  <2>. HIDE DEF head
  <2>1. <<s[i]>> \in Seq(R) /\ Len(<<s[i]>>) = 1 /\ <<s[i]>>[1] = s[i]
    OBVIOUS
  <2>2. /\ middle \in Seq(R) /\ Len(middle) = (p - 1) + 1
        /\ \A q \in 1..((p - 1) + 1) :
              middle[q] = IF q <= p - 1 THEN head[q] ELSE <<s[i]>>[q - (p - 1)]
    <3>2. head \in Seq(R) /\ Len(head) = p - 1
      BY <1>5
    <3>3. /\ middle \in Seq(R) /\ Len(middle) = Len(head) + Len(<<s[i]>>)
          /\ \A q \in 1..(Len(head) + Len(<<s[i]>>)) :
                middle[q] = IF q <= Len(head) THEN head[q] ELSE <<s[i]>>[q - Len(head)]
      BY <2>1, <3>2, ConcatProperties, Zenon
    <3>. QED BY <2>1, <3>2, <3>3, Zenon
  <2>3. (p - 1) + 1 = p /\ p - (p - 1) = 1
    BY <1>1
  <2>4. middle[p] = s[i]
    <3>1. p \in 1..((p - 1) + 1) /\ ~(p <= p - 1)
      BY <1>1
    <3>2. middle[p] = <<s[i]>>[p - (p - 1)]
      BY <2>2, <3>1, Zenon
    <3>. QED BY <2>1, <2>3, <3>2, Zenon
  <2>5. \A q \in 1..(p - 1) : middle[q] = rest[q]
    <3>. SUFFICES ASSUME NEW q \in 1..(p - 1) PROVE middle[q] = rest[q]
      OBVIOUS
    <3>1. q \in 1..((p - 1) + 1) /\ q <= p - 1
      BY <1>1
    <3>2. middle[q] = head[q]
      BY <2>2, <3>1, Zenon
    <3>. QED BY <1>5, <3>2, Zenon
  <2>. HIDE DEF middle
  <2>6. middle \in Seq(R) /\ Len(middle) = p
    BY <2>2, <2>3, Zenon
  <2>. QED BY <2>4, <2>5, <2>6, Zenon
<1>. HIDE DEF middle, head, tail
<1>8. /\ moved \in Seq(R) /\ Len(moved) = p + (m - p)
      /\ \A q \in 1..(p + (m - p)) : moved[q] = IF q <= p THEN middle[q] ELSE tail[q - p]
  <2>1. p \in Nat /\ m - p \in Nat
    BY <1>1
  <2>2. middle \in Seq(R) /\ tail \in Seq(R) /\ Len(middle) = p /\ Len(tail) = m - p
    BY <1>6, <1>7
  <2>. DEFINE b == m - p
  <2>3. b \in Nat /\ Len(tail) = b
    BY <2>1, <2>2
  <2>. HIDE DEF b
  <2>4. /\ moved \in Seq(R) /\ Len(moved) = p + b
        /\ \A q \in 1..(p + b) : moved[q] = IF q <= p THEN middle[q] ELSE tail[q - p]
    <3>1. /\ moved \in Seq(R) /\ Len(moved) = Len(middle) + Len(tail)
          /\ \A q \in 1..(Len(middle) + Len(tail)) :
                moved[q] = IF q <= Len(middle) THEN middle[q] ELSE tail[q - Len(middle)]
      BY <2>2, ConcatProperties, Zenon
    <3>. QED BY <2>2, <2>3, <3>1, Zenon
  <2>. QED BY <2>4, Zenon DEF b
<1>9. p + (m - p) = m
  BY <1>1
<1>. HIDE DEF moved
<1>10. ASSUME NEW q \in 1..m
       PROVE  moved[q] = IF q < p \/ q > i THEN s[q] ELSE IF q = p THEN s[i] ELSE s[q - 1]
  <2>1. CASE q < p
    <3>1. q \in 1..(p - 1) /\ q \in 1..(m - 1) /\ q < i /\ q <= p
      BY <1>1, <2>1
    <3>. QED BY <1>4, <1>7, <1>8, <1>9, <2>1, <3>1
  <2>2. CASE q = p
    BY <1>1, <1>7, <1>8, <1>9, <2>2
  <2>3. CASE q > p
    <3>1. q - p \in 1..(m - p) /\ q - p + p - 1 = q - 1 /\ q - 1 \in 1..(m - 1)
      BY <1>1, <2>3
    <3>2. moved[q] = rest[q - 1]
      BY <1>6, <1>8, <1>9, <2>3, <3>1
    <3>3. rest[q - 1] = IF q - 1 < i THEN s[q - 1] ELSE s[q - 1 + 1]
      BY <1>4, <3>1
    <3>4. q - 1 < i <=> ~(q > i)
      BY <1>1, <2>3
    <3>5. q - 1 + 1 = q
      BY <1>1
    <3>. QED BY <1>1, <2>3, <3>2, <3>3, <3>4, <3>5
  <2>. QED BY <1>1, <2>1, <2>2, <2>3
<1>11. moved = Moving(s, i, p)
  BY Zenon DEF Moving, InsertAt, RemoveAt, moved, middle, head, tail, rest, front, back
<1>. QED BY <1>8, <1>9, <1>10, <1>11, Zenon DEF MovesUp, m

\* The place that InsertRow finds.
LEMMA InsertedAt ==
    ASSUME NEW t, NEW s, NEW i \in Nat \ {0}
    PROVE  \E p \in 1..i :
               /\ p = 1 \/ ~Less(t, s[i], s[p - 1])
               /\ \A q \in p..(i - 1) : Less(t, s[i], s[q])
               /\ InsertRow(t, s, i) = InsertAt(RemoveAt(s, i), p, s[i])
<1>. DEFINE stays == {p \in 1..i : p = 1 \/ ~Less(t, s[i], s[p - 1])}
            p == CHOOSE p \in stays : \A q \in stays : q <= p
<1>1. 1 \in stays /\ stays \in SUBSET Int /\ stays \subseteq 1..i
  OBVIOUS
<1>2. IsFiniteSet(stays)
  BY <1>1, FS_Interval, FS_Subset, 1 \in Int, i \in Int
<1>3. p \in stays /\ \A q \in stays : q <= p
  <2>. HIDE DEF stays
  <2>1. \E m \in stays : \A q \in stays : q <= m
    BY <1>1, <1>2, GreatestInt, Zenon
  <2>. QED BY <2>1
<1>4. InsertRow(t, s, i) = InsertAt(RemoveAt(s, i), p, s[i])
  BY Zenon DEF InsertRow
<1>. HIDE DEF p
<1>5. p \in 1..i /\ (p = 1 \/ ~Less(t, s[i], s[p - 1]))
  BY <1>3
<1>6. ASSUME NEW q \in p..(i - 1) PROVE Less(t, s[i], s[q])
  <2>1. q + 1 \in 1..i /\ q + 1 > p /\ q + 1 # 1 /\ (q + 1) - 1 = q
    BY <1>5
  <2>2. q + 1 \notin stays
    BY <1>3, <1>5, <2>1
  <2>. QED BY <2>1, <2>2
<1>. HIDE DEF stays
<1>. QED BY <1>4, <1>5, <1>6, Zenon

-----------------------------------------------------------------------------
(* The rows of a table are the reports there are, in order *)

ReportsOf(S) == {ReportOf(T, i) : i \in S}

\* Which reports the rows are.
ReadInv ==
    /\ files \in Runs /\ table \in 1..3 /\ next \in 1..(Listed + 1)
    /\ order \in {"result", "framework"}
    /\ phase \in {"summary", "read", "sort", "cells", "written", "done"}
    /\ rows \in Seq(ReportsOf(Read(T)))
    /\ phase \in {"summary", "done"} => rows = <<>>
    /\ phase = "read" => ToSet(rows) = ReportsOf({i \in Read(T) : i < next})
    /\ phase \in {"sort", "cells", "written"} => ToSet(rows) = ReportsOf(Read(T))

\* Of two rows, the first is ahead if the second has been inserted, and before
\* it in framework order if not.
InOrder(i, j) ==
    IF j <= inserted THEN Ahead(rows[i], rows[j])
    ELSE Position(rows[i].framework) < Position(rows[j].framework)

RankInv ==
    /\ inserted \in 0..Len(rows)
    /\ phase \in {"summary", "read", "done"} \/ order = "framework" => inserted = 0
    /\ phase \in {"cells", "written"} /\ order = "result" => inserted = Len(rows)
    /\ \A j \in 1..Len(rows) : \A i \in 1..(j - 1) : InOrder(i, j)

LEMMA RowTypes ==
    ASSUME ReadInv
    PROVE  /\ T \in TableNames
           /\ Len(rows) \in Nat /\ DOMAIN rows = 1..Len(rows)
           /\ \A i \in 1..Len(rows) :
                 Rankable(rows[i]) /\ Position(rows[i].framework) \in Nat
<1>1. T \in TableNames
  BY TableNamed DEF ReadInv, T
<1>2. Len(rows) \in Nat /\ DOMAIN rows = 1..Len(rows)
  BY DEF ReadInv
<1>3. ASSUME NEW i \in 1..Len(rows)
      PROVE  Rankable(rows[i]) /\ Position(rows[i].framework) \in Nat
  <2>1. PICK k \in Read(T) : rows[i] = ReportOf(T, k)
    BY <1>3 DEF ReadInv, ReportsOf
  <2>2. Rankable(ReportOf(T, k)) /\ Position(ReportOf(T, k).framework) = k
    BY <1>1, ReportTypes DEF ReadInv
  <2>3. k \in Nat
    BY ListedRange DEF Read
  <2>. QED BY <2>1, <2>2, <2>3
<1>. QED BY <1>1, <1>2, <1>3

\* The same table of the same files.
LEMMA SameTable ==
    ASSUME UNCHANGED <<files, table>>
    PROVE  /\ T' = T /\ Read(T)' = Read(T)
           /\ \A S : ReportsOf(S)' = ReportsOf(S)
           /\ \A a, b : Ahead(a, b)' = Ahead(a, b)
BY DEF T, Read, Readable, ReportsOf, ReportOf, Ahead

LEMMA OrderInit == ReportsInit => ReadInv /\ RankInv
<1>. SUFFICES ASSUME ReportsInit PROVE ReadInv /\ RankInv
  OBVIOUS
<1>1. rows = <<>> /\ Len(rows) = 0 /\ rows \in Seq(ReportsOf(Read(T)))
  BY DEF ReportsInit
<1>2. 1 \in 1..(Listed + 1)
  BY ListedRange
<1>. QED BY <1>1, <1>2 DEF ReportsInit, ReadInv, RankInv

LEMMA ReadSummarize ==
    ASSUME ReadInv, RankInv, SummarizeReport \/ SummarizeNext
    PROVE  ReadInv' /\ RankInv'
<1>1. CASE SummarizeReport
  <2>1. UNCHANGED <<files, order, phase, table, rows, inserted>> /\ next' = next + 1
        /\ phase = "summary" /\ next <= Listed
    BY <1>1 DEF SummarizeReport
  <2>2. next' \in 1..(Listed + 1)
    BY <2>1, ListedRange DEF ReadInv
  <2>3. T' = T /\ Read(T)' = Read(T) /\ \A S : ReportsOf(S)' = ReportsOf(S)
    BY <2>1, SameTable
  <2>4. ReadInv'
    BY <2>1, <2>2, <2>3 DEF ReadInv
  <2>5. rows = <<>>
    BY <2>1 DEF ReadInv
  <2>. QED BY <2>1, <2>4, <2>5 DEF RankInv
<1>2. CASE SummarizeNext
  <2>1. UNCHANGED <<files, order, rows, inserted>> /\ next' = 1
        /\ phase = "summary" /\ phase' \in {"summary", "read"} /\ table' \in 1..3
    BY <1>2, TableSet DEF SummarizeNext, ReadInv
  <2>2. rows = <<>> /\ Len(rows) = 0 /\ inserted = 0
    BY <2>1 DEF ReadInv, RankInv
  <2>3. next' \in 1..(Listed + 1)
    BY <2>1, ListedRange
  <2>4. rows' = <<>> /\ rows' \in Seq(ReportsOf(Read(T))') /\ ToSet(rows') = {}
    BY <2>1, <2>2 DEF ToSet
  <2>5. ReportsOf({i \in Read(T) : i < next})' = {}
    <3>1. {i \in Read(T) : i < next}' = {}
      BY <2>1, ListedRange DEF Read
    <3>. QED BY <3>1 DEF ReportsOf
  <2>6. ReadInv'
    BY <2>1, <2>3, <2>4, <2>5 DEF ReadInv
  <2>7. RankInv'
    BY <2>1, <2>2, <2>4 DEF RankInv
  <2>. QED BY <2>6, <2>7
<1>. QED BY <1>1, <1>2

\* A row is appended after those of the frameworks before it.
LEMMA ReadOne ==
    ASSUME ReadInv, RankInv, ReadReport
    PROVE  ReadInv' /\ RankInv'
<1>1. UNCHANGED <<files, order, phase, table, inserted>> /\ next' = next + 1
      /\ phase = "read" /\ next \in 1..Listed /\ inserted = 0
  BY DEF ReadReport, ReadInv, RankInv
<1>2. next' \in 1..(Listed + 1)
  BY <1>1, ListedRange
<1>3. T' = T /\ Read(T)' = Read(T) /\ \A S : ReportsOf(S)' = ReportsOf(S)
  BY <1>1, SameTable
<1>4. T \in TableNames /\ Len(rows) \in Nat /\ DOMAIN rows = 1..Len(rows)
  BY RowTypes
<1>. DEFINE before == {i \in Read(T) : i < next}
            upTo == {i \in Read(T) : i < next + 1}
<1>5. ToSet(rows) = ReportsOf(before)
  BY <1>1 DEF ReadInv
<1>6. {i \in Read(T) : i < next}' = upTo
  BY <1>1, <1>3
<1>7. CASE ~Readable(T, next)
  <2>1. rows' = rows
    BY <1>7 DEF ReadReport
  <2>2. upTo = before
    BY <1>1, <1>7, ListedRange DEF Read
  <2>3. ReadInv'
    BY <1>1, <1>2, <1>3, <1>5, <1>6, <2>1, <2>2 DEF ReadInv
  <2>. QED BY <1>1, <2>1, <2>3, SameTable DEF RankInv, InOrder
<1>8. CASE Readable(T, next)
  <2>. DEFINE report == ReportOf(T, next)
  <2>1. next \in Read(T) /\ Read(T) \subseteq Nat
    BY <1>1, <1>8, ListedRange DEF Read
  <2>2. Position(report.framework) = next
    BY <1>4, <2>1, ReportTypes DEF ReadInv
  <2>3. report \in ReportsOf(Read(T))
    BY <2>1 DEF ReportsOf
  <2>4. upTo = before \cup {next}
    BY <1>1, <2>1
  <2>5. ReportsOf(upTo) = ReportsOf(before) \cup {report}
    <3>. HIDE DEF before, upTo
    <3>. QED BY <2>4, Zenon DEF ReportsOf
  <2>6. \A i \in 1..Len(rows) : Position(rows[i].framework) < next
    <3>. SUFFICES ASSUME NEW i \in 1..Len(rows) PROVE Position(rows[i].framework) < next
      OBVIOUS
    <3>1. PICK k \in before : rows[i] = ReportOf(T, k)
      BY <1>4, <1>5 DEF ToSet, ReportsOf
    <3>2. Position(ReportOf(T, k).framework) = k
      BY <1>4, ReportTypes DEF ReadInv
    <3>. QED BY <3>1, <3>2
  <2>. HIDE DEF report
  <2>7. rows' = Append(rows, report)
    BY <1>8 DEF ReadReport, report
  <2>8. /\ rows' \in Seq(ReportsOf(Read(T))) /\ Len(rows') = Len(rows) + 1
        /\ \A i \in 1..Len(rows) : rows'[i] = rows[i]
        /\ rows'[Len(rows) + 1] = report
    BY <2>3, <2>7 DEF ReadInv
  <2>9. ToSet(rows') = ToSet(rows) \cup {report}
    <3>1. DOMAIN rows' = 1..(Len(rows) + 1)
      BY <1>4, <2>8
    <3>2. 1..(Len(rows) + 1) = 1..Len(rows) \cup {Len(rows) + 1}
      BY <1>4
    <3>. DEFINE last == Len(rows) + 1
    <3>. HIDE DEF last
    <3>3. 1..last = 1..Len(rows) \cup {last} /\ DOMAIN rows' = 1..last
      BY <3>1, <3>2 DEF last
    <3>4. rows'[last] = report
      BY <2>8 DEF last
    <3>5. ToSet(rows') = {rows'[i] : i \in 1..Len(rows)} \cup {rows'[last]}
      BY <3>3, Zenon DEF ToSet
    <3>6. {rows'[i] : i \in 1..Len(rows)} = ToSet(rows)
      BY <1>4, <2>8, Zenon DEF ToSet
    <3>. QED BY <3>4, <3>5, <3>6
  <2>10. ReadInv'
    <3>1. ToSet(rows)' = ReportsOf({i \in Read(T) : i < next})'
      BY <1>3, <1>5, <1>6, <2>5, <2>9, Zenon DEF ToSet
    <3>. HIDE DEF upTo, before
    <3>. QED BY <1>1, <1>2, <1>3, <2>8, <3>1 DEF ReadInv
  <2>11. \A j \in 1..Len(rows') : \A i \in 1..(j - 1) : InOrder(i, j)'
    <3>. SUFFICES ASSUME NEW j \in 1..Len(rows'), NEW i \in 1..(j - 1)
                  PROVE  Position(rows'[i].framework) < Position(rows'[j].framework)
      BY <1>1, <1>4, <2>8 DEF InOrder
    <3>1. CASE j <= Len(rows)
      <4>1. j \in 1..Len(rows) /\ i \in 1..Len(rows) /\ ~(j <= inserted)
        BY <1>1, <1>4, <3>1
      <4>. QED BY <2>8, <4>1 DEF RankInv, InOrder
    <3>2. CASE j = Len(rows) + 1
      <4>1. i \in 1..Len(rows)
        BY <1>4, <3>2
      <4>. QED BY <2>2, <2>6, <2>8, <3>2, <4>1 DEF report
    <3>. QED BY <1>4, <2>8, <3>1, <3>2
  <2>12. inserted' \in 0..Len(rows')
    BY <1>1, <1>4, <2>8
  <2>. QED BY <1>1, <2>10, <2>11, <2>12 DEF RankInv
<1>. QED BY <1>7, <1>8

\* A step that leaves the rows in their order.
LEMMA RowsKept ==
    ASSUME ReadInv, RankInv, UNCHANGED <<files, order, table, next, rows, inserted>>,
           phase \in {"read", "sort", "cells"}, phase' \in {"sort", "cells", "written"},
           phase = "read" => next = Listed + 1,
           phase' \in {"cells", "written"} /\ order = "result" => inserted = Len(rows)
    PROVE  ReadInv' /\ RankInv'
<1>1. T' = T /\ Read(T)' = Read(T) /\ \A S : ReportsOf(S)' = ReportsOf(S)
  BY SameTable
<1>2. ToSet(rows) = ReportsOf(Read(T))
  <2>1. CASE phase = "read"
    <3>1. {i \in Read(T) : i < next} = Read(T)
      BY <2>1, ListedRange DEF Read
    <3>. QED BY <2>1, <3>1 DEF ReadInv
  <2>. QED BY <2>1 DEF ReadInv
<1>3. ReadInv'
  BY <1>1, <1>2 DEF ReadInv, ToSet
<1>. QED BY <1>3, SameTable DEF RankInv, InOrder

\* The i-th row moves up past those it is less than: it is ahead of them, and
\* behind the ones it stops at.
LEMMA SortInserts ==
    ASSUME ReadInv, RankInv, SortStep, order = "result", inserted < Len(rows)
    PROVE  ReadInv' /\ RankInv'
<1>. DEFINE i == inserted + 1
            m == Len(rows)
<1>1. /\ UNCHANGED <<files, order, phase, table, next>>
      /\ rows' = InsertRow(T, rows, i) /\ inserted' = i /\ phase = "sort"
  BY DEF SortStep
<1>2. /\ T \in TableNames /\ m \in Nat /\ DOMAIN rows = 1..m
      /\ \A k \in 1..m : Rankable(rows[k]) /\ Position(rows[k].framework) \in Nat
  BY RowTypes
<1>3. i \in 1..m /\ i \in Nat \ {0} /\ inserted \in Nat
  <2>1. inserted \in 0..m
    BY DEF RankInv
  <2>2. inserted < m
    OBVIOUS
  <2>. HIDE DEF m
  <2>. QED BY <1>2, <2>1, <2>2
<1>4. PICK p \in 1..i :
          /\ p = 1 \/ ~Less(T, rows[i], rows[p - 1])
          /\ \A q \in p..(i - 1) : Less(T, rows[i], rows[q])
          /\ rows' = InsertAt(RemoveAt(rows, i), p, rows[i])
  <2>. HIDE DEF i
  <2>. QED BY <1>1, <1>3, InsertedAt
<1>. DEFINE R == ReportsOf(Read(T))
            Old(q) == IF q < p \/ q > i THEN q ELSE IF q = p THEN i ELSE q - 1
<1>5. /\ rows' \in Seq(R) /\ Len(rows') = m
      /\ \A q \in 1..m : rows'[q] = IF q < p \/ q > i THEN rows[q]
                                    ELSE IF q = p THEN rows[i] ELSE rows[q - 1]
  <2>1. rows \in Seq(R)
    BY DEF ReadInv
  <2>. HIDE DEF R, i
  <2>2. i \in 1..Len(rows)
    BY <1>3
  <2>3. p \in 1..i /\ rows' = InsertAt(RemoveAt(rows, i), p, rows[i])
    BY <1>4, Zenon
  <2>4. /\ Moving(rows, i, p) \in Seq(R) /\ Len(Moving(rows, i, p)) = Len(rows)
        /\ MovesUp(rows, i, p, Moving(rows, i, p))
    BY <2>1, <2>2, <2>3, MovedUp, Zenon
  <2>5. rows' = Moving(rows, i, p)
    BY <2>3, Zenon DEF Moving
  <2>. QED BY <2>4, <2>5, Zenon DEF MovesUp
<1>. HIDE DEF m, i
<1>6. /\ p \in Nat /\ i \in Nat /\ m \in Nat
      /\ p >= 1 /\ p <= i /\ i <= m /\ i - 1 = inserted
  BY <1>2, <1>3, <1>4 DEF i
<1>7. \A q \in 1..m : rows'[q] = rows[Old(q)] /\ Old(q) \in 1..m
  <2>. SUFFICES ASSUME NEW q \in 1..m PROVE rows'[q] = rows[Old(q)] /\ Old(q) \in 1..m
    OBVIOUS
  <2>1. Old(q) \in 1..m
    BY <1>6
  <2>2. rows'[q] = IF q < p \/ q > i THEN rows[q] ELSE IF q = p THEN rows[i] ELSE rows[q - 1]
    BY <1>5
  <2>. QED BY <2>1, <2>2
<1>8. \A k \in 1..m : \E q \in 1..m : Old(q) = k
  <2>. SUFFICES ASSUME NEW k \in 1..m PROVE \E q \in 1..m : Old(q) = k
    OBVIOUS
  <2>1. CASE k < p \/ k > i
    <3>1. Old(k) = k
      BY <2>1
    <3>. QED BY <3>1
  <2>2. CASE k = i
    <3>1. Old(p) = i /\ p \in 1..m
      BY <1>6, <1>2
    <3>. QED BY <2>2, <3>1
  <2>3. CASE k >= p /\ k < i
    <3>1. k + 1 \in 1..m /\ Old(k + 1) = k
      BY <1>6, <1>2, <2>3
    <3>. QED BY <3>1
  <2>. QED BY <1>6, <2>1, <2>2, <2>3
<1>9. ToSet(rows') = ToSet(rows)
  <2>1. DOMAIN rows' = 1..m
    BY <1>5
  <2>. HIDE DEF Old
  <2>2. ToSet(rows') = {rows'[q] : q \in 1..m} /\ ToSet(rows) = {rows[q] : q \in 1..m}
    BY <1>2, <2>1, Zenon DEF ToSet
  <2>3. ASSUME NEW q \in 1..m PROVE rows'[q] \in ToSet(rows)
    BY <1>7, <2>2
  <2>4. ASSUME NEW q \in 1..m PROVE rows[q] \in ToSet(rows')
    BY <1>7, <1>8, <2>2
  <2>. QED BY <2>2, <2>3, <2>4, Zenon
<1>10. ReadInv'
  <2>1. T' = T /\ Read(T)' = Read(T) /\ \A S : ReportsOf(S)' = ReportsOf(S)
    BY <1>1, SameTable
  <2>2. ToSet(rows)' = ReportsOf(Read(T))'
    BY <1>1, <1>9, <2>1 DEF ReadInv, ToSet
  <2>. QED BY <1>1, <1>5, <2>1, <2>2 DEF ReadInv
<1>11. \A j \in 1..m : \A k \in 1..(j - 1) : InOrder(k, j)
  BY DEF RankInv, m
<1>12. \A j \in 1..i : \A k \in 1..(j - 1) : j < i => Ahead(rows[k], rows[j])
  BY <1>6, <1>11 DEF InOrder
<1>13. \A k \in 1..(i - 1) : Position(rows[k].framework) < Position(rows[i].framework)
  BY <1>6, <1>11 DEF InOrder
\* The rows it stops at, and those above them, are ahead of it.
<1>14. ASSUME NEW k \in 1..(p - 1) PROVE Ahead(rows[k], rows[i])
  <2>1. p - 1 \in 1..(i - 1) /\ p - 1 \in 1..m /\ k \in 1..m /\ p # 1 /\ p - 1 < i
    BY <1>6
  <2>2. Ahead(rows[p - 1], rows[i])
    BY <1>2, <1>3, <1>4, <1>13, <2>1, AheadOrdered
  <2>3. k = p - 1 \/ Ahead(rows[k], rows[p - 1])
    <3>1. k = p - 1 \/ k \in 1..(p - 1 - 1)
      BY <1>6
    <3>2. p - 1 \in 1..i
      BY <1>6, <2>1
    <3>. QED BY <1>12, <2>1, <3>1, <3>2
  <2>. QED BY <1>2, <1>3, <2>1, <2>2, <2>3, AheadOrdered
<1>15. ASSUME NEW k \in p..(i - 1) PROVE Ahead(rows[i], rows[k])
  <2>1. k \in 1..m /\ Less(T, rows[i], rows[k])
    BY <1>2, <1>3, <1>4, <1>6
  <2>. QED BY <1>2, <1>3, <2>1, AheadOrdered
<1>16. ASSUME NEW j \in 1..m, NEW k \in 1..(j - 1) PROVE InOrder(k, j)'
  <2>. DEFINE a == Old(k)
              b == Old(j)
  <2>1. k \in 1..m /\ a \in 1..m /\ b \in 1..m /\ rows'[k] = rows[a] /\ rows'[j] = rows[b]
    BY <1>2, <1>7
  <2>2. CASE j > i
    <3>1. b = j /\ a < j /\ ~(j <= inserted)
      BY <1>2, <1>3, <1>6, <2>1, <2>2
    <3>2. a \in 1..(j - 1)
      BY <1>6, <2>1, <3>1
    <3>3. Position(rows[a].framework) < Position(rows[j].framework)
      BY <1>11, <3>1, <3>2 DEF InOrder
    <3>4. ~(j <= inserted')
      BY <1>1, <1>3, <2>2
    <3>. QED BY <2>1, <3>1, <3>3, <3>4 DEF InOrder
  <2>3. CASE j <= i
    <3>1. Ahead(rows[a], rows[b])
      <4>1. CASE j < p
        <5>1. a = k /\ b = j /\ j \in 1..i /\ j < i
          BY <1>6, <4>1
        <5>. QED BY <1>12, <5>1
      <4>2. CASE j = p
        <5>1. a = k /\ b = i /\ k \in 1..(p - 1)
          BY <1>6, <4>2
        <5>. QED BY <1>14, <5>1
      <4>3. CASE j > p /\ k < p
        <5>1. a = k /\ b = j - 1 /\ j - 1 \in 1..i /\ j - 1 < i /\ k \in 1..(j - 1 - 1)
          BY <1>6, <2>3, <4>3
        <5>. QED BY <1>12, <5>1
      <4>4. CASE j > p /\ k = p
        <5>1. a = i /\ b = j - 1 /\ j - 1 \in p..(i - 1)
          BY <1>6, <2>3, <4>4
        <5>. QED BY <1>15, <5>1
      <4>5. CASE j > p /\ k > p
        <5>1. a = k - 1 /\ b = j - 1 /\ j - 1 \in 1..i /\ j - 1 < i /\ k - 1 \in 1..(j - 1 - 1)
          BY <1>6, <2>3, <4>5
        <5>. QED BY <1>12, <5>1
      <4>. QED BY <1>6, <4>1, <4>2, <4>3, <4>4, <4>5
    <3>2. Ahead(rows[k], rows[j])'
      <4>1. T' = T
        BY <1>1, SameTable
      <4>. HIDE DEF a, b
      <4>. QED BY <2>1, <3>1, <4>1, Zenon DEF Ahead
    <3>3. j <= inserted'
      BY <1>1, <2>3
    <3>. QED BY <3>2, <3>3, Zenon DEF InOrder
  <2>. QED BY <1>3, <2>2, <2>3
<1>17. RankInv'
  <2>1. Len(rows') = m /\ inserted' \in 0..m
    BY <1>1, <1>3, <1>5
  <2>2. \A j \in 1..m : \A k \in 1..(j - 1) : InOrder(k, j)'
    BY <1>16
  <2>. QED BY <1>1, <2>1, <2>2 DEF RankInv
<1>. QED BY <1>10, <1>17


LEMMA RanksNext ==
    ASSUME ReadInv, RankInv, [ReportsNext]_reportsVars
    PROVE  ReadInv' /\ RankInv'
<1>1. CASE SummarizeReport \/ SummarizeNext
  BY <1>1, ReadSummarize
<1>2. CASE ReadReport
  BY <1>2, ReadOne
<1>3. CASE EndRead
  <2>1. /\ UNCHANGED <<files, order, table, next, rows, inserted>> /\ phase = "read"
        /\ phase' = (IF rows = <<>> THEN "written" ELSE "sort") /\ next > Listed
    BY <1>3 DEF EndRead
  <2>2. next = Listed + 1
    BY <2>1, ListedRange DEF ReadInv
  <2>3. phase' = "written" => inserted = Len(rows)
    <3>1. inserted = 0
      BY <2>1 DEF RankInv
    <3>. QED BY <2>1, <3>1
  <2>. QED BY <2>1, <2>2, <2>3, RowsKept
<1>4. CASE SortStep
  <2>1. CASE order = "result" /\ inserted < Len(rows)
    BY <1>4, <2>1, SortInserts
  <2>2. CASE ~(order = "result" /\ inserted < Len(rows))
    <3>1. UNCHANGED <<files, order, table, next, rows, inserted>> /\ phase = "sort"
          /\ phase' = "cells"
      BY <1>4, <2>2 DEF SortStep
    <3>2. inserted \in 0..Len(rows) /\ Len(rows) \in Nat
      BY RowTypes DEF RankInv
    <3>3. order = "result" => inserted = Len(rows)
      BY <2>2, <3>2
    <3>. QED BY <3>1, <3>3, RowsKept
  <2>. QED BY <2>1, <2>2
<1>5. CASE Fields
  <2>1. UNCHANGED <<files, order, table, next, rows, inserted>> /\ phase = "cells"
        /\ phase' = "written"
    BY <1>5 DEF Fields
  <2>2. order = "result" => inserted = Len(rows)
    BY <2>1 DEF RankInv
  <2>. QED BY <2>1, <2>2, RowsKept
<1>6. CASE NextTable
  <2>1. /\ UNCHANGED <<files, order>> /\ next' = 1 /\ rows' = <<>> /\ inserted' = 0
        /\ phase' \in {"read", "done"} /\ table' \in 1..3
    BY <1>6, TableSet DEF NextTable, ReadInv
  <2>2. next' \in 1..(Listed + 1)
    BY <2>1, ListedRange
  <2>3. rows' \in Seq(ReportsOf(Read(T))') /\ ToSet(rows') = {} /\ Len(rows') = 0
    BY <2>1 DEF ToSet
  <2>4. ReportsOf({i \in Read(T) : i < next})' = {}
    <3>1. {i \in Read(T) : i < next}' = {}
      BY <2>1, ListedRange DEF Read
    <3>. QED BY <3>1 DEF ReportsOf
  <2>5. ReadInv'
    BY <2>1, <2>2, <2>3, <2>4 DEF ReadInv
  <2>. QED BY <2>1, <2>3, <2>5 DEF RankInv
<1>7. CASE UNCHANGED reportsVars
  <2>1. UNCHANGED <<files, order, phase, table, next, rows, inserted>>
    BY <1>7 DEF reportsVars
  <2>2. T' = T /\ Read(T)' = Read(T) /\ \A S : ReportsOf(S)' = ReportsOf(S)
    BY <2>1, SameTable
  <2>3. ReadInv'
    BY <2>1, <2>2 DEF ReadInv, ToSet
  <2>. QED BY <2>1, <2>3, SameTable DEF RankInv, InOrder
<1>. QED BY <1>1, <1>2, <1>3, <1>4, <1>5, <1>6, <1>7 DEF ReportsNext, AllWritten

LEMMA RanksAlways == ReportsSpec => [](ReadInv /\ RankInv)
<1>1. ReadInv /\ RankInv /\ [ReportsNext]_reportsVars => (ReadInv /\ RankInv)'
  BY RanksNext
<1>. QED BY OrderInit, <1>1, PTL DEF ReportsSpec

\* Every written table has a row for each framework whose file was read and no
\* other, ranked by its results with the skipped rows last, or in the
\* frameworks' order (RankedByResult of Reports).
THEOREM TablesAreRanked == ReportsSpec => []RankedByResult
<1>1. ReadInv /\ RankInv => RankedByResult
  <2>. SUFFICES ASSUME ReadInv, RankInv, phase = "written" PROVE RankedByResult
    BY DEF RankedByResult
  <2>1. ToSet(rows) = {ReportOf(T, i) : i \in {i \in 1..Listed : Readable(T, i)}}
    BY DEF ReadInv, ReportsOf, Read
  <2>2. Len(rows) \in Nat /\ DOMAIN rows = 1..Len(rows)
    BY RowTypes
  <2>3. ASSUME NEW i \in DOMAIN rows, NEW j \in DOMAIN rows, i < j
        PROVE  IF order = "result" THEN Ahead(rows[i], rows[j])
               ELSE Position(rows[i].framework) < Position(rows[j].framework)
    <3>1. InOrder(i, j) /\ j \in 1..Len(rows)
      <4>1. i \in 1..(j - 1) /\ j \in 1..Len(rows)
        BY <2>2, <2>3
      <4>. QED BY <4>1 DEF RankInv
    <3>2. order = "result" => j <= inserted
      BY <2>2, <3>1 DEF RankInv
    <3>3. order # "result" => ~(j <= inserted)
      <4>1. order # "result" => inserted = 0
        <5>1. order \in {"result", "framework"} /\ (order = "framework" => inserted = 0)
          BY DEF ReadInv, RankInv
        <5>. QED BY <5>1
      <4>. QED BY <2>2, <3>1, <4>1
    <3>. QED BY <3>1, <3>2, <3>3, Zenon DEF InOrder
  <2>. QED BY <2>1, <2>3, Zenon DEF RankedByResult
<1>. QED BY RanksAlways, <1>1, PTL


-----------------------------------------------------------------------------
(* The shares *)

\* Division keeps the order.
LEMMA DivMonotone ==
    ASSUME NEW x \in Nat, NEW y \in Nat, NEW d \in Nat \ {0}, x <= y
    PROVE  x \div d \in Nat /\ x \div d <= y \div d
BY Z3

\* The best has 100 and nothing else has, and what did not score has 0.
LEMMA PercentAtMost ==
    ASSUME NEW value \in Int, NEW best \in Int
    PROVE  /\ Percent(value, best) \in Int
           /\ 0 <= Percent(value, best) /\ Percent(value, best) <= 100
           /\ Percent(value, best) = 100 <=> value > 0 /\ best > 0 /\ value >= best
           /\ value <= 0 \/ best <= 0 => Percent(value, best) = 0
<1>1. CASE best <= 0 \/ value <= 0
  BY <1>1 DEF Percent
<1>2. CASE best > 0 /\ value >= best
  BY <1>2 DEF Percent
<1>3. CASE best > 0 /\ value > 0 /\ value < best
  <2>. DEFINE x == value * 100 * SlackInverse + best
              d == best * SlackInverse
  <2>1. SlackInverse \in Nat \ {0}
    BY ReportsAssumption
  <2>2. x \in Nat /\ d \in Nat \ {0}
    <3>1. value * 100 \in Nat /\ best \in Nat \ {0}
      BY <1>3
    <3>2. \A u, v \in Nat : u * v \in Nat
      BY Z3
    <3>3. \A u, v \in Nat \ {0} : u * v \in Nat \ {0}
      BY Z3
    <3>4. (value * 100) * SlackInverse \in Nat
      BY <2>1, <3>1, <3>2
    <3>. QED BY <2>1, <3>1, <3>3, <3>4
  <2>. HIDE DEF x, d
  <2>3. x \div d \in Nat
    BY <2>2, DivMonotone
  <2>4. Percent(value, best) = IF x \div d < 99 THEN x \div d ELSE 99
    <3>1. ~(best <= 0 \/ value <= 0) /\ ~(value >= best)
      BY <1>3
    <3>. QED BY <3>1, Zenon DEF Percent, x, d
  <2>. QED BY <1>3, <2>3, <2>4
<1>. QED BY <1>1, <1>2, <1>3

\* A bigger value has no smaller share.
LEMMA PercentMonotone ==
    ASSUME NEW a \in Int, NEW b \in Int, NEW best \in Int, a <= b
    PROVE  Percent(a, best) <= Percent(b, best)
<1>1. CASE best <= 0 \/ a <= 0
  <2>1. Percent(a, best) = 0
    BY <1>1 DEF Percent
  <2>. QED BY <2>1, PercentAtMost
<1>2. CASE best > 0 /\ b >= best
  <2>1. Percent(b, best) = 100 \/ b <= 0
    BY <1>2 DEF Percent
  <2>. QED BY <1>2, <2>1, PercentAtMost
<1>3. CASE best > 0 /\ a > 0 /\ b < best
  <2>. DEFINE Over(v) == v * 100 * SlackInverse + best
              d == best * SlackInverse
  <2>1. SlackInverse \in Nat \ {0}
    BY ReportsAssumption
  <2>2. d \in Nat \ {0} /\ Over(a) \in Nat /\ Over(b) \in Nat /\ Over(a) <= Over(b)
    <3>1. a * 100 \in Nat /\ b * 100 \in Nat /\ a * 100 <= b * 100 /\ best \in Nat \ {0}
      BY <1>3
    <3>2. \A u, v \in Nat : u * v \in Nat
      BY Z3
    <3>3. \A u, v \in Nat \ {0} : u * v \in Nat \ {0}
      BY Z3
    <3>4. \A u, v, w \in Nat : u <= v => u * w <= v * w
      BY Z3
    <3>5. (a * 100) * SlackInverse \in Nat /\ (b * 100) * SlackInverse \in Nat
      BY <2>1, <3>1, <3>2
    <3>6. (a * 100) * SlackInverse <= (b * 100) * SlackInverse
      BY <2>1, <3>1, <3>4
    <3>7. d \in Nat \ {0}
      BY <2>1, <3>1, <3>3
    <3>. HIDE DEF d
    <3>. QED BY <3>1, <3>5, <3>6, <3>7
  <2>. DEFINE x == Over(a)
              y == Over(b)
  <2>3. Percent(a, best) = IF x \div d < 99 THEN x \div d ELSE 99
    <3>1. ~(best <= 0 \/ a <= 0) /\ ~(a >= best)
      BY <1>3
    <3>. QED BY <3>1, Zenon DEF Percent
  <2>4. Percent(b, best) = IF y \div d < 99 THEN y \div d ELSE 99
    <3>1. ~(best <= 0 \/ b <= 0) /\ ~(b >= best)
      BY <1>3
    <3>. QED BY <3>1, Zenon DEF Percent
  <2>. HIDE DEF x, y, d
  <2>5. x \div d \in Nat /\ y \div d \in Nat /\ x \div d <= y \div d
    BY <2>2, DivMonotone DEF x, y
  <2>. QED BY <2>3, <2>4, <2>5
<1>. QED BY <1>1, <1>2, <1>3

\* The best is one of the column's values and no less than any other, or 0.
LEMMA BestKeyIsGreatest ==
    ASSUME ReadInv, NEW k \in DOMAIN RankFields(T)
    PROVE  /\ BestKey(k) \in Int
           /\ BestKey(k) = 0 \/ \E i \in DOMAIN rows : BestKey(k) = RankKeys(T, rows[i])[k]
           /\ \A i \in DOMAIN rows :
                 RankKeys(T, rows[i])[k] \in Int /\ RankKeys(T, rows[i])[k] <= BestKey(k)
<1>. DEFINE Key(i) == RankKeys(T, rows[i])[k]
            keys == {Key(i) : i \in DOMAIN rows} \cup {0}
<1>1. \A i \in DOMAIN rows : Key(i) \in Int
  <2>1. PICK n \in {1, 3} :
            /\ DOMAIN RankFields(T) = 1..n
            /\ \A r : Rankable(r) => RankKeys(T, r) \in [1..n -> Int]
    BY RowTypes, RankKeyTypes
  <2>. QED BY <2>1, RowTypes
<1>2. IsFiniteSet(keys)
  <2>. HIDE DEF Key
  <2>1. IsFiniteSet(DOMAIN rows)
    BY RowTypes, FS_Interval, 1 \in Int, Len(rows) \in Int
  <2>. DEFINE image == {Key(i) : i \in DOMAIN rows}
              f == [i \in DOMAIN rows |-> Key(i)]
  <2>2. f \in Surjection(DOMAIN rows, image)
    <3>1. f \in [DOMAIN rows -> image] /\ \A x \in image : \E i \in DOMAIN rows : f[i] = x
      OBVIOUS
    <3>. QED BY <3>1, Zenon DEF Surjection
  <2>3. IsFiniteSet(image)
    <3>. HIDE DEF image, f
    <3>. QED BY <2>1, <2>2, FS_Surjection, Zenon
  <2>. QED BY <2>3, FS_AddElement
<1>. HIDE DEF Key
<1>3. keys \in SUBSET Int /\ keys # {}
  BY <1>1
<1>4. \E best \in keys : \A key \in keys : key <= best
  <2>. HIDE DEF keys
  <2>. QED BY <1>2, <1>3, GreatestInt, Zenon
<1>5. BestKey(k) = CHOOSE best \in keys : \A key \in keys : key <= best
  BY Zenon DEF BestKey, keys, Key
<1>6. BestKey(k) \in keys /\ \A key \in keys : key <= BestKey(k)
  BY <1>4, <1>5, Zenon
<1>. QED BY <1>1, <1>3, <1>6 DEF Key


\* What Fields writes: the cells of the rows.
ShareInv == phase = "written" /\ rows # <<>> => cells = [i \in DOMAIN rows |-> WrittenCells(i)]

LEMMA SharesInit == ReportsInit => ShareInv
BY DEF ReportsInit, ShareInv

LEMMA SharesNext ==
    ASSUME ReadInv, ShareInv, [ReportsNext]_reportsVars
    PROVE  ShareInv'
<1>1. CASE Fields
  <2>1. /\ cells' = [i \in DOMAIN rows |-> WrittenCells(i)]
        /\ UNCHANGED <<files, tpn, table, rows>>
    BY <1>1 DEF Fields
  <2>2. rows' = rows /\ T' = T /\ tpn' = tpn
    BY <2>1, SameTable
  <2>3. \A i : WrittenCells(i)' = WrittenCells(i)
    BY <2>2 DEF WrittenCells, BestKey
  <2>. QED BY <2>1, <2>2, <2>3 DEF ShareInv
<1>2. CASE UNCHANGED reportsVars
  <2>1. rows' = rows /\ tpn' = tpn /\ phase' = phase /\ cells' = cells /\ UNCHANGED <<files, table>>
    BY <1>2 DEF reportsVars
  <2>2. T' = T
    BY <2>1, SameTable
  <2>3. \A i : WrittenCells(i)' = WrittenCells(i)
    BY <2>1, <2>2 DEF WrittenCells, BestKey
  <2>. QED BY <2>1, <2>3 DEF ShareInv
<1>3. CASE EndRead
  BY <1>3 DEF EndRead, ShareInv
<1>4. CASE SummarizeReport \/ SummarizeNext \/ ReadReport \/ SortStep \/ NextTable
  <2>1. phase' # "written"
    BY <1>4 DEF SummarizeReport, SummarizeNext, ReadReport, SortStep, NextTable
  <2>. QED BY <2>1 DEF ShareInv
<1>. QED BY <1>1, <1>2, <1>3, <1>4 DEF ReportsNext, AllWritten

\* No two rank columns have one header.
LEMMA RankHeadersDiffer ==
    ASSUME NEW t \in TableNames, NEW k \in DOMAIN RankFields(t), NEW j \in DOMAIN RankFields(t),
           RankFields(t)[k].md = RankFields(t)[j].md
    PROVE  k = j
<1>1. CASE RankFields(t) = Numbered(OneKey)
  BY <1>1, OneNumbered
<1>2. CASE RankFields(t) = Numbered(ThreeKeys)
  <2>1. k \in {1, 2, 3} /\ j \in {1, 2, 3}
    <3>1. DOMAIN RankFields(t) = 1..3
      BY <1>2, ThreeNumbered, Zenon
    <3>2. \A l \in 1..3 : l \in {1, 2, 3}
      OBVIOUS
    <3>. QED BY <3>1, <3>2, Zenon
  <2>. DEFINE c == "CPU EER"
              e == "MEM EER"
  <2>2. c # "TPS" /\ e # "TPS" /\ c # e
    BY Zenon
  <2>3. /\ Numbered(ThreeKeys)[1].md = "TPS" /\ Numbered(ThreeKeys)[2].md = c
        /\ Numbered(ThreeKeys)[3].md = e
    BY ThreeNumbered, Zenon
  <2>. HIDE DEF c, e
  <2>. QED BY <1>2, <2>1, <2>2, <2>3
<1>. QED BY <1>1, <1>2, RankFieldsNumbered

\* The cells of one row.
LEMMA CellsOfRow ==
    ASSUME ReadInv, NEW i \in DOMAIN rows
    PROVE  /\ DOMAIN WrittenCells(i) = DOMAIN Headers(T, tpn)
           /\ \A col \in DOMAIN Headers(T, tpn) :
                 /\ WrittenCells(i)[col].of = Headers(T, tpn)[col]
                 /\ (\A k \in DOMAIN RankFields(T) : Headers(T, tpn)[col] # RankFields(T)[k].md)
                        => WrittenCells(i)[col].percent = NoPercent
                 /\ \A k \in DOMAIN RankFields(T) :
                       Headers(T, tpn)[col] = RankFields(T)[k].md =>
                           WrittenCells(i)[col].percent
                               = Percent(KeyOf(rows[i], RankFields(T)[k]), BestKey(k))
<1>. DEFINE headers == Headers(T, tpn)
            fields == ObjFieldValues(T, tpn)
            ranks == RankFields(T)
            rankOf(col) == {k \in DOMAIN ranks : ranks[k].md = headers[col]}
            share(k) == Percent(RankKeys(T, rows[i])[k], BestKey(k))
            blanked(col) == rows[i].skipped /\ headers[col] \notin {"Framework", "Lang"}
<1>1. DOMAIN fields = DOMAIN headers
  BY Zenon DEF ObjFieldValues, Headers
<1>2. \A col \in DOMAIN headers :
         fields[col] = [of |-> headers[col], percent |-> NoPercent, blank |-> FALSE]
  BY Zenon DEF ObjFieldValues, Headers, Cell
<1>3. WrittenCells(i) = [col \in DOMAIN fields |->
            IF col \notin DOMAIN headers THEN fields[col]
            ELSE [fields[col] EXCEPT
                     !.percent = IF rankOf(col) = {} THEN @
                                 ELSE share(CHOOSE k \in rankOf(col) : TRUE),
                     !.blank = blanked(col)]]
  BY Zenon DEF WrittenCells
<1>. HIDE DEF blanked, share, headers, ranks, fields
<1>4. ASSUME NEW col \in DOMAIN headers
      PROVE  /\ WrittenCells(i)[col].of = headers[col]
             /\ WrittenCells(i)[col].percent
                    = IF rankOf(col) = {} THEN NoPercent
                      ELSE share(CHOOSE k \in rankOf(col) : TRUE)
  <2>. DEFINE percent == IF rankOf(col) = {} THEN fields[col].percent
                         ELSE share(CHOOSE k \in rankOf(col) : TRUE)
  <2>1. WrittenCells(i)[col] = [fields[col] EXCEPT !.percent = percent, !.blank = blanked(col)]
    BY <1>1, <1>3
  <2>2. fields[col] = [of |-> headers[col], percent |-> NoPercent, blank |-> FALSE]
    BY <1>2
  <2>3. fields[col].percent = NoPercent
    BY <2>2
  <2>4. WrittenCells(i)[col].of = headers[col] /\ WrittenCells(i)[col].percent = percent
    <3>. HIDE DEF percent
    <3>. QED BY <2>1, <2>2
  <2>. QED BY <2>3, <2>4
<1>5. ASSUME NEW col \in DOMAIN headers, \A k \in DOMAIN ranks : headers[col] # ranks[k].md
      PROVE  WrittenCells(i)[col].percent = NoPercent
  <2>1. rankOf(col) = {}
    BY <1>5
  <2>. QED BY <1>4, <2>1
<1>6. ASSUME NEW col \in DOMAIN headers, NEW k \in DOMAIN ranks, headers[col] = ranks[k].md
      PROVE  WrittenCells(i)[col].percent = Percent(KeyOf(rows[i], ranks[k]), BestKey(k))
  <2>1. T \in TableNames
    BY RowTypes
  <2>2. rankOf(col) = {k}
    <3>1. \A j \in DOMAIN ranks : ranks[j].md = ranks[k].md => j = k
      BY <2>1, RankHeadersDiffer DEF ranks
    <3>. QED BY <1>6, <3>1
  <2>3. (CHOOSE j \in rankOf(col) : TRUE) = k /\ rankOf(col) # {}
    <3>. HIDE DEF rankOf
    <3>. QED BY <2>2
  <2>4. share(k) = Percent(KeyOf(rows[i], ranks[k]), BestKey(k))
    BY Zenon DEF share, RankKeys, ranks
  <2>. QED BY <1>4, <2>3, <2>4
<1>7. DOMAIN WrittenCells(i) = DOMAIN headers
  BY <1>1, <1>3
<1>. QED BY <1>4, <1>5, <1>6, <1>7, Zenon DEF headers, ranks

LEMMA SharesAlways == ReportsSpec => [](ReadInv /\ ShareInv)
<1>1. ReadInv /\ RankInv /\ ShareInv /\ [ReportsNext]_reportsVars => ShareInv'
  BY SharesNext
<1>. QED BY RanksAlways, SharesInit, <1>1, PTL DEF ReportsSpec

\* In every written table a cell is under its field's header, the percentages
\* are in the rank columns, and they grow with the values, from 0 for what is not
\* above 0 to 100 for the best and nothing else (SharesRight of Reports).
THEOREM SharesAreRight == ReportsSpec => []SharesRight
<1>1. ReadInv /\ ShareInv => SharesRight
  <2>. SUFFICES ASSUME ReadInv, ShareInv, phase = "written" /\ rows # <<>> PROVE SharesRight
    BY DEF SharesRight
  <2>. DEFINE headers == Headers(T, tpn)
              ranks == RankFields(T)
  <2>1. DOMAIN cells = DOMAIN rows /\ \A i \in DOMAIN rows : cells[i] = WrittenCells(i)
    BY DEF ShareInv
  <2>2. \A i \in DOMAIN cells :
            /\ DOMAIN cells[i] = DOMAIN headers
            /\ \A col \in DOMAIN headers : cells[i][col].of = headers[col]
    BY <2>1, CellsOfRow
  <2>3. ASSUME NEW k \in DOMAIN ranks, NEW col \in DOMAIN headers, headers[col] = ranks[k].md,
               NEW i \in DOMAIN rows
        PROVE  LET value(r) == KeyOf(rows[r], ranks[k])
                   share(r) == cells[r][col].percent
                   isBest(r) == value(r) > 0 /\ \A j \in DOMAIN rows : value(j) <= value(r)
               IN  /\ share(i) = 100 <=> isBest(i)
                   /\ value(i) <= 0 => share(i) = 0
                   /\ \A j \in DOMAIN rows : value(i) <= value(j) => share(i) <= share(j)
    <3>. DEFINE value(r) == KeyOf(rows[r], ranks[k])
                share(r) == cells[r][col].percent
                best == BestKey(k)
    <3>1. \A r \in DOMAIN rows : value(r) = RankKeys(T, rows[r])[k]
      BY Zenon DEF RankKeys
    <3>2. /\ best \in Int /\ (best = 0 \/ \E r \in DOMAIN rows : best = value(r))
          /\ \A r \in DOMAIN rows : value(r) \in Int /\ value(r) <= best
      BY <3>1, BestKeyIsGreatest, Zenon
    <3>3. \A r \in DOMAIN rows : share(r) = Percent(value(r), best)
      BY <2>1, <2>3, <3>1, CellsOfRow
    <3>. HIDE DEF value, share, best
    <3>4. share(i) = 100 <=> value(i) > 0 /\ \A j \in DOMAIN rows : value(j) <= value(i)
      <4>1. share(i) = 100 <=> value(i) > 0 /\ best > 0 /\ value(i) >= best
        BY <3>2, <3>3, PercentAtMost
      <4>2. value(i) > 0 => best > 0
        BY <3>2
      <4>3. ASSUME value(i) > 0
            PROVE  value(i) >= best <=> \A j \in DOMAIN rows : value(j) <= value(i)
        BY <3>2, <4>3
      <4>. QED BY <4>1, <4>2, <4>3
    <3>5. value(i) <= 0 => share(i) = 0
      BY <3>2, <3>3, PercentAtMost
    <3>6. \A j \in DOMAIN rows : value(i) <= value(j) => share(i) <= share(j)
      BY <3>2, <3>3, PercentMonotone
    <3>. QED BY <3>4, <3>5, <3>6, Zenon DEF value, share
  <2>4. ASSUME NEW col \in DOMAIN headers, \A k \in DOMAIN ranks : headers[col] # ranks[k].md,
               NEW i \in DOMAIN cells
        PROVE  cells[i][col].percent = NoPercent
    BY <2>1, <2>4, CellsOfRow
  <2>. QED BY <2>2, <2>3, <2>4, Zenon DEF SharesRight
<1>. QED BY SharesAlways, <1>1, PTL


-----------------------------------------------------------------------------
(* The Summary says what the reports read so far say *)

Listings(values) ==
    UNION {{<<values[i].value, f>> : f \in ToSet(values[i].frameworks)} : i \in DOMAIN values}

\* Each value is listed once, with each of its frameworks once.
ListedOnce(values) ==
    /\ \A i, j \in DOMAIN values : values[i].value = values[j].value => i = j
    /\ \A i \in DOMAIN values : IsInjective(values[i].frameworks)

ValueList == Seq([value : Int, frameworks : Seq(FrameworkNames)])

\* Appending what is not there yet keeps a list without repetitions.
LEMMA AppendKnown ==
    ASSUME NEW R, NEW s \in Seq(R), NEW f \in R
    PROVE  /\ Append(s, f) \in Seq(R)
           /\ ToSet(Append(s, f)) = ToSet(s) \cup {f}
           /\ IsInjective(s) /\ ~Contains(s, f) => IsInjective(Append(s, f))
           /\ Contains(s, f) => f \in ToSet(s)
<1>. DEFINE n == Len(s) + 1
            a == Append(s, f)
<1>1. /\ Len(s) \in Nat /\ DOMAIN s = 1..Len(s)
      /\ a \in Seq(R) /\ DOMAIN a = 1..n /\ a[n] = f
      /\ \A i \in 1..Len(s) : a[i] = s[i]
  OBVIOUS
<1>2. 1..n = 1..Len(s) \cup {n} /\ n \notin 1..Len(s)
  BY <1>1
<1>. HIDE DEF n, a
<1>3. ToSet(a) = ToSet(s) \cup {f}
  <2>1. ToSet(a) = {a[i] : i \in 1..Len(s)} \cup {a[n]}
    BY <1>1, <1>2, Zenon DEF ToSet
  <2>2. {a[i] : i \in 1..Len(s)} = ToSet(s)
    BY <1>1, Zenon DEF ToSet
  <2>. QED BY <1>1, <2>1, <2>2
<1>4. ASSUME IsInjective(s), ~Contains(s, f) PROVE IsInjective(a)
  <2>. SUFFICES ASSUME NEW i \in 1..n, NEW j \in 1..n, a[i] = a[j] PROVE i = j
    BY <1>1, Zenon DEF IsInjective
  <2>1. \A k \in 1..Len(s) : s[k] # f
    BY <1>4, Zenon DEF Contains
  <2>2. CASE i \in 1..Len(s) /\ j \in 1..Len(s)
    BY <1>1, <1>4, <2>2, Zenon DEF IsInjective
  <2>3. CASE i = n
    BY <1>1, <1>2, <2>1, <2>3, Zenon
  <2>4. CASE j = n
    BY <1>1, <1>2, <2>1, <2>4, Zenon
  <2>. QED BY <1>2, <2>2, <2>3, <2>4, Zenon
<1>5. Contains(s, f) => f \in ToSet(s)
  BY <1>1, Zenon DEF Contains, ToSet
<1>. QED BY <1>1, <1>3, <1>4, <1>5, Zenon DEF a

\* addSummaryValue lists one more framework for one value, and nothing twice.
LEMMA SummaryValueAdded ==
    ASSUME NEW values \in ValueList, NEW value \in Int, NEW f \in FrameworkNames,
           ListedOnce(values)
    PROVE  /\ AddSummaryValue(values, value, f) \in ValueList
           /\ ListedOnce(AddSummaryValue(values, value, f))
           /\ Listings(AddSummaryValue(values, value, f)) = Listings(values) \cup {<<value, f>>}
<1>. DEFINE after == AddSummaryValue(values, value, f)
            Entries == [value : Int, frameworks : Seq(FrameworkNames)]
<1>1. values \in Seq(Entries) /\ DOMAIN values = 1..Len(values) /\ Len(values) \in Nat
  BY DEF ValueList
<1>2. \A i \in DOMAIN values :
         values[i] \in Entries /\ values[i].value \in Int
         /\ values[i].frameworks \in Seq(FrameworkNames)
  <2>1. \A e \in Entries : e.value \in Int /\ e.frameworks \in Seq(FrameworkNames)
    BY Zenon
  <2>. HIDE DEF Entries
  <2>2. \A i \in DOMAIN values : values[i] \in Entries
    BY <1>1
  <2>. QED BY <2>1, <2>2, Zenon
<1>3. CASE \E i \in DOMAIN values : values[i].value = value
  <2>. DEFINE joins(i) == values[i].value = value /\ ~Contains(values[i].frameworks, f)
              joined(i) == [values[i] EXCEPT !.frameworks = Append(@, f)]
  <2>1. after = [i \in DOMAIN values |-> IF joins(i) THEN joined(i) ELSE values[i]]
    BY <1>3, Zenon DEF AddSummaryValue
  <2>2. \A i \in DOMAIN values : after[i] = IF joins(i) THEN joined(i) ELSE values[i]
    BY <2>1, Zenon
  <2>. HIDE DEF after
  <2>3. ASSUME NEW i \in DOMAIN values
        PROVE  /\ joined(i) \in Entries /\ joined(i).value = values[i].value
               /\ joined(i).frameworks = Append(values[i].frameworks, f)
    <3>1. Append(values[i].frameworks, f) \in Seq(FrameworkNames)
      BY <1>2, AppendKnown, Zenon
    <3>. DEFINE fs == Append(values[i].frameworks, f)
    <3>. HIDE DEF fs
    <3>2. joined(i) = [values[i] EXCEPT !.frameworks = fs]
      BY DEF fs
    <3>3. fs \in Seq(FrameworkNames) /\ values[i] \in Entries
      BY <1>2, <3>1 DEF fs
    <3>4. joined(i) \in Entries /\ joined(i).value = values[i].value /\ joined(i).frameworks = fs
      BY <3>2, <3>3
    <3>. QED BY <3>4, Zenon DEF fs
  <2>. HIDE DEF joined
  <2>4. ASSUME NEW i \in DOMAIN values
        PROVE  /\ after[i] \in Entries /\ after[i].value = values[i].value
               /\ IsInjective(after[i].frameworks)
               /\ ToSet(after[i].frameworks)
                      = ToSet(values[i].frameworks) \cup (IF values[i].value = value THEN {f} ELSE {})
    <3>1. /\ values[i].frameworks \in Seq(FrameworkNames) /\ IsInjective(values[i].frameworks)
          /\ values[i] \in Entries
      BY <1>2, Zenon DEF ListedOnce
    <3>2. CASE joins(i)
      <4>1. after[i].frameworks = Append(values[i].frameworks, f) /\ after[i].value = values[i].value
            /\ after[i] \in Entries
        BY <2>2, <2>3, <3>2, Zenon
      <4>2. /\ ToSet(Append(values[i].frameworks, f)) = ToSet(values[i].frameworks) \cup {f}
            /\ IsInjective(Append(values[i].frameworks, f))
        BY <3>1, <3>2, AppendKnown, Zenon
      <4>. QED BY <3>2, <4>1, <4>2, Zenon
    <3>3. CASE ~joins(i)
      <4>1. after[i] = values[i]
        BY <2>2, <3>3, Zenon
      <4>2. values[i].value = value => f \in ToSet(values[i].frameworks)
        BY <3>1, <3>3, AppendKnown, Zenon
      <4>3. ToSet(values[i].frameworks)
                = ToSet(values[i].frameworks) \cup (IF values[i].value = value THEN {f} ELSE {})
        BY <4>2
      <4>. QED BY <3>1, <4>1, <4>3, Zenon
    <3>. QED BY <3>2, <3>3
  <2>5. DOMAIN after = DOMAIN values
    BY <2>1, Zenon
  <2>6. after \in ValueList
    <3>1. after \in [1..Len(values) -> Entries]
      BY <1>1, <2>1, <2>4
    <3>. QED BY <1>1, <3>1 DEF ValueList
  <2>7. ListedOnce(after)
    <3>1. \A i, j \in DOMAIN values : values[i].value = values[j].value => i = j
      BY Zenon DEF ListedOnce
    <3>. QED BY <2>4, <2>5, <3>1, Zenon DEF ListedOnce
  <2>8. Listings(after) = Listings(values) \cup {<<value, f>>}
    <3>. DEFINE Of(list, i) == {<<list[i].value, g>> : g \in ToSet(list[i].frameworks)}
    <3>1. \A i \in DOMAIN values :
             Of(after, i) = Of(values, i) \cup (IF values[i].value = value THEN {<<value, f>>} ELSE {})
      <4>. SUFFICES ASSUME NEW i \in DOMAIN values
                    PROVE  Of(after, i) = Of(values, i)
                               \cup (IF values[i].value = value THEN {<<value, f>>} ELSE {})
        OBVIOUS
      <4>1. CASE values[i].value = value
        <5>1. ToSet(after[i].frameworks) = ToSet(values[i].frameworks) \cup {f}
              /\ after[i].value = value
          BY <2>4, <4>1
        <5>. QED BY <4>1, <5>1, Zenon
      <4>2. CASE values[i].value # value
        <5>1. ToSet(after[i].frameworks) = ToSet(values[i].frameworks)
              /\ after[i].value = values[i].value
          BY <2>4, <4>2
        <5>2. Of(after, i) = Of(values, i)
          BY <5>1, Zenon
        <5>. QED BY <4>2, <5>2
      <4>. QED BY <4>1, <4>2
    <3>2. /\ Listings(after) = UNION {Of(after, i) : i \in DOMAIN values}
          /\ Listings(values) = UNION {Of(values, i) : i \in DOMAIN values}
      BY <2>5, Zenon DEF Listings
    <3>. HIDE DEF Of
    <3>. QED BY <1>3, <3>1, <3>2
  <2>. QED BY <2>6, <2>7, <2>8 DEF after
<1>4. CASE ~\E i \in DOMAIN values : values[i].value = value
  <2>. DEFINE entry == [value |-> value, frameworks |-> <<f>>]
              n == Len(values) + 1
  <2>1. after = Append(values, entry)
    BY <1>4, Zenon DEF AddSummaryValue
  <2>2. entry \in Entries /\ entry.value = value /\ entry.frameworks = <<f>>
    OBVIOUS
  <2>3. ToSet(<<f>>) = {f} /\ IsInjective(<<f>>)
    BY DEF ToSet, IsInjective
  <2>. HIDE DEF entry, after
  <2>4. /\ after \in Seq(Entries) /\ DOMAIN after = 1..n /\ after[n] = entry
        /\ \A i \in DOMAIN values : after[i] = values[i]
    BY <1>1, <2>1, <2>2
  <2>5. 1..n = DOMAIN values \cup {n} /\ n \notin DOMAIN values
    BY <1>1
  <2>. HIDE DEF n
  <2>6. ListedOnce(after)
    <3>1. \A i, j \in DOMAIN values : values[i].value = values[j].value => i = j
      BY Zenon DEF ListedOnce
    <3>2. \A i \in DOMAIN values : IsInjective(values[i].frameworks)
      BY Zenon DEF ListedOnce
    <3>3. \A i \in DOMAIN values : values[i].value # value
      BY <1>4
    <3>4. ASSUME NEW i \in DOMAIN after, NEW j \in DOMAIN after, after[i].value = after[j].value
          PROVE  i = j
      BY <2>2, <2>4, <2>5, <3>1, <3>3, <3>4
    <3>5. ASSUME NEW i \in DOMAIN after PROVE IsInjective(after[i].frameworks)
      BY <2>2, <2>3, <2>4, <2>5, <3>2, Zenon
    <3>. QED BY <3>4, <3>5, Zenon DEF ListedOnce
  <2>7. Listings(after) = Listings(values) \cup {<<value, f>>}
    <3>. DEFINE Of(list, i) == {<<list[i].value, g>> : g \in ToSet(list[i].frameworks)}
    <3>1. \A i \in DOMAIN values : Of(after, i) = Of(values, i)
      BY <2>4, Zenon
    <3>2. Of(after, n) = {<<value, f>>}
      BY <2>2, <2>3, <2>4, Zenon
    <3>3. /\ Listings(after) = UNION {Of(after, i) : i \in DOMAIN after}
          /\ Listings(values) = UNION {Of(values, i) : i \in DOMAIN values}
      BY Zenon DEF Listings
    <3>. HIDE DEF Of
    <3>4. DOMAIN after = DOMAIN values \cup {n}
      BY <2>4, <2>5
    <3>. QED BY <3>1, <3>2, <3>3, <3>4
  <2>. QED BY <2>4, <2>6, <2>7 DEF ValueList, after
<1>. QED BY <1>3, <1>4


\* The reports summarized so far: all of those of the tables before this one,
\* and this one's before the next.
Summarized(k, i) == phase = "summary" => k < table \/ (k = table /\ i < next)

SummarizedOf(k) == {i \in 1..Listed : Summarized(k, i)}

\* What one report says of a parameter.
Says(k, i, name) ==
    IF name \in ParamsOf(Tables[k]) /\ Readable(Tables[k], i) /\ ~ReportOf(Tables[k], i).skipped
    THEN {<<ParamValue(ReportOf(Tables[k], i), name), FrameworkList[i]>>} ELSE {}

SaidBy(k, name) == UNION {Says(k, i, name) : i \in SummarizedOf(k)}

SaidSoFar(name) == UNION {SaidBy(k, name) : k \in 1..3}

SummaryInv ==
    /\ summary \in [SummaryNames -> ValueList]
    /\ \A name \in SummaryNames :
           ListedOnce(summary[name]) /\ Listings(summary[name]) = SaidSoFar(name)

LEMMA SaidOne ==
    \A name, pair : pair \in SaidSoFar(name) <=>
        \E k \in 1..3, i \in 1..Listed : Summarized(k, i) /\ pair \in Says(k, i, name)
<1>1. \A k, name, pair : pair \in SaidBy(k, name) <=>
         \E i \in 1..Listed : Summarized(k, i) /\ pair \in Says(k, i, name)
  BY Zenon DEF SaidBy, SummarizedOf
<1>. QED BY <1>1, Zenon DEF SaidSoFar

LEMMA SummaryInit == ReportsInit => SummaryInv
<1>. SUFFICES ASSUME ReportsInit PROVE SummaryInv
  OBVIOUS
<1>1. /\ summary = [name \in SummaryNames |-> <<>>] /\ phase = "summary" /\ table = 1 /\ next = 1
  BY Zenon DEF ReportsInit
<1>2. <<>> \in ValueList /\ ListedOnce(<<>>) /\ Listings(<<>>) = {}
  BY DEF ValueList, ListedOnce, Listings
<1>3. \A k \in 1..3, i \in 1..Listed : ~Summarized(k, i)
  BY <1>1, ListedRange DEF Summarized
<1>4. \A name : SaidSoFar(name) = {}
  BY <1>3, SaidOne, Zenon
<1>. QED BY <1>1, <1>2, <1>4, Zenon DEF SummaryInv

\* A step that leaves the Summary, and what has been summarized.
LEMMA SummaryKept ==
    ASSUME SummaryInv, UNCHANGED <<files, summary>>,
           \A k \in 1..3, i \in 1..Listed : Summarized(k, i)' <=> Summarized(k, i)
    PROVE  SummaryInv'
<1>1. \A k, i, name : Says(k, i, name)' = Says(k, i, name)
  BY DEF Says, Readable, ReportOf
<1>2. \A name : SaidSoFar(name)' = SaidSoFar(name)
  <2>. SUFFICES ASSUME NEW name PROVE SaidSoFar(name)' = SaidSoFar(name)
    OBVIOUS
  <2>1. ASSUME NEW k \in 1..3 PROVE SaidBy(k, name)' = SaidBy(k, name)
    <3>1. SummarizedOf(k)' = SummarizedOf(k)
      BY DEF SummarizedOf
    <3>. QED BY <1>1, <3>1, Zenon DEF SaidBy
  <2>. QED BY <2>1, Zenon DEF SaidSoFar
<1>. QED BY <1>2 DEF SummaryInv

LEMMA SummaryOfReport ==
    ASSUME ReadInv, SummaryInv, SummarizeReport
    PROVE  SummaryInv'
<1>1. /\ UNCHANGED <<files, phase, table>> /\ next' = next + 1 /\ phase = "summary"
      /\ summary' = (IF Readable(T, next) THEN AddRow(summary, T, ReportOf(T, next)) ELSE summary)
      /\ table \in 1..3 /\ next \in 1..Listed
  BY DEF SummarizeReport, ReadInv
<1>2. \A k, i, name : Says(k, i, name)' = Says(k, i, name)
  BY <1>1 DEF Says, Readable, ReportOf
<1>3. \A k \in 1..3, i \in 1..Listed :
         Summarized(k, i)' <=> Summarized(k, i) \/ (k = table /\ i = next)
  BY <1>1, ListedRange DEF Summarized
<1>4. \A name : SaidSoFar(name)' = SaidSoFar(name) \cup Says(table, next, name)
  <2>. SUFFICES ASSUME NEW name, NEW pair
                PROVE  pair \in SaidSoFar(name)' <=>
                           pair \in SaidSoFar(name) \/ pair \in Says(table, next, name)
    OBVIOUS
  <2>1. pair \in SaidSoFar(name)' <=>
           \E k \in 1..3, i \in 1..Listed : Summarized(k, i)' /\ pair \in Says(k, i, name)
    <3>1. \A k : pair \in SaidBy(k, name)' <=>
             \E i \in 1..Listed : Summarized(k, i)' /\ pair \in Says(k, i, name)
      BY <1>2, Zenon DEF SaidBy, SummarizedOf
    <3>. QED BY <3>1, Zenon DEF SaidSoFar
  <2>. QED BY <1>1, <1>3, <2>1, SaidOne, Zenon
<1>. DEFINE report == ReportOf(T, next)
<1>5. CASE ~Readable(T, next) \/ report.skipped
  <2>1. summary' = summary
    BY <1>1, <1>5, Zenon DEF AddRow
  <2>2. \A name : Says(table, next, name) = {}
    BY <1>5, Zenon DEF Says, T
  <2>. QED BY <1>4, <2>1, <2>2 DEF SummaryInv
<1>6. CASE Readable(T, next) /\ ~report.skipped
  <2>1. report.conns \in Int /\ report.framework = FrameworkList[next]
        /\ FrameworkList[next] \in FrameworkNames
    <3>1. T \in ToSet(Tables)
      BY TableNamed, TableSet DEF ReadInv, T
    <3>2. WellFormed(files[T][next])
      BY <1>1, <1>6, <3>1, ReportsAssumption DEF ReadInv, Readable
    <3>3. next \in DOMAIN FrameworkList
      BY <1>1, ListedRange, ListIsLong
    <3>4. FrameworkList[next] \in FrameworkNames
      BY <3>3, Zenon DEF FrameworkNames, ToSet
    <3>. QED BY <3>2, <3>4, Zenon DEF WellFormed, ReportOf
  <2>. DEFINE f == FrameworkList[next]
              added(name) == AddSummaryValue(summary[name], ParamValue(report, name), f)
  <2>2. summary' = [name \in SummaryNames |->
                       IF name \in ParamsOf(T) THEN added(name) ELSE summary[name]]
    BY <1>1, <1>6, <2>1, Zenon DEF AddRow
  <2>3. \A name : Says(table, next, name)
                      = IF name \in ParamsOf(T) THEN {<<ParamValue(report, name), f>>} ELSE {}
    BY <1>6, Zenon DEF Says, T
  <2>4. \A name : ParamValue(report, name) \in Int
    BY <2>1 DEF ParamValue
  <2>. HIDE DEF report, f
  <2>5. ASSUME NEW name \in SummaryNames
        PROVE  /\ summary'[name] \in ValueList /\ ListedOnce(summary'[name])
               /\ Listings(summary'[name]) = Listings(summary[name]) \cup Says(table, next, name)
    <3>1. summary[name] \in ValueList /\ ListedOnce(summary[name])
      BY DEF SummaryInv
    <3>2. CASE name \in ParamsOf(T)
      <4>1. summary'[name] = added(name)
        BY <2>2, <3>2, Zenon
      <4>2. f \in FrameworkNames
        BY <2>1, Zenon DEF f
      <4>3. Says(table, next, name) = {<<ParamValue(report, name), f>>}
        BY <2>3, <3>2, Zenon
      <4>4. /\ added(name) \in ValueList /\ ListedOnce(added(name))
            /\ Listings(added(name))
                   = Listings(summary[name]) \cup {<<ParamValue(report, name), f>>}
        BY <2>4, <3>1, <4>2, SummaryValueAdded, Zenon
      <4>. QED BY <4>1, <4>3, <4>4, Zenon
    <3>3. CASE name \notin ParamsOf(T)
      <4>1. summary'[name] = summary[name] /\ Says(table, next, name) = {}
        BY <2>2, <2>3, <3>3, Zenon
      <4>. QED BY <3>1, <4>1
    <3>. QED BY <3>2, <3>3
  <2>6. \A name \in SummaryNames : Listings(summary[name]) = SaidSoFar(name)
    BY Zenon DEF SummaryInv
  <2>7. summary' \in [SummaryNames -> ValueList]
    <3>1. DOMAIN summary' = SummaryNames /\ summary' = [name \in SummaryNames |-> summary'[name]]
      BY <2>2, Zenon
    <3>. QED BY <2>5, <3>1, Zenon
  <2>8. ASSUME NEW name \in SummaryNames
        PROVE  ListedOnce(summary'[name]) /\ Listings(summary'[name]) = SaidSoFar(name)'
    BY <1>4, <2>5, <2>6, <2>8, Zenon
  <2>9. \A name \in SummaryNames :
           ListedOnce(summary[name])' /\ Listings(summary[name])' = SaidSoFar(name)'
    BY <2>8, Zenon DEF ListedOnce, Listings
  <2>. QED BY <2>7, <2>9, Zenon DEF SummaryInv
<1>. QED BY <1>5, <1>6

LEMMA SummaryNext ==
    ASSUME ReadInv, SummaryInv, [ReportsNext]_reportsVars
    PROVE  SummaryInv'
<1>1. CASE SummarizeReport
  BY <1>1, SummaryOfReport
<1>2. CASE SummarizeNext
  <2>1. /\ UNCHANGED <<files, summary>> /\ phase = "summary" /\ next > Listed /\ next' = 1
        /\ \/ table < 3 /\ table' = table + 1 /\ phase' = phase
           \/ table = 3 /\ phase' = "read"
        /\ table \in 1..3 /\ next \in 1..(Listed + 1)
    BY <1>2, TableSet DEF SummarizeNext, ReadInv
  <2>2. \A k \in 1..3, i \in 1..Listed : Summarized(k, i)' <=> Summarized(k, i)
    BY <2>1, ListedRange DEF Summarized
  <2>. QED BY <2>1, <2>2, SummaryKept
<1>3. CASE ReadReport \/ EndRead \/ SortStep \/ Fields \/ NextTable
  <2>1. UNCHANGED <<files, summary>> /\ phase # "summary" /\ phase' # "summary"
    BY <1>3 DEF ReadReport, EndRead, SortStep, Fields, NextTable
  <2>2. \A k \in 1..3, i \in 1..Listed : Summarized(k, i)' <=> Summarized(k, i)
    BY <2>1 DEF Summarized
  <2>. QED BY <2>1, <2>2, SummaryKept
<1>4. CASE UNCHANGED reportsVars
  <2>1. UNCHANGED <<files, summary, phase, table, next>>
    BY <1>4 DEF reportsVars
  <2>2. \A k \in 1..3, i \in 1..Listed : Summarized(k, i)' <=> Summarized(k, i)
    BY <2>1 DEF Summarized
  <2>. QED BY <2>1, <2>2, SummaryKept
<1>. QED BY <1>1, <1>2, <1>3, <1>4 DEF ReportsNext, AllWritten

LEMMA SummaryAlways == ReportsSpec => []SummaryInv
<1>1. ReadInv /\ RankInv /\ SummaryInv /\ [ReportsNext]_reportsVars => SummaryInv'
  BY SummaryNext
<1>. QED BY RanksAlways, SummaryInit, <1>1, PTL DEF ReportsSpec

\* When all tables have been gone through, the Summary has every value of every
\* parameter, once, with each framework whose row says it, once
\* (SummaryComplete of Reports).
THEOREM SummaryIsComplete == ReportsSpec => []SummaryComplete
<1>1. SummaryInv => SummaryComplete
  <2>. SUFFICES ASSUME SummaryInv, phase # "summary", NEW name \in SummaryNames
                PROVE  /\ Said(name) = Listings(summary[name])
                       /\ ListedOnce(summary[name])
    BY Zenon DEF SummaryComplete, Listings, ListedOnce
  <2>1. \A k, i : Summarized(k, i)
    BY DEF Summarized
  <2>2. \A pair : pair \in SaidSoFar(name) <=>
                      \E k \in 1..3, i \in 1..Listed : pair \in Says(k, i, name)
    BY <2>1, SaidOne, Zenon
  <2>3. \A k, pair : (\E i \in 1..Listed : pair \in Says(k, i, name)) <=>
                         name \in ParamsOf(Tables[k]) /\ pair \in SaidIn(Tables[k], name)
    BY Zenon DEF Says, SaidIn
  <2>4. DOMAIN Tables = 1..3
    BY DEF Tables
  <2>5. \A pair : pair \in Said(name) <=>
                      \E t \in ToSet(Tables) : name \in ParamsOf(t) /\ pair \in SaidIn(t, name)
    BY Zenon DEF Said
  <2>6. \A t : t \in ToSet(Tables) <=> \E k \in 1..3 : t = Tables[k]
    BY <2>4, Zenon DEF ToSet
  <2>7. Said(name) = SaidSoFar(name)
    <3>. SUFFICES ASSUME NEW pair PROVE pair \in Said(name) <=> pair \in SaidSoFar(name)
      BY Zenon
    <3>. QED BY <2>2, <2>3, <2>5, <2>6, Zenon
  <2>. QED BY <2>7, Zenon DEF SummaryInv
<1>. QED BY SummaryAlways, <1>1, PTL
=============================================================================
