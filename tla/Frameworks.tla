----------------------------- MODULE Frameworks -----------------------------
(***************************************************************************)
(* What the program knows of the frameworks it compares                    *)
(* (src/config/config.go), and what the main of each Go server does with   *)
(* its ports and with a request (server.go of each, under src/frameworks). *)
(* Constant definitions only: Exchange runs a server's echo handler,       *)
(* BenchRun its start and its end, Reports ranks the rows.                 *)
(***************************************************************************)
EXTENDS Integers, Sequences

\* In framework-name order, which is the row order of -sort=framework.
FrameworkList ==
    <<"axum", "beego", "chi", "echo", "fasthttp", "fib", "fiber", "gin", "goji",
      "gorillamux", "hertz", "httprouter", "nbio", "nethttp", "workflow">>

FrameworkNames == {FrameworkList[i] : i \in DOMAIN FrameworkList}

\* The first benchmark port of each framework's block of a hundred.
FirstPort ==
    [fasthttp |-> 10001, fib |-> 10101, gin |-> 10201, nethttp |-> 10301, axum |-> 10401,
     beego |-> 10501, chi |-> 10601, echo |-> 10701, fiber |-> 10801, goji |-> 10901,
     gorillamux |-> 11001, httprouter |-> 11101, hertz |-> 11201, workflow |-> 11301,
     nbio |-> 11401]

\* GetFrameworkBenchmarkPorts, for a framework that has ports.
BenchmarkPorts(f) == FirstPort[f]..(FirstPort[f] + 49)

\* frameworkControlPort: the one after the last benchmark port.
ControlPort(f) == FirstPort[f] + 50

\* No server opens a port of another's, so a server that is still running is
\* in the way of its own framework's next server only.
ASSUME PortBlocksApart ==
    \A f, g \in FrameworkNames :
        f # g => (BenchmarkPorts(f) \cup {ControlPort(f)})
                     \cap (BenchmarkPorts(g) \cup {ControlPort(g)}) = {}

Langs == [f \in FrameworkNames |->
             CASE f = "axum" -> "rust" [] f = "workflow" -> "c++" [] OTHER -> "go"]

FrameworkLang(f) == IF f \in DOMAIN Langs THEN Langs[f] ELSE "-"

\* Only the Go servers serve /debug/pprof/.
HasPprof(f) == FrameworkLang(f) = "go"

NoPipeline == {"workflow"}

SupportsPipeline(f) == f \notin NoPipeline

-----------------------------------------------------------------------------
(* The Go servers.  Each main parses the flags, starts the control server   *)
(* and serves the benchmark ports until a signal:                           *)
(*   binds    "each": frameworks.ListenAll, one listener after the other;   *)
(*            "engine": one engine is bound to all of them.                 *)
(*   servers  "port": an http.Server, or a hertz engine, per port;          *)
(*            "one": one for all.                                           *)
(*   body     the buffer a request's body is in: one of frameworks.BodyPool *)
(*            ("pool") or the engine's own ("engine").                      *)
(*   copies   whether the handler's response has a copy of the body, or     *)
(*            refers to the buffer until it has been written.               *)

\* ServeNetHTTP, with frameworks.Echo or the same in the framework's terms.
OnNetHTTP == [binds |-> "each", servers |-> "port", body |-> "pool", copies |-> TRUE]

Beego      == OnNetHTTP
Chi        == OnNetHTTP
EchoServer == OnNetHTTP
Gin        == OnNetHTTP
Goji       == OnNetHTTP
GorillaMux == OnNetHTTP
HTTPRouter == OnNetHTTP
NetHTTP    == OnNetHTTP

\* SetBody copies; one fasthttp.Server serves every listener.
Fasthttp == [binds |-> "each", servers |-> "one", body |-> "engine", copies |-> TRUE]

\* Send does not copy: fasthttp keeps the request until the response is written.
Fiber == [binds |-> "each", servers |-> "one", body |-> "engine", copies |-> FALSE]

\* Data copies; an engine per listener, on listeners without the wrapper.
Hertz == [binds |-> "each", servers |-> "port", body |-> "engine", copies |-> TRUE]

\* frameworks.Echo on an engine bound to every port.
NBIO == [binds |-> "engine", servers |-> "one", body |-> "pool", copies |-> TRUE]

\* Mutant of Fib: the response refers to the pooled buffer.
FibAliases == [binds |-> "engine", servers |-> "one", body |-> "pool", copies |-> FALSE]

\* Respond copies, so the buffer goes back when the handler returns, which
\* may be before the engine has written the response.
Fib == [binds |-> "engine", servers |-> "one", body |-> "pool", copies |-> TRUE]

GoServers ==
    [beego |-> Beego, chi |-> Chi, echo |-> EchoServer, fasthttp |-> Fasthttp, fib |-> Fib,
     fiber |-> Fiber, gin |-> Gin, goji |-> Goji, gorillamux |-> GorillaMux, hertz |-> Hertz,
     httprouter |-> HTTPRouter, nbio |-> NBIO, nethttp |-> NetHTTP]
=============================================================================
