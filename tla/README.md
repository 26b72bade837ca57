# go-http-benchmark in TLA+

This directory models go-http-benchmark: the Go client with its benchmarks, its
sampling and its reports, what the Go servers do with a request, and the script
that runs one server after the other. TLC checks the models, and TLAPS proves
part of what is checked. Paths below are relative to the repository's root.

## The system

A run starts one HTTP server at a time (fifteen frameworks, each in a process of
its own), points a client at it, and writes what the client measured to report
files, which a last step turns into tables. There are two clients, in Go and in
Rust, which are meant to measure the same thing the same way.

| component | state | operations | talks to |
| --- | --- | --- | --- |
| `Connections` (benchcli-go/connections) | connections made, `serverIdx`, Calculator's counters | `doOnce` (dial, one GET, retry), `Redial` | server; hands its `Conn`s to the two benchmarks after it |
| `BenchEcho` (benchcli-go/benchecho) | channel `chConns`, `Conn.Broken`, counters | `doOnce` by `Concurrency` workers, warmup, benchmark | server, `Conn.Redial`, limiter |
| `BenchRate` (benchcli-go/benchrate), reported as BenchPipeline | `sendCnt`/`recvCnt` per connection, five shared counters, `done` | writers per team, a reader per connection, grace period, snapshot | server, `Conn.Redial`, limiter |
| batches (benchcli-go/protocol) | none | `BatchBuffers`, `PipelineBuffers`, `ValidatePipeline` | `BenchRate.init` |
| limits (`-el`, `-rl`) | token bucket; `Limiter.next` in Rust | `limitFn`, `Limiter::wait` | every worker and writer |
| response reader (benchcli-go/protocol) | position on a stream | `ReadResponse`, `DiscardResponse` | every benchmark |
| main (benchcli-go/client.go) | phases, pprof callbacks | the three benchmarks in order | all of the above, sampling, reports |
| reports (benchcli-go/report) | files | sorting, Summary, tables | main, `script/report.sh` |
| control requests (config/config.go) | none | `/init`, `/ps` with retries | control routes of the server |
| sampling (config/localps.go, pssource.go) | samples, goroutine | `SetupPS`, `StartLocalPSSampler`, `PsInfo`, `Stop` | main, reports |
| control routes and echo (frameworks/handlers.go) | `psStarted`, samples, `BodyPool` | `/init`, `/ps`, `/echo` | clients |
| axum, workflow servers | as above, in Rust and C++ | as above | clients |
| Rust client (benchcli-rust) | as the Go client's | as the Go client's, with tasks that own their connections | as the Go client |
| scripts | server processes | start, wait for ports, run client, stop | servers, clients |

What is hard in it:

- BenchPipeline is three kinds of goroutines on shared counters without a lock:
  a writer checks how far its connection's reader has got while the reader goes
  on; Run decides from one counter that another is complete, takes a snapshot
  of two counters with two loads, and puts it back.
- A failed request leaves a stream at an unknown point. One flag, `Broken`,
  carries that from the goroutine that saw it to the one that has the
  connection next, across phases.
- Everything blocks on something: a put on a channel's room, a read on a server,
  a write on a server that reads, `Wait` on all of them.
- A failure half way: part of a batch written, a redial that closed the old
  socket and has no new one, a dial retried at another address.
- Rates: a batch has to divide a rate exactly, and a limit has to be the rate
  its flag says, after the first second too.
- A request whose answer is lost may have been served, or be served later: the
  client's retries of `/init` meet a server that already samples itself.
- Nothing stops a pprof callback of one benchmark from ending in the next, while
  main builds a report from what the callback writes.
- A buffer that a request's body was read into is handed to another handler
  while the first response may not be written yet.
- Servers come up, crash and go down on their own beside a script that polls.

The hazards are listed one by one, with their lines, in `PROJECT.json`, each with
the properties that would catch it going wrong.

## The modules

| module | models | checked by run |
| --- | --- | --- |
| `BenchRate` | BenchPipeline of the Go client | `rate_flow`, `rate_live` |
| `BenchEcho` | BenchEcho of the Go client, with `Redial` | `echo` |
| `ConnPool` | abstract: what the channel of connections promises | `echo` (`ImplementsPool`) |
| `Connections` | the dial phase of the Go client | `conns` |
| `Pipelining` | batch and tick rate | `pipelining` |
| `GoLimiter`, `MCGoLimiter` | `-el` and `-rl` of the Go client | `golimit`, `golimit_usage` |
| `RustLimiter`, `MCRustLimiter` | the same flags of the Rust client | `rustlimit` |
| `Sampling` | whose CPU samples a run gets: `SetupPS`, the sampler, control requests, `/init`, `/ps` | `client` |
| `ClientMain`, `MCClientMain` | main of the Go client, on top of `Sampling` | `client` |
| `ResponseReader` | `readResponse`, as operators | `exchange` |
| `Frameworks` | frameworks, ports, languages; what each Go server's main and handler do | `exchange`, `bench`, `reports` |
| `Exchange`, `MCExchange` | echo handlers and their buffers against the reader | `exchange` |
| `Reports`, `MCReports` | the tables made from report files | `reports` |
| `BenchRun`, `MCBenchRun` | a run's servers, started and stopped by the scripts | `bench` |

`BenchRateProofs`, `BenchEchoProofs`, `ConnectionsProofs`, `GoLimiterProofs`,
`RustLimiterProofs` and `ClientMainProofs` hold the theorems about the module of
their name (`ClientMainProofs` about `Sampling`, too), `ProtocolProofs` those
about `Pipelining` and `Exchange`, which are both about benchcli-go/protocol, and
`RunProofs` those about `BenchRun` and `Reports`, a run and what is made of it.

The modules meet where the components do: `ClientMain` takes a benchmark for one
step, which `BenchEcho` and `BenchRate` describe; they take a response for one
step, good, bad or malformed, which is `ResponseReader`'s result; `BenchRun`
takes the client for its exit status, which is `ClientMain`'s, or for one that
does not end, as `ClientMain`'s may not.

### BenchRate

`pc` is where `Run` is: preparing the connections (`Include` and `LeaveOut` are
the two ends of the redial loop), waiting for the writers, in the grace loop
(`GraceCheck` at its condition, `GracePoll` and `GraceExpires` for the two
cases of its select), loading the two counters, setting the read deadlines,
waiting for the readers. `wpc[t]` is where the writer of team `t` is: in its
select, at the in-flight check of connection `at[t]`, or in `Write`. `rpc[p]` is
where the reader of connection `p` is: in a read, or before one of the four
adds that count a response. The adds are separate steps because `Run` and the
writers read those counters in between. The three adds after a successful
`Write` are one step because nobody reads them before the writers have ended,
except the writer itself.

A request is a unit on a wire: `toServer[p]` and `toClient[p]` count what is on
its way. `Write` moves the requests of a batch to the wire one by one and blocks
when the wire is full, so that a batch can be half written when the peer closes.
A response is good or bad (`CountAnswered`), or malformed. Payload bytes are not
modelled; `recvBytes` is counted in bodies.

Time is not modelled. A ticker may fire whenever its writer is in its select, the
duration may be up, and the grace timer may fire at any moment after they have
started, so every order of timers and goroutines is explored.

### BenchEcho and ConnPool

perf's Calculator is outside the repository; it is modelled as what `Warmup` and
`Benchmark` use it for: workers make calls until `left` is used up, and the
phase ends when all calls have ended. A worker holds a connection from
`TakeConn` to `PutConn`; the deferred put is part of every return. `Redial` is
two steps, the close of the old socket and the dial's result, since a dial can
fail in between. `ConnPool` says what a worker may rely on, with no channel and
no flag in it: one owner per connection, and a request only on a stream with
nothing of an earlier request on it. The refinement maps a connection's owners
to its holders, and `pending` to what is on the wire in both directions.

### Connections

A call of `doOnce` picks the next address, dials, sends a GET, and tries again
while it has tries left. `sockets` counts the client's open sockets, which the
code has no variable for.

### Pipelining

`BenchRate.init`'s choice of batch and tick rate, the loop of `BatchBuffers` one
step per iteration, so that it is proved about as a state machine and needs no
recursion.

### GoLimiter and RustLimiter

golang.org/x/time/rate is external and modelled as it is called: a bucket that
starts full with `Limit` tokens and gains one a second, since that is what
`rate.Every(1*time.Second)` says. Time is in seconds there, and in the time one
request is given in the Rust client, whose `Limiter` is in the repository.

### Sampling and ClientMain

`pc` is where main is, and the requests of `SetupPS` and `PsInfo` are made from
there: `Send` is an attempt of `/init`, `InitFails` its time-out or reset. An
attempt is `sent` until the server serves it, which it may do after the client
gave it up and sent the next one, or never. `ServeInit` is the
compare-and-swap and the answer, `StartCounter` the goroutine it leaves behind,
which resets the counter. The client's sampler goroutine is `sampler`: in
`PercentWithContext`, about to append, or done. A process table is the set of
processes of the server's name: the server's own if the client shares its table,
and leftovers of earlier runs; a leftover may have the number that the server
has in a table of its own. A host is the set of addresses it resolves to.

`ClientMain` adds the flags, the reports and the files. `SetPprofData` is two
assignments of a slice of several words without a lock, so it is four steps, in
which a reader finds the old slice, an empty one or the new one. The server
takes one CPU profile at a time; `serving` says which benchmarks ran while it
did, which is what a saved profile is compared with. A report file is `old`,
`new` or `damaged`.

### ResponseReader, Frameworks and Exchange

A stream is a sequence of lines, which are what `readLine` and its callers make
of them (a status, one of the two headers, another, a chunk's size, a blank one,
a bad one), and of pieces of body. `readChunked` is a recursive function over
the position and the total.

`Frameworks` says of each Go server whether it binds its ports one by one or
with one engine, whether it closes them one by one, whose buffer a body is in
and whether the response copies it. `Exchange` runs that handler, a buffer taken
from the pool, the body read, a response made, the buffer returned, the response
written, in every order the engine can have, for every server; and the reader
against it, with requests pipelined as `BenchRate` does it. `OtherServer`
answers what the reader is written for and no server here sends.

### Reports

A step per file summarized, per file read, per row inserted by the sort, and per
table: `SummarizeReport` and `SummarizeNext` are `GenerateSummary`;
`ReadReport`, `EndRead`, `SortStep`, `Fields` and `NextTable` are `ReadReports`
and `Markdown`, for one table after the other. Nothing runs beside them; the
steps are there so that what a loop leaves behind is an invariant. `Runs` are
the sets of files there may be: missing, damaged, or with numbers for results
(`ReportsAssumption`). The types' fields are written out with their tags, so
that columns, rank columns and parameters come from the same lists as in the
code. A result is an integer and a share a quotient floored with a slack of
`1/SlackInverse`; the code has floats and 1e-9. `sort.SliceStable` is an
insertion sort on as few rows as there are frameworks.

### BenchRun

`pc`, `port` and `waited` are the shell's; a server goes from fork to `starting`,
`listening`, `up`, `told`, `closed` and `gone`, and may exit, or crash, from any
of them. Two things are taken from the code's comments: a fork has exec'd after the
first second (env.sh:166), and a SIGINT that arrives before `signal.Notify` is
ignored, as it is in a command started in the background. The control server's
goroutine listens whenever it gets to run, up to the process's end. A framework
has `failed` if its server was not started or its client did not exit with 0,
which is all the script looks at. Servers left by an
earlier run are not modelled.

## What the runs show

| run | bounds | shows |
| --- | --- | --- |
| `rate_flow` | 1 connection, batches of 2, 6 ticks, 9 requests a direction | `InFlightBound`: never five batches unanswered; `ReceivedBound`: a report has at most the written part of a failed batch too much |
| `rate_live` | 2 connections, 1 team, single requests, 2 ticks | `SnapshotSkew`, `ReportFrozen`, `SnapshotLosesOnePerReader`: what the snapshot is and that nothing moves it; `RunReturns` |
| `echo` | 2 workers, 2 connections, 2 + 3 calls, every fault | connections conserved, puts that never block, streams aligned unless broken, no use after close, every call counted, the refinement of `ConnPool`, and termination |
| `conns` | 2 workers, 5 connections, 3 addresses, 2 tries | no leaked socket, calls counted once, even spread, termination |
| `pipelining` | sizes to 4, rates to 12, buffers to 30, depths to 4 | the rate is met exactly by the largest batch that fits |
| `golimit` | 4 goroutines, limit 3, calls of 1, 2 and 4, 5 seconds | the bucket's upper bound |
| `rustlimit` | 4 tasks, calls of 1 and 2, 5 units | upper bound, even spacing, no wait beyond the others' share |
| `client` | 2 attempts, 2 errors to give up, 1 sample each, 2 process ids, 1 failed write; 8 command lines and machines | `SamplesKept`, `SamplesTheServer`, `NoSamplesMissed`, `NoSampleAfterStop`: the samples are the server's, all of them; `NoRowMissing`, `ProfileOfItsBenchmark`: each file is of its benchmark and this run; `RunEnds`: only a benchmark on a server that runs can hold main |
| `exchange` | 2 connections, 2 requests on each, 2 buffers, bodies to 2 bytes, 13 servers and 10 kinds of response | `Aligned`: a response read without an error ends where the next begins; `EchoedBack`, `BuffersApart`: whatever a buffer is used for next, the body that comes back is the one sent |
| `reports` | 3 frameworks, every combination of six kinds of pipeline report, and three of echo report, with and without percentiles, in both orders | `RankedByResult`, `SharesRight`, `SummaryComplete`: each table is what a ranking, a share (100% for the best and for nothing else) and a summary are by definition |
| `bench` | 2 frameworks with fifty ports each, 2 polls to the first look, 3 to give up, 1 to the kill | `OneServerAtATime`, `ClientFindsAll`, `FailuresTold`: who runs, what is open, and what the run's status says; `RunReturns`: only a client on a server that runs can hold the script |

The bounds are chosen for the cases: six ticks of two requests fill four batches,
take the connection to one request below the limit and write the fifth batch;
nine units a direction hold all of it, so the wire is not what bounds it. Two
connections of one team are what `NextOfTeam`, a skipped connection and two
readers around one snapshot need. Two workers on two connections give a
connection that is waiting in the channel while the other fails, and five calls
make one worker meet a connection another one broke, before and after a phase
change. Three calls larger than, equal to and smaller than what the bucket
holds, and a fourth goroutine, give debts of several sleepers. Two attempts are
a retry that races with the first; one sample is taken before a report, after it
or not at all; two process ids a leftover and the server, or a leftover with the
server's number. Two requests on each of two connections give a buffer a second
user of the same and of the other connection, and a response that the reader
finds behind one that it misread. Three rows are a tie that a third splits, and
a skipped row before a bad one. Two servers are one before the other; the
ports are all there, since which of them are open is the point.

What the models say of the code that its documentation says otherwise:

- `golimit_usage` (a finding): `-el=N` gives N requests and then one a second.
- README.md:87 says four unanswered batches; the check before a write admits
  five less one request, and `InFlightBound` says no more than that.
- A write that failed half way lets the server answer requests `sendTimes` does
  not count, which can end the grace period while another connection's last
  batch is unanswered; `ReceivedBound` says how much is counted too much.
- The grace loop waits on `answered` and the report has `recvTimes`, which is
  added to later: it can miss one response per connection, and no more
  (`SnapshotLosesOnePerReader`).
- A batch larger than `-rl` is not limited at all (`Refused`).

## Fairness

`BenchRate`'s `FairSpec`: every goroutine that can run does (the Go scheduler is
preemptive), the duration's timer fires, the grace timer fires although it
competes with a poll every millisecond (strong fairness: both cases of a select
that are ready are taken in the end), and a server answers what it was sent. The
last one is not the client's to promise, and it is needed: `Write` and, before
the duration is up, reads have no deadline, so a server that stops reading hangs
the run. `BenchEcho`'s is the same, with no deadline anywhere. `Connections`
needs no server: dial, write and read are under a deadline, so a failure is
always possible in the end.

`ClientMain`'s: main and the sampler go on, since control requests have a
time-out and `PercentWithContext` returns when its context is done. A benchmark
is another matter: it reads and writes without a deadline (benchecho.go:266,
benchrate.go:295), so `BenchEnds` is fair only once the server has died, which
fails its connections. Against a server that runs and says nothing the client
hangs, and `RunEnds` leaves out that case and no other: the run ends, or it is
in a benchmark, with the server up, for ever. Nothing is assumed of a pprof
callback either, whose `httpGet` has no time-out: main does not wait for it.

`BenchRun`'s: the script goes on and a fork execs; servers may stop anywhere.
The client is run without a time-out (clients.sh:37), so `ClientEnds` is fair
only if the client has no connection or its server has died, and `RunReturns`
of `BenchRun` says that the run ends or that a client waits for ever on a server
that runs. `Exchange` and `Reports` state safety alone: the reader has no
deadline of its own, and the tables are made by a sequential program.

## What is proved

For every value of the constants that the assumptions allow (at least one
connection, no more teams or workers than connections, at least one request a
batch or call, finite sets of goroutines, no buffer called `NoBuffer`):

- `BenchRateProofs!TypeCorrect`, the type invariant.
- `BenchRateProofs!InFlightBounded`: `InFlightBound` is not inductive. The
  invariant under it (`FlowInv`) says that requests on the wire, responses in
  hand and in the reader, and the counters of one connection add up: what is
  unanswered is at most `sendCnt - recvCnt` plus what the current write has put
  on the wire, only the writer of a connection's team is at it, and a writer
  that is past the check has less than four batches counted as unanswered,
  which stays true because readers only lower that number.
- `BenchRateProofs!ReportIsFrozen`: from the point where `Run` has returned no
  writer and no reader is left (`EndInv`), so nothing can change the counters.
- `BenchRateProofs!SnapshotIsSkewedByReaders` and `SnapshotLosesFew`: both rest
  on `CountInv`, which ties each of the four shared counters to the
  per-connection ones and to the readers that are between two of their adds
  (`ReceivedCounted`, `BytesCounted`, `AnsweredCounted`), so that the difference
  of two counters is at most the number of readers; `SnapshotTaken` carries that
  over from the load to the snapshot. The counters of connections are summed as
  the cardinality of a set of pairs, a connection and a number below its
  counter, so that one more response is one more element. `SnapshotLosesFew`
  assumes that no response is bad: `CountAnswered` counts a bad one as answered
  and not as received, which is not a loss of the snapshot.
- `BenchRateProofs!ReceivedIsBounded`: `WriteInv` says that on a connection that
  the peer closed, responses counted and still to come are less than a batch
  more than `sendCnt`, and `FlowInv` that on the others they are not more.
- `ProtocolProofs!RateIsMet` and `BatchIsLargest`: the loop invariant is that
  no larger batch that fits divides the rate.
- `ProtocolProofs!BuffersAreApart`: `BufferInv` says between which steps a
  handler of which server has a buffer (`HandlersHold`). `ResponsesEcho` needs
  two more: `CarryInv`, that what a handler holds is the body of its own
  request, in its buffer before the response is made and in the response after
  it if the server copies; and `FrameInv`, that a Go server's stream is one frame for each
  request it has served, in order, and that the client is at the start of one.
  Between them are lemmas about what `ReadResponse` makes of one frame, ended
  and cut off. `ReaderStaysAligned` follows from the same invariant, for every
  Go server. Another server may send chunked bodies, and `readChunked` recurses
  over them, so `Aligned` is only checked there.
- `BenchEchoProofs`: the invariant `EchoInv` says where a connection is (`Apart`,
  `InCall`, `Placed`: in the channel at one index, or with one worker that is
  inside a call) and what its stream carries (`ClosedIsBroken`,
  `BrokenIsRedialed`, with `AlignedUnlessBroken` and `OneInFlight`). It starts
  with every connection in the channel because an injection between finite sets
  of one size is onto. `ConnsConserved`, `StreamsAligned`, `OneRequestInFlight`
  and `NeverUsedAfterClose` follow from it at once; `PutsNeverBlock` because the
  channel misses the connection that is about to be put, so that it holds one
  less than `Conns` has; `PoolImplemented` because each step is one of
  `ConnPool`'s under the refinement mapping, or none of them. `CallsAllCounted`
  adds that calls to come, calls in a worker and calls counted are all of the
  phase's (`CallsCounted`).
- `ConnectionsProofs`: workers in a call, calls to come and calls counted add up
  to `NumConnections`, and workers waiting for a GET's answer and kept
  connections to the open sockets. `ConnsTypeCorrect` needs that a call about to dial
  has a try left. `AddrsShareEvenly` needs to know which turns of `serverIdx`
  became connections (`TurnsTaken`: kept connections and running dials have each a
  turn of their own, which gave them their address). If there are as many
  connections as turns, all turns up to `n` are among them, and `n` turns fall on
  each address `n \div NumAddrs` times or once more.
- `GoLimiterProofs!GoLimitIsKept`: the bound itself is not inductive, since a
  clock tick lets a sleeper go. The invariant is about every second to come:
  what has passed, and who will have woken by `t`, is at most the limit plus
  `t`. A caller that reserves keeps it because what passed, what is inside and
  what is in the bucket never exceed the limit plus the time.
  `GoDebtIsOwed` is inductive by itself.
- `RustLimiterProofs`: the same two facts for `RustLimitIsKept`; for
  `RustAllowsLimit` its converse, again for every time to come: no more time is
  taken after `t` than the callers still waiting then need (`NoTimeWasted`).
  That also bounds `next`, which is what `RustTypeCorrect` needs.
- `ClientMainProofs`: `ServerKeepsSamples` from `CounterInv` (a counter that
  counts, or is about to, was started by an `/init` that set the flag, and not
  both at once); `ServerIsSampled` from `PidInv` (a pid that `FindServer` found
  is the only one of its name, hence the server's); `SamplesNeverMissed` from
  `SourceInv` (a run that samples alone never sent an `/init`, and until an
  attempt is sent the flag is down, so that the server has no sample);
  `StopEndsSampling` from `SamplerInv` (past `Stop` the sampler is done or was
  never started). `RowsNeverMissing` needs `RowInv`, which says for every place of main which
  reports are settled by then; it is what finds out that the skipped report is
  saved from `AfterSave` alone. `ProfilesBelong` follows data from the
  server to a file: what is being profiled (`CallbackInv`), what was taken
  (`TakenInv`), what a report was given (`ReportInv`) each cover one benchmark.
  A profile of BenchEcho may run on into the pipeline benchmark, but then its
  report has been built.
- `RunProofs`: `OneServerMeasured` from `TurnInv`, by turns: servers of later
  turns are not there, those of earlier ones are gone or were killed, and the
  script reaches the next turn only when its own is one of the two. `ClientFindsAllPorts` from `FoundInv`:
  every port below the one that is probed was open once, and a server that was
  not told to stop closes a port only by going. `FailuresAreTold` from
  `StatusInv`, which ties the shell's status to the set of failures.
- `RunProofs`, of the tables: `TablesAreRanked` from `ReadInv` and `RankInv`. The
  first says which reports the rows are while files are read and rows move; the
  second is the loop invariant of a stable insertion sort: of two rows, the one
  above is ahead if the lower one has been inserted, and of an earlier framework
  if not. A row moves up past those it is less than, and it is behind those it
  stops at because the comparison is a strict order, total but for ties
  (`AheadOrdered`), which rests on the rank fields being one or three
  (`RankedTypes`). `SharesAreRight` from `ShareInv` (the cells are what `Fields`
  makes of the rows): a column has a best, its values being finitely many
  integers (`GreatestInt`), which is one of them or 0
  (`BestKeyIsGreatest`); a floored share keeps their order (`PercentMonotone`),
  and it is 100 for a best above 0 and for nothing else (`PercentAtMost`), for
  every slack. `SummaryIsComplete` from `SummaryInv`: the Summary lists what the
  reports read so far say; `SummaryValueAdded` is the step of one value.

The proofs assume what the modules' `ASSUME`s say and nothing else; the clock's
bound `MaxTime` is a constant like the others.

`TypeCorrect` (of `BenchRate` and `BenchEcho`), `ConnsTypeCorrect`,
`GoTypeCorrect`, `RustTypeCorrect`, `OneRequestInFlight` and `GoDebtIsOwed` say
what the other theorems rest on, or little more; no run repeats them.

Only model-checked: liveness (fairness and ENABLED are out of the prover's
reach): every `RunReturns`, and `RunEnds`; and `Aligned` against a server that is
none of the repository's. Which columns a table shows (`Shown`) is a recursive
selection, of which the proofs only use that headers and cells share it. The
loops over report files, rows and listed frameworks are steps of the models for
the same reason: what they leave behind is then an invariant, and needs no
induction over data, for which the installed provers have no rule.

## What is not modelled

- Formatting and layout of logs and tables (`logging`, `table.go`, the formats
  of `parsing.go`), the parsing of lines and flags, payload bytes: there is no
  state in them that another part depends on.
- Third-party code: the frameworks behind each `server.go`, perf's Calculator and
  counter, gopsutil, Go's HTTP client and pprof. They are modelled as what the
  code in the repository uses them for, and marked external in `PROJECT.json`.
- The axum and workflow servers: their `/init` and `/ps` follow the protocol
  that `Sampling` takes from the Go servers, and the rest of them is their
  libraries'. Their ports and languages are in `Frameworks`.
- The Rust client, but for its limiter: it does what the Go client does, in the
  same phases. Two of its hazards have no property, the readers that are aborted
  and the write halves that must outlive the grace period.
- Two-node runs, in which the scripts start and stop nothing; `killall.sh`, which
  does not wait for what it kills; builds, CPU lists and Docker.
- Servers left by an earlier run, in `BenchRun`: with SO_REUSEPORT a leftover of
  the same framework would share its ports. In `Sampling` they are modelled, since
  `FindServerProcess` looks for them.
- Memory samples, which are appended with the CPU samples and read with them.
