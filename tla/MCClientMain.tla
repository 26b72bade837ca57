---------------------------- MODULE MCClientMain ----------------------------
EXTENDS ClientMain

CommandLine(valid, gen, rate, pipelines, profiles) ==
    [valid |-> valid, gen |-> gen, rate |-> rate, pipelines |-> pipelines, pprof |-> profiles]

OneRun(line, mode, host, isShared, leftovers, mayFail) ==
    [flags |-> line, mode |-> mode, host |-> host, shared |-> isShared, left |-> leftovers, faulty |-> mayFail]

\* A refused command line and one that generates tables; the machines on
\* which SetupPS decides differently, with the pipeline benchmark skipped; and
\* profiles of both benchmarks.
MCRuns ==
    { OneRun(CommandLine(FALSE, FALSE, FALSE, TRUE, FALSE), "auto", {"loopback"}, TRUE, {}, FALSE),
      OneRun(CommandLine(TRUE, TRUE, FALSE, TRUE, FALSE), "auto", {"loopback"}, TRUE, {}, FALSE) }
    \cup
    { OneRun(CommandLine(TRUE, FALSE, TRUE, FALSE, FALSE), m[1], m[2], m[3], m[4], TRUE) :
        m \in { <<"auto", {"loopback"}, TRUE, {}>>,
                <<"auto", {"far", "interface"}, TRUE, {2}>>,
                <<"local", {"far"}, FALSE, {}>>,
                <<"local", {}, FALSE, {1, 2}>>,
                <<"remote", {"loopback"}, TRUE, {}>> } }
    \cup
    { OneRun(CommandLine(TRUE, FALSE, TRUE, TRUE, TRUE), "auto", {"loopback"}, TRUE, {}, FALSE) }

MCHereAddrs == {"loopback", "interface"}
=============================================================================
