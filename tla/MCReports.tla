------------------------------ MODULE MCReports ------------------------------
EXTENDS Reports

NoFile(why) == [file |-> why]

\* A report of tps by servers that cost so much CPU and memory.
Row(tps, cpu, mem, conns) ==
    [file |-> "ok", tps |-> tps, recv |-> tps, duration |-> 1, skipped |-> FALSE, conns |-> conns,
     cpuEer |-> Eer(tps, cpu), memEer |-> Eer(tps, mem)]

Skipped == [Row(0, 0, 0, 0) EXCEPT !.skipped = TRUE]

\* Written before there was a TPS.
Old == [Row(0, 1, 0, 1) EXCEPT !.recv = 4000, !.duration = 2]

\* The second of the echo rows: none, a tie, or behind on MEM EER alone.
Echoes == {NoFile("damaged"), Row(5, 1, 1, 1), Row(5, 1, 2, 2)}

\* A result just under another, a tie on TPS, one on everything, and nothing.
Rates ==
    {NoFile("missing"), Skipped, Old, Row(0, 1, 1, 1), Row(1999, 1, 1, 1), Row(2000, 2, 1, 2)}

MCRuns ==
    { [Connections |-> [i \in 1..Listed |-> Row(i, 1, 1, 1)],
       BenchEcho |-> [i \in 1..Listed |-> IF i = 2 THEN second ELSE Row(5, 1, 1, 1)],
       BenchPipeline |-> rates] :
        second \in Echoes, rates \in [1..Listed -> Rates] }
=============================================================================
