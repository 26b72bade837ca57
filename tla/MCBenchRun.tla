------------------------------ MODULE MCBenchRun ------------------------------
(* A server that opens and closes its ports one by one, and one that has an  *)
(* engine for all of them.                                                   *)
EXTENDS BenchRun

MCTurns == <<"nethttp", "fib">>
=============================================================================
