---------------------------- MODULE MCGoLimiter ----------------------------
(***************************************************************************)
(* GoLimiter on a small instance.  The goroutines that call it can be      *)
(* exchanged for one another.                                              *)
(***************************************************************************)
EXTENDS GoLimiter, TLC

Symmetry == Permutations(Callers)

=============================================================================
