--------------------------- MODULE MCRustLimiter ---------------------------
(***************************************************************************)
(* RustLimiter on a small instance.  The tasks that call it can be         *)
(* exchanged for one another.                                              *)
(***************************************************************************)
EXTENDS RustLimiter, TLC

Symmetry == Permutations(Callers)

=============================================================================
