----------------------------- MODULE MCRunLock -----------------------------
(* TLC instance of RunLock: a small set of run processes. *)
EXTENDS RunLock, TLC

Symmetry == Permutations(Proc)
=============================================================================
