------------------------------- MODULE MCSeed -------------------------------
(* Model-checking instances of Seed. *)
EXTENDS Seed, TLC

Interchangeable == Permutations(Procs)
=============================================================================
