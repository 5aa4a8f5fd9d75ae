----------------------------- MODULE MCLimiter -----------------------------
(* Model-checking instances of MemoryLimiter. *)
EXTENDS MemoryLimiter, TLC

Interchangeable == Permutations(IPs)
=============================================================================
