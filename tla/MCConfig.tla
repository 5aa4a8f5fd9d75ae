------------------------------ MODULE MCConfig ------------------------------
(* Model-checking instances of Config. *)
EXTENDS Config

\* Negative, zero and positive, whole and not, in halves.
Halves == {-2, -1, 0, 1, 2, 60}
=============================================================================
