----------------------------- MODULE MCStartup -----------------------------
(* Model-checking instances of Startup. *)
EXTENDS Startup
=============================================================================
