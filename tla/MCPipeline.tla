----------------------------- MODULE MCPipeline -----------------------------
(* Model-checking instances of HttpPipeline. *)
EXTENDS HttpPipeline
=============================================================================
