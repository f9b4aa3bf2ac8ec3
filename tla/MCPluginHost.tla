--------------------------- MODULE MCPluginHost ---------------------------
(* Bounds for the model checker: two callers make three calls, so that one *)
(* of them is made when others have ended; each pipe holds one line.       *)
EXTENDS PluginHost
=============================================================================
