----------------------------- MODULE MCUpdates -----------------------------
(* Bounds for the model checker: three saves of a module that accepts      *)
(* updates and of index.html, and one page, which the watcher serves as it *)
(* serves every other; a buffer of one frame fills up at the second event. *)
EXTENDS Updates
=============================================================================
