------------------------------- MODULE MCPool -------------------------------
(* Bounds for the model checker: with two compilers and three callers one  *)
(* of them queues; two owners close the pool twice.                        *)
EXTENDS Pool
=============================================================================
