----------------------------- MODULE MCCoroutine -----------------------------
(* Small instance of Coroutine: two jobs and a vector that is reallocated   *)
(* twice while routines are suspended.                                      *)
EXTENDS Coroutine
=============================================================================
