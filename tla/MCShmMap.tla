------------------------------ MODULE MCShmMap ------------------------------
(* Two forked processes on one small mapping. *)
EXTENDS ShmMap
=============================================================================
