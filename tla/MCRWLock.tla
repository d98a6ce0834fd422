------------------------------ MODULE MCRWLock ------------------------------
(* RWLock for TLC. *)
EXTENDS RWLock
=============================================================================
