----------------------------- MODULE MCMemPool -----------------------------
(* MemPool for TLC. *)
EXTENDS MemPool
=============================================================================
