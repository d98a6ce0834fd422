----------------------------- MODULE MCCommands -----------------------------
(* Commands for TLC: lists of up to MaxItems items in packets of Batch.    *)
EXTENDS Commands
=============================================================================
