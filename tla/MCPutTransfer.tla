--------------------------- MODULE MCPutTransfer ---------------------------
(* PutTransfer for TLC: two or three entries, small blocks.          *)
EXTENDS PutTransfer
=============================================================================
