------------------------------ MODULE FileCopy ------------------------------
(***************************************************************************)
(* What a put promises: the entries of the list reach the other side one   *)
(* by one, in the order of the list, each one whole, and none that has     *)
(* been stored is lost again.                                              *)
(***************************************************************************)
EXTENDS Naturals

CONSTANT N          \* entries in the list, numbered 0 .. N-1

VARIABLE copied     \* the entries the other side holds as the sender does

CopyInit == copied = {}

Copy(i) ==
    /\ \A j \in 0 .. i - 1 : j \in copied
    /\ copied' = copied \union {i}

CopyNext == \E i \in 0 .. N - 1 : Copy(i)

CopySpec == CopyInit /\ [][CopyNext]_copied
=============================================================================
