---------------------------- MODULE MCTransport ----------------------------
(* Transport for TLC: every packet type, and three pairs of hosts.         *)
EXTENDS Transport

AllTypes == PacketTypes

AnyOrder == {<<"big", "big">>, <<"little", "little">>, <<"little", "big">>}
=============================================================================
