-------------------------- MODULE MCChannelUpdate --------------------------
(* Small instances of ChannelUpdate for TLC. *)
EXTENDS ChannelUpdate, TLC

SessionSymmetry == Permutations(Sessions)

\* Every handler that slips through the lock lowers cnt: it is bounded from below.
CONSTANT MaxDebt
CntBound == cnt >= -MaxDebt
=============================================================================
