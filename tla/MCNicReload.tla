---------------------------- MODULE MCNicReload ----------------------------
(* NicReload for TLC. *)
EXTENDS NicReload

CONSTANTS c1, c2, d1, d2

MCClients == {c1, c2}
MCDaemons == {d1, d2}

MCSymmetry == Permutations(MCClients) \cup Permutations(MCDaemons)
=============================================================================
