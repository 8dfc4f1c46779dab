--------------------------- MODULE MCNicResolver ---------------------------
(* NicResolver for TLC. *)
EXTENDS NicResolver, TLC

CONSTANTS s4, s6, n, a, b

MCStaticLists == {{}, {n}}
MCLeaseLists == {{}, {a}, {b}}
MCSymmetry == Permutations({s4, s6}) \cup Permutations({a, b})
=============================================================================
