--------------------------- MODULE MCGroupPrizes ---------------------------
(* GroupPrizes on small instances; see the .cfg files. *)
EXTENDS GroupPrizes, TLC

CONSTANTS p1, u1, u2, alice

MCPrizes1 == {p1}
MCUsers2 == {u1, u2}
EarlyOrLateEnd == {2, 3}
NoTTL == {}
ShortTTL == {1}
Symmetry == Permutations({u1, u2})
=============================================================================
