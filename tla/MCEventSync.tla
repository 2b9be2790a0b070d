---------------------------- MODULE MCEventSync ----------------------------
(* EventSync on small instances; see the .cfg files. *)
EXTENDS EventSync

CONSTANTS c1, c2, c3

MCCanisters2 == {c1, c2}
MCCanisters3 == {c1, c2, c3}
Symmetry == Permutations(MCCanisters3)
=============================================================================
