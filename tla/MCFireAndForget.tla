-------------------------- MODULE MCFireAndForget --------------------------
(* FireAndForget on small instances; see the .cfg files. *)
EXTENDS FireAndForget, TLC

CONSTANTS c1, c2

MCCanisters2 == {c1, c2}
Symmetry == Permutations(MCCanisters2)
=============================================================================
