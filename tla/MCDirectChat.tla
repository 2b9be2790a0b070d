---------------------------- MODULE MCDirectChat ----------------------------
(* DirectChat on a small instance; see the .cfg file. *)
EXTENDS DirectChat

CONSTANTS alice, bob

MCUsers == {alice, bob}
Symmetry == Permutations(MCUsers)
=============================================================================
