---------------------------- MODULE MCCommunity ----------------------------
(* Community on a small instance; see the .cfg files. *)
EXTENDS Community

CONSTANTS creator, u1, u2

MCUsers == {creator, u1, u2}
MCOwners == {creator, u1}
=============================================================================
