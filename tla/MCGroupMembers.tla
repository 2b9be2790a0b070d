--------------------------- MODULE MCGroupMembers ---------------------------
(* GroupMembers on small instances; see the .cfg files. *)
EXTENDS GroupMembers

CONSTANTS u1, u2, u3

MCUsers3 == {u1, u2, u3}
\* actor records what happened and steers nothing.
MCView == <<role, suspended, blocked, invited, known, count, public, frozen, pending>>
=============================================================================
