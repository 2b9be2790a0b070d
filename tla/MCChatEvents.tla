---------------------------- MODULE MCChatEvents ----------------------------
(* ChatEvents on a small instance; see the .cfg files. *)
EXTENDS ChatEvents

CONSTANTS alice, bob

MCUsers == {alice, bob}
MCTTLs == {1, 2, Never}

\* Constraint: deletions matter to the pins only, and those to no thread.
DeletionsApart ==
    deleted_by # <<>> => Cardinality(DOMAIN deleted_by) = 1 /\ threads = <<>>
=============================================================================
