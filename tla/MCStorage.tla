----------------------------- MODULE MCStorage -----------------------------
(* Storage on a small instance; see the .cfg files. *)
EXTENDS Storage, TLC

CONSTANTS alice, bob, chat, data1, data2

MCUsers == {alice, bob}
MCHashes == {data1, data2}
MCSize == [h \in MCHashes |-> 2]

\* Bound: one upload with a wrong size is under way at a time.  Neither it nor what it left
\* in the index meets a removed user, an excused file or a rejected call.  It cannot be
\* completed, so that its accessors make no difference.
FewWrongSizes ==
    LET wrong == {f \in bucket.pending : f.size # Size[f.hash]}
    IN  wrong # {} \/ misled # {} =>
            /\ Cardinality(wrong) <= 1
            /\ excused \cup removed = {}
            /\ rejections = 0
            /\ \A f \in wrong : f.accessors = {}
Symmetry == Permutations(MCUsers) \cup Permutations(MCHashes)
=============================================================================
