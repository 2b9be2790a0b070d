---------------------------- MODULE CallDelivery ----------------------------
(***************************************************************************)
(* What a sender may expect of fire-and-forget calls: each call that is    *)
(* sent is carried out once, or given up for good; nothing else happens to *)
(* it, and one of the two does happen.  Nothing is promised about order.   *)
(***************************************************************************)
CONSTANT Ids

VARIABLE status

Init == status = [i \in Ids |-> "unsent"]

Send(i) == status[i] = "unsent" /\ status' = [status EXCEPT ![i] = "pending"]

Settle(i) ==
    /\ status[i] = "pending"
    /\ \E s \in {"delivered", "given_up"} : status' = [status EXCEPT ![i] = s]

Next == \E i \in Ids : Send(i) \/ Settle(i)

Fairness == \A i \in Ids : WF_status(Settle(i))
Spec == Init /\ [][Next]_status /\ Fairness
=============================================================================
