---------------------------- MODULE EventDelivery ----------------------------
(***************************************************************************)
(* What a canister may expect of the events it pushes to other canisters:  *)
(* each canister receives all of its events, once each and in the order in *)
(* which they were pushed, in portions of any size.                        *)
(***************************************************************************)
EXTENDS Naturals

CONSTANTS Canisters, MaxEvents

VARIABLES
    pushed,    \* how many events were pushed for each canister
    received   \* how many of them, the oldest ones, it has received

Init ==
    /\ pushed = [c \in Canisters |-> 0]
    /\ received = [c \in Canisters |-> 0]

\* Events may be pushed for several canisters at once, and several for one.
Push ==
    /\ pushed' \in [Canisters -> 0 .. MaxEvents]
    /\ \A c \in Canisters : pushed[c] <= pushed'[c]
    /\ UNCHANGED received

Receive(c) ==
    /\ \E n \in received[c] + 1 .. pushed[c] : received' = [received EXCEPT ![c] = n]
    /\ UNCHANGED pushed

Next == Push \/ \E c \in Canisters : Receive(c)

Fairness == \A c \in Canisters : WF_<<pushed, received>>(Receive(c))
Safety == Init /\ [][Next]_<<pushed, received>>
Spec == Safety /\ Fairness
=============================================================================
