------------------------------ MODULE Community ------------------------------
(***************************************************************************)
(* A public community with one channel: its members, the members of the    *)
(* channel, what they pay to join either, and who can be removed.          *)
(*                                                                         *)
(* Membership of a channel is kept twice: the channel has its members, and *)
(* each member of the community a list of channels.  Three handlers await  *)
(* another canister between their checks and their effect: a join through  *)
(* a gate, the removal of a member, and adding a member to a gated channel. *)
(* What they checked is not checked again.                                 *)
(*                                                                         *)
(* Every gate is a payment gate; a gate is its price, 0 is no gate.  Users *)
(* are not suspended, the community is not frozen and has room.            *)
(* The roles are owner and member.                                         *)
(***************************************************************************)
EXTENDS PendingPayments

CONSTANTS
    Creator,     \* the owner of the default channel
    FirstOwners, \* the owners of the community at first
    Prices,      \* what a gate may cost
    Moderators,  \* external: the users that are platform moderators at times
    MaxCalls     \* bound: calls of the community by its users

ASSUME CommunityAssumption ==
    /\ Creator \in FirstOwners /\ FirstOwners \subseteq Users /\ MaxCalls \in Nat
    /\ Prices \subseteq Nat \ {0} /\ Moderators \subseteq Users

VARIABLES
    community,  \* data: gate, members with their roles, blocked, listed, channel
    joining,    \* c2c_join_community and c2c_join_channel calls that await a gate
    removing,   \* remove_member and block_user calls that await lookup_user
    adding,     \* add_members_to_channel calls that await a gate
    calls,      \* history: how many calls there have been
    estranged,  \* history: users seen in the channel and not in the community
    unfunded    \* history: payments were queued that nobody had paid for

vars == <<community, joining, removing, adding, calls, estranged, unfunded, payments>>
handlers == <<joining, removing, adding>>

NoGate == 0
Gates == Prices \cup {NoGate}
Roles == {"None", "Member", "Owner"}
In(roles) == {u \in Users : roles[u] # "None"}
Owners(roles) == {u \in Users : roles[u] = "Owner"}

\* Data::new, and a community that has had more owners for a while: they are
\* in the default channel, which is public and free.
Init ==
    /\ PaymentsInit
    /\ \E gate \in Gates :
          community =
            [gate |-> gate, blocked |-> {}, listed |-> FirstOwners,
             roles |-> [u \in Users |-> IF u \in FirstOwners THEN "Owner" ELSE "None"],
             channel |-> [deleted |-> FALSE, public |-> TRUE, gate |-> NoGate,
                          roles |-> [u \in Users |->
                                        IF u = Creator THEN "Owner"
                                        ELSE IF u \in FirstOwners THEN "Member" ELSE "None"]]]
    /\ joining = EmptyBag /\ removing = {} /\ adding = EmptyBag
    /\ calls = 0
    /\ estranged = {} /\ unfunded = FALSE

Call == calls < MaxCalls /\ calls' = calls + 1

-----------------------------------------------------------------------------
(* Changes of the data *)

\* Channels are found by id; a deleted one is not found.
ChannelMembers(c) == IF c.channel.deleted THEN {} ELSE In(c.channel.roles)

\* join_channel_unchecked, for a member of the community
JoinedChannel(c, u) ==
    [c EXCEPT !.channel.roles[u] = IF @ = "None" THEN "Member" ELSE @,
              !.listed = @ \cup {u}]

\* join_channel_unchecked, for every member of the community
EveryoneJoined(c) ==
    [c EXCEPT !.channel.roles = [u \in Users |-> IF @[u] = "None" /\ u \in In(c.roles)
                                                 THEN "Member" ELSE @[u]],
              !.listed = @ \cup In(c.roles)]

\* is_permitted_to_join of c2c_join_channel; there are no invitations.
MayJoinChannel(c, u) ==
    /\ u \in In(c.roles) /\ ~c.channel.deleted
    /\ u \notin In(c.channel.roles) /\ c.channel.public

\* join_channel_auto
AutoJoined(c, u) ==
    IF MayJoinChannel(c, u) /\ c.channel.gate = NoGate THEN JoinedChannel(c, u) ELSE c

\* CommunityMembers::add, and the public channels
Mut_CanAdd(c, u) == u \notin In(c.roles)
CanAdd(c, u) == u \notin c.blocked \cup In(c.roles)
Unblocked(c, u, is_moderator) ==
    IF is_moderator THEN [c EXCEPT !.blocked = @ \ {u}] ELSE c
JoinedCommunity(c, u) ==
    IF CanAdd(c, u) THEN AutoJoined([c EXCEPT !.roles[u] = "Member"], u) ELSE c

\* can_leave and leave of group_chat_core
LastChannelOwner(c, u) == Owners(c.channel.roles) = {u}
CanLeaveChannel(c, u) == u \in ChannelMembers(c) /\ ~LastChannelOwner(c, u)
Mut_LeftChannel(c, u) == [c EXCEPT !.channel.roles[u] = "None"]
LeftChannel(c, u) ==
    IF CanLeaveChannel(c, u) THEN [c EXCEPT !.channel.roles[u] = "None"] ELSE c

\* CommunityMembers::remove, which forgets the member's list, and leave_all_channels
Removed(c, u) ==
    LeftChannel([c EXCEPT !.roles[u] = "None", !.listed = @ \ {u}], u)

-----------------------------------------------------------------------------
(* Joining *)

Join(user, is_moderator, wants, at, price) ==
    [user |-> user, is_moderator |-> is_moderator, wants |-> wants, at |-> at, price |-> price]

\* What the user_index may say of a user: moderators come and go.
IsModerator(u) == IF u \in Moderators THEN BOOLEAN ELSE {FALSE}

\* Payments are queued from the gate as it is now; paid is the price of the
\* gate that let the user in, NoGate if there was none.  Without owners the
\* division of the owners' share panics: see Traps.
Queue(price, paid, owners) ==
    IF price = NoGate
    THEN UNCHANGED <<pending_payments, timer_id, transfers, receipts, credited, failures, unfunded>>
    ELSE /\ QueueAccessGatePayments(price, owners)
         /\ unfunded' = (unfunded \/ price # paid)
Traps(price) == price # NoGate /\ Owners(community.roles) = {}

\* The rest of c2c_join_channel once the user is in the community.
AwaitsChannelGate(c, u, wants) ==
    wants = "channel" /\ MayJoinChannel(c, u) /\ c.channel.gate # NoGate
EntersChannel(c, u, wants) ==
    IF wants = "channel" THEN AutoJoined(c, u) ELSE c

\* join_community_impl, which unblocks a platform moderator first, and what follows up
\* to the next await
EnterCommunity(u, is_moderator, wants, paid, others) ==
    LET unblocked == Unblocked(community, u, is_moderator)
        joined == JoinedCommunity(unblocked, u)
        price == IF CanAdd(unblocked, u) THEN community.gate ELSE NoGate
    IN  /\ ~Traps(price)
        /\ community' = EntersChannel(joined, u, wants)
        /\ joining' = IF AwaitsChannelGate(joined, u, wants)
                      THEN others (+) One(Join(u, FALSE, wants, "channel", joined.channel.gate))
                      ELSE others
        /\ Queue(price, paid, Owners(joined.roles))

\* commit of c2c_join_channel; the *community's* owners are paid.
EnterChannel(u, paid, others) ==
    LET enters == u \in In(community.roles) /\ ~community.channel.deleted
        new == enters /\ u \notin In(community.channel.roles)
        price == IF new THEN community.channel.gate ELSE NoGate
    IN  /\ ~Traps(price)
        /\ community' = IF enters THEN JoinedChannel(community, u) ELSE community
        /\ joining' = others
        /\ Queue(price, paid, Owners(community.roles))

\* c2c_join_community and c2c_join_channel.  That the user is a member already
\* is not looked at before the gate, nor is whether it is blocked.
JoinStarts(u, is_moderator, wants) ==
    /\ Call
    /\ IF community.gate = NoGate
       THEN EnterCommunity(u, is_moderator, wants, NoGate, joining) /\ UNCHANGED balance
       ELSE /\ joining' = joining (+)
                  One(Join(u, is_moderator, wants, "community", community.gate))
            /\ UNCHANGED <<community, unfunded, payments>>
    /\ UNCHANGED <<removing, adding>>

\* try_transfer_from, external: the user pays, or does not.
Charged(price) == balance' = balance + Available(price)

GatePassed(j) ==
    /\ Charged(j.price)
    /\ LET others == joining (-) One(j)
       IN  IF j.at = "community"
           THEN EnterCommunity(j.user, j.is_moderator, j.wants, j.price, others)
           ELSE EnterChannel(j.user, j.price, others)
    /\ UNCHANGED <<calls, removing, adding>>

\* The handler panics once it has charged the user: nothing else is changed.
GatePassedInVain(j) ==
    /\ Charged(j.price)
    /\ IF j.at = "community"
       THEN /\ CanAdd(Unblocked(community, j.user, j.is_moderator), j.user)
            /\ Traps(community.gate)
       ELSE /\ j.user \in In(community.roles) \ ChannelMembers(community)
            /\ Traps(community.channel.gate)
    /\ joining' = joining (-) One(j)
    /\ UNCHANGED <<community, calls, removing, adding, unfunded,
                   pending_payments, timer_id, transfers, receipts, credited, failures>>

\* An error or a rejection ends the join; a rejected call may have been served.
GateFailed(j) ==
    /\ joining' = joining (-) One(j)
    /\ \/ UNCHANGED <<balance, failures>>
       \/ Fails("unheard") /\ Charged(j.price)
    /\ UNCHANGED <<community, calls, removing, adding, unfunded,
                   pending_payments, timer_id, transfers, receipts, credited>>

-----------------------------------------------------------------------------
(* Leaving and removing *)

unpaid == <<joining, adding, unfunded, payments>>

\* c2c_leave_community
LeaveCommunity(u) ==
    /\ Call /\ u \in In(community.roles)
    /\ Owners(community.roles) # {u}
    /\ ~(u \in ChannelMembers(community) /\ LastChannelOwner(community, u))
    /\ community' = Removed(community, u)
    /\ UNCHANGED <<removing, unpaid>>

\* prepare of remove_member and block_user; a removal by an owner looks the
\* removed user up.
RemoveMember(by, u, block) ==
    /\ Call /\ by # u
    /\ by \in Owners(community.roles) /\ u \in In(community.roles)
    /\ removing' = removing \cup {[user |-> u, by |-> by, block |-> block]}
    /\ UNCHANGED <<community, unpaid>>

\* commit, which checks only that there still is such a member (else it panics).
Blocked(c, r) == [c EXCEPT !.blocked = IF r.block THEN @ \cup {r.user} ELSE @]
RemovalGoesOn(r) ==
    /\ removing' = removing \ {r}
    /\ community' = IF r.user \in In(community.roles)
                    THEN Blocked(Removed(community, r.user), r) ELSE community
    /\ UNCHANGED <<calls, unpaid>>

\* The user is a platform moderator or unknown, or the lookup fails.
RemovalStops(r) ==
    removing' = removing \ {r} /\ UNCHANGED <<community, calls, unpaid>>

UnblockUser(by, u) ==
    /\ Call /\ by \in Owners(community.roles) /\ by # u /\ u \in community.blocked
    /\ community' = [community EXCEPT !.blocked = @ \ {u}]
    /\ UNCHANGED <<removing, unpaid>>

\* leave_channel
LeaveChannel(u) ==
    /\ Call /\ u \in In(community.roles) /\ CanLeaveChannel(community, u)
    /\ community' = [LeftChannel(community, u) EXCEPT !.listed = @ \ {u}]
    /\ UNCHANGED <<removing, unpaid>>

RemoveMemberFromChannel(by, u) ==
    /\ Call /\ by # u /\ {by, u} \subseteq In(community.roles)
    /\ by \in Owners(community.channel.roles) /\ u \in ChannelMembers(community)
    /\ community' = [community EXCEPT !.channel.roles[u] = "None", !.listed = @ \ {u}]
    /\ UNCHANGED <<removing, unpaid>>

-----------------------------------------------------------------------------
(* Roles, gates and channels *)

\* The owners of the channel, as long as they are in it and in the community.
ChannelManagers ==
    Owners(community.channel.roles) \cap In(community.roles) \cap ChannelMembers(community)

\* change_role.  What it needs is checked after the lookup: platform moderators make
\* themselves owners, also when there is none; if the lookup says that an owner to be
\* demoted is a moderator, nothing happens.
MayChangeRole(by, u, role) ==
    \/ by \in Owners(community.roles)
    \/ by \in Moderators \cap In(community.roles) /\ by = u /\ role = "Owner"
ChangeRole(by, u, role) ==
    /\ Call /\ MayChangeRole(by, u, role)
    /\ u \in In(community.roles) /\ Owners(community.roles) # {u}
    /\ role # community.roles[u]
    /\ community' = [community EXCEPT !.roles[u] = role]
    /\ UNCHANGED <<removing, unpaid>>

ChangeChannelRole(by, u, role) ==
    /\ Call /\ by \in Owners(community.channel.roles) \cap In(community.roles)
    /\ u \in ChannelMembers(community) /\ ~LastChannelOwner(community, u)
    /\ role # community.channel.roles[u]
    /\ community' = [community EXCEPT !.channel.roles[u] = role]
    /\ UNCHANGED <<removing, unpaid>>

\* update_community with a new gate
UpdateGate(by, gate) ==
    /\ Call /\ by \in Owners(community.roles) /\ gate # community.gate
    /\ community' = [community EXCEPT !.gate = gate]
    /\ UNCHANGED <<removing, unpaid>>

\* update_channel: everybody joins a channel that has become public and free.
UpdateChannel(by, gate, public) ==
    /\ Call
    /\ by \in ChannelManagers
    /\ LET updated == [community EXCEPT !.channel.gate = gate, !.channel.public = public]
           newly_public == public /\ ~community.channel.public
       IN  /\ updated # community
           /\ community' = IF newly_public /\ gate = NoGate
                           THEN EveryoneJoined(updated)
                           ELSE updated
    /\ UNCHANGED <<removing, unpaid>>

Mut_DeleteChannel(by) ==
    /\ Call
    /\ by \in ChannelManagers
    /\ community' = [community EXCEPT !.channel.deleted = TRUE, !.listed = @ \ {by}]
    /\ UNCHANGED <<removing, unpaid>>
DeleteChannel(by) ==
    /\ Call
    /\ by \in ChannelManagers
    /\ community' = [community EXCEPT !.channel.deleted = TRUE,
                                      !.listed = @ \ In(community.channel.roles)]
    /\ UNCHANGED <<removing, unpaid>>

\* add_members_to_channel, with one user, who need not be in the community.
Added(c, u) ==
    IF c.channel.deleted \/ u \in In(c.channel.roles) THEN c
    ELSE [c EXCEPT !.channel.roles[u] = "Member", !.listed = @ \cup ({u} \cap In(c.roles))]

AddMemberToChannel(by, u) ==
    /\ Call
    /\ by \in ChannelManagers
    /\ u \notin In(community.channel.roles)
    /\ IF community.channel.gate = NoGate
       THEN community' = Added(community, u) /\ UNCHANGED adding
       ELSE /\ adding' = adding (+) One([user |-> u, price |-> community.channel.gate])
            /\ UNCHANGED community
    /\ UNCHANGED <<removing, joining, unfunded, payments>>

\* Whoever is added pays, and nobody is paid.
AddedUserPaid(a) ==
    /\ adding' = adding (-) One(a)
    /\ Charged(a.price)
    /\ community' = Added(community, a.user)
    /\ UNCHANGED <<calls, joining, removing, unfunded,
                   pending_payments, timer_id, transfers, receipts, credited, failures>>
AddedUserDidNotPay(a) ==
    /\ adding' = adding (-) One(a)
    /\ UNCHANGED <<community, calls, joining, removing, unfunded, payments>>

-----------------------------------------------------------------------------
(* The specification *)

MakesPayments ==
    /\ MakePendingPayment \/ \E p \in BagToSet(transfers) : TransferAnswered(p)
    /\ UNCHANGED <<community, handlers, calls, unfunded>>

Upgraded ==
    /\ joining = EmptyBag /\ removing = {} /\ adding = EmptyBag
    /\ PaymentsUpgraded
    /\ Call
    /\ UNCHANGED <<community, handlers, unfunded>>

GateAnswers ==
    \/ \E j \in BagToSet(joining) : GatePassed(j) \/ GatePassedInVain(j) \/ GateFailed(j)
    \/ \E a \in BagToSet(adding) : AddedUserPaid(a) \/ AddedUserDidNotPay(a)
    \/ \E r \in removing : RemovalGoesOn(r) \/ RemovalStops(r)

Step ==
    \/ MakesPayments \/ Upgraded \/ GateAnswers
    \/ \E u \in Users :
          \/ \E is_moderator \in IsModerator(u), wants \in {"community", "channel"} :
                JoinStarts(u, is_moderator, wants)
          \/ LeaveCommunity(u) \/ LeaveChannel(u) \/ DeleteChannel(u)
          \/ \E gate \in Gates :
                UpdateGate(u, gate) \/ \E public \in BOOLEAN : UpdateChannel(u, gate, public)
          \/ \E v \in Users :
                \/ RemoveMemberFromChannel(u, v) \/ AddMemberToChannel(u, v) \/ UnblockUser(u, v)
                \/ \E block \in BOOLEAN : RemoveMember(u, v, block)
                \/ \E role \in Roles \ {"None"} :
                      ChangeRole(u, v, role) \/ ChangeChannelRole(u, v, role)

Next == Step /\ estranged' = estranged \cup (ChannelMembers(community') \ In(community'.roles))

\* The timer fires again and again, and every call is answered in the end.
Spec == Init /\ [][Next]_vars
FairSpec == Spec /\ WF_vars(MakesPayments /\ UNCHANGED estranged)

-----------------------------------------------------------------------------
(* Properties *)

\* A channel a member lists is one it is in, and a channel it is in is listed,
\* unless the user has been in the channel without being in the community.
ListedChannelsAreJoined ==
    /\ community.listed \subseteq In(community.roles) \cap ChannelMembers(community)
    /\ \A u \in In(community.roles) \cap ChannelMembers(community) :
          u \in community.listed \cup estranged

\* A channel keeps an owner, whatever happens to its members in the community.
ChannelHasOwner == ~community.channel.deleted => Owners(community.channel.roles) # {}

\* Whoever is blocked is not a member, whatever was under way at the time: a join whose
\* gate is awaited while its user is blocked, or a platform moderator that joins blocked.
BlockedAreNotMembers == community.blocked \cap In(community.roles) = {}

\* The canister can pay what it owes, unless a gate changed while somebody paid
\* to pass it, or the ledger made a transfer whose call was rejected.
Owed(p) == p.amount + Fee
TotalOf(f) == Cardinality(UNION {{x} \X (1 .. f[x]) : x \in DOMAIN f})   \* f[x] of each x
OwedInAll ==
    TotalOf([i \in DOMAIN pending_payments |-> Owed(pending_payments[i])])
      + TotalOf([p \in DOMAIN transfers |-> transfers[p] * Owed(p)])
FeesCoverPayments == ~unfunded /\ failures.unheard = 0 => balance >= OwedInAll

\* The receipts are what the ledger has credited to the owners.
ReceiptsTruthful ==
    \A u \in Users :
        /\ receipts[u] <= credited[u]
        /\ failures.unheard = 0 => receipts[u] = credited[u]

\* Payments do not stay in the queue.
PaymentsAreMade == []<>(pending_payments = <<>> /\ transfers = EmptyBag)

=============================================================================
