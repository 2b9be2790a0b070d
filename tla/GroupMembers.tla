---------------------------- MODULE GroupMembers ----------------------------
(***************************************************************************)
(* Who is in a group, in which role, and who may change that:              *)
(* group_chat_core's GroupMembers, roles and invited users, as driven by   *)
(* the group canister's handlers.                                          *)
(*                                                                         *)
(* Four handlers await another canister between their checks and their     *)
(* effect: joining a gated group (the gate), changing a role and removing  *)
(* an owner (is somebody a platform moderator?), and making the group      *)
(* public or private (the group_index).  Whatever they checked may have    *)
(* changed when they go on.                                                *)
(*                                                                         *)
(* A handler that pushes an event into a frozen chat panics; the canister  *)
(* then undoes everything that handler has done since its last await.      *)
(* Operators named Mut_* are wrong on purpose (see the README).            *)
(***************************************************************************)
EXTENDS Integers, FiniteSets

CONSTANTS
    Users,
    Creator,        \* the first owner
    PlatformModerators,  \* external: what the user_index says of the users
    MaxMembers,     \* MAX_MEMBERS_PER_GROUP
    MaxInvites,     \* MAX_INVITES
    ChangeRoles,    \* permissions.change_roles
    RemoveMembers,  \* permissions.remove_members
    InviteUsers,    \* permissions.invite_users
    StartsPublic,   \* is_public when the group is created
    HasInviteCode,  \* an invite code is enabled, and everybody knows it
    ForModerators,  \* the user_index's platform_moderators_group is this group
    IsGated,        \* chat.gate.is_some()
    MaxPending      \* bound: handlers that await something at once

PermissionRoles == {"None", "Owner", "Admins", "Moderators", "Members"}

ASSUME ConstantsAssumption ==
    /\ Creator \in Users /\ IsFiniteSet(Users)
    /\ PlatformModerators \subseteq Users
    /\ MaxMembers \in Nat \ {0} /\ MaxInvites \in Nat /\ MaxPending \in Nat
    /\ {ChangeRoles, RemoveMembers, InviteUsers} \subseteq PermissionRoles
    /\ {StartsPublic, IsGated, HasInviteCode, ForModerators} \subseteq BOOLEAN

\* GroupRoleInternal; "None" stands for a user that is not in the group.
Ranked == {"Owner", "Admin", "Moderator"}
Roles == Ranked \cup {"Member"}

VARIABLES
    role,        \* members, with the role of each
    suspended,   \* the members that are suspended
    blocked,     \* members.blocked
    invited,     \* the keys of invited_users
    known,       \* the users whose principal is in principal_to_user_id_map
    count,       \* owner_count, admin_count and moderator_count
    public,      \* chat.is_public
    frozen,      \* data.frozen and events.frozen
    pending,     \* the handlers that await another canister
    actor        \* history: the caller of the handler that changed a role last

vars == <<role, suspended, blocked, invited, known, count, public, frozen, pending, actor>>

Awaits == {"gate", "caller", "target", "index", "nothing"}
Pending ==
    [kind : {"join", "change_role", "remove", "update"}, caller : Users, target : Users,
     new_role : Roles, block : BOOLEAN, public : BOOLEAN, awaits : Awaits,
     answer : {"none", "yes", "no"}]

\* The type of the state; that the counters are natural numbers says that the
\* u32s GroupMembers subtracts from never wrap.
TypeOK ==
    /\ role \in [Users -> Roles \cup {"None"}]
    /\ suspended \subseteq Users
    /\ blocked \subseteq Users
    /\ invited \subseteq Users
    /\ known \subseteq Users
    /\ count \in [Ranked -> Nat]
    /\ public \in BOOLEAN
    /\ frozen \in BOOLEAN
    /\ pending \subseteq Pending
    /\ actor \in Users

\* GroupMembers::new
Init ==
    /\ role = [u \in Users |-> IF u = Creator THEN "Owner" ELSE "None"]
    /\ suspended = {}
    /\ blocked = {}
    /\ invited = {}
    /\ known = {Creator}
    /\ count = [r \in Ranked |-> IF r = "Owner" THEN 1 ELSE 0]
    /\ public = StartsPublic
    /\ frozen = FALSE
    /\ pending = {}
    /\ actor = Creator

Members == {u \in Users : role[u] # "None"}
Active(u) == u \in Members /\ u \notin suspended

\* get_member of the caller's principal
Recognised(u) == u \in Members \cap known

-----------------------------------------------------------------------------
(* roles.rs *)

HasAdminRights(r) == r \in {"Admin", "Owner"}
HasModeratorRights(r) == r = "Moderator" \/ HasAdminRights(r)

IsSameOrSenior(r, other) ==
    \/ other = "Member"
    \/ other = "Moderator" /\ HasModeratorRights(r)
    \/ other = "Admin" /\ HasAdminRights(r)
    \/ other = "Owner" /\ r = "Owner"

IsPermitted(r, permission) ==
    \/ permission = "Members"
    \/ permission = "Moderators" /\ HasModeratorRights(r)
    \/ permission = "Admins" /\ HasAdminRights(r)
    \/ permission = "Owner" /\ r = "Owner"

CanChangeRoles(r, new_role) == IsSameOrSenior(r, new_role) /\ IsPermitted(r, ChangeRoles)

CanRemove(r, target_role) == IsSameOrSenior(r, target_role) /\ IsPermitted(r, RemoveMembers)

-----------------------------------------------------------------------------
(* members.rs *)

\* The counters after a member's role went from old to new.
Mut_OnlyCountsUp(old, new) ==
    [r \in Ranked |-> count[r] + (IF r = new THEN 1 ELSE 0)]
Mut_OnlyCountsDown(old, new) ==
    [r \in Ranked |-> count[r] - (IF r = old THEN 1 ELSE 0)]
CountAfter(old, new) ==
    [r \in Ranked |-> count[r] - (IF r = old THEN 1 ELSE 0)
                               + (IF r = new THEN 1 ELSE 0)]

SetRole(u, new) ==
    /\ role' = [role EXCEPT ![u] = new]
    /\ count' = CountAfter(role[u], new)

\* remove: a member's record goes, and its suspension with it;
\* remove_principal follows.
Removed(u) ==
    /\ SetRole(u, "None")
    /\ suspended' = suspended \ {u}
    /\ known' = known \ {u}

\* add: the last checks before a user becomes a member.
Mut_BlockedMayJoin(u, block_list) ==
    Cardinality(Members) < MaxMembers /\ u \notin Members
Mut_NoLimit(u, block_list) == u \notin block_list /\ u \notin Members
MayBeAdded(u, block_list) ==
    u \notin block_list /\ Cardinality(Members) < MaxMembers /\ u \notin Members

\* "It is not possible to change the role of the last owner", nor may the
\* last owner leave (can_leave compares with "==").
Mut_LastOwnerUnprotected(u) == FALSE
IsLastOwner(u) == role[u] = "Owner" /\ count["Owner"] <= 1
CanLeave(u) == Active(u) /\ ~(role[u] = "Owner" /\ count["Owner"] = 1)

-----------------------------------------------------------------------------
(* Joining *)

Handler(kind, caller, target, new_role, block, awaits) ==
    [kind |-> kind, caller |-> caller, target |-> target, new_role |-> new_role,
     block |-> block, public |-> FALSE, awaits |-> awaits, answer |-> "none"]

\* The handler panics: nothing remains of what it did since its last await.
Panic == UNCHANGED <<role, suspended, blocked, invited, known, count, actor>>

\* add's answer "AlreadyInGroup", on which add_member records the principal.
RejoinsAsMember(u, block_list) ==
    u \notin block_list /\ Cardinality(Members) < MaxMembers /\ u \in Members

\* c2c_join_group_impl.  A platform moderator is unblocked first, which
\* pushes an event, as does adding the member.
Unblocks(u) == u \in PlatformModerators /\ u \in blocked
JoinImpl(u) ==
    LET left == IF Unblocks(u) THEN blocked \ {u} ELSE blocked
        adds == MayBeAdded(u, left)
    IN  IF frozen /\ (adds \/ Unblocks(u))
        THEN Panic
        ELSE /\ blocked' = left
             /\ IF adds
                THEN /\ SetRole(u, "Member")
                     /\ suspended' = suspended \ {u}
                     /\ invited' = invited \ {u}
                ELSE UNCHANGED <<role, count, suspended, invited>>
             /\ known' = IF adds \/ RejoinsAsMember(u, left) THEN known \cup {u} ELSE known
             /\ UNCHANGED actor

\* is_permitted_to_join
MayJoin(u) ==
    /\ ~frozen
    /\ public \/ HasInviteCode \/ u \in invited \cap known
    /\ Cardinality(Members) < MaxMembers
    /\ u \notin Members

Join(u) ==
    /\ MayJoin(u)
    /\ IF IsGated
       THEN /\ Cardinality(pending) < MaxPending
            /\ pending' = pending \cup {Handler("join", u, u, "Member", FALSE, "gate")}
            /\ UNCHANGED <<role, suspended, blocked, invited, known, count, actor>>
       ELSE JoinImpl(u) /\ UNCHANGED pending
    /\ UNCHANGED <<public, frozen>>

\* c2c_join_group, after the gate: nothing that was checked is checked again.
JoinAfterGate(h) ==
    /\ h.kind = "join" /\ h.answer # "none"
    /\ pending' = pending \ {h}
    /\ IF h.answer = "yes"
       THEN JoinImpl(h.caller)
       ELSE UNCHANGED <<role, suspended, blocked, invited, known, count, actor>>
    /\ UNCHANGED <<public, frozen>>

\* c2c_join_group called by the user_index: a new platform moderator is put
\* into the moderators' group, without any of the checks.
JoinModeratorsGroup(u) ==
    /\ ForModerators /\ u \in PlatformModerators
    /\ JoinImpl(u)
    /\ UNCHANGED <<public, frozen, pending>>

\* c2c_leave_group
Leave(u) ==
    /\ ~frozen
    /\ CanLeave(u)
    /\ Removed(u)
    /\ actor' = u
    /\ UNCHANGED <<blocked, invited, public, frozen, pending>>

-----------------------------------------------------------------------------
(* Invitations *)

\* c2c_invite_users, of one user.  Only private groups keep invitations, but
\* the principal is recorded in any case.
NeedsInvitation(u) == ~public /\ u \notin Members /\ u \notin invited
Mut_PrincipalNotKept(u) == UNCHANGED known
RecordPrincipal(u) == known' = known \cup {u}
RoomForInvitation == Cardinality(invited) + 1 <= MaxInvites
Invite(caller, u) ==
    /\ ~frozen
    /\ Active(caller)
    /\ public \/ IsPermitted(role[caller], InviteUsers)
    /\ NeedsInvitation(u) => RoomForInvitation
    /\ invited' = IF NeedsInvitation(u) THEN invited \cup {u} ELSE invited
    /\ RecordPrincipal(u)
    /\ UNCHANGED <<role, suspended, blocked, count, public, frozen, pending, actor>>

\* decline_invitation: not stopped by a frozen chat, nor by having no
\* invitation - the caller's principal goes all the same.
Decline(u) ==
    /\ u \in known
    /\ known' = known \ {u}
    /\ invited' = invited \ {u}
    /\ UNCHANGED <<role, suspended, blocked, count, public, frozen, pending, actor>>

-----------------------------------------------------------------------------
(* Changing roles *)

\* GroupMembers::change_role
MayChangeRole(caller, target, new_role, caller_is_pm, target_is_pm) ==
    /\ Active(caller)
    /\ CanChangeRoles(role[caller], new_role) \/ (caller_is_pm /\ new_role = "Owner")
    /\ target \in Members
    /\ ~(target_is_pm /\ role[target] = "Owner" /\ target # caller)
    /\ ~IsLastOwner(target)
    /\ role[target] # new_role

\* change_role_impl
ChangeRoleImpl(caller, target, new_role, caller_is_pm, target_is_pm) ==
    /\ IF ~frozen /\ MayChangeRole(caller, target, new_role, caller_is_pm, target_is_pm)
       THEN SetRole(target, new_role) /\ actor' = caller
       ELSE UNCHANGED <<role, count, actor>>
    /\ UNCHANGED <<suspended, blocked, invited, known>>

\* change_role: a lookup is needed for somebody making itself an owner, and
\* for an owner changing the role of another owner.
ChangeRole(caller, target, new_role) ==
    LET awaits ==
            IF role[caller] # "Owner" /\ new_role = "Owner" /\ caller = target
            THEN "caller"
            ELSE IF role[caller] = "Owner" /\ role[target] = "Owner" /\ caller # target
            THEN "target" ELSE "nothing"
    IN  /\ Recognised(caller)
        /\ IF awaits = "nothing"
           THEN /\ ChangeRoleImpl(caller, target, new_role, FALSE, FALSE)
                /\ UNCHANGED pending
           ELSE /\ Cardinality(pending) < MaxPending
                /\ pending' = pending \cup
                      {Handler("change_role", caller, target, new_role, FALSE, awaits)}
                /\ UNCHANGED <<role, suspended, blocked, invited, known, count, actor>>
        /\ UNCHANGED <<public, frozen>>

ChangeRoleAfterLookup(h) ==
    /\ h.kind = "change_role" /\ h.answer # "none"
    /\ pending' = pending \ {h}
    /\ ChangeRoleImpl(h.caller, h.target, h.new_role,
                      h.answer = "yes" /\ h.awaits = "caller",
                      h.answer = "yes" /\ h.awaits = "target")
    /\ UNCHANGED <<public, frozen>>

-----------------------------------------------------------------------------
(* Removing, blocking, unblocking *)

\* remove_member's checks
MayRemove(caller, target, block) ==
    /\ caller # target
    /\ Active(caller)
    /\ target \in Members \/ block
    /\ CanRemove(role[caller], IF target \in Members THEN role[target] ELSE "Member")

\* commit of remove_participant.  Blocking a user that is blocked already
\* pushes no event.
Mut_ChecksOnlyBefore(caller, target, block) ==
    IF target \notin Members /\ ~block
    THEN UNCHANGED <<role, suspended, blocked, invited, known, count, actor>>
    ELSE IF frozen /\ ~(block /\ target \in blocked)
    THEN Panic
    ELSE /\ Removed(target)
         /\ blocked' = IF block THEN blocked \cup {target} ELSE blocked
         /\ actor' = caller
         /\ UNCHANGED invited
RemoveImpl(caller, target, block) ==
    IF ~MayRemove(caller, target, block)
    THEN UNCHANGED <<role, suspended, blocked, invited, known, count, actor>>
    ELSE IF frozen /\ ~(block /\ target \in blocked)
    THEN Panic
    ELSE /\ Removed(target)
         /\ blocked' = IF block THEN blocked \cup {target} ELSE blocked
         /\ actor' = caller
         /\ UNCHANGED invited

\* remove_participant, block_user (public groups only): an owner is removed
\* only after the local_user_index has been asked about it.
Remove(caller, target, block) ==
    /\ block => public
    /\ ~frozen
    /\ Recognised(caller)
    /\ MayRemove(caller, target, block)
    /\ IF role[target] = "Owner"
       THEN /\ Cardinality(pending) < MaxPending
            /\ pending' = pending \cup
                  {Handler("remove", caller, target, "Member", block, "target")}
            /\ UNCHANGED <<role, suspended, blocked, invited, known, count, actor>>
       ELSE RemoveImpl(caller, target, block) /\ UNCHANGED pending
    /\ UNCHANGED <<public, frozen>>

RemoveAfterLookup(h) ==
    /\ h.kind = "remove" /\ h.answer # "none"
    /\ pending' = pending \ {h}
    /\ IF h.answer = "no"
       THEN RemoveImpl(h.caller, h.target, h.block)
       ELSE UNCHANGED <<role, suspended, blocked, invited, known, count, actor>>
    /\ UNCHANGED <<public, frozen>>

\* unblock_user
Unblock(caller, u) ==
    /\ ~frozen /\ public
    /\ Recognised(caller) /\ Active(caller) /\ caller # u
    /\ IsPermitted(role[caller], RemoveMembers)
    /\ blocked' = blocked \ {u}
    /\ UNCHANGED <<role, suspended, invited, known, count, public, frozen, pending, actor>>

-----------------------------------------------------------------------------
(* Visibility *)

\* update_group_v2 with "public": only an owner may, and the group_index is
\* told first, in both directions.
UpdateVisibility(caller, new) ==
    /\ ~frozen
    /\ Recognised(caller) /\ Active(caller) /\ role[caller] = "Owner"
    /\ Cardinality(pending) < MaxPending
    /\ pending' = pending \cup
          {[Handler("update", caller, caller, "Member", FALSE, "index") EXCEPT !.public = new]}
    /\ UNCHANGED <<role, suspended, blocked, invited, known, count, public, frozen, actor>>

\* its commit: who asked may no longer be an owner, the chat may be frozen.
\* A change of the visibility pushes an event; invitations stay.
UpdateAfterIndex(h) ==
    /\ h.kind = "update" /\ h.answer # "none"
    /\ pending' = pending \ {h}
    /\ IF h.answer = "no" \/ h.public = public
       THEN UNCHANGED public
       ELSE IF frozen
       THEN UNCHANGED public    \* push_event panics
       ELSE public' = h.public
    /\ UNCHANGED <<role, suspended, blocked, invited, known, count, frozen, actor>>

-----------------------------------------------------------------------------
(* Other canisters *)

\* The awaited answer: has the user passed the gate, is it a platform
\* moderator, does the group_index agree?  (A call that fails ends the handler
\* like a "no" for a join, and a "yes" for a removal.)
Answer(h) ==
    /\ h.answer = "none"
    /\ \E a \in {"yes", "no"} :
          /\ h.awaits = "caller" => a = IF h.caller \in PlatformModerators THEN "yes" ELSE "no"
          /\ h.awaits = "target" => a = IF h.target \in PlatformModerators THEN "yes" ELSE "no"
          /\ pending' = (pending \ {h}) \cup {[h EXCEPT !.answer = a]}
    /\ UNCHANGED <<role, suspended, blocked, invited, known, count, public, frozen, actor>>

\* A lookup that fails ends the handler.
LookupFails(h) ==
    /\ h.answer = "none" /\ h.kind # "join"
    /\ pending' = pending \ {h}
    /\ UNCHANGED <<role, suspended, blocked, invited, known, count, public, frozen, actor>>

\* c2c_set_user_suspended
SetSuspended(u) ==
    /\ u \in Members
    /\ suspended' = IF u \in suspended THEN suspended \ {u} ELSE suspended \cup {u}
    /\ UNCHANGED <<role, blocked, invited, known, count, public, frozen, pending, actor>>

\* c2c_freeze_group, c2c_unfreeze_group
Freeze ==
    /\ frozen' = ~frozen
    /\ UNCHANGED <<role, suspended, blocked, invited, known, count, public, pending, actor>>

Next ==
    \/ \E u \in Users :
          \/ Join(u) \/ JoinModeratorsGroup(u) \/ Leave(u)
          \/ Decline(u) \/ SetSuspended(u)
    \/ \E u, v \in Users :
          \/ Invite(u, v)
          \/ Unblock(u, v)
          \/ \E r \in Roles : ChangeRole(u, v, r)
          \/ \E block \in BOOLEAN : Remove(u, v, block)
    \/ \E u \in Users, new \in BOOLEAN : UpdateVisibility(u, new)
    \/ \E h \in pending :
          \/ Answer(h) \/ LookupFails(h)
          \/ JoinAfterGate(h) \/ ChangeRoleAfterLookup(h) \/ RemoveAfterLookup(h)
          \/ UpdateAfterIndex(h)
    \/ Freeze

Spec == Init /\ [][Next]_vars

-----------------------------------------------------------------------------
(* Properties *)

Holding(r) == {u \in Users : role[u] = r}

\* owner_count, admin_count and moderator_count, which are kept by hand in
\* remove and change_role, agree with the members' roles.  The rule about
\* the last owner relies on them, and a u32 must not go below zero.
CountersMatch == \A r \in Ranked : count[r] = Cardinality(Holding(r))

\* A group always has an owner: no order of leaving, demoting, removing and
\* awaited lookups gets rid of the last one.
HasOwner == Holding("Owner") # {}

\* Nobody is a member and blocked, also when a user that passed the gate is
\* blocked before it is added, or a blocked platform moderator joins; and
\* nobody is a member and invited, so an invitation is used once.
NotMemberAndBlocked == Members \cap blocked = {}
NotMemberAndInvited == Members \cap invited = {}
NeitherBlockedNorInvited == NotMemberAndBlocked /\ NotMemberAndInvited

\* An invitation is kept by user and found by principal: whoever is invited
\* can be recognised when it joins or declines, until it declines or is
\* blocked.  (A user that is invited to a private group and blocked after the
\* group became public keeps an invitation that nobody finds.)
InvitationsStayUsable ==
    [][\A u \in Users : u \in invited' => \/ u \in known' \/ u \in blocked'
                                          \/ u \in invited \ known]_vars

\* The limits hold even if several users pass the gate for the last place.
WithinLimits ==
    Cardinality(Members) <= MaxMembers /\ Cardinality(invited) <= MaxInvites

\* Who changes a role, or removes somebody, has the authority at the moment of
\* the change, whatever it had when the handler started: an active member that
\* leaves or may remove whom it removes, by seniority and by the permissions; or
\* one that may give the role, or is a platform moderator and makes itself an
\* owner (change_role and remove_member look again after the await).
ActsWithCurrentAuthority ==
    [][\A u \in Users : role[u] # "None" /\ role'[u] # role[u] =>
          /\ Active(actor')
          /\ IF role'[u] = "None"
             THEN actor' = u \/ CanRemove(role[actor'], role[u])
             ELSE \/ CanChangeRoles(role[actor'], role'[u])
                  \/ actor' = u /\ u \in PlatformModerators /\ role'[u] = "Owner"]_vars

\* What a comment in GroupMembers::change_role says: platform moderators cannot be
\* demoted from owner except by themselves.  (change_role asks who is one only when
\* an owner demotes an owner, but an admin may demote one as well.)
ModeratorsStayOwners ==
    [][\A u \in PlatformModerators :
          role[u] = "Owner" /\ role'[u] \notin {"Owner", "None"} => actor' = u]_vars
=============================================================================
