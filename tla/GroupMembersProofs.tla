------------------------ MODULE GroupMembersProofs ------------------------
(***************************************************************************)
(* What GroupMembers promises, for any set of users, any limits and any    *)
(* permissions.  The invariants are proved together: that a group keeps an *)
(* owner rests on the counters, and that the counters stay natural numbers *)
(* rests on their agreement with the roles.  What is said of single steps  *)
(* (authority, invitations) follows from the invariant.                    *)
(***************************************************************************)
EXTENDS GroupMembers, FiniteSetTheorems, TLAPS

\* Only who changes its own role is asked to be a platform moderator, and the answer
\* is true.
LegitPending ==
    {h \in Pending : h.awaits = "caller" =>
        /\ h.caller = h.target
        /\ h.answer = "yes" => h.caller \in PlatformModerators}

\* The inductive invariant.
IInv ==
    /\ TypeOK
    /\ CountersMatch
    /\ HasOwner
    /\ NotMemberAndBlocked
    /\ NotMemberAndInvited
    /\ pending \subseteq LegitPending
    /\ WithinLimits

-----------------------------------------------------------------------------

\* Every set of users is finite, so its cardinality is a natural number.
LEMMA UsersAreFinite ==
    ASSUME NEW S \in SUBSET Users
    PROVE  IsFiniteSet(S) /\ Cardinality(S) \in Nat
  BY ConstantsAssumption, FS_Subset, FS_CardinalityType

\* A subset is no larger.
LEMMA SubsetIsSmaller ==
    ASSUME NEW S, IsFiniteSet(S), NEW T \in SUBSET S
    PROVE  /\ Cardinality(S) \in Nat /\ Cardinality(T) \in Nat
           /\ Cardinality(T) <= Cardinality(S)
<1>1. IsFiniteSet(T) /\ Cardinality(T) <= Cardinality(S)
  BY FS_Subset
<1>2. Cardinality(S) \in Nat
  BY FS_CardinalityType
<1>3. Cardinality(T) \in Nat
  BY <1>1, FS_CardinalityType
<1> QED BY <1>1, <1>2, <1>3

\* Giving user u the role new (or "None") keeps roles and counters in
\* agreement, and changes the set of members in the obvious way.
LEMMA SetRoleCounts ==
    ASSUME NEW u \in Users, NEW new \in Roles \cup {"None"},
           TypeOK, CountersMatch, SetRole(u, new)
    PROVE  /\ role' \in [Users -> Roles \cup {"None"}]
           /\ \A v \in Users : role'[v] = IF v = u THEN new ELSE role[v]
           /\ CountersMatch'
           /\ count' \in [Ranked -> Nat]
           /\ Members' = IF new = "None" THEN Members \ {u} ELSE Members \cup {u}
<1>1. role' = [role EXCEPT ![u] = new] /\ role \in [Users -> Roles \cup {"None"}]
  BY DEF SetRole, TypeOK
<1>2. role' \in [Users -> Roles \cup {"None"}]
  BY <1>1
<1>3. \A v \in Users : role'[v] = IF v = u THEN new ELSE role[v]
  BY <1>1
<1>4. \A r \in Ranked : count'[r] = Cardinality(Holding(r)')
  <2> SUFFICES ASSUME NEW r \in Ranked
               PROVE  count'[r] = Cardinality(Holding(r)')
    OBVIOUS
  <2>1. /\ count'[r] = count[r] - (IF r = role[u] THEN 1 ELSE 0) + (IF r = new THEN 1 ELSE 0)
        /\ count[r] = Cardinality(Holding(r))
    BY DEF SetRole, CountAfter, CountersMatch
  <2>2. Holding(r) \in SUBSET Users /\ Holding(r)' \in SUBSET Users
    BY DEF Holding
  <2>3. /\ IsFiniteSet(Holding(r)) /\ Cardinality(Holding(r)) \in Nat
        /\ IsFiniteSet(Holding(r)') /\ Cardinality(Holding(r)') \in Nat
    BY <2>2, UsersAreFinite
  <2>4. CASE role[u] = r /\ new = r
    <3>1. Holding(r)' = Holding(r)
      BY <1>3, <2>4 DEF Holding
    <3> QED BY <2>1, <2>3, <2>4, <3>1
  <2>5. CASE role[u] = r /\ new # r
    <3>1. u \in Holding(r) /\ Holding(r)' = Holding(r) \ {u}
      BY <1>3, <2>5 DEF Holding
    <3>2. Cardinality(Holding(r)') = Cardinality(Holding(r)) - 1
      BY <2>3, <3>1, FS_RemoveElement
    <3> QED BY <2>1, <2>3, <2>5, <3>2
  <2>6. CASE role[u] # r /\ new = r
    <3>1. u \notin Holding(r) /\ Holding(r)' = Holding(r) \cup {u}
      BY <1>3, <2>6 DEF Holding
    <3>2. Cardinality(Holding(r)') = Cardinality(Holding(r)) + 1
      BY <2>3, <3>1, FS_AddElement
    <3> QED BY <2>1, <2>3, <2>6, <3>2
  <2>7. CASE role[u] # r /\ new # r
    <3>1. Holding(r)' = Holding(r)
      BY <1>3, <2>7 DEF Holding
    <3> QED BY <2>1, <2>3, <2>7, <3>1
  <2> QED BY <2>4, <2>5, <2>6, <2>7
<1>5. count' \in [Ranked -> Nat]
  <2>1. \A r \in Ranked : Cardinality(Holding(r)') \in Nat
    <3> SUFFICES ASSUME NEW r \in Ranked PROVE Cardinality(Holding(r)') \in Nat
      OBVIOUS
    <3>1. Holding(r)' \in SUBSET Users
      BY DEF Holding
    <3> QED BY <3>1, UsersAreFinite
  <2>2. \E f : count' = [r \in Ranked |-> f[r]]
    <3> WITNESS count'
    <3> QED BY DEF SetRole, CountAfter
  <2> QED BY <1>4, <2>1, <2>2
<1>6. Members' = IF new = "None" THEN Members \ {u} ELSE Members \cup {u}
  BY <1>3 DEF Members
<1> QED BY <1>2, <1>3, <1>4, <1>5, <1>6 DEF CountersMatch

-----------------------------------------------------------------------------

\* If an owner is not the last one by the counter, there is another owner.
LEMMA AnotherOwner ==
    ASSUME TypeOK, CountersMatch, NEW u \in Users, role[u] = "Owner", count["Owner"] # 1
    PROVE  \E v \in Users : v # u /\ role[v] = "Owner"
<1>1. Holding("Owner") \in SUBSET Users /\ u \in Holding("Owner")
  BY DEF Holding
<1>2. IsFiniteSet(Holding("Owner")) /\ Cardinality(Holding("Owner")) \in Nat
  BY <1>1, UsersAreFinite
<1>3. count["Owner"] = Cardinality(Holding("Owner"))
  BY DEF CountersMatch, Ranked
<1>4. Cardinality(Holding("Owner")) # 1
  BY <1>3
<1>5. Holding("Owner") # {u}
  <2>1. Cardinality({u}) = 1
    BY FS_Singleton
  <2> QED BY <1>4, <2>1
<1> QED BY <1>1, <1>5 DEF Holding

\* Taking out a user that leaves an owner behind and holds no invitation
\* keeps the invariant, whether or not the user gets blocked.
LEMMA RemovedKeepsIInv ==
    ASSUME IInv, NEW u \in Users, Removed(u),
           \E v \in Users : v # u /\ role[v] = "Owner",
           blocked' \in {blocked, blocked \cup {u}}, UNCHANGED invited,
           pending' \subseteq LegitPending, frozen' \in BOOLEAN, public' \in BOOLEAN,
           actor' \in Users
    PROVE  IInv'
<1>1. SetRole(u, "None") /\ suspended' = suspended \ {u} /\ known' = known \ {u}
  BY DEF Removed
<1>2. /\ role' \in [Users -> Roles \cup {"None"}]
      /\ \A v \in Users : role'[v] = IF v = u THEN "None" ELSE role[v]
      /\ CountersMatch'
      /\ count' \in [Ranked -> Nat]
      /\ Members' = Members \ {u}
  BY <1>1, SetRoleCounts DEF IInv
<1>3. TypeOK'
  BY <1>1, <1>2 DEF IInv, TypeOK, LegitPending
<1>4. HasOwner'
  BY <1>2 DEF HasOwner, Holding
<1>5. NotMemberAndBlocked' /\ NotMemberAndInvited'
  BY <1>1, <1>2 DEF IInv, NotMemberAndBlocked, NotMemberAndInvited
<1>6. WithinLimits'
  <2>1. IsFiniteSet(Members) /\ Cardinality(Members) \in Nat
    BY UsersAreFinite DEF Members
  <2>2. Cardinality(Members') <= Cardinality(Members) /\ Cardinality(Members') \in Nat
    BY <1>2, <2>1, SubsetIsSmaller
  <2>3. Cardinality(invited') = Cardinality(invited)
    OBVIOUS
  <2> QED BY <2>1, <2>2, <2>3, ConstantsAssumption DEF IInv, WithinLimits
<1> QED BY <1>2, <1>3, <1>4, <1>5, <1>6 DEF IInv

\* A step that changes no role, no block list, no invitation and no principal
\* keeps the invariant.
LEMMA QuietStepKeepsIInv ==
    ASSUME IInv, UNCHANGED <<role, blocked, invited, known, count>>,
           suspended' \subseteq Users, pending' \subseteq LegitPending,
           frozen' \in BOOLEAN, public' \in BOOLEAN, actor' \in Users
    PROVE  IInv'
<1>1. Members' = Members /\ \A r : Holding(r)' = Holding(r)
  BY DEF Members, Holding
<1> QED
  BY <1>1 DEF IInv, TypeOK, LegitPending, CountersMatch, HasOwner, NotMemberAndBlocked,
              NotMemberAndInvited, WithinLimits

\* c2c_join_group_impl, whatever was checked before the gate was asked.
LEMMA JoinImplKeepsIInv ==
    ASSUME IInv, NEW u \in Users, JoinImpl(u),
           pending' \subseteq LegitPending, frozen' \in BOOLEAN, public' \in BOOLEAN
    PROVE  IInv'
<1> DEFINE left == IF Unblocks(u) THEN blocked \ {u} ELSE blocked
<1>1. CASE frozen /\ (MayBeAdded(u, left) \/ Unblocks(u))
  BY <1>1, QuietStepKeepsIInv DEF JoinImpl, Panic, IInv, TypeOK
<1>2. CASE ~(frozen /\ (MayBeAdded(u, left) \/ Unblocks(u))) /\ MayBeAdded(u, left)
  <2>1. /\ SetRole(u, "Member") /\ suspended' = suspended \ {u}
        /\ invited' = invited \ {u} /\ blocked' = left
        /\ known' = known \cup {u}
        /\ UNCHANGED actor
    BY <1>2 DEF JoinImpl
  <2>2. u \notin left /\ Cardinality(Members) < MaxMembers /\ u \notin Members
    BY <1>2 DEF MayBeAdded
  <2>3. /\ role' \in [Users -> Roles \cup {"None"}]
        /\ \A v \in Users : role'[v] = IF v = u THEN "Member" ELSE role[v]
        /\ CountersMatch'
        /\ count' \in [Ranked -> Nat]
        /\ Members' = Members \cup {u}
    BY <2>1, SetRoleCounts DEF IInv, Roles
  <2>4. left \subseteq blocked /\ blocked \subseteq Users
    BY DEF IInv, TypeOK, LegitPending
  <2>5. TypeOK'
    BY <2>1, <2>3, <2>4 DEF IInv, TypeOK, LegitPending
  <2>6. HasOwner'
    BY <2>2, <2>3 DEF IInv, HasOwner, Holding, Members
  <2>7. NotMemberAndBlocked' /\ NotMemberAndInvited'
    BY <2>1, <2>2, <2>3, <2>4
       DEF IInv, NotMemberAndBlocked, NotMemberAndInvited
  <2>8. WithinLimits'
    <3>1. IsFiniteSet(Members) /\ Cardinality(Members) \in Nat
      BY UsersAreFinite DEF Members
    <3>2. Cardinality(Members') = Cardinality(Members) + 1
      BY <2>2, <2>3, <3>1, FS_AddElement
    <3>3. IsFiniteSet(invited) /\ Cardinality(invited) \in Nat
      BY UsersAreFinite DEF IInv, TypeOK, LegitPending
    <3>4. Cardinality(invited') <= Cardinality(invited) /\ Cardinality(invited') \in Nat
      BY <2>1, <3>3, SubsetIsSmaller
    <3> QED BY <2>2, <3>1, <3>2, <3>3, <3>4, ConstantsAssumption DEF IInv, WithinLimits
  <2> QED BY <2>3, <2>5, <2>6, <2>7, <2>8 DEF IInv
<1>3. CASE ~(frozen /\ (MayBeAdded(u, left) \/ Unblocks(u))) /\ ~MayBeAdded(u, left)
  <2>1. /\ UNCHANGED <<role, count, suspended, invited, actor>>
        /\ blocked' = left /\ known' \in {known, known \cup {u}}
    BY <1>3 DEF JoinImpl
  <2>2. left \subseteq blocked
    OBVIOUS
  <2>3. Members' = Members /\ \A r : Holding(r)' = Holding(r)
    BY <2>1 DEF Members, Holding
  <2> QED
    BY <2>1, <2>2, <2>3
       DEF IInv, TypeOK, LegitPending, CountersMatch, HasOwner, NotMemberAndBlocked,
           NotMemberAndInvited, WithinLimits
<1> QED BY <1>1, <1>2, <1>3

\* GroupMembers::change_role: the last owner is protected by its counter.
LEMMA ChangeRoleImplKeepsIInv ==
    ASSUME IInv, NEW caller \in Users, NEW target \in Users, NEW new_role \in Roles,
           NEW caller_is_pm, NEW target_is_pm,
           ChangeRoleImpl(caller, target, new_role, caller_is_pm, target_is_pm),
           pending' \subseteq LegitPending, frozen' \in BOOLEAN, public' \in BOOLEAN
    PROVE  IInv'
<1> DEFINE may == MayChangeRole(caller, target, new_role, caller_is_pm, target_is_pm)
<1>1. CASE ~(~frozen /\ may)
  BY <1>1, QuietStepKeepsIInv DEF ChangeRoleImpl, IInv, TypeOK
<1>2. CASE ~frozen /\ may
  <2>1. /\ SetRole(target, new_role) /\ actor' = caller
        /\ UNCHANGED <<suspended, blocked, invited, known>>
    BY <1>2 DEF ChangeRoleImpl
  <2>2. target \in Members /\ ~IsLastOwner(target)
    BY <1>2 DEF MayChangeRole
  <2>3. new_role # "None"
    BY DEF Roles, Ranked
  <2>4. /\ role' \in [Users -> Roles \cup {"None"}]
        /\ \A v \in Users : role'[v] = IF v = target THEN new_role ELSE role[v]
        /\ CountersMatch'
        /\ count' \in [Ranked -> Nat]
        /\ Members' = Members
    <3>1. Members' = Members \cup {target}
      BY <2>1, <2>3, SetRoleCounts DEF IInv
    <3> QED BY <2>1, <2>2, <3>1, SetRoleCounts DEF IInv
  <2>5. TypeOK'
    BY <2>1, <2>4 DEF IInv, TypeOK, LegitPending
  <2>6. HasOwner'
    <3>1. CASE role[target] # "Owner"
      BY <2>4, <3>1 DEF IInv, HasOwner, Holding
    <3>2. CASE role[target] = "Owner"
      <4>1. \E v \in Users : v # target /\ role[v] = "Owner"
        <5>1. count["Owner"] # 1
          BY <2>2, <3>2 DEF IsLastOwner
        <5> QED BY <3>2, <5>1, AnotherOwner DEF IInv
      <4> QED BY <2>4, <4>1 DEF HasOwner, Holding
    <3> QED BY <3>1, <3>2
  <2>7. NotMemberAndBlocked' /\ NotMemberAndInvited' /\ WithinLimits'
    BY <2>1, <2>4
       DEF IInv, NotMemberAndBlocked, NotMemberAndInvited, WithinLimits
  <2> QED BY <2>4, <2>5, <2>6, <2>7 DEF IInv
<1> QED BY <1>1, <1>2

\* remove_member: whoever removes an owner is an owner, so one is left.
LEMMA RemoveImplKeepsIInv ==
    ASSUME IInv, NEW caller \in Users, NEW target \in Users, NEW block \in BOOLEAN,
           RemoveImpl(caller, target, block),
           pending' \subseteq LegitPending, frozen' \in BOOLEAN, public' \in BOOLEAN
    PROVE  IInv'
<1>1. CASE ~MayRemove(caller, target, block)
  BY <1>1, QuietStepKeepsIInv DEF RemoveImpl, IInv, TypeOK
<1>2. CASE MayRemove(caller, target, block) /\ frozen /\ ~(block /\ target \in blocked)
  BY <1>2, QuietStepKeepsIInv DEF RemoveImpl, Panic, IInv, TypeOK
<1>3. CASE MayRemove(caller, target, block) /\ ~(frozen /\ ~(block /\ target \in blocked))
  <2>1. /\ Removed(target)
        /\ blocked' \in {blocked, blocked \cup {target}}
        /\ actor' = caller /\ UNCHANGED invited
    BY <1>3 DEF RemoveImpl
  <2>2. \E v \in Users : v # target /\ role[v] = "Owner"
    <3>1. CASE role[target] # "Owner"
      BY <3>1 DEF IInv, HasOwner, Holding
    <3>2. CASE role[target] = "Owner"
      <4>1. role[caller] = "Owner" /\ caller # target
        BY <1>3, <3>2 DEF MayRemove, CanRemove, IsSameOrSenior, Members
      <4> QED BY <4>1
    <3> QED BY <3>1, <3>2
  <2>3. actor' \in Users
    BY <2>1 DEF IInv, TypeOK, LegitPending
  <2> QED BY <2>1, <2>2, <2>3, RemovedKeepsIInv
<1> QED BY <1>1, <1>2, <1>3

-----------------------------------------------------------------------------

\* A new group satisfies the invariant.
LEMMA InitIInv == Init => IInv
<1> SUFFICES ASSUME Init PROVE IInv
  OBVIOUS
<1>1. Members = {Creator} /\ Holding("Owner") = {Creator}
      /\ Holding("Admin") = {} /\ Holding("Moderator") = {}
  BY ConstantsAssumption DEF Init, Members, Holding
<1>2. TypeOK
  BY ConstantsAssumption DEF Init, TypeOK, Roles, Ranked
<1>3. CountersMatch
  BY <1>1, FS_EmptySet, FS_Singleton DEF Init, CountersMatch, Ranked
<1>4. HasOwner /\ NotMemberAndBlocked /\ NotMemberAndInvited
  BY <1>1 DEF Init, HasOwner, NotMemberAndBlocked, NotMemberAndInvited
<1>5. WithinLimits
  <2>1. Cardinality(Members) = 1 /\ Cardinality(invited) = 0
    BY <1>1, FS_EmptySet, FS_Singleton DEF Init
  <2> QED BY <2>1, ConstantsAssumption DEF WithinLimits
<1>6. pending \subseteq LegitPending
  BY DEF Init
<1> QED BY <1>2, <1>3, <1>4, <1>5, <1>6 DEF IInv

\* A handler that starts waiting is a legitimate one.
LEMMA NewHandlerIsPending ==
    ASSUME NEW kind \in {"join", "change_role", "remove", "update"}, NEW caller \in Users,
           NEW target \in Users, NEW new_role \in Roles, NEW block \in BOOLEAN,
           NEW awaits \in Awaits,
           awaits = "caller" => caller = target
    PROVE  Handler(kind, caller, target, new_role, block, awaits) \in LegitPending
<1> DEFINE h == Handler(kind, caller, target, new_role, block, awaits)
<1>1. h \in Pending
  BY DEF Handler, Pending
<1>2. h.awaits = awaits /\ h.caller = caller /\ h.target = target /\ h.answer = "none"
  BY DEF Handler
<1> HIDE DEF h
<1>3. h \in LegitPending
  BY <1>1, <1>2 DEF LegitPending
<1> QED BY <1>3 DEF h

\* What a waiting handler is made of, and that an answer leaves it one.
LEMMA PendingFields ==
    ASSUME NEW h \in LegitPending
    PROVE  /\ h.awaits = "caller" =>
                 h.caller = h.target /\ (h.answer = "yes" => h.caller \in PlatformModerators)
           /\ h.caller \in Users /\ h.target \in Users /\ h.new_role \in Roles
           /\ h.block \in BOOLEAN /\ h.public \in BOOLEAN
           /\ \A a \in {"yes", "no"} :
                 (h.awaits = "caller" /\ a = "yes" => h.caller \in PlatformModerators)
                   => [h EXCEPT !.answer = a] \in LegitPending
  BY DEF LegitPending, Pending

\* Every operation keeps the invariant.
LEMMA NextIInv == IInv /\ [Next]_vars => IInv'
<1> SUFFICES ASSUME IInv, [Next]_vars PROVE IInv'
  OBVIOUS
<1>1. ASSUME NEW u \in Users, Join(u) PROVE IInv'
  <2>1. CASE IsGated
    <3>1. Handler("join", u, u, "Member", FALSE, "gate") \in LegitPending
      BY NewHandlerIsPending DEF Roles, Awaits
    <3>2. pending' \subseteq LegitPending
      BY <1>1, <2>1, <3>1 DEF Join, IInv, TypeOK
    <3> QED
      BY <1>1, <2>1, <3>2, QuietStepKeepsIInv DEF Join, IInv, TypeOK
  <2>2. CASE ~IsGated
    <3>1. JoinImpl(u) /\ UNCHANGED <<pending, public, frozen>>
      BY <1>1, <2>2 DEF Join
    <3> QED BY <3>1, JoinImplKeepsIInv DEF IInv, TypeOK, LegitPending
  <2> QED BY <2>1, <2>2
<1>2. ASSUME NEW u \in Users, JoinModeratorsGroup(u) PROVE IInv'
  BY <1>2, JoinImplKeepsIInv DEF JoinModeratorsGroup, IInv, TypeOK
<1>3. ASSUME NEW u \in Users, Leave(u) PROVE IInv'
  <2>1. \E v \in Users : v # u /\ role[v] = "Owner"
    <3>1. CASE role[u] # "Owner"
      BY <3>1 DEF IInv, HasOwner, Holding
    <3>2. CASE role[u] = "Owner"
      BY <1>3, <3>2, AnotherOwner DEF Leave, CanLeave, IInv
    <3> QED BY <3>1, <3>2
  <2> QED
    BY <1>3, <2>1, RemovedKeepsIInv DEF Leave, IInv, TypeOK
<1>4. ASSUME NEW u \in Users, Decline(u) PROVE IInv'
  <2>1. Members' = Members /\ \A r : Holding(r)' = Holding(r)
    BY <1>4 DEF Decline, Members, Holding
  <2>2. TypeOK' /\ CountersMatch' /\ HasOwner' /\ NotMemberAndBlocked'
        /\ NotMemberAndInvited'
    BY <1>4, <2>1
       DEF Decline, IInv, TypeOK, CountersMatch, HasOwner, NotMemberAndBlocked,
           NotMemberAndInvited
  <2>3. Cardinality(invited') <= Cardinality(invited)
        /\ Cardinality(invited') \in Nat /\ Cardinality(invited) \in Nat
    <3>1. IsFiniteSet(invited) /\ invited' \subseteq invited
      BY <1>4, UsersAreFinite DEF Decline, IInv, TypeOK
    <3> QED BY <3>1, SubsetIsSmaller
  <2> QED
    BY <1>4, <2>1, <2>2, <2>3, ConstantsAssumption DEF Decline, IInv, WithinLimits
<1>5. ASSUME NEW u \in Users, SetSuspended(u) PROVE IInv'
  BY <1>5, QuietStepKeepsIInv DEF SetSuspended, IInv, TypeOK
<1>6. ASSUME NEW u \in Users, NEW v \in Users, Invite(u, v) PROVE IInv'
  <2>1. Members' = Members /\ \A r : Holding(r)' = Holding(r)
    BY <1>6 DEF Invite, Members, Holding
  <2>2. TypeOK' /\ CountersMatch' /\ HasOwner' /\ NotMemberAndBlocked'
        /\ NotMemberAndInvited'
    BY <1>6, <2>1
       DEF Invite, RecordPrincipal, NeedsInvitation, IInv, TypeOK, CountersMatch,
           HasOwner, NotMemberAndBlocked, NotMemberAndInvited
  <2>3. Cardinality(invited') <= MaxInvites
    <3>1. CASE NeedsInvitation(v)
      <4>1. invited' = invited \cup {v} /\ v \notin invited
            /\ Cardinality(invited) + 1 <= MaxInvites
        BY <1>6, <3>1 DEF Invite, NeedsInvitation, RoomForInvitation
      <4>2. IsFiniteSet(invited)
        BY UsersAreFinite DEF IInv, TypeOK, LegitPending
      <4>3. Cardinality(invited') = Cardinality(invited) + 1
        BY <4>1, <4>2, FS_AddElement
      <4> QED BY <4>1, <4>3
    <3>2. CASE ~NeedsInvitation(v)
      BY <1>6, <3>2 DEF Invite, IInv, WithinLimits
    <3> QED BY <3>1, <3>2
  <2> QED BY <1>6, <2>1, <2>2, <2>3 DEF Invite, IInv, WithinLimits
<1>7. ASSUME NEW u \in Users, NEW v \in Users, Unblock(u, v) PROVE IInv'
  <2>1. Members' = Members /\ \A r : Holding(r)' = Holding(r)
    BY <1>7 DEF Unblock, Members, Holding
  <2> QED
    BY <1>7, <2>1
       DEF Unblock, IInv, TypeOK, CountersMatch, HasOwner, NotMemberAndBlocked,
           NotMemberAndInvited, WithinLimits
<1>8. ASSUME NEW u \in Users, NEW v \in Users, NEW r \in Roles, ChangeRole(u, v, r)
      PROVE  IInv'
  <2>1. CASE ChangeRoleImpl(u, v, r, FALSE, FALSE) /\ UNCHANGED <<pending, public, frozen>>
    BY <2>1, ChangeRoleImplKeepsIInv DEF IInv, TypeOK, LegitPending
  <2>2. CASE /\ \E awaits \in Awaits :
                   /\ awaits = "caller" => u = v
                   /\ pending' = pending \cup {Handler("change_role", u, v, r, FALSE, awaits)}
             /\ UNCHANGED <<role, suspended, blocked, invited, known, count, actor,
                            public, frozen>>
    <3>1. \A awaits \in Awaits : (awaits = "caller" => u = v) =>
             Handler("change_role", u, v, r, FALSE, awaits) \in LegitPending
      BY NewHandlerIsPending
    <3>2. pending' \subseteq LegitPending
      BY <2>2, <3>1 DEF IInv
    <3> QED BY <2>2, <3>2, QuietStepKeepsIInv DEF IInv, TypeOK, LegitPending
  <2> QED BY <1>8, <2>1, <2>2 DEF ChangeRole, Awaits
<1>9. ASSUME NEW u \in Users, NEW v \in Users, NEW block \in BOOLEAN, Remove(u, v, block)
      PROVE  IInv'
  <2>1. CASE role[v] = "Owner"
    <3>1. Handler("remove", u, v, "Member", block, "target") \in LegitPending
      BY <1>9, NewHandlerIsPending DEF Remove, Roles, Awaits
    <3>2. pending' \subseteq LegitPending
      BY <1>9, <2>1, <3>1 DEF Remove, IInv, TypeOK
    <3> QED
      BY <1>9, <2>1, <3>2, QuietStepKeepsIInv DEF Remove, IInv, TypeOK
  <2>2. CASE role[v] # "Owner"
    BY <1>9, <2>2, RemoveImplKeepsIInv DEF Remove, IInv, TypeOK
  <2> QED BY <2>1, <2>2
<1>10. ASSUME NEW h \in pending, Answer(h) PROVE IInv'
  <2>1. pending' \subseteq LegitPending
    BY <1>10, PendingFields DEF Answer, IInv
  <2> QED BY <1>10, <2>1, QuietStepKeepsIInv DEF Answer, IInv, TypeOK
<1>11. ASSUME NEW h \in pending, LookupFails(h) PROVE IInv'
  BY <1>11, QuietStepKeepsIInv DEF LookupFails, IInv, TypeOK
<1>12. ASSUME NEW h \in pending, JoinAfterGate(h) PROVE IInv'
  <2>1. h.caller \in Users /\ pending' \subseteq LegitPending /\ frozen' \in BOOLEAN
        /\ public' \in BOOLEAN
    BY <1>12, PendingFields DEF JoinAfterGate, IInv, TypeOK
  <2>2. CASE h.answer = "yes"
    BY <1>12, <2>1, <2>2, JoinImplKeepsIInv DEF JoinAfterGate
  <2>3. CASE h.answer # "yes"
    BY <1>12, <2>1, <2>3, QuietStepKeepsIInv DEF JoinAfterGate, IInv, TypeOK
  <2> QED BY <2>2, <2>3
<1>13. ASSUME NEW h \in pending, ChangeRoleAfterLookup(h) PROVE IInv'
  <2>1. h.caller \in Users /\ h.target \in Users /\ h.new_role \in Roles
        /\ pending' \subseteq LegitPending /\ frozen' \in BOOLEAN
        /\ public' \in BOOLEAN
    BY <1>13, PendingFields DEF ChangeRoleAfterLookup, IInv, TypeOK
  <2> QED BY <1>13, <2>1, ChangeRoleImplKeepsIInv DEF ChangeRoleAfterLookup
<1>14. ASSUME NEW h \in pending, RemoveAfterLookup(h) PROVE IInv'
  <2>1. h.caller \in Users /\ h.target \in Users /\ h.block \in BOOLEAN
        /\ pending' \subseteq LegitPending /\ frozen' \in BOOLEAN
        /\ public' \in BOOLEAN
    BY <1>14, PendingFields DEF RemoveAfterLookup, IInv, TypeOK
  <2>2. CASE h.answer = "no"
    BY <1>14, <2>1, <2>2, RemoveImplKeepsIInv DEF RemoveAfterLookup
  <2>3. CASE h.answer # "no"
    BY <1>14, <2>1, <2>3, QuietStepKeepsIInv DEF RemoveAfterLookup, IInv, TypeOK
  <2> QED BY <2>2, <2>3
<1>15. CASE Freeze
  BY <1>15, QuietStepKeepsIInv DEF Freeze, IInv, TypeOK
<1>16. CASE UNCHANGED vars
  BY <1>16, QuietStepKeepsIInv DEF vars, IInv, TypeOK
<1>17. ASSUME NEW u \in Users, NEW new \in BOOLEAN, UpdateVisibility(u, new) PROVE IInv'
  <2> DEFINE h == Handler("update", u, u, "Member", FALSE, "index")
  <2>1. h \in LegitPending
    BY NewHandlerIsPending DEF Roles, Awaits
  <2>2. [h EXCEPT !.public = new] \in LegitPending
    BY <2>1 DEF LegitPending, Pending
  <2>3. pending' \subseteq LegitPending
    BY <1>17, <2>2 DEF UpdateVisibility, IInv
  <2> QED BY <1>17, <2>3, QuietStepKeepsIInv DEF UpdateVisibility, IInv, TypeOK
<1>18. ASSUME NEW h \in pending, UpdateAfterIndex(h) PROVE IInv'
  <2>1. h.public \in BOOLEAN /\ pending' \subseteq LegitPending
    BY <1>18, PendingFields DEF UpdateAfterIndex, IInv
  <2>2. public' \in BOOLEAN
    BY <1>18, <2>1 DEF UpdateAfterIndex, IInv, TypeOK
  <2> QED BY <1>18, <2>1, <2>2, QuietStepKeepsIInv DEF UpdateAfterIndex, IInv, TypeOK
<1> QED
  BY <1>1, <1>2, <1>3, <1>4, <1>5, <1>6, <1>7, <1>8, <1>9, <1>10, <1>11, <1>12,
     <1>13, <1>14, <1>15, <1>16, <1>17, <1>18 DEF Next

-----------------------------------------------------------------------------

\* All parts of the invariant hold in every reachable state.
THEOREM SpecIInv == Spec => []IInv
<1>1. Init => IInv
  BY InitIInv
<1>2. IInv /\ [Next]_vars => IInv'
  BY NextIInv
<1> QED BY <1>1, <1>2, PTL DEF Spec

\* The state is always well typed; in particular the u32 counters that
\* GroupMembers::remove and change_role subtract from never wrap.
THEOREM TypeCorrect == Spec => []TypeOK
<1>1. IInv => TypeOK
  BY DEF IInv
<1> QED BY <1>1, SpecIInv, PTL

\* owner_count, admin_count and moderator_count agree with the members.
THEOREM CountersAgree == Spec => []CountersMatch
<1>1. IInv => CountersMatch
  BY DEF IInv
<1> QED BY <1>1, SpecIInv, PTL

\* No group of any size loses its last owner, however lookups, demotions,
\* removals and leaving interleave.
THEOREM AlwaysAnOwner == Spec => []HasOwner
<1>1. IInv => HasOwner
  BY DEF IInv
<1> QED BY <1>1, SpecIInv, PTL

\* Nobody is a member and blocked, nor a member and invited, at any time.
THEOREM MembersAreNeitherBlockedNorInvited ==
    Spec => []NeitherBlockedNorInvited
<1>1. IInv => NeitherBlockedNorInvited
  BY DEF IInv, NeitherBlockedNorInvited
<1> QED BY <1>1, SpecIInv, PTL

\* The member and invitation limits hold, even though users that have passed
\* the gate are checked against them only when they are added.
THEOREM LimitsHold == Spec => []WithinLimits
<1>1. IInv => WithinLimits
  BY DEF IInv
<1> QED BY <1>1, SpecIInv, PTL

-----------------------------------------------------------------------------

\* What ActsWithCurrentAuthority asks of a step.
Authorised ==
    \A u \in Users : role[u] # "None" /\ role'[u] # role[u] =>
        /\ Active(actor')
        /\ IF role'[u] = "None"
           THEN actor' = u \/ CanRemove(role[actor'], role[u])
           ELSE \/ CanChangeRoles(role[actor'], role'[u])
                \/ actor' = u /\ u \in PlatformModerators /\ role'[u] = "Owner"

\* A step in which nobody that has a role changes it needs no authority.
LEMMA JoiningIsAuthorised ==
    ASSUME \A u \in Users : role[u] # "None" => role'[u] = role[u]
    PROVE  Authorised
  BY DEF Authorised

\* Joining changes the role of no member.
LEMMA JoinImplIsAuthorised ==
    ASSUME TypeOK, NEW u \in Users, JoinImpl(u)
    PROVE  Authorised
<1>1. \/ UNCHANGED role
      \/ role' = [role EXCEPT ![u] = "Member"] /\ role[u] = "None"
  BY DEF JoinImpl, MayBeAdded, Members, SetRole, Panic
<1> QED BY <1>1, JoiningIsAuthorised DEF TypeOK

\* change_role checks the caller's role and suspension when it changes the
\* role, and lets a platform moderator promote only itself.
LEMMA ChangeRoleImplIsAuthorised ==
    ASSUME TypeOK, NEW caller \in Users, NEW target \in Users, NEW new_role \in Roles,
           NEW caller_is_pm \in BOOLEAN, NEW target_is_pm,
           caller_is_pm => caller = target /\ caller \in PlatformModerators,
           ChangeRoleImpl(caller, target, new_role, caller_is_pm, target_is_pm)
    PROVE  Authorised
<1>1. CASE UNCHANGED role
  BY <1>1, JoiningIsAuthorised
<1>2. CASE /\ MayChangeRole(caller, target, new_role, caller_is_pm, target_is_pm)
           /\ SetRole(target, new_role) /\ actor' = caller
  <2>1. \A u \in Users : role'[u] = IF u = target THEN new_role ELSE role[u]
    BY <1>2 DEF SetRole, TypeOK
  <2>2. Active(caller)
    BY <1>2 DEF MayChangeRole
  <2>3. \/ CanChangeRoles(role[caller], new_role)
        \/ caller = target /\ caller \in PlatformModerators /\ new_role = "Owner"
    BY <1>2 DEF MayChangeRole
  <2>4. new_role # "None"
    BY DEF Roles, Ranked
  <2> QED BY <1>2, <2>1, <2>2, <2>3, <2>4 DEF Authorised
<1> QED BY <1>1, <1>2 DEF ChangeRoleImpl

\* remove_member checks the caller again after the lookup of an owner.
LEMMA RemoveImplIsAuthorised ==
    ASSUME TypeOK, NEW caller \in Users, NEW target \in Users, NEW block \in BOOLEAN,
           RemoveImpl(caller, target, block)
    PROVE  Authorised
<1>1. CASE UNCHANGED role
  BY <1>1, JoiningIsAuthorised
<1>2. CASE MayRemove(caller, target, block) /\ Removed(target) /\ actor' = caller
  <2>1. \A u \in Users : role'[u] = IF u = target THEN "None" ELSE role[u]
    BY <1>2 DEF Removed, SetRole, TypeOK
  <2>2. /\ Active(caller)
        /\ role[target] # "None" => CanRemove(role[caller], role[target])
    BY <1>2 DEF MayRemove, Members
  <2> QED BY <1>2, <2>1, <2>2 DEF Authorised
<1> QED BY <1>1, <1>2 DEF RemoveImpl, Panic

\* Every step is authorised.
LEMMA NextIsAuthorised == IInv /\ [Next]_vars => Authorised
<1> SUFFICES ASSUME IInv, [Next]_vars PROVE Authorised
  OBVIOUS
<1>t. TypeOK /\ pending \subseteq LegitPending
  BY DEF IInv
<1>1. ASSUME NEW u \in Users, Join(u) PROVE Authorised
  BY <1>1, <1>t, JoinImplIsAuthorised, JoiningIsAuthorised DEF Join
<1>2. ASSUME NEW u \in Users, JoinModeratorsGroup(u) PROVE Authorised
  BY <1>2, <1>t, JoinImplIsAuthorised DEF JoinModeratorsGroup
<1>3. ASSUME NEW u \in Users, Leave(u) PROVE Authorised
  <2>1. /\ Active(u) /\ actor' = u
        /\ \A v \in Users : role'[v] = IF v = u THEN "None" ELSE role[v]
    BY <1>3, <1>t DEF Leave, CanLeave, Removed, SetRole, TypeOK
  <2> QED BY <2>1 DEF Authorised
<1>4. ASSUME NEW u \in Users, NEW v \in Users, NEW r \in Roles, ChangeRole(u, v, r)
      PROVE  Authorised
  <2>1. UNCHANGED role \/ ChangeRoleImpl(u, v, r, FALSE, FALSE)
    BY <1>4 DEF ChangeRole
  <2> QED BY <1>t, <2>1, ChangeRoleImplIsAuthorised, JoiningIsAuthorised
<1>5. ASSUME NEW u \in Users, NEW v \in Users, NEW block \in BOOLEAN, Remove(u, v, block)
      PROVE  Authorised
  BY <1>5, <1>t, RemoveImplIsAuthorised, JoiningIsAuthorised DEF Remove
<1>6. ASSUME NEW h \in pending, JoinAfterGate(h) PROVE Authorised
  <2>1. h.caller \in Users
    BY <1>t, PendingFields
  <2>2. UNCHANGED role \/ JoinImpl(h.caller)
    BY <1>6 DEF JoinAfterGate
  <2> QED BY <1>t, <2>1, <2>2, JoinImplIsAuthorised, JoiningIsAuthorised
<1>7. ASSUME NEW h \in pending, ChangeRoleAfterLookup(h) PROVE Authorised
  <2>1. /\ h.caller \in Users /\ h.target \in Users /\ h.new_role \in Roles
        /\ h.awaits = "caller" =>
              h.caller = h.target /\ (h.answer = "yes" => h.caller \in PlatformModerators)
    BY <1>t, PendingFields
  <2>2. ChangeRoleImpl(h.caller, h.target, h.new_role,
                       h.answer = "yes" /\ h.awaits = "caller",
                       h.answer = "yes" /\ h.awaits = "target")
    BY <1>7 DEF ChangeRoleAfterLookup
  <2> QED BY <1>t, <2>1, <2>2, ChangeRoleImplIsAuthorised
<1>8. ASSUME NEW h \in pending, RemoveAfterLookup(h) PROVE Authorised
  <2>1. h.caller \in Users /\ h.target \in Users /\ h.block \in BOOLEAN
    BY <1>t, PendingFields
  <2>2. UNCHANGED role \/ RemoveImpl(h.caller, h.target, h.block)
    BY <1>8 DEF RemoveAfterLookup
  <2> QED BY <1>t, <2>1, <2>2, RemoveImplIsAuthorised, JoiningIsAuthorised
<1>9. ASSUME NEW u \in Users, NEW v \in Users,
             Decline(u) \/ SetSuspended(u) \/ Invite(u, v) \/ Unblock(u, v)
      PROVE  Authorised
  BY <1>9, JoiningIsAuthorised DEF Decline, SetSuspended, Invite, Unblock
<1>10. ASSUME NEW h \in pending, Answer(h) \/ LookupFails(h) PROVE Authorised
  BY <1>10, JoiningIsAuthorised DEF Answer, LookupFails
<1>11. CASE Freeze \/ UNCHANGED vars
  BY <1>11, JoiningIsAuthorised DEF Freeze, vars
<1>12. ASSUME NEW h \in pending, UpdateAfterIndex(h) PROVE Authorised
  BY <1>12, JoiningIsAuthorised DEF UpdateAfterIndex
<1>13. ASSUME NEW u \in Users, NEW new \in BOOLEAN, UpdateVisibility(u, new)
       PROVE  Authorised
  BY <1>13, JoiningIsAuthorised DEF UpdateVisibility
<1> QED
  BY <1>1, <1>2, <1>3, <1>4, <1>5, <1>6, <1>7, <1>8, <1>9, <1>10, <1>11, <1>12, <1>13 DEF Next

\* Whoever changes a role or removes a member is active, senior enough and permitted
\* to at that very moment, even if the handler decided to go ahead before an await;
\* only platform moderators make themselves owners without.
THEOREM AuthorityIsCurrent == Spec => ActsWithCurrentAuthority
<1>1. IInv /\ [Next]_vars => [Authorised]_vars
  BY NextIsAuthorised
<1>2. Spec => [][Authorised]_vars
  BY <1>1, SpecIInv, PTL DEF Spec
<1> QED BY <1>2 DEF ActsWithCurrentAuthority, Authorised

-----------------------------------------------------------------------------

\* What InvitationsStayUsable asks of a step.
Usable ==
    \A u \in Users : u \in invited' => \/ u \in known' \/ u \in blocked'
                                       \/ u \in invited \ known

\* A step that adds no invitation and forgets no principal is fine.
LEMMA KeepingIsUsable ==
    ASSUME invited' \subseteq invited, known \subseteq known'
    PROVE  Usable
  BY DEF Usable

\* So is one that forgets the principal of a user that has no invitation.
LEMMA ForgettingIsUsable ==
    ASSUME NEW u, u \notin invited', UNCHANGED invited \/ invited' = invited \ {u},
           known' = known \ {u}
    PROVE  Usable
  BY DEF Usable

\* Who joins has used its invitation, and is known.
LEMMA JoinImplIsUsable ==
    ASSUME NEW u, JoinImpl(u)
    PROVE  Usable
  BY KeepingIsUsable DEF JoinImpl, Panic

\* Who is removed is a member, and has no invitation, or gets blocked.
LEMMA RemoveImplIsUsable ==
    ASSUME NotMemberAndInvited, NEW caller, NEW target, NEW block \in BOOLEAN,
           RemoveImpl(caller, target, block)
    PROVE  Usable
<1>1. CASE UNCHANGED <<invited, known>>
  BY <1>1, KeepingIsUsable
<1>2. CASE MayRemove(caller, target, block) /\ Removed(target) /\ UNCHANGED invited
           /\ blocked' = IF block THEN blocked \cup {target} ELSE blocked
  <2>1. CASE block
    BY <1>2, <2>1 DEF Usable, Removed
  <2>2. CASE ~block
    <3>1. target \notin invited
      BY <1>2, <2>2 DEF MayRemove, NotMemberAndInvited
    <3> QED BY <1>2, <3>1, ForgettingIsUsable DEF Removed
  <2> QED BY <2>1, <2>2
<1> QED BY <1>1, <1>2 DEF RemoveImpl, Panic

\* Every step keeps invitations usable.
LEMMA NextIsUsable == IInv /\ [Next]_vars => Usable
<1> SUFFICES ASSUME IInv, [Next]_vars PROVE Usable
  OBVIOUS
<1>i. NotMemberAndInvited /\ pending \subseteq LegitPending
  BY DEF IInv
<1>1. ASSUME NEW u \in Users, Join(u) PROVE Usable
  BY <1>1, JoinImplIsUsable, KeepingIsUsable DEF Join
<1>2. ASSUME NEW u \in Users, JoinModeratorsGroup(u) PROVE Usable
  BY <1>2, JoinImplIsUsable DEF JoinModeratorsGroup
<1>3. ASSUME NEW u \in Users, Leave(u) PROVE Usable
  <2>1. u \notin invited' /\ UNCHANGED invited /\ known' = known \ {u}
    BY <1>i, <1>3 DEF Leave, CanLeave, Active, Removed, NotMemberAndInvited
  <2> QED BY <2>1, ForgettingIsUsable
<1>4. ASSUME NEW u \in Users, Decline(u) PROVE Usable
  BY <1>4, ForgettingIsUsable DEF Decline
<1>5. ASSUME NEW u \in Users, NEW v \in Users, Invite(u, v) PROVE Usable
  BY <1>5 DEF Invite, RecordPrincipal, Usable
<1>6. ASSUME NEW u \in Users, NEW v \in Users, NEW block \in BOOLEAN, Remove(u, v, block)
      PROVE  Usable
  BY <1>6, <1>i, RemoveImplIsUsable, KeepingIsUsable DEF Remove
<1>7. ASSUME NEW h \in pending, JoinAfterGate(h) PROVE Usable
  BY <1>7, JoinImplIsUsable, KeepingIsUsable DEF JoinAfterGate
<1>8. ASSUME NEW h \in pending, RemoveAfterLookup(h) PROVE Usable
  <2>1. h.block \in BOOLEAN
    BY <1>i, PendingFields
  <2> QED BY <1>8, <1>i, <2>1, RemoveImplIsUsable, KeepingIsUsable DEF RemoveAfterLookup
<1>9. ASSUME NEW u \in Users, NEW v \in Users, SetSuspended(u) \/ Unblock(u, v) PROVE Usable
  BY <1>9, KeepingIsUsable DEF SetSuspended, Unblock
<1>10. ASSUME NEW u \in Users, NEW v \in Users, NEW r \in Roles, ChangeRole(u, v, r)
       PROVE  Usable
  BY <1>10, KeepingIsUsable DEF ChangeRole, ChangeRoleImpl
<1>11. ASSUME NEW u \in Users, NEW new \in BOOLEAN, UpdateVisibility(u, new) PROVE Usable
  BY <1>11, KeepingIsUsable DEF UpdateVisibility
<1>12. ASSUME NEW h \in pending,
              \/ Answer(h) \/ LookupFails(h)
              \/ ChangeRoleAfterLookup(h) \/ UpdateAfterIndex(h)
       PROVE  Usable
  BY <1>12, KeepingIsUsable
     DEF Answer, LookupFails, ChangeRoleAfterLookup, ChangeRoleImpl, UpdateAfterIndex
<1>13. CASE Freeze \/ UNCHANGED vars
  BY <1>13, KeepingIsUsable DEF Freeze, vars
<1> QED
  BY <1>1, <1>2, <1>3, <1>4, <1>5, <1>6, <1>7, <1>8, <1>9, <1>10, <1>11, <1>12, <1>13 DEF Next

\* Whoever is invited can be found by its principal, until it declines or is
\* blocked.
THEOREM InvitationsAreUsable == Spec => InvitationsStayUsable
<1>1. IInv /\ [Next]_vars => [Usable]_vars
  BY NextIsUsable
<1>2. Spec => [][Usable]_vars
  BY <1>1, SpecIInv, PTL DEF Spec
<1> QED BY <1>2 DEF InvitationsStayUsable, Usable
=============================================================================
