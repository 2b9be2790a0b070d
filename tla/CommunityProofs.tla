-------------------------- MODULE CommunityProofs --------------------------
(***************************************************************************)
(* What Community promises, for any number of users and calls.             *)
(*                                                                         *)
(* DataInv is about the data alone: nobody is blocked and a member, the    *)
(* channel has an owner, and the two records of who is in the channel      *)
(* differ only for users who have been in the channel without being in the *)
(* community.  Each operator on the data is shown to keep it, so a step    *)
(* that applies several of them does.  PaymentsInv is about the queue of   *)
(* payments, and says nothing of the data.  FundsInv relates the payments  *)
(* to the account; a section of lemmas about sums comes before it.         *)
(***************************************************************************)
EXTENDS Community, FiniteSetTheorems, SequenceTheorems, TLAPS

-----------------------------------------------------------------------------
(* The data *)

Channels == [deleted : BOOLEAN, public : BOOLEAN, gate : Gates, roles : [Users -> Roles]]
Communities == [gate : Gates, blocked : SUBSET Users, listed : SUBSET Users,
                roles : [Users -> Roles], channel : Channels]

\* In the channel and not in the community.
Strays(c) == ChannelMembers(c) \ In(c.roles)

\* The lists of the members and the members of the channel agree, but for strangers.
ListsAgree(c, strangers) ==
    /\ c.listed \subseteq In(c.roles) \cap ChannelMembers(c)
    /\ ChannelMembers(c) \subseteq c.listed \cup strangers
HasChannelOwner(c) == ~c.channel.deleted => Owners(c.channel.roles) # {}
NobodyBlocked(c) == c.blocked \cap In(c.roles) = {}

Sound(c, strangers) ==
    /\ c \in Communities
    /\ ListsAgree(c, strangers) /\ HasChannelOwner(c) /\ NobodyBlocked(c)

\* What a step must show of the data it leaves.
Kept(c) == Sound(c, estranged \cup Strays(c))

\* Strangers are no obstacle.
LEMMA SoundIsKept ==
    ASSUME NEW c, Sound(c, estranged)
    PROVE  Kept(c)
BY DEF Kept, Sound, ListsAgree

\* Joining a channel that is there keeps the data sound, for a member.
LEMMA JoinedChannelIsSound ==
    ASSUME NEW c, NEW e, Sound(c, e), ~c.channel.deleted,
           NEW u \in Users, u \in In(c.roles)
    PROVE  Sound(JoinedChannel(c, u), e)
<1> DEFINE d == JoinedChannel(c, u)
<1>1. /\ c \in Communities /\ c.channel \in Channels /\ c.channel.roles \in [Users -> Roles]
      /\ c.listed \in SUBSET Users /\ c.blocked \in SUBSET Users /\ c.roles \in [Users -> Roles]
  BY DEF Sound, Communities, Channels
<1>2. /\ d.roles = c.roles /\ d.blocked = c.blocked /\ d.listed = c.listed \cup {u}
      /\ d.channel.deleted = c.channel.deleted
      /\ d.channel.roles = [c.channel.roles EXCEPT ![u] = IF @ = "None" THEN "Member" ELSE @]
  BY <1>1 DEF JoinedChannel, Communities, Channels
<1>3. d \in Communities
  BY <1>1 DEF JoinedChannel, Communities, Channels, Roles
<1> HIDE DEF d
<1>4. /\ In(d.channel.roles) = In(c.channel.roles) \cup {u}
      /\ Owners(d.channel.roles) = Owners(c.channel.roles)
  BY <1>1, <1>2 DEF In, Owners
<1>5. ListsAgree(d, e)
  BY <1>1, <1>2, <1>4 DEF Sound, ListsAgree, ChannelMembers
<1>6. HasChannelOwner(d) /\ NobodyBlocked(d)
  BY <1>2, <1>4 DEF Sound, HasChannelOwner, NobodyBlocked
<1> QED BY <1>3, <1>5, <1>6 DEF Sound, d

\* So does everybody's joining it.
LEMMA EveryoneJoinedIsSound ==
    ASSUME NEW c, NEW e, Sound(c, e), ~c.channel.deleted
    PROVE  Sound(EveryoneJoined(c), e)
<1> DEFINE d == EveryoneJoined(c)
<1>1. /\ c \in Communities /\ c.channel \in Channels /\ c.channel.roles \in [Users -> Roles]
      /\ c.listed \in SUBSET Users /\ c.blocked \in SUBSET Users /\ c.roles \in [Users -> Roles]
      /\ In(c.roles) \subseteq Users
  BY DEF Sound, Communities, Channels, In
<1>2. /\ d.roles = c.roles /\ d.blocked = c.blocked /\ d.listed = c.listed \cup In(c.roles)
      /\ d.channel.deleted = c.channel.deleted
      /\ d.channel.roles = [u \in Users |->
                               IF c.channel.roles[u] = "None" /\ u \in In(c.roles)
                               THEN "Member" ELSE c.channel.roles[u]]
  BY <1>1 DEF EveryoneJoined, Communities, Channels
<1>3. d \in Communities
  BY <1>1 DEF EveryoneJoined, Communities, Channels, Roles
<1> HIDE DEF d
<1>4. /\ In(d.channel.roles) = In(c.channel.roles) \cup In(c.roles)
      /\ Owners(d.channel.roles) = Owners(c.channel.roles)
  BY <1>1, <1>2 DEF In, Owners
<1>5. ListsAgree(d, e)
  BY <1>1, <1>2, <1>4 DEF Sound, ListsAgree, ChannelMembers
<1>6. HasChannelOwner(d) /\ NobodyBlocked(d)
  BY <1>2, <1>4 DEF Sound, HasChannelOwner, NobodyBlocked
<1> QED BY <1>3, <1>5, <1>6 DEF Sound, d

\* join_channel_auto joins only who may.
LEMMA AutoJoinedIsSound ==
    ASSUME NEW c, NEW e, Sound(c, e), NEW u \in Users
    PROVE  Sound(AutoJoined(c, u), e)
BY JoinedChannelIsSound DEF AutoJoined, MayJoinChannel

\* A new member is not blocked; one who is in the channel already is a stranger.
LEMMA JoinedCommunityIsSound ==
    ASSUME NEW c, NEW e, Sound(c, e), NEW u \in Users
    PROVE  Sound(JoinedCommunity(c, u), e)
<1>1. CASE CanAdd(c, u)
  <2> DEFINE d == [c EXCEPT !.roles[u] = "Member"]
  <2>1. /\ c \in Communities /\ c.roles \in [Users -> Roles]
    BY DEF Sound, Communities
  <2>2. /\ d.roles = [c.roles EXCEPT ![u] = "Member"] /\ d.blocked = c.blocked
        /\ d.listed = c.listed /\ d.channel = c.channel
    BY <2>1 DEF Communities
  <2>3. d \in Communities
    BY <2>1 DEF Communities, Roles
  <2> HIDE DEF d
  <2>4. In(d.roles) = In(c.roles) \cup {u}
    BY <2>1, <2>2 DEF In
  <2>5. Sound(d, e)
    BY <1>1, <2>2, <2>3, <2>4
       DEF Sound, ListsAgree, HasChannelOwner, NobodyBlocked, ChannelMembers, CanAdd
  <2>6. JoinedCommunity(c, u) = AutoJoined(d, u)
    BY <1>1 DEF JoinedCommunity, d
  <2> QED BY <2>5, <2>6, AutoJoinedIsSound
<1> QED BY <1>1 DEF JoinedCommunity

\* A platform moderator is unblocked before it is added, and nothing else is changed.
LEMMA UnblockedIsSound ==
    ASSUME NEW c, NEW e, Sound(c, e), NEW u \in Users, NEW is_moderator
    PROVE  /\ Sound(Unblocked(c, u, is_moderator), e)
           /\ Unblocked(c, u, is_moderator).roles = c.roles
<1> DEFINE d == [c EXCEPT !.blocked = @ \ {u}]
<1>1. c \in Communities
  BY DEF Sound
<1>2. /\ d.roles = c.roles /\ d.blocked = c.blocked \ {u} /\ d.listed = c.listed
      /\ d.channel = c.channel /\ d \in Communities
  BY <1>1 DEF Communities
<1> HIDE DEF d
<1>3. Sound(d, e)
  BY <1>2 DEF Sound, ListsAgree, HasChannelOwner, NobodyBlocked, ChannelMembers
<1>4. Unblocked(c, u, is_moderator) \in {c, d}
  BY DEF Unblocked, d
<1> QED BY <1>2, <1>3, <1>4

\* Leaving a channel keeps an owner in it; the list follows.
LEMMA LeftChannelIs ==
    ASSUME NEW c, c \in Communities, HasChannelOwner(c), NEW u \in Users
    PROVE  LET d == LeftChannel(c, u)
           IN  /\ d \in Communities /\ d.roles = c.roles /\ d.blocked = c.blocked
               /\ d.listed = c.listed /\ HasChannelOwner(d)
               /\ ChannelMembers(c) \ {u} = ChannelMembers(d) \ {u}
               /\ CanLeaveChannel(c, u) => u \notin ChannelMembers(d)
<1> DEFINE d == LeftChannel(c, u)
<1> SUFFICES /\ d \in Communities /\ d.roles = c.roles /\ d.blocked = c.blocked
             /\ d.listed = c.listed /\ HasChannelOwner(d)
             /\ ChannelMembers(c) \ {u} = ChannelMembers(d) \ {u}
             /\ CanLeaveChannel(c, u) => u \notin ChannelMembers(d)
  OBVIOUS
<1>1. CASE CanLeaveChannel(c, u)
  <2>1. c.channel \in Channels /\ c.channel.roles \in [Users -> Roles]
    BY DEF Communities, Channels
  <2>2. /\ d.roles = c.roles /\ d.blocked = c.blocked /\ d.listed = c.listed
        /\ d.channel.deleted = c.channel.deleted
        /\ d.channel.roles = [c.channel.roles EXCEPT ![u] = "None"]
    BY <1>1, <2>1 DEF LeftChannel, Communities, Channels
  <2>3. d \in Communities
    BY <1>1, <2>1 DEF LeftChannel, Communities, Channels, Roles
  <2> HIDE DEF d
  <2>4. /\ In(d.channel.roles) = In(c.channel.roles) \ {u}
        /\ Owners(d.channel.roles) = Owners(c.channel.roles) \ {u}
    BY <2>1, <2>2 DEF In, Owners
  <2>5. ~c.channel.deleted => Owners(c.channel.roles) \ {u} # {}
    BY <1>1 DEF HasChannelOwner, CanLeaveChannel, LastChannelOwner
  <2> QED BY <2>2, <2>3, <2>4, <2>5 DEF HasChannelOwner, ChannelMembers
<1>2. CASE ~CanLeaveChannel(c, u)
  BY <1>2 DEF LeftChannel
<1> QED BY <1>1, <1>2

\* Whoever leaves the community may stay in the channel, as a stranger.
LEMMA RemovedIsKept ==
    ASSUME NEW c, Sound(c, estranged), NEW u \in Users
    PROVE  /\ Kept(Removed(c, u))
           /\ u \notin In(Removed(c, u).roles)
<1> DEFINE b == [c EXCEPT !.roles[u] = "None", !.listed = @ \ {u}]
           d == LeftChannel(b, u)
<1>1. /\ c \in Communities /\ c.roles \in [Users -> Roles]
  BY DEF Sound, Communities
<1>2. /\ b.roles = [c.roles EXCEPT ![u] = "None"] /\ b.blocked = c.blocked
      /\ b.listed = c.listed \ {u} /\ b.channel = c.channel
  BY <1>1 DEF Communities
<1>3. b \in Communities
  BY <1>1 DEF Communities, Roles
<1> HIDE DEF b
<1>4. In(b.roles) = In(c.roles) \ {u} /\ ChannelMembers(b) = ChannelMembers(c)
  BY <1>1, <1>2 DEF In, ChannelMembers
<1>5. HasChannelOwner(b)
  BY <1>2 DEF Sound, HasChannelOwner
<1>6. /\ d \in Communities /\ d.roles = b.roles /\ d.blocked = b.blocked
      /\ d.listed = b.listed /\ HasChannelOwner(d)
      /\ ChannelMembers(b) \ {u} = ChannelMembers(d) \ {u}
  BY <1>3, <1>5, LeftChannelIs
<1>7. d = Removed(c, u)
  BY DEF Removed, b
<1> HIDE DEF d
<1>8. NobodyBlocked(d)
  BY <1>2, <1>4, <1>6 DEF Sound, NobodyBlocked
<1>9. ListsAgree(d, estranged \cup Strays(d))
  BY <1>2, <1>4, <1>6 DEF Sound, ListsAgree, Strays
<1> QED BY <1>4, <1>6, <1>7, <1>8, <1>9 DEF Kept, Sound

\* A blocked user is no member, and blocking touches nothing else.
LEMMA BlockedIsKept ==
    ASSUME NEW c, Kept(c), NEW r, r.user \in Users \ In(c.roles)
    PROVE  Kept(Blocked(c, r))
<1> DEFINE d == Blocked(c, r)
<1>1. c \in Communities
  BY DEF Kept, Sound
<1>2. /\ d.roles = c.roles /\ d.listed = c.listed /\ d.channel = c.channel
      /\ d.blocked \subseteq c.blocked \cup {r.user}
  BY <1>1 DEF Blocked, Communities
<1>3. d \in Communities
  BY <1>1 DEF Blocked, Communities
<1> HIDE DEF d
<1>4. ChannelMembers(d) = ChannelMembers(c) /\ Strays(d) = Strays(c)
  BY <1>2 DEF ChannelMembers, Strays
<1> QED
  BY <1>2, <1>3, <1>4 DEF Kept, Sound, ListsAgree, HasChannelOwner, NobodyBlocked, d

\* A user is added to the channel, known to the community or not.
LEMMA AddedIsKept ==
    ASSUME NEW c, Sound(c, estranged), NEW u \in Users
    PROVE  Kept(Added(c, u))
<1>1. CASE c.channel.deleted \/ u \in In(c.channel.roles)
  BY <1>1, SoundIsKept DEF Added
<1>2. CASE ~(c.channel.deleted \/ u \in In(c.channel.roles))
  <2> DEFINE d == Added(c, u)
  <2>1. /\ c \in Communities /\ c.channel \in Channels /\ c.channel.roles \in [Users -> Roles]
    BY DEF Sound, Communities, Channels
  <2>2. /\ d.roles = c.roles /\ d.blocked = c.blocked
        /\ d.listed = c.listed \cup ({u} \cap In(c.roles))
        /\ d.channel.deleted = FALSE
        /\ d.channel.roles = [c.channel.roles EXCEPT ![u] = "Member"]
    BY <1>2, <2>1 DEF Added, Communities, Channels
  <2>3. d \in Communities
    BY <1>2, <2>1 DEF Added, Communities, Channels, Roles
  <2> HIDE DEF d
  <2>4. /\ In(d.channel.roles) = In(c.channel.roles) \cup {u}
        /\ Owners(c.channel.roles) \subseteq Owners(d.channel.roles)
    BY <1>2, <2>1, <2>2 DEF In, Owners
  <2>5. ChannelMembers(d) = ChannelMembers(c) \cup {u} /\ ~c.channel.deleted
    BY <1>2, <2>2, <2>4 DEF ChannelMembers
  <2>6. ListsAgree(d, estranged \cup Strays(d))
    BY <2>2, <2>5 DEF Sound, ListsAgree, Strays
  <2>7. HasChannelOwner(d) /\ NobodyBlocked(d)
    BY <2>2, <2>4, <2>5 DEF Sound, HasChannelOwner, NobodyBlocked
  <2> QED BY <2>3, <2>6, <2>7 DEF Kept, Sound, d
<1> QED BY <1>1, <1>2
-----------------------------------------------------------------------------
(* The steps *)

Joins == [user : Users, is_moderator : BOOLEAN, wants : {"community", "channel"},
          at : {"community", "channel"}, price : Prices]
Removals == [user : Users, by : Users, block : BOOLEAN]
Additions == [user : Users, price : Prices]

HandlersTyped ==
    /\ DOMAIN joining \subseteq Joins
    /\ removing \subseteq Removals
    /\ DOMAIN adding \subseteq Additions
DataInv == Sound(community, estranged) /\ HandlersTyped

\* What is in a bag that one element was put into, or taken out of.
LEMMA BagOneMore ==
    ASSUME NEW T, NEW B, DOMAIN B \subseteq T, NEW x \in T
    PROVE  DOMAIN (B (+) One(x)) \subseteq T
BY DEF (+), One, SetToBag

\* It has no new elements when one is taken out.
LEMMA BagOneLess ==
    ASSUME NEW B, NEW x
    PROVE  DOMAIN (B (-) One(x)) \subseteq DOMAIN B
BY DEF (-)

LEMMA InitData == Init => DataInv
<1> SUFFICES ASSUME Init PROVE DataInv
  OBVIOUS
<1>1. Creator \in FirstOwners /\ FirstOwners \subseteq Users
  BY CommunityAssumption
<1>2. HandlersTyped
  BY DEF Init, HandlersTyped, EmptyBag, SetToBag
<1>3. PICK gate \in Gates :
          community =
            [gate |-> gate, blocked |-> {}, listed |-> FirstOwners,
             roles |-> [u \in Users |-> IF u \in FirstOwners THEN "Owner" ELSE "None"],
             channel |-> [deleted |-> FALSE, public |-> TRUE, gate |-> NoGate,
                          roles |-> [u \in Users |->
                                        IF u = Creator THEN "Owner"
                                        ELSE IF u \in FirstOwners THEN "Member" ELSE "None"]]]
  BY DEF Init
<1>4. community \in Communities
  BY <1>1, <1>3 DEF Communities, Channels, Roles, Gates
<1>5. /\ In(community.roles) = FirstOwners /\ In(community.channel.roles) = FirstOwners
      /\ Creator \in Owners(community.channel.roles)
      /\ community.blocked = {} /\ community.listed = FirstOwners
      /\ ~community.channel.deleted
  BY <1>1, <1>3 DEF In, Owners
<1> QED
  BY <1>2, <1>4, <1>5
     DEF DataInv, Sound, ListsAgree, HasChannelOwner, NobodyBlocked, ChannelMembers

\* A member who is not alone among the owners is taken out of the channel.
LEMMA RemovedFromChannelIsSound ==
    ASSUME Sound(community, estranged), NEW by \in Users, NEW u \in Users,
           RemoveMemberFromChannel(by, u)
    PROVE  Sound(community', estranged)
<1> DEFINE c == community
           d == community'
<1>1. /\ c \in Communities /\ c.channel \in Channels /\ c.channel.roles \in [Users -> Roles]
  BY DEF Sound, Communities, Channels
<1>2. /\ d = [c EXCEPT !.channel.roles[u] = "None", !.listed = @ \ {u}]
      /\ by # u /\ by \in Owners(c.channel.roles)
  BY DEF RemoveMemberFromChannel
<1>3. /\ d.roles = c.roles /\ d.blocked = c.blocked /\ d.listed = c.listed \ {u}
      /\ d.channel.deleted = c.channel.deleted
      /\ d.channel.roles = [c.channel.roles EXCEPT ![u] = "None"]
  BY <1>1, <1>2 DEF Communities, Channels
<1>4. d \in Communities
  BY <1>1, <1>2 DEF Communities, Channels, Roles
<1> HIDE DEF c, d
<1>5. /\ In(d.channel.roles) = In(c.channel.roles) \ {u}
      /\ by \in Owners(d.channel.roles)
  BY <1>1, <1>2, <1>3 DEF In, Owners
<1>6. ListsAgree(d, estranged)
  BY <1>3, <1>5 DEF Sound, ListsAgree, ChannelMembers, c
<1>7. HasChannelOwner(d) /\ NobodyBlocked(d)
  BY <1>3, <1>5 DEF Sound, HasChannelOwner, NobodyBlocked, c
<1> QED BY <1>4, <1>6, <1>7 DEF Sound, d

\* Leaving the channel of one's own accord.
LEMMA LeaveChannelIsSound ==
    ASSUME Sound(community, estranged), NEW u \in Users, LeaveChannel(u)
    PROVE  Sound(community', estranged)
<1> DEFINE c == community
           b == LeftChannel(c, u)
           d == community'
<1>1. /\ d = [b EXCEPT !.listed = @ \ {u}] /\ CanLeaveChannel(c, u)
  BY DEF LeaveChannel
<1>2. /\ b \in Communities /\ b.roles = c.roles /\ b.blocked = c.blocked
      /\ b.listed = c.listed /\ HasChannelOwner(b)
      /\ ChannelMembers(c) \ {u} = ChannelMembers(b) \ {u} /\ u \notin ChannelMembers(b)
  BY <1>1, LeftChannelIs DEF Sound
<1> HIDE DEF b
<1>3. /\ d.roles = c.roles /\ d.blocked = c.blocked /\ d.listed = c.listed \ {u}
      /\ d.channel = b.channel /\ d \in Communities
  BY <1>1, <1>2 DEF Communities
<1>4. ListsAgree(d, estranged)
  BY <1>2, <1>3 DEF Sound, ListsAgree, ChannelMembers
<1> QED BY <1>2, <1>3, <1>4 DEF Sound, HasChannelOwner, NobodyBlocked

\* A change of role keeps the last owner of the channel.
LEMMA RoleChangesAreSound ==
    ASSUME Sound(community, estranged), NEW by \in Users, NEW u \in Users,
           NEW role \in Roles \ {"None"},
           ChangeRole(by, u, role) \/ ChangeChannelRole(by, u, role)
    PROVE  Sound(community', estranged)
<1> DEFINE c == community
           d == community'
<1>1. /\ c \in Communities /\ c.channel \in Channels /\ c.channel.roles \in [Users -> Roles]
      /\ c.roles \in [Users -> Roles]
  BY DEF Sound, Communities, Channels
<1>2. CASE ChangeRole(by, u, role)
  <2>1. d = [c EXCEPT !.roles[u] = role] /\ u \in In(c.roles)
    BY <1>2 DEF ChangeRole
  <2>2. /\ d.roles = [c.roles EXCEPT ![u] = role] /\ d.blocked = c.blocked
        /\ d.listed = c.listed /\ d.channel = c.channel /\ d \in Communities
    BY <1>1, <2>1 DEF Communities
  <2>3. In(d.roles) = In(c.roles)
    BY <1>1, <2>1, <2>2 DEF In
  <2> QED
    BY <2>2, <2>3 DEF Sound, ListsAgree, HasChannelOwner, NobodyBlocked, ChannelMembers
<1>3. CASE ChangeChannelRole(by, u, role)
  <2>1. /\ d = [c EXCEPT !.channel.roles[u] = role] /\ u \in ChannelMembers(c)
        /\ by \in Owners(c.channel.roles) /\ Owners(c.channel.roles) # {u}
    BY <1>3 DEF ChangeChannelRole, LastChannelOwner
  <2>2. /\ d.roles = c.roles /\ d.blocked = c.blocked /\ d.listed = c.listed
        /\ d.channel.roles = [c.channel.roles EXCEPT ![u] = role]
        /\ d.channel.deleted = c.channel.deleted
    BY <1>1, <2>1 DEF Communities, Channels
  <2>3. d \in Communities
    BY <1>1, <2>1 DEF Communities, Channels
  <2> HIDE DEF c, d
  <2>4. /\ In(d.channel.roles) = In(c.channel.roles)
        /\ Owners(d.channel.roles) # {}
    BY <1>1, <2>1, <2>2 DEF In, Owners, ChannelMembers
  <2>5. ListsAgree(d, estranged) /\ HasChannelOwner(d) /\ NobodyBlocked(d)
    BY <2>2, <2>4 DEF Sound, ListsAgree, HasChannelOwner, NobodyBlocked, ChannelMembers, c
  <2> QED BY <2>3, <2>5 DEF Sound, d
<1> QED BY <1>2, <1>3

\* Gates, visibility, the block list and deletion.
LEMMA SettingsAreSound ==
    ASSUME Sound(community, estranged), NEW by \in Users,
           \/ DeleteChannel(by)
           \/ \E gate \in Gates : UpdateGate(by, gate)
           \/ \E gate \in Gates, public \in BOOLEAN : UpdateChannel(by, gate, public)
           \/ \E u \in Users : UnblockUser(by, u)
    PROVE  Sound(community', estranged)
<1> DEFINE c == community
           d == community'
<1>1. /\ c \in Communities /\ c.channel \in Channels /\ c.blocked \in SUBSET Users
      /\ c.listed \in SUBSET Users
  BY DEF Sound, Communities
<1>2. CASE DeleteChannel(by)
  <2>1. d = [c EXCEPT !.channel.deleted = TRUE, !.listed = @ \ In(c.channel.roles)]
    BY <1>2 DEF DeleteChannel
  <2>2. /\ d.roles = c.roles /\ d.blocked = c.blocked /\ d.channel.deleted
        /\ d.listed = c.listed \ In(c.channel.roles)
    BY <1>1, <2>1 DEF Communities, Channels
  <2>3. d \in Communities
    BY <1>1, <2>1 DEF Communities, Channels
  <2>4. d.listed = {} /\ ChannelMembers(d) = {}
    BY <2>2 DEF Sound, ListsAgree, ChannelMembers
  <2> QED BY <2>2, <2>3, <2>4 DEF Sound, ListsAgree, HasChannelOwner, NobodyBlocked
<1>3. ASSUME NEW gate \in Gates, UpdateGate(by, gate) PROVE Sound(d, estranged)
  <2>1. d = [c EXCEPT !.gate = gate]
    BY <1>3 DEF UpdateGate
  <2>2. /\ d.roles = c.roles /\ d.blocked = c.blocked /\ d.listed = c.listed
        /\ d.channel = c.channel /\ d \in Communities
    BY <1>1, <2>1 DEF Communities
  <2> QED BY <2>2 DEF Sound, ListsAgree, HasChannelOwner, NobodyBlocked, ChannelMembers
<1>4. ASSUME NEW gate \in Gates, NEW public \in BOOLEAN, UpdateChannel(by, gate, public)
      PROVE  Sound(d, estranged)
  <2> DEFINE b == [c EXCEPT !.channel.gate = gate, !.channel.public = public]
  <2>1. /\ d = b \/ d = EveryoneJoined(b)
        /\ ~c.channel.deleted
    BY <1>4 DEF UpdateChannel, ChannelManagers, ChannelMembers
  <2>2. /\ b.roles = c.roles /\ b.blocked = c.blocked /\ b.listed = c.listed
        /\ b.channel.deleted = c.channel.deleted /\ b.channel.roles = c.channel.roles
    BY <1>1 DEF Communities, Channels
  <2>3. b \in Communities
    BY <1>1 DEF Communities, Channels
  <2> HIDE DEF b
  <2>4. Sound(b, estranged)
    BY <2>2, <2>3 DEF Sound, ListsAgree, HasChannelOwner, NobodyBlocked, ChannelMembers
  <2> QED BY <2>1, <2>2, <2>4, EveryoneJoinedIsSound
<1>5. ASSUME NEW u \in Users, UnblockUser(by, u) PROVE Sound(d, estranged)
  <2>1. d = [c EXCEPT !.blocked = @ \ {u}]
    BY <1>5 DEF UnblockUser
  <2>2. /\ d.roles = c.roles /\ d.blocked = c.blocked \ {u} /\ d.listed = c.listed
        /\ d.channel = c.channel /\ d \in Communities
    BY <1>1, <2>1 DEF Communities
  <2> QED BY <2>2 DEF Sound, ListsAgree, HasChannelOwner, NobodyBlocked, ChannelMembers
<1> QED BY <1>2, <1>3, <1>4, <1>5

\* The bags of handlers shrink when one of them goes on.
LEMMA EnterCommunityIsSound ==
    ASSUME Sound(community, estranged), NEW u \in Users, NEW is_moderator,
           NEW wants \in {"community", "channel"},
           NEW paid, NEW others, DOMAIN others \subseteq Joins,
           EnterCommunity(u, is_moderator, wants, paid, others)
    PROVE  Sound(community', estranged) /\ DOMAIN joining' \subseteq Joins
<1> DEFINE unblocked == Unblocked(community, u, is_moderator)
           joined == JoinedCommunity(unblocked, u)
           waits == Join(u, FALSE, wants, "channel", joined.channel.gate)
<1>1. /\ community' = EntersChannel(joined, u, wants)
      /\ joining' = IF AwaitsChannelGate(joined, u, wants) THEN others (+) One(waits) ELSE others
  BY DEF EnterCommunity
<1>2. Sound(joined, estranged)
  BY UnblockedIsSound, JoinedCommunityIsSound
<1> HIDE DEF joined
<1>3. Sound(community', estranged)
  BY <1>1, <1>2, AutoJoinedIsSound DEF EntersChannel
<1>4. ASSUME AwaitsChannelGate(joined, u, wants)
      PROVE  waits \in Joins
  <2>1. joined.channel.gate \in Prices
    BY <1>2, <1>4 DEF AwaitsChannelGate, Sound, Communities, Channels, Gates
  <2> QED BY <2>1, <1>4 DEF Join, Joins, AwaitsChannelGate
<1> HIDE DEF waits
<1>5. AwaitsChannelGate(joined, u, wants) => DOMAIN (others (+) One(waits)) \subseteq Joins
  BY <1>4, BagOneMore
<1> QED BY <1>1, <1>3, <1>5

LEMMA GateAnswersKeepData ==
    ASSUME DataInv, GateAnswers
    PROVE  Kept(community') /\ HandlersTyped'
<1>1. Sound(community, estranged) /\ HandlersTyped /\ Kept(community)
  BY SoundIsKept DEF DataInv
<1>2. ASSUME NEW j \in BagToSet(joining), GatePassed(j) \/ GatePassedInVain(j) \/ GateFailed(j)
      PROVE  Kept(community') /\ HandlersTyped'
  <2> DEFINE others == joining (-) One(j)
  <2>1. j \in Joins /\ DOMAIN others \subseteq Joins
    BY <1>1, <1>2, BagOneLess DEF HandlersTyped, BagToSet
  <2>2. j.user \in Users /\ j.wants \in {"community", "channel"}
    BY <2>1 DEF Joins
  <2>3. UNCHANGED <<removing, adding>>
    BY <1>2 DEF GatePassed, GatePassedInVain, GateFailed
  <2> HIDE DEF others
  <2>4. CASE GatePassed(j) /\ j.at = "community"
    <3>1. EnterCommunity(j.user, j.is_moderator, j.wants, j.price, others)
      BY <2>4 DEF GatePassed, others
    <3>2. Sound(community', estranged) /\ DOMAIN joining' \subseteq Joins
      BY <1>1, <2>1, <2>2, <3>1, EnterCommunityIsSound
    <3> QED BY <1>1, <2>3, <3>2, SoundIsKept DEF HandlersTyped
  <2>5. CASE GatePassed(j) /\ j.at # "community"
    <3>1. EnterChannel(j.user, j.price, others)
      BY <2>5 DEF GatePassed, others
    <3>2. /\ joining' = others
          /\ \/ community' = community
             \/ /\ community' = JoinedChannel(community, j.user)
                /\ j.user \in In(community.roles) /\ ~community.channel.deleted
      BY <3>1 DEF EnterChannel
    <3>3. Sound(community', estranged)
      BY <1>1, <2>2, <3>2, JoinedChannelIsSound
    <3> QED BY <1>1, <2>1, <2>3, <3>2, <3>3, SoundIsKept DEF HandlersTyped
  <2>6. CASE GatePassedInVain(j) \/ GateFailed(j)
    <3>1. community' = community /\ joining' = others
      BY <2>6 DEF GatePassedInVain, GateFailed, others
    <3> QED BY <1>1, <2>1, <2>3, <3>1 DEF HandlersTyped
  <2> QED BY <1>2, <2>4, <2>5, <2>6
<1>3. ASSUME NEW a \in BagToSet(adding), AddedUserPaid(a) \/ AddedUserDidNotPay(a)
      PROVE  Kept(community') /\ HandlersTyped'
  <2>1. /\ a \in Additions /\ a.user \in Users
        /\ DOMAIN (adding (-) One(a)) \subseteq Additions
    BY <1>1, <1>3, BagOneLess DEF HandlersTyped, BagToSet, Additions
  <2>2. /\ adding' = adding (-) One(a) /\ joining' = joining /\ removing' = removing
        /\ community' = community \/ community' = Added(community, a.user)
    BY <1>3 DEF AddedUserPaid, AddedUserDidNotPay
  <2>3. Kept(community')
    BY <1>1, <2>1, <2>2, AddedIsKept
  <2> QED BY <1>1, <2>1, <2>2, <2>3 DEF HandlersTyped
<1>4. ASSUME NEW r \in removing, RemovalGoesOn(r) \/ RemovalStops(r)
      PROVE  Kept(community') /\ HandlersTyped'
  <2>1. r.user \in Users
    BY <1>1 DEF HandlersTyped, Removals
  <2>2. /\ removing' = removing \ {r} /\ joining' = joining /\ adding' = adding
        /\ \/ community' = community
           \/ community' = Blocked(Removed(community, r.user), r)
    BY <1>4 DEF RemovalGoesOn, RemovalStops, unpaid
  <2>3. Kept(Blocked(Removed(community, r.user), r))
    BY <1>1, <2>1, RemovedIsKept, BlockedIsKept
  <2> QED BY <1>1, <2>2, <2>3 DEF HandlersTyped
<1> QED BY <1>2, <1>3, <1>4 DEF GateAnswers

LEMMA CallsKeepData ==
    ASSUME DataInv, NEW u \in Users,
           \/ \E is_moderator \in IsModerator(u), wants \in {"community", "channel"} :
                 JoinStarts(u, is_moderator, wants)
           \/ LeaveCommunity(u) \/ LeaveChannel(u) \/ DeleteChannel(u)
           \/ \E gate \in Gates :
                 UpdateGate(u, gate) \/ \E public \in BOOLEAN : UpdateChannel(u, gate, public)
           \/ \E v \in Users :
                 \/ RemoveMemberFromChannel(u, v) \/ AddMemberToChannel(u, v) \/ UnblockUser(u, v)
                 \/ \E block \in BOOLEAN : RemoveMember(u, v, block)
                 \/ \E role \in Roles \ {"None"} :
                       ChangeRole(u, v, role) \/ ChangeChannelRole(u, v, role)
    PROVE  Kept(community') /\ HandlersTyped'
<1>1. Sound(community, estranged) /\ HandlersTyped /\ Kept(community)
      /\ community \in Communities
  BY SoundIsKept DEF DataInv, Sound
<1>2. ASSUME NEW is_moderator \in IsModerator(u), NEW wants \in {"community", "channel"},
             JoinStarts(u, is_moderator, wants)
      PROVE  Kept(community') /\ HandlersTyped'
  <2>1. UNCHANGED <<removing, adding>>
    BY <1>2 DEF JoinStarts
  <2>2. CASE community.gate = NoGate
    <3>1. EnterCommunity(u, is_moderator, wants, NoGate, joining)
      BY <1>2, <2>2 DEF JoinStarts
    <3>2. Sound(community', estranged) /\ DOMAIN joining' \subseteq Joins
      BY <1>1, <3>1, EnterCommunityIsSound DEF HandlersTyped
    <3> QED BY <1>1, <2>1, <3>2, SoundIsKept DEF HandlersTyped
  <2>3. CASE community.gate # NoGate
    <3> DEFINE waits == Join(u, is_moderator, wants, "community", community.gate)
    <3>1. community' = community /\ joining' = joining (+) One(waits)
      BY <1>2, <2>3 DEF JoinStarts
    <3>2. waits \in Joins
      BY <1>1, <1>2, <2>3 DEF Join, Joins, IsModerator, Communities, Gates
    <3> HIDE DEF waits
    <3>3. DOMAIN (joining (+) One(waits)) \subseteq Joins
      BY <1>1, <3>2, BagOneMore DEF HandlersTyped
    <3>4. DOMAIN joining' \subseteq Joins
      BY <3>1, <3>3
    <3> QED BY <1>1, <2>1, <3>1, <3>4 DEF HandlersTyped
  <2> QED BY <2>2, <2>3
<1>3. CASE LeaveCommunity(u)
  <2>1. community' = Removed(community, u) /\ UNCHANGED handlers
    BY <1>3 DEF LeaveCommunity, unpaid, handlers
  <2> QED BY <1>1, <2>1, RemovedIsKept DEF handlers, HandlersTyped
<1>4. CASE \/ LeaveChannel(u) \/ DeleteChannel(u)
           \/ \E gate \in Gates :
                 UpdateGate(u, gate) \/ \E public \in BOOLEAN : UpdateChannel(u, gate, public)
           \/ \E v \in Users : UnblockUser(u, v)
  <2>1. Sound(community', estranged)
    BY <1>1, <1>4, LeaveChannelIsSound, SettingsAreSound
  <2>2. UNCHANGED handlers
    BY <1>4 DEF LeaveChannel, DeleteChannel, UpdateGate, UpdateChannel, UnblockUser, unpaid, handlers
  <2> QED BY <1>1, <2>1, <2>2, SoundIsKept DEF handlers, HandlersTyped
<1>5. ASSUME NEW v \in Users,
             \/ RemoveMemberFromChannel(u, v)
             \/ \E role \in Roles \ {"None"} :
                   ChangeRole(u, v, role) \/ ChangeChannelRole(u, v, role)
      PROVE  Kept(community') /\ HandlersTyped'
  <2>1. Sound(community', estranged)
    BY <1>1, <1>5, RemovedFromChannelIsSound, RoleChangesAreSound
  <2>2. UNCHANGED handlers
    BY <1>5 DEF RemoveMemberFromChannel, ChangeRole, ChangeChannelRole, unpaid, handlers
  <2> QED BY <1>1, <2>1, <2>2, SoundIsKept DEF handlers, HandlersTyped
<1>6. ASSUME NEW v \in Users, AddMemberToChannel(u, v)
      PROVE  Kept(community') /\ HandlersTyped'
  <2> DEFINE waits == [user |-> v, price |-> community.channel.gate]
  <2>1. /\ UNCHANGED <<joining, removing>>
        /\ \/ community' = Added(community, v) /\ adding' = adding
           \/ /\ community' = community /\ adding' = adding (+) One(waits)
              /\ community.channel.gate # NoGate
    BY <1>6 DEF AddMemberToChannel
  <2>2. community.channel.gate # NoGate => waits \in Additions
    BY <1>1 DEF Additions, Communities, Channels, Gates
  <2> HIDE DEF waits
  <2>3. Kept(community')
    BY <1>1, <2>1, AddedIsKept
  <2> QED BY <1>1, <2>1, <2>2, <2>3, BagOneMore DEF HandlersTyped
<1>7. ASSUME NEW v \in Users, NEW block \in BOOLEAN, RemoveMember(u, v, block)
      PROVE  Kept(community') /\ HandlersTyped'
  <2>1. /\ removing' = removing \cup {[user |-> v, by |-> u, block |-> block]}
        /\ UNCHANGED <<community, joining, adding>>
    BY <1>7 DEF RemoveMember, unpaid
  <2> QED BY <1>1, <2>1 DEF HandlersTyped, Removals
<1> QED BY <1>2, <1>3, <1>4, <1>5, <1>6, <1>7

LEMMA NextKeepsData ==
    ASSUME DataInv, [Next]_vars
    PROVE  DataInv'
<1>1. CASE Next
  <2>1. Kept(community') /\ HandlersTyped'
    <3>1. CASE MakesPayments \/ Upgraded
      <4>1. UNCHANGED <<community, handlers>>
        BY <3>1 DEF MakesPayments, Upgraded
      <4> QED BY <4>1, SoundIsKept DEF DataInv, handlers, HandlersTyped
    <3>2. CASE GateAnswers
      BY <3>2, GateAnswersKeepData
    <3>3. CASE ~(MakesPayments \/ Upgraded \/ GateAnswers)
      BY <1>1, <3>3, CallsKeepData DEF Next, Step
    <3> QED BY <3>1, <3>2, <3>3
  <2>2. estranged' = estranged \cup Strays(community')
    BY <1>1 DEF Next, Strays
  <2> QED BY <2>1, <2>2 DEF Kept, DataInv
<1>2. CASE UNCHANGED vars
  BY <1>2 DEF vars, DataInv, HandlersTyped
<1> QED BY <1>1, <1>2

LEMMA DataInvariance == Spec => []DataInv
<1>1. Init => DataInv
  BY InitData
<1>2. DataInv /\ [Next]_vars => DataInv'
  BY NextKeepsData
<1> QED BY <1>1, <1>2, PTL DEF Spec

\* Whoever is blocked is not a member, whatever was under way when the block was
\* put: members.add looks at the list after the gate, and who is blocked at the
\* end of a removal is taken out in the same step.
THEOREM NoMemberIsBlocked == Spec => []BlockedAreNotMembers
<1>1. DataInv => BlockedAreNotMembers
  BY DEF DataInv, Sound, NobodyBlocked, BlockedAreNotMembers
<1> QED BY <1>1, DataInvariance, PTL

\* A channel that is not deleted has an owner: nobody leaves, is removed or
\* demoted as its last one, not even by leaving the community.
THEOREM ChannelKeepsOwner == Spec => []ChannelHasOwner
<1>1. DataInv => ChannelHasOwner
  BY DEF DataInv, Sound, HasChannelOwner, ChannelHasOwner
<1> QED BY <1>1, DataInvariance, PTL

\* The members' lists of channels and the members of the channel agree, except
\* for users who have been in the channel without being in the community.
THEOREM ListsAndMembersAgree == Spec => []ListedChannelsAreJoined
<1>1. DataInv => ListedChannelsAreJoined
  BY DEF DataInv, Sound, ListsAgree, ListedChannelsAreJoined
<1> QED BY <1>1, DataInvariance, PTL
-----------------------------------------------------------------------------
(* The payments *)

Amounts == [amount : Nat, recipient : Recipients]

PaymentsTyped ==
    /\ pending_payments \in Seq(Amounts)
    /\ DOMAIN transfers \subseteq Amounts
    /\ receipts \in [Users -> Nat] /\ credited \in [Recipients -> Nat]
    /\ failures \in [refused : Nat, rejected : Nat, unheard : Nat]
PaymentsInv == PaymentsTyped /\ ReceiptsTruthful

LEMMA InitPayments == Init => PaymentsInv
BY PaymentsAssumption
   DEF Init, PaymentsInit, PaymentsInv, PaymentsTyped, ReceiptsTruthful, EmptyBag, SetToBag,
       Recipients

\* A finite set can be listed.
LEMMA ListedSet ==
    ASSUME NEW S, NEW T, IsFiniteSet(S), S \subseteq T
    PROVE  /\ SetToSeq(S) \in Seq(T) /\ Len(SetToSeq(S)) = Cardinality(S)
           /\ \A i \in DOMAIN SetToSeq(S) : SetToSeq(S)[i] \in S
<1> DEFINE n == Cardinality(S)
<1>1. n \in Nat
  BY FS_CardinalityType
<1>2. PICK f : f \in Bijection(1..n, S)
  BY FS_CardinalityType DEF ExistsBijection
<1>3. f \in [1..n -> S] /\ IsInjective(f)
  BY <1>2 DEF Bijection, Injection, Surjection, IsInjective
<1>4. SetToSeq(S) \in [1..n -> S]
  BY <1>3 DEF SetToSeq
<1> QED BY <1>1, <1>4, SeqDef

\* The greater of two integers, and the saturating difference.
LEMMA LessIs ==
    ASSUME NEW a \in Int, NEW b \in Int
    PROVE  Less(a, b) \in Nat /\ Less(a, b) = IF a >= b THEN a - b ELSE 0
<1> DEFINE S == {a - b, 0}
<1>1. CASE a >= b
  <2>1. \E x \in S : \A y \in S : x >= y
    BY <1>1
  <2>2. Max(S) \in S /\ Max(S) >= a - b
    BY <2>1 DEF Max
  <2>3. Max(S) = a - b
    BY <1>1, <2>2
  <2> QED BY <1>1, <2>3 DEF Less
<1>2. CASE ~(a >= b)
  <2>1. \E x \in S : \A y \in S : x >= y
    BY <1>2
  <2>2. Max(S) \in S /\ Max(S) >= 0
    BY <2>1 DEF Max
  <2>3. Max(S) = 0
    BY <1>2, <2>2
  <2> QED BY <1>2, <2>3 DEF Less
<1> QED BY <1>1, <1>2

LEMMA PaidIs ==
    ASSUME NEW share \in Int, NEW recipients, recipients \subseteq Recipients,
           IsFiniteSet(recipients)
    PROVE  Paid(share, recipients) \subseteq Amounts /\ IsFiniteSet(Paid(share, recipients))
<1> DEFINE amount == Less(share, Fee)
           all == {Payment(amount, r) : r \in recipients}
<1>1. amount \in Nat
  BY LessIs, PaymentsAssumption
<1> HIDE DEF amount
<1>2. all \subseteq Amounts
  BY <1>1 DEF Payment, Amounts
<1>3. IsFiniteSet(all)
  <2> DEFINE f == [r \in recipients |-> Payment(amount, r)]
  <2>1. f \in Surjection(recipients, all)
    BY DEF Surjection
  <2> QED BY <2>1, FS_Surjection
<1>4. Paid(share, recipients) = all \/ Paid(share, recipients) = {}
  BY DEF Paid, amount
<1> QED BY <1>2, <1>3, <1>4, FS_EmptySet

\* What an owner and the treasury get, when there is an owner.
LEMMA QueuedPaymentsAre ==
    ASSUME NEW price \in Nat, NEW owners \in SUBSET Users, owners # {}
    PROVE  QueuedPayments(price, owners) \in Seq(Amounts)
<1> DEFINE count == Cardinality(owners)
           forOwners == Paid(OwnerShare(price, count), owners)
           forTreasury == Paid(TreasuryShare(price, count), {Treasury})
<1>1. IsFiniteSet(owners) /\ IsFiniteSet({Treasury})
  BY PaymentsAssumption, FS_Subset, FS_Singleton
<1>2. count \in Nat \ {0}
  BY <1>1, FS_CardinalityType, FS_EmptySet
<1> HIDE DEF count
<1>3. Available(price) \in Int
  BY PaymentsAssumption DEF Available
<1>4. OwnerShare(price, count) \in Int
  BY <1>2, <1>3 DEF OwnerShare
<1>5. TreasuryShare(price, count) \in Int
  BY <1>2, <1>3, <1>4, LessIs DEF TreasuryShare
<1>6. /\ forOwners \subseteq Amounts /\ IsFiniteSet(forOwners)
      /\ forTreasury \subseteq Amounts /\ IsFiniteSet(forTreasury)
  BY <1>1, <1>4, <1>5, PaidIs DEF Recipients
<1> HIDE DEF forOwners, forTreasury
<1>7. SetToSeq(forOwners) \in Seq(Amounts) /\ SetToSeq(forTreasury) \in Seq(Amounts)
  BY <1>6, ListedSet
<1>8. QueuedPayments(price, owners) = SetToSeq(forOwners) \o SetToSeq(forTreasury)
  BY DEF QueuedPayments, forOwners, forTreasury, count
<1> QED BY <1>7, <1>8

\* Payments are queued only where there is somebody to pay.
LEMMA QueueKeepsPayments ==
    ASSUME PaymentsInv, NEW price \in Nat, NEW paid, NEW owners \in SUBSET Users,
           price # NoGate => owners # {},
           Queue(price, paid, owners)
    PROVE  PaymentsInv'
<1>1. CASE price = NoGate
  BY <1>1 DEF Queue, PaymentsInv, PaymentsTyped, ReceiptsTruthful
<1>2. CASE price # NoGate
  <2>1. /\ pending_payments' = pending_payments \o QueuedPayments(price, owners)
        /\ UNCHANGED <<transfers, receipts, credited, failures>>
    BY <1>2 DEF Queue, QueueAccessGatePayments
  <2>2. QueuedPayments(price, owners) \in Seq(Amounts)
    BY <1>2, QueuedPaymentsAre
  <2>3. pending_payments' \in Seq(Amounts)
    BY <2>1, <2>2 DEF PaymentsInv, PaymentsTyped
  <2> QED BY <2>1, <2>3 DEF PaymentsInv, PaymentsTyped, ReceiptsTruthful
<1> QED BY <1>1, <1>2

\* Joining makes nobody an owner and takes no owner away.
LEMMA JoiningKeepsOwners ==
    ASSUME NEW c, NEW e, Sound(c, e), NEW u \in Users
    PROVE  Owners(JoinedCommunity(c, u).roles) = Owners(c.roles)
<1> DEFINE d == [c EXCEPT !.roles[u] = "Member"]
<1>1. c \in Communities /\ c.roles \in [Users -> Roles] /\ c.channel \in Channels
  BY DEF Sound, Communities
<1>2. CASE CanAdd(c, u)
  <2>1. d \in Communities /\ d.roles = [c.roles EXCEPT ![u] = "Member"]
    BY <1>1 DEF Communities, Roles
  <2>2. c.roles[u] = "None"
    BY <1>2 DEF CanAdd, In
  <2>3. Owners(d.roles) = Owners(c.roles)
    BY <1>1, <2>1, <2>2 DEF Owners
  <2> HIDE DEF d
  <2>4. JoinedChannel(d, u).roles = d.roles
    BY <2>1 DEF JoinedChannel, Communities
  <2> QED BY <1>2, <2>3, <2>4 DEF JoinedCommunity, AutoJoined, d
<1> QED BY <1>2 DEF JoinedCommunity

LEMMA EnteringKeepsPayments ==
    ASSUME DataInv, PaymentsInv, NEW u \in Users, NEW is_moderator, NEW wants,
           NEW paid, NEW others,
           EnterCommunity(u, is_moderator, wants, paid, others) \/ EnterChannel(u, paid, others)
    PROVE  PaymentsInv'
<1>1. community \in Communities /\ Sound(community, estranged)
  BY DEF DataInv, Sound
<1>2. community.gate \in Nat /\ community.channel.gate \in Nat
  <2>1. community.gate \in Gates /\ community.channel.gate \in Gates
    BY <1>1 DEF Communities, Channels
  <2>2. Gates \subseteq Nat
    BY CommunityAssumption DEF Gates, NoGate
  <2> QED BY <2>1, <2>2
<1>3. \A roles : Owners(roles) \in SUBSET Users
  BY DEF Owners
<1>4. CASE EnterCommunity(u, is_moderator, wants, paid, others)
  <2> DEFINE unblocked == Unblocked(community, u, is_moderator)
             joined == JoinedCommunity(unblocked, u)
             price == IF CanAdd(unblocked, u) THEN community.gate ELSE NoGate
  <2>1. ~Traps(price) /\ Queue(price, paid, Owners(joined.roles))
    BY <1>4 DEF EnterCommunity
  <2>2. Owners(joined.roles) = Owners(community.roles)
    BY <1>1, UnblockedIsSound, JoiningKeepsOwners
  <2>3. price \in Nat
    BY <1>2 DEF NoGate
  <2> HIDE DEF joined, price
  <2> QED BY <1>3, <2>1, <2>2, <2>3, QueueKeepsPayments DEF Traps
<1>5. CASE EnterChannel(u, paid, others)
  <2> DEFINE enters == u \in In(community.roles) /\ ~community.channel.deleted
             new == enters /\ u \notin In(community.channel.roles)
             price == IF new THEN community.channel.gate ELSE NoGate
  <2>1. ~Traps(price) /\ Queue(price, paid, Owners(community.roles))
    BY <1>5 DEF EnterChannel
  <2>2. price \in Nat
    BY <1>2 DEF NoGate
  <2> HIDE DEF price
  <2> QED BY <1>3, <2>1, <2>2, QueueKeepsPayments DEF Traps
<1> QED BY <1>4, <1>5

\* A transfer the ledger has made is credited once and receipted at most once.
LEMMA JobKeepsPayments ==
    ASSUME PaymentsInv,
           MakePendingPayment \/ \E p \in BagToSet(transfers) : TransferAnswered(p)
    PROVE  PaymentsInv'
<1>1. PaymentsTyped /\ ReceiptsTruthful /\ Treasury \notin Users /\ Users \subseteq Recipients
  BY PaymentsAssumption DEF PaymentsInv, Recipients
<1>2. CASE MakePendingPayment
  <2>1. /\ UNCHANGED <<receipts, credited, failures>>
        /\ \/ UNCHANGED <<pending_payments, transfers>>
           \/ /\ pending_payments # <<>> /\ pending_payments' = Tail(pending_payments)
              /\ transfers' = transfers (+) One(Head(pending_payments))
    BY <1>2 DEF MakePendingPayment
  <2>2. pending_payments # <<>>
          => /\ Head(pending_payments) \in Amounts
             /\ Tail(pending_payments) \in Seq(Amounts)
    BY <1>1 DEF PaymentsTyped
  <2>3. pending_payments # <<>>
          => DOMAIN (transfers (+) One(Head(pending_payments))) \subseteq Amounts
    BY <1>1, <2>2, BagOneMore DEF PaymentsTyped
  <2>4. pending_payments' \in Seq(Amounts) /\ DOMAIN transfers' \subseteq Amounts
    BY <1>1, <2>1, <2>2, <2>3 DEF PaymentsTyped
  <2> QED BY <1>1, <2>1, <2>4 DEF PaymentsInv, PaymentsTyped, ReceiptsTruthful
<1>3. ASSUME NEW p \in BagToSet(transfers), TransferAnswered(p)
      PROVE  PaymentsInv'
  <2>1. p \in Amounts /\ p.amount \in Nat /\ p.recipient \in Recipients
    BY <1>1, <1>3 DEF PaymentsTyped, BagToSet, Amounts
  <2>2. transfers' = transfers (-) One(p)
    BY <1>3 DEF TransferAnswered, TransferMade, TransferRefused, TransferRejected
  <2>3. DOMAIN transfers' \subseteq Amounts
    BY <1>1, <2>2, BagOneLess DEF PaymentsTyped
  <2>4. pending_payments' \in Seq(Amounts)
    <3>1. \/ pending_payments' = pending_payments
          \/ pending_payments' = Append(pending_payments, p)
      BY <1>3 DEF TransferAnswered, TransferMade, TransferRefused, TransferRejected, Requeued
    <3>2. pending_payments \in Seq(Amounts)
      BY <1>1 DEF PaymentsTyped
    <3> QED BY <2>1, <3>1, <3>2
  <2>5. /\ credited' = credited \/ credited' = [credited EXCEPT ![p.recipient] = @ + p.amount]
        /\ credited' \in [Recipients -> Nat]
        /\ \A r \in Recipients : credited[r] <= credited'[r]
    <3>1. credited' = credited \/ credited' = [credited EXCEPT ![p.recipient] = @ + p.amount]
      BY <1>3 DEF TransferAnswered, TransferMade, TransferRefused, TransferRejected, Made
    <3>2. credited \in [Recipients -> Nat]
      BY <1>1 DEF PaymentsTyped
    <3> QED BY <2>1, <3>1, <3>2
  <2>6. /\ failures' \in [refused : Nat, rejected : Nat, unheard : Nat]
        /\ failures'.unheard = 0 => failures.unheard = 0
    <3>1. failures \in [refused : Nat, rejected : Nat, unheard : Nat]
      BY <1>1 DEF PaymentsTyped
    <3>2. \/ failures' = failures
          \/ \E how \in {"refused", "rejected", "unheard"} :
                failures' = [failures EXCEPT ![how] = @ + 1]
      BY <1>3 DEF TransferAnswered, TransferMade, TransferRefused, TransferRejected, Fails
    <3> QED BY <3>1, <3>2
  <2>7. CASE TransferMade(p)
    <3>1. /\ receipts' = Receipt(p) /\ failures' = failures
          /\ credited' = [credited EXCEPT ![p.recipient] = @ + p.amount]
      BY <2>7 DEF TransferMade, Made
    <3>2. /\ receipts \in [Users -> Nat] /\ credited \in [Recipients -> Nat]
      BY <1>1 DEF PaymentsTyped
    <3>3. /\ receipts' \in [Users -> Nat]
          /\ \A u \in Users :
                \/ u = p.recipient /\ receipts'[u] = receipts[u] + p.amount
                                   /\ credited'[u] = credited[u] + p.amount
                \/ receipts'[u] = receipts[u] /\ credited'[u] = credited[u]
      BY <1>1, <2>1, <3>1, <3>2 DEF Receipt
    <3>4. ASSUME NEW u \in Users
          PROVE  /\ receipts'[u] <= credited'[u]
                 /\ failures'.unheard = 0 => receipts'[u] = credited'[u]
      <4>1. /\ receipts[u] \in Nat /\ credited[u] \in Nat /\ receipts[u] <= credited[u]
            /\ failures.unheard = 0 => receipts[u] = credited[u]
        BY <1>1, <3>2 DEF ReceiptsTruthful
      <4> QED BY <2>1, <3>1, <3>3, <4>1
    <3> QED BY <2>3, <2>4, <2>5, <2>6, <3>3, <3>4 DEF PaymentsInv, PaymentsTyped, ReceiptsTruthful
  <2>8. CASE TransferRefused(p) \/ TransferRejected(p)
    <3>1. /\ receipts' = receipts
          /\ credited' = credited \/ failures'.unheard # 0
      <4>1. CASE TransferRejected(p) /\ Fails("unheard")
        <5>1. failures \in [refused : Nat, rejected : Nat, unheard : Nat]
              /\ failures' = [failures EXCEPT !["unheard"] = @ + 1]
          BY <1>1, <4>1 DEF PaymentsTyped, Fails
        <5>2. failures'.unheard = failures.unheard + 1 /\ failures.unheard \in Nat
          BY <5>1
        <5>3. failures'.unheard # 0
          BY <5>2
        <5> QED BY <4>1, <5>3 DEF TransferRejected
      <4>2. CASE ~(TransferRejected(p) /\ Fails("unheard"))
        BY <2>8, <4>2 DEF TransferRefused, TransferRejected
      <4> QED BY <4>1, <4>2
    <3>2. /\ receipts \in [Users -> Nat] /\ credited \in [Recipients -> Nat]
      BY <1>1 DEF PaymentsTyped
    <3>3. ASSUME NEW u \in Users
          PROVE  /\ receipts'[u] <= credited'[u]
                 /\ failures'.unheard = 0 => receipts'[u] = credited'[u]
      <4>1. /\ receipts[u] \in Nat /\ credited[u] \in Nat /\ receipts[u] <= credited[u]
            /\ failures.unheard = 0 => receipts[u] = credited[u]
            /\ credited'[u] \in Nat /\ credited[u] <= credited'[u]
        BY <1>1, <2>5, <3>2 DEF ReceiptsTruthful
      <4> QED BY <2>6, <3>1, <4>1
    <3> QED BY <1>1, <2>3, <2>4, <2>5, <2>6, <3>1, <3>3
            DEF PaymentsInv, PaymentsTyped, ReceiptsTruthful
  <2> QED BY <1>3, <2>7, <2>8 DEF TransferAnswered
<1> QED BY <1>2, <1>3

LEMMA NextKeepsPayments ==
    ASSUME DataInv, PaymentsInv, [Next]_vars
    PROVE  PaymentsInv'
<1> DEFINE books == <<pending_payments, transfers, receipts, credited, failures>>
<1>1. ASSUME UNCHANGED books PROVE PaymentsInv'
  BY <1>1 DEF PaymentsInv, PaymentsTyped, ReceiptsTruthful
<1>2. CASE MakesPayments
  BY <1>2, JobKeepsPayments DEF MakesPayments
<1>3. CASE Upgraded \/ UNCHANGED vars
  BY <1>1, <1>3 DEF Upgraded, PaymentsUpgraded, vars, payments
<1>4. ASSUME NEW j \in BagToSet(joining), GatePassed(j) \/ GatePassedInVain(j) \/ GateFailed(j)
      PROVE  PaymentsInv'
  <2>1. j \in Joins /\ j.user \in Users
    BY <1>4 DEF DataInv, HandlersTyped, BagToSet, Joins
  <2>2. CASE GatePassed(j)
    <3>1. \/ EnterCommunity(j.user, j.is_moderator, j.wants, j.price, joining (-) One(j))
          \/ EnterChannel(j.user, j.price, joining (-) One(j))
      BY <2>2 DEF GatePassed
    <3> QED BY <2>1, <3>1, EnteringKeepsPayments
  <2>3. CASE GatePassedInVain(j)
    BY <1>1, <2>3 DEF GatePassedInVain
  <2>4. CASE GateFailed(j)
    <3>1. /\ UNCHANGED <<pending_payments, transfers, receipts, credited>>
          /\ failures' = failures \/ failures' = [failures EXCEPT !["unheard"] = @ + 1]
      BY <2>4 DEF GateFailed, Fails
    <3>2. failures \in [refused : Nat, rejected : Nat, unheard : Nat]
      BY DEF PaymentsInv, PaymentsTyped
    <3>3. /\ failures' \in [refused : Nat, rejected : Nat, unheard : Nat]
          /\ failures'.unheard = 0 => failures.unheard = 0
      BY <3>1, <3>2
    <3> QED BY <3>1, <3>3 DEF PaymentsInv, PaymentsTyped, ReceiptsTruthful
  <2> QED BY <1>4, <2>2, <2>3, <2>4
<1>5. CASE \/ \E a \in BagToSet(adding) : AddedUserPaid(a) \/ AddedUserDidNotPay(a)
           \/ \E r \in removing : RemovalGoesOn(r) \/ RemovalStops(r)
  BY <1>1, <1>5
     DEF AddedUserPaid, AddedUserDidNotPay, RemovalGoesOn, RemovalStops, unpaid, payments
<1>6. ASSUME NEW u \in Users, NEW is_moderator \in IsModerator(u),
             NEW wants \in {"community", "channel"}, JoinStarts(u, is_moderator, wants)
      PROVE  PaymentsInv'
  <2>1. CASE community.gate = NoGate
    BY <1>6, <2>1, EnteringKeepsPayments DEF JoinStarts
  <2>2. CASE community.gate # NoGate
    BY <1>1, <1>6, <2>2 DEF JoinStarts, payments
  <2> QED BY <2>1, <2>2
<1>7. ASSUME NEW u \in Users,
             \/ LeaveCommunity(u) \/ LeaveChannel(u) \/ DeleteChannel(u)
             \/ \E gate \in Gates :
                   UpdateGate(u, gate) \/ \E public \in BOOLEAN : UpdateChannel(u, gate, public)
             \/ \E v \in Users :
                   \/ RemoveMemberFromChannel(u, v) \/ AddMemberToChannel(u, v) \/ UnblockUser(u, v)
                   \/ \E block \in BOOLEAN : RemoveMember(u, v, block)
                   \/ \E role \in Roles \ {"None"} :
                         ChangeRole(u, v, role) \/ ChangeChannelRole(u, v, role)
      PROVE  PaymentsInv'
  <2>1. UNCHANGED payments
    BY <1>7
       DEF LeaveCommunity, LeaveChannel, DeleteChannel, UpdateGate, UpdateChannel, UnblockUser,
           RemoveMemberFromChannel, AddMemberToChannel, RemoveMember, ChangeRole,
           ChangeChannelRole, unpaid
  <2> QED BY <1>1, <2>1 DEF payments
<1> QED BY <1>2, <1>3, <1>4, <1>5, <1>6, <1>7 DEF Next, Step, GateAnswers

\* The receipts of a user never exceed what the ledger has credited, and equal
\* it unless the ledger made a transfer whose call was rejected.
THEOREM ReceiptsStayTruthful == Spec => []ReceiptsTruthful
<1>1. Init => PaymentsInv
  BY InitPayments
<1>2. DataInv /\ PaymentsInv /\ [Next]_vars => PaymentsInv'
  BY NextKeepsPayments
<1>3. PaymentsInv => ReceiptsTruthful
  BY DEF PaymentsInv
<1> QED BY <1>1, <1>2, <1>3, DataInvariance, PTL DEF Spec
-----------------------------------------------------------------------------
(* Sums: an amount is counted as that many units, so that a sum is how many *)
(* units there are.                                                        *)

\* What TotalOf counts.
Units(f) == UNION {{x} \X (1 .. f[x]) : x \in DOMAIN f}

\* The units of f, by what they are units of.
LEMMA UnitsAre ==
    ASSUME NEW f
    PROVE  /\ TotalOf(f) = Cardinality(Units(f))
           /\ \A x, k : <<x, k>> \in Units(f) <=> x \in DOMAIN f /\ k \in 1 .. f[x]
           /\ \A z \in Units(f) : \E x \in DOMAIN f : \E k \in 1 .. f[x] : z = <<x, k>>
BY DEF TotalOf, Units

\* There are n numbers from 1 to n.
LEMMA FirstNumbers ==
    ASSUME NEW n \in Nat
    PROVE  IsFiniteSet(1 .. n) /\ Cardinality(1 .. n) = n
<1>1. IsFiniteSet(1 .. n) /\ Cardinality(1 .. n) = IF 1 > n THEN 0 ELSE n - 1 + 1
  BY FS_Interval
<1> QED BY <1>1

\* The sum over a finite set is a number.
LEMMA UnitsFinite ==
    ASSUME NEW S, IsFiniteSet(S), NEW f \in [S -> Nat]
    PROVE  IsFiniteSet(Units(f)) /\ TotalOf(f) \in Nat
<1> DEFINE Part(x) == {x} \X (1 .. f[x])
           parts == {Part(x) : x \in S}
<1>1. IsFiniteSet(parts)
  <2> DEFINE g == [x \in S |-> Part(x)]
  <2>1. g \in Surjection(S, parts)
    BY DEF Surjection
  <2> HIDE DEF g, parts
  <2> QED BY <2>1, FS_Surjection
<1>2. ASSUME NEW x \in S
      PROVE  IsFiniteSet(Part(x))
  <2>1. IsFiniteSet({x}) /\ IsFiniteSet(1 .. f[x])
    BY FS_Singleton, FirstNumbers
  <2> QED BY <2>1, FS_Product
<1>3. IsFiniteSet(UNION parts)
  <2>1. \A T \in parts : IsFiniteSet(T)
    BY <1>2
  <2> HIDE DEF parts
  <2> QED BY <1>1, <2>1, FS_UNION
<1>4. Units(f) = UNION parts
  BY DEF Units
<1> QED BY <1>3, <1>4, UnitsAre, FS_CardinalityType

\* One summand can be taken out of a sum.
LEMMA TotalWithout ==
    ASSUME NEW S, IsFiniteSet(S), NEW f \in [S -> Nat], NEW x \in S
    PROVE  TotalOf(f) = TotalOf([y \in S \ {x} |-> f[y]]) + f[x]
<1> DEFINE rest == [y \in S \ {x} |-> f[y]]
           part == {x} \X (1 .. f[x])
<1>1. IsFiniteSet(part) /\ Cardinality(part) = f[x]
  <2>1. IsFiniteSet({x}) /\ Cardinality({x}) = 1
    BY FS_Singleton
  <2>2. IsFiniteSet(1 .. f[x]) /\ Cardinality(1 .. f[x]) = f[x]
    BY FirstNumbers
  <2>3. IsFiniteSet(part) /\ Cardinality(part) = 1 * Cardinality(1 .. f[x])
    BY <2>1, <2>2, FS_Product
  <2> QED BY <2>2, <2>3
<1>2. IsFiniteSet(Units(rest)) /\ TotalOf(rest) \in Nat
  <2>1. rest \in [S \ {x} -> Nat] /\ IsFiniteSet(S \ {x})
    BY FS_RemoveElement
  <2> HIDE DEF rest
  <2> QED BY <2>1, UnitsFinite
<1>3. Units(f) = Units(rest) \cup part /\ Units(rest) \cap part = {}
  BY DEF Units
<1> HIDE DEF rest, part
<1>4. Cardinality(Units(f)) = Cardinality(Units(rest)) + Cardinality(part) - Cardinality({})
  BY <1>1, <1>2, <1>3, FS_Union
<1>5. TotalOf(f) = Cardinality(Units(f)) /\ TotalOf(rest) = Cardinality(Units(rest))
  BY UnitsAre
<1>6. TotalOf(f) = TotalOf(rest) + f[x]
  BY <1>1, <1>2, <1>4, <1>5, FS_EmptySet
<1> QED BY <1>6 DEF rest

\* A sum does not depend on what its summands are called.
LEMMA TotalRenamed ==
    ASSUME NEW S, IsFiniteSet(S), NEW f \in [S -> Nat], NEW T, NEW g \in [T -> Nat],
           NEW r \in Bijection(S, T), \A x \in S : f[x] = g[r[x]]
    PROVE  TotalOf(g) = TotalOf(f)
<1> DEFINE h == [z \in Units(f) |-> <<r[z[1]], z[2]>>]
<1>1. /\ r \in [S -> T] /\ \A x, y \in S : r[x] = r[y] => x = y
      /\ \A t \in T : \E x \in S : r[x] = t
  BY DEF Bijection, Injection, Surjection, IsInjective
<1>2. h \in [Units(f) -> Units(g)]
  <2> SUFFICES ASSUME NEW z \in Units(f) PROVE <<r[z[1]], z[2]>> \in Units(g)
    OBVIOUS
  <2>1. PICK x \in S : \E k \in 1 .. f[x] : z = <<x, k>>
    BY UnitsAre
  <2> QED BY <1>1, <2>1, UnitsAre
<1>3. \A y, z \in Units(f) : h[y] = h[z] => y = z
  <2> SUFFICES ASSUME NEW y \in Units(f), NEW z \in Units(f), h[y] = h[z] PROVE y = z
    OBVIOUS
  <2>1. PICK x1 \in S : \E k \in 1 .. f[x1] : y = <<x1, k>>
    BY UnitsAre
  <2>2. PICK x2 \in S : \E k \in 1 .. f[x2] : z = <<x2, k>>
    BY UnitsAre
  <2>3. r[x1] = r[x2] /\ y[2] = z[2]
    BY <2>1, <2>2
  <2> QED BY <1>1, <2>1, <2>2, <2>3
<1>4. \A w \in Units(g) : \E z \in Units(f) : h[z] = w
  <2> SUFFICES ASSUME NEW w \in Units(g) PROVE \E z \in Units(f) : h[z] = w
    OBVIOUS
  <2>1. PICK t \in T : \E k \in 1 .. g[t] : w = <<t, k>>
    BY UnitsAre
  <2> PICK k \in 1 .. g[t] : w = <<t, k>>
    BY <2>1
  <2>2. PICK x \in S : r[x] = t
    BY <1>1
  <2>3. <<x, k>> \in Units(f)
    BY <2>1, <2>2, UnitsAre
  <2>4. h[<<x, k>>] = w
    BY <2>1, <2>2, <2>3
  <2> QED BY <2>3, <2>4
<1>5. h \in Bijection(Units(f), Units(g))
  BY <1>2, <1>3, <1>4 DEF Bijection, Injection, Surjection, IsInjective
<1>6. Cardinality(Units(g)) = Cardinality(Units(f))
  <2> HIDE DEF h
  <2>1. IsFiniteSet(Units(f)) /\ ExistsBijection(Units(f), Units(g))
    BY <1>5, UnitsFinite DEF ExistsBijection
  <2> QED BY <2>1, FS_Bijection
<1> QED BY <1>6, UnitsAre

\* A sum over two parts.
LEMMA TotalSplit ==
    ASSUME NEW S, IsFiniteSet(S), NEW f \in [S -> Nat], NEW A \in SUBSET S
    PROVE  TotalOf(f) = TotalOf([x \in A |-> f[x]]) + TotalOf([x \in S \ A |-> f[x]])
<1> DEFINE g == [x \in A |-> f[x]]
           h == [x \in S \ A |-> f[x]]
<1>1. IsFiniteSet(A) /\ IsFiniteSet(S \ A)
  BY FS_Subset, FS_Difference
<1>2. g \in [A -> Nat] /\ h \in [S \ A -> Nat]
  OBVIOUS
<1>3. Units(f) = Units(g) \cup Units(h) /\ Units(g) \cap Units(h) = {}
  BY DEF Units
<1> HIDE DEF g, h
<1>4. IsFiniteSet(Units(g)) /\ IsFiniteSet(Units(h))
  BY <1>1, <1>2, UnitsFinite
<1>5. TotalOf(g) \in Nat /\ TotalOf(h) \in Nat
  BY <1>1, <1>2, UnitsFinite
<1>6. Cardinality(Units(f)) = Cardinality(Units(g)) + Cardinality(Units(h)) - Cardinality({})
  BY <1>3, <1>4, FS_Union
<1>7. TotalOf(f) = TotalOf(g) + TotalOf(h)
  BY <1>5, <1>6, UnitsAre, FS_EmptySet
<1> QED BY <1>7 DEF g, h

OwedQueue(q) == TotalOf([i \in DOMAIN q |-> Owed(q[i])])
OwedBag(b) == TotalOf([p \in DOMAIN b |-> b[p] * Owed(p)])
Bags == UNION {[D -> Nat \ {0}] : D \in {E \in SUBSET Amounts : IsFiniteSet(E)}}

\* What is owed is a number.
LEMMA OwedIsNat ==
    /\ \A p \in Amounts : Owed(p) \in Nat
    /\ \A q \in Seq(Amounts) :
          /\ DOMAIN q = 1 .. Len(q) /\ IsFiniteSet(DOMAIN q)
          /\ [i \in DOMAIN q |-> Owed(q[i])] \in [DOMAIN q -> Nat]
          /\ OwedQueue(q) \in Nat
<1>1. ASSUME NEW p \in Amounts PROVE Owed(p) \in Nat
  BY PaymentsAssumption DEF Owed, Amounts
<1>2. ASSUME NEW q \in Seq(Amounts)
      PROVE  /\ DOMAIN q = 1 .. Len(q) /\ IsFiniteSet(DOMAIN q)
             /\ [i \in DOMAIN q |-> Owed(q[i])] \in [DOMAIN q -> Nat]
             /\ OwedQueue(q) \in Nat
  <2>1. DOMAIN q = 1 .. Len(q) /\ Len(q) \in Nat /\ \A i \in DOMAIN q : q[i] \in Amounts
    OBVIOUS
  <2>2. IsFiniteSet(DOMAIN q)
    BY <2>1, FirstNumbers
  <2>3. [i \in DOMAIN q |-> Owed(q[i])] \in [DOMAIN q -> Nat]
    BY <1>1, <2>1
  <2> QED BY <2>1, <2>2, <2>3, UnitsFinite DEF OwedQueue
<1> QED BY <1>1, <1>2

\* What is owed to the first in the queue and to the others.
LEMMA OwedTail ==
    ASSUME NEW q \in Seq(Amounts), q # <<>>
    PROVE  OwedQueue(q) = OwedQueue(Tail(q)) + Owed(Head(q))
<1> DEFINE n == Len(q)
           f == [i \in DOMAIN q |-> Owed(q[i])]
           rest == [i \in DOMAIN q \ {1} |-> f[i]]
           t == Tail(q)
           g == [i \in DOMAIN t |-> Owed(t[i])]
           r == [i \in DOMAIN t |-> i + 1]
<1>1. /\ n \in Nat \ {0} /\ DOMAIN q = 1 .. n
      /\ t \in Seq(Amounts) /\ Len(t) = n - 1 /\ DOMAIN t = 1 .. n - 1
      /\ \A i \in 1 .. n - 1 : t[i] = q[i + 1]
  BY HeadTailProperties
<1>2. IsFiniteSet(DOMAIN q) /\ f \in [DOMAIN q -> Nat]
  BY OwedIsNat
<1>3. IsFiniteSet(DOMAIN t) /\ g \in [DOMAIN t -> Nat]
  BY <1>1, OwedIsNat
<1>4. rest \in [DOMAIN q \ {1} -> Nat]
  BY <1>2
<1>5. r \in Bijection(DOMAIN t, DOMAIN q \ {1})
  <2>1. r \in [DOMAIN t -> DOMAIN q \ {1}]
    BY <1>1
  <2>2. \A i, j \in DOMAIN t : r[i] = r[j] => i = j
    BY <1>1
  <2>3. ASSUME NEW k \in DOMAIN q \ {1} PROVE \E i \in DOMAIN t : r[i] = k
    <3>1. k - 1 \in DOMAIN t /\ r[k - 1] = k
      BY <1>1
    <3> QED BY <3>1
  <2> QED BY <2>1, <2>2, <2>3 DEF Bijection, Injection, Surjection, IsInjective
<1>6. \A i \in DOMAIN t : g[i] = rest[r[i]]
  BY <1>1
<1>7. 1 \in DOMAIN q /\ f[1] = Owed(Head(q))
  BY <1>1
<1> HIDE DEF f, g, r, rest, t
<1>8. TotalOf(rest) = TotalOf(g)
  BY <1>3, <1>4, <1>5, <1>6, TotalRenamed, SMTT(60)
<1>9. TotalOf(f) = TotalOf([i \in DOMAIN q \ {1} |-> f[i]]) + f[1]
  BY <1>2, <1>7, TotalWithout
<1> QED BY <1>7, <1>8, <1>9 DEF OwedQueue, f, g, rest, t

\* What is owed to one more, at the end of the queue.
LEMMA OwedAppend ==
    ASSUME NEW q \in Seq(Amounts), NEW p \in Amounts
    PROVE  OwedQueue(Append(q, p)) = OwedQueue(q) + Owed(p)
<1> DEFINE n == Len(q)
           s == Append(q, p)
           f == [i \in DOMAIN s |-> Owed(s[i])]
<1>1. /\ n \in Nat /\ DOMAIN q = 1 .. n /\ s \in Seq(Amounts)
      /\ DOMAIN s = 1 .. n + 1 /\ s[n + 1] = p /\ \A i \in 1 .. n : s[i] = q[i]
  OBVIOUS
<1>2. IsFiniteSet(DOMAIN s) /\ f \in [DOMAIN s -> Nat]
  BY <1>1, OwedIsNat
<1>3. n + 1 \in DOMAIN s /\ f[n + 1] = Owed(p) /\ DOMAIN s \ {n + 1} = DOMAIN q
  BY <1>1
<1>4. [i \in DOMAIN s \ {n + 1} |-> f[i]] = [i \in DOMAIN q |-> Owed(q[i])]
  BY <1>1, <1>3
<1> HIDE DEF f, s, n
<1>5. TotalOf(f) = TotalOf([i \in DOMAIN s \ {n + 1} |-> f[i]]) + f[n + 1]
  BY <1>2, <1>3, TotalWithout, ZenonT(60)
<1> QED BY <1>3, <1>4, <1>5 DEF OwedQueue, f, s

\* What is owed in two queues, one after the other.
LEMMA OwedConcat ==
    ASSUME NEW q \in Seq(Amounts), NEW s \in Seq(Amounts)
    PROVE  OwedQueue(q \o s) = OwedQueue(q) + OwedQueue(s)
<1> DEFINE m == Len(q)
           n == Len(s)
           c == q \o s
           I == DOMAIN s
           D == DOMAIN c \ DOMAIN q
           f == [i \in DOMAIN c |-> Owed(c[i])]
           first == [i \in DOMAIN q |-> f[i]]
           second == [i \in D |-> f[i]]
           g == [i \in DOMAIN s |-> Owed(s[i])]
           r == [i \in I |-> m + i]
<1>1. /\ m \in Nat /\ n \in Nat /\ DOMAIN q = 1 .. m /\ DOMAIN s = 1 .. n
      /\ c \in Seq(Amounts) /\ DOMAIN c = 1 .. m + n
      /\ \A i \in 1 .. m : c[i] = q[i]
      /\ \A i \in 1 .. n : c[m + i] = s[i]
  BY ConcatProperties
<1>2. IsFiniteSet(DOMAIN c) /\ f \in [DOMAIN c -> Nat] /\ DOMAIN q \in SUBSET DOMAIN c
  <2>1. DOMAIN q \in SUBSET DOMAIN c /\ c \in Seq(Amounts)
    BY <1>1
  <2> HIDE DEF c
  <2> QED BY <2>1, OwedIsNat
<1>3. IsFiniteSet(I) /\ g \in [I -> Nat]
  BY <1>1, OwedIsNat
<1>4. second \in [D -> Nat]
  BY <1>2
<1>5. r \in Bijection(I, D)
  <2>1. r \in [I -> D]
    BY <1>1
  <2>2. \A i, j \in I : r[i] = r[j] => i = j
    BY <1>1
  <2>3. ASSUME NEW k \in D PROVE \E i \in I : r[i] = k
    <3>1. k - m \in I /\ r[k - m] = k
      BY <1>1
    <3> QED BY <3>1
  <2> QED BY <2>1, <2>2, <2>3 DEF Bijection, Injection, Surjection, IsInjective
<1>6. \A i \in I : g[i] = second[r[i]]
  <2> SUFFICES ASSUME NEW i \in I PROVE g[i] = second[r[i]]
    OBVIOUS
  <2>1. m + i \in D /\ c[m + i] = s[i]
    BY <1>1
  <2> QED BY <2>1
<1>7. first = [i \in DOMAIN q |-> Owed(q[i])]
  BY <1>1
<1> HIDE DEF f, g, r, first, second, c, m, n, D, I
<1>8. TotalOf(second) = TotalOf(g)
  BY <1>3, <1>4, <1>5, <1>6, TotalRenamed, SMTT(60)
<1>9. TotalOf(f) = TotalOf(first) + TotalOf(second)
  BY <1>2, TotalSplit, ZenonT(60) DEF first, second, D
<1> QED BY <1>7, <1>8, <1>9 DEF OwedQueue, f, g, c

\* Equal amounts.
LEMMA OwedEqually ==
    ASSUME NEW q \in Seq(Amounts), NEW k \in Nat, \A i \in DOMAIN q : Owed(q[i]) = k
    PROVE  OwedQueue(q) = Len(q) * k
<1> DEFINE f == [i \in DOMAIN q |-> Owed(q[i])]
<1>1. Units(f) = (1 .. Len(q)) \X (1 .. k)
  <2>1. f = [i \in 1 .. Len(q) |-> k]
    BY OwedIsNat
  <2> QED BY <2>1 DEF Units
<1>2. /\ IsFiniteSet(1 .. Len(q)) /\ Cardinality(1 .. Len(q)) = Len(q)
      /\ IsFiniteSet(1 .. k) /\ Cardinality(1 .. k) = k
  <2>1. Len(q) \in Nat
    OBVIOUS
  <2> QED BY <2>1, FirstNumbers
<1>3. Cardinality((1 .. Len(q)) \X (1 .. k)) = Cardinality(1 .. Len(q)) * Cardinality(1 .. k)
  BY <1>2, FS_Product
<1> HIDE DEF f
<1> QED BY <1>1, <1>2, <1>3, UnitsAre DEF OwedQueue, f

\* A bag of transfers, as the lemmas below need it.
LEMMA OwedBagIs ==
    ASSUME NEW b \in Bags
    PROVE  /\ DOMAIN b \subseteq Amounts /\ IsFiniteSet(DOMAIN b)
           /\ \A x \in DOMAIN b : b[x] \in Nat \ {0} /\ b[x] * Owed(x) \in Nat
           /\ [x \in DOMAIN b |-> b[x] * Owed(x)] \in [DOMAIN b -> Nat]
           /\ OwedBag(b) \in Nat
<1>1. PICK D \in SUBSET Amounts : IsFiniteSet(D) /\ b \in [D -> Nat \ {0}]
  BY DEF Bags
<1>2. ASSUME NEW x \in D
      PROVE  b[x] \in Nat \ {0} /\ b[x] * Owed(x) \in Nat
  <2>1. Owed(x) \in Nat /\ b[x] \in Nat \ {0}
    BY <1>1, OwedIsNat
  <2> QED BY <2>1
<1>3. DOMAIN b = D
  BY <1>1
<1>4. [x \in D |-> b[x] * Owed(x)] \in [D -> Nat]
  BY <1>2
<1> QED BY <1>1, <1>2, <1>3, <1>4, UnitsFinite DEF OwedBag

\* A sum without x, of two bags that differ in x only.
LEMMA OwedBagWithout ==
    ASSUME NEW b \in Bags, NEW x
    PROVE  OwedBag(b) = TotalOf([y \in DOMAIN b \ {x} |-> b[y] * Owed(y)])
                          + (IF x \in DOMAIN b THEN b[x] * Owed(x) ELSE 0)
<1> DEFINE f == [y \in DOMAIN b |-> b[y] * Owed(y)]
           rest == [y \in DOMAIN b \ {x} |-> b[y] * Owed(y)]
<1>1. IsFiniteSet(DOMAIN b) /\ f \in [DOMAIN b -> Nat]
  BY OwedBagIs
<1>2. CASE x \in DOMAIN b
  <2>1. [y \in DOMAIN b \ {x} |-> f[y]] = rest /\ f[x] = b[x] * Owed(x)
    BY <1>2
  <2> HIDE DEF f, rest
  <2>2. TotalOf(f) = TotalOf([y \in DOMAIN b \ {x} |-> f[y]]) + f[x]
    BY <1>1, <1>2, TotalWithout
  <2>3. OwedBag(b) = TotalOf(f)
    BY DEF OwedBag, f
  <2>4. OwedBag(b) = TotalOf(rest) + b[x] * Owed(x)
    BY <2>1, <2>2, <2>3
  <2> QED BY <1>2, <2>4 DEF rest
<1>3. CASE x \notin DOMAIN b
  <2>1. rest = f /\ TotalOf(f) = OwedBag(b)
    BY <1>3 DEF OwedBag
  <2>2. OwedBag(b) \in Nat
    BY OwedBagIs
  <2> HIDE DEF rest, f
  <2>3. OwedBag(b) = TotalOf(rest) + 0
    BY <2>1, <2>2
  <2> QED BY <1>3, <2>3 DEF rest
<1> QED BY <1>2, <1>3

\* A transfer starts.
LEMMA OwedOneMore ==
    ASSUME NEW b \in Bags, NEW p \in Amounts
    PROVE  b (+) One(p) \in Bags /\ OwedBag(b (+) One(p)) = OwedBag(b) + Owed(p)
<1> DEFINE c == b (+) One(p)
           n == IF p \in DOMAIN b THEN b[p] ELSE 0
<1>1. /\ DOMAIN b \subseteq Amounts /\ IsFiniteSet(DOMAIN b)
      /\ \A x \in DOMAIN b : b[x] \in Nat \ {0}
  BY OwedBagIs
<1>2. c = [x \in DOMAIN b \cup {p} |-> IF x = p THEN n + 1 ELSE b[x]]
  <2>1. One(p) = [x \in {p} |-> 1]
    BY DEF One, SetToBag
  <2> DEFINE v(x) == (IF x \in DOMAIN b THEN b[x] ELSE 0)
                       + (IF x \in DOMAIN One(p) THEN One(p)[x] ELSE 0)
  <2>2. c = [x \in DOMAIN b \cup {p} |-> v(x)]
    BY <2>1 DEF (+)
  <2>3. ASSUME NEW x \in DOMAIN b \cup {p}
        PROVE  v(x) = IF x = p THEN n + 1 ELSE b[x]
    BY <1>1, <2>1
  <2> HIDE DEF v
  <2> HIDE DEF c, n
  <2> QED BY <2>2, <2>3
<1>3. n \in Nat
  BY <1>1
<1>4. /\ DOMAIN c = DOMAIN b \cup {p} /\ c[p] = n + 1
      /\ \A x \in DOMAIN b \ {p} : c[x] = b[x]
      /\ \A x \in DOMAIN c : c[x] \in Nat \ {0}
  <2> HIDE DEF c, n
  <2> QED BY <1>1, <1>2, <1>3
<1>5. c \in Bags
  <2>1. IsFiniteSet(DOMAIN c) /\ DOMAIN c \in SUBSET Amounts
    BY <1>1, <1>4, FS_AddElement
  <2>2. c \in [DOMAIN c -> Nat \ {0}]
    BY <1>2, <1>4
  <2> HIDE DEF c
  <2> QED BY <2>1, <2>2 DEF Bags
<1> DEFINE rest(d) == TotalOf([y \in DOMAIN d \ {p} |-> d[y] * Owed(y)])
<1>6. rest(c) = rest(b)
  <2>1. DOMAIN c \ {p} = DOMAIN b \ {p}
    BY <1>4
  <2> HIDE DEF c
  <2>2. [y \in DOMAIN c \ {p} |-> c[y] * Owed(y)] = [y \in DOMAIN b \ {p} |-> b[y] * Owed(y)]
    BY <1>4, <2>1
  <2> QED BY <2>2
<1>7. OwedBag(b) = rest(b) + n * Owed(p)
  <2>1. Owed(p) \in Nat
    BY OwedIsNat
  <2>2. OwedBag(b) = rest(b) + (IF p \in DOMAIN b THEN b[p] * Owed(p) ELSE 0)
    BY OwedBagWithout
  <2>3. n * Owed(p) = IF p \in DOMAIN b THEN b[p] * Owed(p) ELSE 0
    BY <2>1
  <2> HIDE DEF rest, n
  <2> QED BY <2>2, <2>3
<1>8. OwedBag(c) = rest(c) + (n + 1) * Owed(p)
  <2>1. OwedBag(c) = rest(c) + (IF p \in DOMAIN c THEN c[p] * Owed(p) ELSE 0)
    BY <1>5, OwedBagWithout
  <2> HIDE DEF rest, n, c
  <2> QED BY <1>4, <2>1
<1>9. rest(b) \in Nat
  <2>1. IsFiniteSet(DOMAIN b \ {p})
    BY <1>1, FS_RemoveElement
  <2>2. [y \in DOMAIN b \ {p} |-> b[y] * Owed(y)] \in [DOMAIN b \ {p} -> Nat]
    BY OwedBagIs
  <2> QED BY <2>1, <2>2, UnitsFinite
<1>10. Owed(p) \in Nat
  BY OwedIsNat
<1> HIDE DEF rest, n, c
<1>11. (n + 1) * Owed(p) = n * Owed(p) + Owed(p) /\ n * Owed(p) \in Nat
  BY <1>3, <1>10
<1>12. OwedBag(c) = OwedBag(b) + Owed(p)
  BY <1>6, <1>7, <1>8, <1>9, <1>10, <1>11
<1> QED BY <1>5, <1>12 DEF c

\* A transfer ends.
LEMMA OwedOneLess ==
    ASSUME NEW b \in Bags, NEW p \in DOMAIN b
    PROVE  b (-) One(p) \in Bags /\ OwedBag(b (-) One(p)) = OwedBag(b) - Owed(p)
<1> DEFINE c == b (-) One(p)
           n == b[p]
           kept == IF n = 1 THEN DOMAIN b \ {p} ELSE DOMAIN b
<1>1. /\ DOMAIN b \subseteq Amounts /\ IsFiniteSet(DOMAIN b)
      /\ \A x \in DOMAIN b : b[x] \in Nat \ {0}
  BY OwedBagIs
<1>2. c = [x \in kept |-> IF x = p THEN n - 1 ELSE b[x]]
  <2>1. One(p) = [x \in {p} |-> 1]
    BY DEF One, SetToBag
  <2> DEFINE all == [x \in DOMAIN b |-> IF x \in DOMAIN One(p) THEN b[x] - One(p)[x] ELSE b[x]]
  <2>2. c = [x \in {d \in DOMAIN all : all[d] > 0} |-> all[x]]
    BY DEF (-)
  <2>3. ASSUME NEW x \in DOMAIN b
        PROVE  all[x] = IF x = p THEN n - 1 ELSE b[x]
    BY <1>1, <2>1
  <2>4. DOMAIN all = DOMAIN b
    OBVIOUS
  <2> HIDE DEF c, all
  <2>5. {d \in DOMAIN all : all[d] > 0} = kept
    BY <1>1, <2>3, <2>4
  <2>6. kept \subseteq DOMAIN b
    OBVIOUS
  <2> HIDE DEF kept
  <2> QED BY <2>2, <2>3, <2>5, <2>6
<1>3. n \in Nat \ {0}
  BY <1>1
<1>4. /\ DOMAIN c = kept /\ kept \subseteq DOMAIN b /\ kept \ {p} = DOMAIN b \ {p}
      /\ p \in kept <=> n # 1
      /\ p \in kept => c[p] = n - 1
      /\ \A x \in kept \ {p} : c[x] = b[x]
  <2>1. kept \subseteq DOMAIN b /\ kept \ {p} = DOMAIN b \ {p} /\ (p \in kept <=> n # 1)
    OBVIOUS
  <2> HIDE DEF c, kept, n
  <2> QED BY <1>2, <2>1
<1>5. c \in Bags
  <2>1. IsFiniteSet(kept) /\ kept \in SUBSET Amounts
    BY <1>1, <1>4, FS_Subset
  <2>2. c \in [kept -> Nat \ {0}]
    <3>1. \A x \in kept : (IF x = p THEN n - 1 ELSE b[x]) \in Nat \ {0}
      BY <1>1, <1>3, <1>4
    <3> HIDE DEF c, kept, n
    <3> QED BY <1>2, <3>1
  <2> HIDE DEF c, kept
  <2> QED BY <2>1, <2>2 DEF Bags
<1> DEFINE rest(d) == TotalOf([y \in DOMAIN d \ {p} |-> d[y] * Owed(y)])
<1> HIDE DEF kept
<1>6. rest(c) = rest(b)
  <2>1. DOMAIN c \ {p} = DOMAIN b \ {p}
    BY <1>4
  <2> HIDE DEF c
  <2>2. [y \in DOMAIN c \ {p} |-> c[y] * Owed(y)] = [y \in DOMAIN b \ {p} |-> b[y] * Owed(y)]
    BY <1>4, <2>1
  <2> QED BY <2>2
<1>7. OwedBag(b) = rest(b) + n * Owed(p)
  <2>1. OwedBag(b) = rest(b) + (IF p \in DOMAIN b THEN b[p] * Owed(p) ELSE 0)
    BY OwedBagWithout
  <2> HIDE DEF rest
  <2> QED BY <2>1
<1>8. Owed(p) \in Nat
  BY <1>1, OwedIsNat
<1>9. OwedBag(c) = rest(c) + (n - 1) * Owed(p)
  <2>1. OwedBag(c) = rest(c) + (IF p \in DOMAIN c THEN c[p] * Owed(p) ELSE 0)
    BY <1>5, OwedBagWithout
  <2>2. n = 1 => (n - 1) * Owed(p) = 0
    BY <1>8
  <2> HIDE DEF rest, n, c
  <2> QED BY <1>3, <1>4, <2>1, <2>2
<1>10. rest(b) \in Nat
  <2>1. IsFiniteSet(DOMAIN b \ {p})
    BY <1>1, FS_RemoveElement
  <2>2. [y \in DOMAIN b \ {p} |-> b[y] * Owed(y)] \in [DOMAIN b \ {p} -> Nat]
    BY OwedBagIs
  <2> QED BY <2>1, <2>2, UnitsFinite
<1> HIDE DEF rest, n, c
<1>11. n * Owed(p) = (n - 1) * Owed(p) + Owed(p) /\ (n - 1) * Owed(p) \in Nat
  BY <1>3, <1>8
<1>12. OwedBag(c) = OwedBag(b) - Owed(p)
  BY <1>6, <1>7, <1>8, <1>9, <1>10, <1>11
<1> QED BY <1>5, <1>12 DEF c

\* A share is what its payment costs, fee included, or is kept.
LEMMA OwedShares ==
    ASSUME NEW share \in Nat, NEW recipients, recipients \subseteq Recipients,
           IsFiniteSet(recipients)
    PROVE  /\ SetToSeq(Paid(share, recipients)) \in Seq(Amounts)
           /\ OwedQueue(SetToSeq(Paid(share, recipients))) \in Nat
           /\ OwedQueue(SetToSeq(Paid(share, recipients))) <= Cardinality(recipients) * share
<1> DEFINE amount == Less(share, Fee)
           all == {Payment(amount, r) : r \in recipients}
           P == Paid(share, recipients)
           q == SetToSeq(P)
<1>1. amount \in Nat /\ amount = IF share >= Fee THEN share - Fee ELSE 0
  BY LessIs, PaymentsAssumption
<1> HIDE DEF amount
<1>2. all \subseteq Amounts
  BY <1>1 DEF Payment, Amounts
<1>3. IsFiniteSet(all) /\ Cardinality(all) <= Cardinality(recipients)
  <2> DEFINE f == [r \in recipients |-> Payment(amount, r)]
  <2>1. f \in Surjection(recipients, all)
    BY DEF Surjection
  <2> QED BY <2>1, FS_Surjection
<1>4. P = IF amount > 0 THEN all ELSE {}
  BY DEF Paid, amount
<1>5. P \subseteq Amounts /\ IsFiniteSet(P) /\ Cardinality(P) <= Cardinality(recipients)
  <2>1. IsFiniteSet({}) /\ Cardinality({}) = 0 /\ Cardinality(recipients) \in Nat
    BY FS_EmptySet, FS_CardinalityType
  <2> HIDE DEF all
  <2> QED BY <1>2, <1>3, <1>4, <2>1
<1>6. \A p \in P : Owed(p) = share
  <2>1. ASSUME NEW r \in recipients, amount > 0 PROVE Owed(Payment(amount, r)) = share
    BY <1>1, <2>1, PaymentsAssumption DEF Owed, Payment
  <2> QED BY <1>4, <2>1
<1> HIDE DEF P, all
<1>7. /\ q \in Seq(Amounts) /\ Len(q) = Cardinality(P)
      /\ \A i \in DOMAIN q : q[i] \in P
  BY <1>5, ListedSet
<1> HIDE DEF q
<1>8. OwedQueue(q) = Len(q) * share
  BY <1>6, <1>7, OwedEqually
<1>9. Cardinality(P) \in Nat /\ Cardinality(recipients) \in Nat
  BY <1>5, FS_CardinalityType
<1>10. Cardinality(P) * share <= Cardinality(recipients) * share /\ Cardinality(P) * share \in Nat
  BY <1>5, <1>9
<1>11. OwedQueue(q) \in Nat /\ OwedQueue(q) <= Cardinality(recipients) * share
  BY <1>7, <1>8, <1>10
<1> QED BY <1>7, <1>11 DEF q, P

\* Integer division rounds down.
LEMMA DivisionLoses ==
    ASSUME NEW x \in Nat, NEW n \in Nat \ {0}
    PROVE  x \div n \in Nat /\ (x \div n) * n <= x
OBVIOUS

\* The owners and the treasury together get no more than what is available.
LEMMA OwedOnJoining ==
    ASSUME NEW price \in Nat, Available(price) \in Nat, NEW owners \in SUBSET Users, owners # {}
    PROVE  /\ QueuedPayments(price, owners) \in Seq(Amounts)
           /\ OwedQueue(QueuedPayments(price, owners)) <= Available(price)
<1> DEFINE n == Cardinality(owners)
           av == Available(price)
           o == OwnerShare(price, n)
           t == TreasuryShare(price, n)
           forOwners == SetToSeq(Paid(o, owners))
           forTreasury == SetToSeq(Paid(t, {Treasury}))
<1>1. IsFiniteSet(owners) /\ IsFiniteSet({Treasury}) /\ Cardinality({Treasury}) = 1
  BY PaymentsAssumption, FS_Subset, FS_Singleton
<1>2. n \in Nat \ {0}
  BY <1>1, FS_CardinalityType, FS_EmptySet
<1> HIDE DEF n
<1>3. o \in Nat /\ o * n <= av /\ o * n \in Nat
  <2>1. av * 4 \in Nat /\ ((av * 4) \div 5) \in Nat /\ (av * 4) \div 5 <= av
    OBVIOUS
  <2> DEFINE x == (av * 4) \div 5
  <2>2. o = x \div n
    BY DEF OwnerShare
  <2> HIDE DEF x, o, av
  <2>3. x \in Nat /\ x <= av /\ av \in Nat
    BY <2>1 DEF x, av
  <2>4. o \in Nat /\ o * n <= x
    BY <1>2, <2>2, <2>3, DivisionLoses
  <2>5. o * n \in Nat
    BY <1>2, <2>4
  <2> QED BY <2>3, <2>4, <2>5
<1>4. t = av - o * n /\ t \in Nat
  <2>1. t = Less(av, o * n)
    BY DEF TreasuryShare
  <2>2. av \in Nat
    OBVIOUS
  <2> HIDE DEF t, o, av
  <2>3. Less(av, o * n) = av - o * n
    BY <1>3, <2>2, LessIs
  <2> QED BY <1>3, <2>1, <2>2, <2>3
<1>5. QueuedPayments(price, owners) = forOwners \o forTreasury
  BY DEF QueuedPayments, n
<1>6. av \in Nat
  OBVIOUS
<1> HIDE DEF o, t, av
<1>7. /\ forOwners \in Seq(Amounts) /\ OwedQueue(forOwners) \in Nat
      /\ OwedQueue(forOwners) <= n * o
  BY <1>1, <1>3, OwedShares DEF n, Recipients
<1>8. /\ forTreasury \in Seq(Amounts) /\ OwedQueue(forTreasury) \in Nat
      /\ OwedQueue(forTreasury) <= 1 * t
  BY <1>1, <1>4, OwedShares DEF Recipients
<1> HIDE DEF forOwners, forTreasury
<1>9. /\ forOwners \o forTreasury \in Seq(Amounts)
      /\ OwedQueue(forOwners \o forTreasury) = OwedQueue(forOwners) + OwedQueue(forTreasury)
  BY <1>7, <1>8, OwedConcat
<1>10. n * o = o * n
  BY <1>2, <1>3
<1>11. OwedQueue(forOwners \o forTreasury) <= av
  BY <1>3, <1>4, <1>6, <1>7, <1>8, <1>9, <1>10
<1> QED BY <1>5, <1>9, <1>11 DEF av
-----------------------------------------------------------------------------
(* What the canister owes *)

\* A gate costs at least the two fees that let the user in: the code takes
\* them from its price without a check.
GatesCostTwoFees == \A price \in Prices : price >= 2 * Fee

FundsInv == transfers \in Bags /\ balance \in Nat /\ FeesCoverPayments

Believed == ~unfunded /\ failures.unheard = 0

\* The two sums of OwedInAll.
LEMMA FundsAre ==
    /\ OwedInAll = OwedQueue(pending_payments) + OwedBag(transfers)
    /\ FeesCoverPayments = (Believed => balance >= OwedInAll)
BY DEF OwedInAll, OwedQueue, OwedBag, FeesCoverPayments, Believed

LEMMA FundsAreNext ==
    /\ OwedInAll' = OwedQueue(pending_payments') + OwedBag(transfers')
    /\ FeesCoverPayments' = (Believed' => balance' >= OwedInAll')
BY DEF OwedInAll, OwedQueue, OwedBag, FeesCoverPayments, Believed, TotalOf, Owed

\* Nothing is owed at first.
LEMMA InitFunds == Init => FundsInv
<1> SUFFICES ASSUME Init PROVE FundsInv
  OBVIOUS
<1>1. pending_payments = <<>> /\ transfers = EmptyBag /\ balance = 0
  BY DEF Init, PaymentsInit
<1>2. DOMAIN EmptyBag = {} /\ EmptyBag = [x \in {} |-> 0]
  BY DEF EmptyBag, SetToBag
<1>3. transfers \in Bags
  BY <1>1, <1>2, FS_EmptySet DEF Bags
<1>4. OwedQueue(pending_payments) = 0 /\ OwedBag(transfers) = 0
  <2>1. OwedQueue(<<>>) = 0
    <3>1. Units([i \in DOMAIN <<>> |-> Owed(<<>>[i])]) = {}
      BY DEF Units
    <3> QED BY <3>1, UnitsAre, FS_EmptySet DEF OwedQueue
  <2>2. OwedBag(EmptyBag) = 0
    <3>1. Units([p \in DOMAIN EmptyBag |-> EmptyBag[p] * Owed(p)]) = {}
      BY <1>2 DEF Units
    <3> QED BY <3>1, UnitsAre, FS_EmptySet DEF OwedBag
  <2> QED BY <1>1, <2>1, <2>2
<1>5. balance >= OwedInAll
  <2>1. OwedInAll = OwedQueue(pending_payments) + OwedBag(transfers)
    BY FundsAre
  <2>2. OwedInAll = 0
    BY <1>4, <2>1
  <2> QED BY <1>1, <2>2
<1> QED BY <1>1, <1>3, <1>5, FundsAre DEF FundsInv

\* The job and the ledger: a payment moves from the queue to the transfers and

\* back, and one that is made costs what it was owed.
LEMMA JobKeepsFunds ==
    ASSUME PaymentsInv, FundsInv, UNCHANGED unfunded,
           MakePendingPayment \/ \E p \in BagToSet(transfers) : TransferAnswered(p)
    PROVE  FundsInv'
<1>1. /\ pending_payments \in Seq(Amounts) /\ transfers \in Bags /\ balance \in Nat
      /\ OwedQueue(pending_payments) \in Nat /\ OwedBag(transfers) \in Nat
      /\ failures \in [refused : Nat, rejected : Nat, unheard : Nat]
  BY OwedIsNat, OwedBagIs DEF PaymentsInv, PaymentsTyped, FundsInv
<1>2. Believed => balance >= OwedQueue(pending_payments) + OwedBag(transfers)
  BY FundsAre DEF FundsInv
<1>3. CASE MakePendingPayment
  <2>1. CASE pending_payments = <<>>
    <3>1. UNCHANGED <<pending_payments, transfers, balance, failures>>
      BY <1>3, <2>1 DEF MakePendingPayment
    <3>2. Believed' = Believed
      BY <3>1 DEF Believed
    <3> QED BY <1>1, <1>2, <3>1, <3>2, FundsAreNext DEF FundsInv
  <2>2. CASE pending_payments # <<>>
    <3> DEFINE p == Head(pending_payments)
    <3>1. /\ pending_payments' = Tail(pending_payments) /\ transfers' = transfers (+) One(p)
          /\ UNCHANGED <<balance, failures>>
      BY <1>3, <2>2 DEF MakePendingPayment
    <3>2. p \in Amounts /\ Owed(p) \in Nat
      <4>1. p \in Amounts
        BY <1>1, <2>2
      <4> QED BY <4>1, OwedIsNat
    <3>3. OwedQueue(pending_payments) = OwedQueue(Tail(pending_payments)) + Owed(p)
      BY <1>1, <2>2, OwedTail
    <3>4. Tail(pending_payments) \in Seq(Amounts)
      BY <1>1, <2>2
    <3>5. OwedQueue(Tail(pending_payments)) \in Nat
      BY <3>4, OwedIsNat
    <3> HIDE DEF p
    <3>6. transfers' \in Bags /\ OwedBag(transfers') = OwedBag(transfers) + Owed(p)
      BY <1>1, <3>1, <3>2, OwedOneMore
    <3>7. Believed' = Believed
      BY <3>1 DEF Believed
    <3>8. OwedQueue(pending_payments') + OwedBag(transfers')
            = OwedQueue(pending_payments) + OwedBag(transfers)
      <4>1. OwedBag(transfers) \in Nat /\ OwedQueue(pending_payments') = OwedQueue(Tail(pending_payments))
        BY <1>1, <3>1
      <4> QED BY <3>2, <3>3, <3>5, <3>6, <4>1
    <3> QED BY <1>1, <1>2, <3>1, <3>6, <3>7, <3>8, FundsAreNext DEF FundsInv
  <2> QED BY <2>1, <2>2
<1>4. ASSUME NEW p \in BagToSet(transfers), TransferAnswered(p)
      PROVE  FundsInv'
  <2>1. p \in DOMAIN transfers /\ p \in Amounts /\ p.amount \in Nat /\ Owed(p) = p.amount + Fee
        /\ Fee \in Nat /\ Owed(p) \in Nat
    <3>1. p \in DOMAIN transfers /\ p \in Amounts
      BY <1>1, <1>4, OwedBagIs DEF BagToSet
    <3> QED BY <3>1, PaymentsAssumption, OwedIsNat DEF Amounts, Owed
  <2>2. transfers' = transfers (-) One(p)
    BY <1>4 DEF TransferAnswered, TransferMade, TransferRefused, TransferRejected
  <2>3. transfers' \in Bags /\ OwedBag(transfers') = OwedBag(transfers) - Owed(p)
    BY <1>1, <2>1, <2>2, OwedOneLess
  <2>4. /\ OwedQueue(pending_payments) \in Nat /\ OwedBag(transfers) \in Nat
        /\ balance \in Nat /\ Owed(p) \in Nat
        /\ OwedBag(transfers') = OwedBag(transfers) - Owed(p)
    BY <1>1, <2>1, <2>3
  <2>5. CASE TransferMade(p)
    <3>1. /\ UNCHANGED <<pending_payments, failures>> /\ balance >= p.amount + Fee
          /\ balance' = balance - p.amount - Fee
      BY <2>5 DEF TransferMade, Made, Affordable
    <3>2. balance' \in Nat /\ balance' = balance - Owed(p) /\ Believed' = Believed
      BY <1>1, <2>1, <3>1, SMTT(30) DEF Believed
    <3>3. balance' = balance - Owed(p) /\ pending_payments' = pending_payments
      BY <3>1, <3>2
    <3>4. Believed' => balance' >= OwedQueue(pending_payments') + OwedBag(transfers')
      BY <1>2, <2>4, <3>2, <3>3
    <3> QED BY <2>3, <3>2, <3>4, FundsAreNext DEF FundsInv
  <2>6. CASE TransferRefused(p)
    <3>1. UNCHANGED <<pending_payments, balance>>
      BY <2>6 DEF TransferRefused
    <3>2. failures'.unheard = failures.unheard
      BY <1>1, <2>6 DEF TransferRefused, Fails
    <3>3. Believed' = Believed
      BY <3>2 DEF Believed
    <3>4. Believed' => balance' >= OwedQueue(pending_payments') + OwedBag(transfers')
      BY <1>2, <2>4, <3>1, <3>3
    <3> QED BY <1>1, <2>3, <3>1, <3>4, FundsAreNext DEF FundsInv
  <2>7. CASE TransferRejected(p) /\ Fails("rejected") /\ UNCHANGED balance
    <3>1. pending_payments' = Append(pending_payments, p) /\ balance' = balance
      BY <2>7 DEF TransferRejected, Requeued
    <3>2. failures'.unheard = failures.unheard
      BY <1>1, <2>7 DEF Fails
    <3>3. Believed' = Believed
      BY <3>2 DEF Believed
    <3>4. OwedQueue(pending_payments') = OwedQueue(pending_payments) + Owed(p)
      BY <1>1, <2>1, <3>1, OwedAppend
    <3>5. Believed' => balance' >= OwedQueue(pending_payments') + OwedBag(transfers')
      BY <1>2, <2>4, <3>1, <3>3, <3>4
    <3> QED BY <1>1, <2>3, <3>1, <3>5, FundsAreNext DEF FundsInv
  <2>8. CASE Fails("unheard") /\ Made(p)
    <3>1. /\ balance >= p.amount + Fee /\ balance' = balance - p.amount - Fee
      BY <2>8 DEF Made, Affordable
    <3>2. balance' \in Nat
      BY <1>1, <2>1, <3>1, SMTT(30)
    <3>3. failures'.unheard = failures.unheard + 1 /\ failures.unheard \in Nat
      BY <1>1, <2>8 DEF Fails
    <3>4. failures'.unheard # 0
      BY <3>3
    <3>5. ~Believed'
      BY <3>4 DEF Believed
    <3> QED BY <2>3, <3>2, <3>5, FundsAreNext DEF FundsInv
  <2> QED BY <1>4, <2>5, <2>6, <2>7, <2>8 DEF TransferAnswered, TransferRejected
<1> QED BY <1>3, <1>4

\* Payments are queued from what was paid, or are known to be unfunded.
LEMMA QueueKeepsFunds ==
    ASSUME GatesCostTwoFees, PaymentsInv, FundsInv,
           NEW price \in Gates, NEW paid \in Gates, NEW owners \in SUBSET Users,
           price # NoGate => owners # {},
           Queue(price, paid, owners),
           balance' = IF paid = NoGate THEN balance ELSE balance + Available(paid)
    PROVE  FundsInv'
<1>1. /\ pending_payments \in Seq(Amounts) /\ transfers \in Bags /\ balance \in Nat
      /\ OwedQueue(pending_payments) \in Nat /\ OwedBag(transfers) \in Nat
  BY OwedIsNat, OwedBagIs DEF PaymentsInv, PaymentsTyped, FundsInv
<1>2. Believed => balance >= OwedQueue(pending_payments) + OwedBag(transfers)
  BY FundsAre DEF FundsInv
<1>3. \A cost \in Prices : cost \in Nat /\ Available(cost) \in Nat
  BY PaymentsAssumption, CommunityAssumption DEF GatesCostTwoFees, Available
<1>4. balance' \in Nat /\ balance' >= balance
  <2>1. paid # NoGate => Available(paid) \in Nat
    BY <1>3 DEF Gates
  <2> QED BY <1>1, <2>1
<1>5. CASE price = NoGate
  <2>1. UNCHANGED <<pending_payments, transfers, failures, unfunded>>
    BY <1>5 DEF Queue
  <2>2. Believed' = Believed
    BY <2>1 DEF Believed
  <2>3. Believed' => balance' >= OwedQueue(pending_payments') + OwedBag(transfers')
    BY <1>1, <1>2, <1>4, <2>1, <2>2
  <2> QED BY <1>1, <1>4, <2>1, <2>3, FundsAreNext DEF FundsInv
<1>6. CASE price # NoGate
  <2> DEFINE queued == QueuedPayments(price, owners)
  <2>1. /\ pending_payments' = pending_payments \o queued
        /\ UNCHANGED <<transfers, failures>>
        /\ unfunded' = (unfunded \/ price # paid)
    BY <1>6 DEF Queue, QueueAccessGatePayments
  <2>2. price \in Nat /\ Available(price) \in Nat
    BY <1>3, <1>6 DEF Gates
  <2>3. queued \in Seq(Amounts) /\ OwedQueue(queued) <= Available(price)
    BY <1>6, <2>2, OwedOnJoining
  <2> HIDE DEF queued
  <2>4. OwedQueue(pending_payments') = OwedQueue(pending_payments) + OwedQueue(queued)
    BY <1>1, <2>1, <2>3, OwedConcat
  <2>5. OwedQueue(queued) \in Nat
    BY <2>3, OwedIsNat
  <2>6. Believed' => Believed /\ balance' = balance + Available(price)
    <3>1. Believed' => Believed /\ price = paid
      BY <2>1 DEF Believed
    <3> QED BY <1>6, <3>1
  <2>7. Believed' => balance' >= OwedQueue(pending_payments') + OwedBag(transfers')
    BY <1>1, <1>2, <2>1, <2>2, <2>3, <2>4, <2>5, <2>6
  <2> QED BY <1>1, <1>4, <2>1, <2>7, FundsAreNext DEF FundsInv
<1> QED BY <1>5, <1>6

\* A user enters, through a gate whose price has just been paid or through none.
LEMMA EnteringKeepsFunds ==
    ASSUME GatesCostTwoFees, DataInv, PaymentsInv, FundsInv,
           NEW u \in Users, NEW is_moderator, NEW wants, NEW paid \in Gates, NEW others,
           EnterCommunity(u, is_moderator, wants, paid, others) \/ EnterChannel(u, paid, others),
           balance' = IF paid = NoGate THEN balance ELSE balance + Available(paid)
    PROVE  FundsInv'
<1>1. community \in Communities /\ Sound(community, estranged)
  BY DEF DataInv, Sound
<1>2. community.gate \in Gates /\ community.channel.gate \in Gates /\ NoGate \in Gates
  BY <1>1 DEF Communities, Channels, Gates
<1>3. \A roles : Owners(roles) \in SUBSET Users
  BY DEF Owners
<1>4. CASE EnterCommunity(u, is_moderator, wants, paid, others)
  <2> DEFINE unblocked == Unblocked(community, u, is_moderator)
             joined == JoinedCommunity(unblocked, u)
             price == IF CanAdd(unblocked, u) THEN community.gate ELSE NoGate
  <2>1. ~Traps(price) /\ Queue(price, paid, Owners(joined.roles))
    BY <1>4 DEF EnterCommunity
  <2>2. Owners(joined.roles) = Owners(community.roles)
    BY <1>1, UnblockedIsSound, JoiningKeepsOwners
  <2>3. price \in Gates
    BY <1>2
  <2> HIDE DEF joined, price
  <2> QED BY <1>3, <2>1, <2>2, <2>3, QueueKeepsFunds DEF Traps
<1>5. CASE EnterChannel(u, paid, others)
  <2> DEFINE enters == u \in In(community.roles) /\ ~community.channel.deleted
             new == enters /\ u \notin In(community.channel.roles)
             price == IF new THEN community.channel.gate ELSE NoGate
  <2>1. ~Traps(price) /\ Queue(price, paid, Owners(community.roles))
    BY <1>5 DEF EnterChannel
  <2>2. price \in Gates
    BY <1>2
  <2> HIDE DEF price
  <2> QED BY <1>3, <2>1, <2>2, QueueKeepsFunds DEF Traps
<1> QED BY <1>4, <1>5

\* More money, or an answer that was not heard, is no harm.
LEMMA MoreIsEnough ==
    ASSUME PaymentsInv, FundsInv, UNCHANGED <<pending_payments, transfers, unfunded>>,
           balance' \in Nat, balance' >= balance,
           failures' = failures \/ failures'.unheard # 0
    PROVE  FundsInv'
<1>1. /\ OwedQueue(pending_payments) \in Nat /\ OwedBag(transfers) \in Nat
      /\ balance \in Nat /\ transfers \in Bags
  BY OwedIsNat, OwedBagIs DEF PaymentsInv, PaymentsTyped, FundsInv
<1>2. Believed => balance >= OwedQueue(pending_payments) + OwedBag(transfers)
  BY FundsAre DEF FundsInv
<1>3. Believed' => Believed
  BY DEF Believed
<1>4. Believed' => balance' >= OwedQueue(pending_payments') + OwedBag(transfers')
  BY <1>1, <1>2, <1>3
<1> QED BY <1>1, <1>4, FundsAreNext DEF FundsInv

LEMMA NextKeepsFunds ==
    ASSUME GatesCostTwoFees, DataInv, PaymentsInv, FundsInv, [Next]_vars
    PROVE  FundsInv'
<1>1. balance \in Nat /\ failures \in [refused : Nat, rejected : Nat, unheard : Nat]
  BY DEF FundsInv, PaymentsInv, PaymentsTyped
<1>2. \A price \in Prices : price # NoGate /\ price \in Gates /\ Available(price) \in Nat
  BY PaymentsAssumption, CommunityAssumption DEF GatesCostTwoFees, Available, Gates, NoGate
<1>3. ASSUME UNCHANGED <<pending_payments, transfers, balance, failures, unfunded>>
      PROVE  FundsInv'
  BY <1>1, <1>3, MoreIsEnough
<1>4. ASSUME NEW price \in Prices, Charged(price)
      PROVE  balance' \in Nat /\ balance' >= balance /\ balance' = balance + Available(price)
  BY <1>1, <1>2, <1>4 DEF Charged
<1>5. CASE MakesPayments
  BY <1>5, JobKeepsFunds DEF MakesPayments
<1>6. CASE Upgraded \/ UNCHANGED vars
  BY <1>3, <1>6 DEF Upgraded, PaymentsUpgraded, vars, payments
<1>7. ASSUME NEW j \in BagToSet(joining), GatePassed(j) \/ GatePassedInVain(j) \/ GateFailed(j)
      PROVE  FundsInv'
  <2>1. j.user \in Users /\ j.price \in Prices
    BY <1>7 DEF DataInv, HandlersTyped, BagToSet, Joins
  <2>2. CASE GatePassed(j)
    <3>1. \/ EnterCommunity(j.user, j.is_moderator, j.wants, j.price, joining (-) One(j))
          \/ EnterChannel(j.user, j.price, joining (-) One(j))
      BY <2>2 DEF GatePassed
    <3>2. j.price \in Gates /\ j.price # NoGate /\ balance' = balance + Available(j.price)
      BY <1>2, <1>4, <2>1, <2>2 DEF GatePassed
    <3> QED BY <2>1, <3>1, <3>2, EnteringKeepsFunds
  <2>3. CASE GatePassedInVain(j)
    <3>1. UNCHANGED <<pending_payments, transfers, failures, unfunded>> /\ Charged(j.price)
      BY <2>3 DEF GatePassedInVain
    <3> QED BY <1>4, <2>1, <3>1, MoreIsEnough
  <2>4. CASE GateFailed(j)
    <3>1. UNCHANGED <<pending_payments, transfers, unfunded>>
      BY <2>4 DEF GateFailed
    <3>2. CASE UNCHANGED <<balance, failures>>
      BY <1>3, <3>1, <3>2
    <3>3. CASE Fails("unheard") /\ Charged(j.price)
      <4>1. failures'.unheard = failures.unheard + 1 /\ failures.unheard \in Nat
        BY <1>1, <3>3 DEF Fails
      <4>2. failures'.unheard # 0
        BY <4>1
      <4> QED BY <1>4, <2>1, <3>1, <3>3, <4>2, MoreIsEnough
    <3> QED BY <2>4, <3>2, <3>3 DEF GateFailed
  <2> QED BY <1>7, <2>2, <2>3, <2>4
<1>8. ASSUME NEW a \in BagToSet(adding), AddedUserPaid(a) \/ AddedUserDidNotPay(a)
      PROVE  FundsInv'
  <2>1. a.price \in Prices
    BY <1>8 DEF DataInv, HandlersTyped, BagToSet, Additions
  <2>2. CASE AddedUserPaid(a)
    <3>1. UNCHANGED <<pending_payments, transfers, failures, unfunded>> /\ Charged(a.price)
      BY <2>2 DEF AddedUserPaid
    <3> QED BY <1>4, <2>1, <3>1, MoreIsEnough
  <2>3. CASE AddedUserDidNotPay(a)
    BY <1>3, <2>3 DEF AddedUserDidNotPay, payments
  <2> QED BY <1>8, <2>2, <2>3
<1>9. CASE \E r \in removing : RemovalGoesOn(r) \/ RemovalStops(r)
  BY <1>3, <1>9 DEF RemovalGoesOn, RemovalStops, unpaid, payments
<1>10. ASSUME NEW u \in Users, NEW is_moderator \in IsModerator(u),
              NEW wants \in {"community", "channel"}, JoinStarts(u, is_moderator, wants)
       PROVE  FundsInv'
  <2>1. CASE community.gate = NoGate
    <3>1. EnterCommunity(u, is_moderator, wants, NoGate, joining) /\ balance' = balance /\ NoGate \in Gates
      BY <1>10, <2>1 DEF JoinStarts, Gates
    <3> QED BY <3>1, EnteringKeepsFunds
  <2>2. CASE community.gate # NoGate
    BY <1>3, <1>10, <2>2 DEF JoinStarts, payments
  <2> QED BY <2>1, <2>2
<1>11. ASSUME NEW u \in Users,
              \/ LeaveCommunity(u) \/ LeaveChannel(u) \/ DeleteChannel(u)
              \/ \E gate \in Gates :
                    UpdateGate(u, gate) \/ \E public \in BOOLEAN : UpdateChannel(u, gate, public)
              \/ \E v \in Users :
                    \/ RemoveMemberFromChannel(u, v) \/ AddMemberToChannel(u, v) \/ UnblockUser(u, v)
                    \/ \E block \in BOOLEAN : RemoveMember(u, v, block)
                    \/ \E role \in Roles \ {"None"} :
                          ChangeRole(u, v, role) \/ ChangeChannelRole(u, v, role)
       PROVE  FundsInv'
  <2>1. UNCHANGED payments /\ UNCHANGED unfunded
    BY <1>11
       DEF LeaveCommunity, LeaveChannel, DeleteChannel, UpdateGate, UpdateChannel, UnblockUser,
           RemoveMemberFromChannel, AddMemberToChannel, RemoveMember, ChangeRole,
           ChangeChannelRole, unpaid
  <2> QED BY <1>3, <2>1 DEF payments
<1> QED BY <1>5, <1>6, <1>7, <1>8, <1>9, <1>10, <1>11 DEF Next, Step, GateAnswers

\* As long as no gate changes while a user pays to pass it and no transfer is
\* made whose call is rejected, the canister holds what it owes, the fee of
\* every transfer included, queued payments and transfers under way together.
THEOREM FeesCoverWhatIsOwed ==
    ASSUME GatesCostTwoFees
    PROVE  Spec => []FeesCoverPayments
<1>1. Init => PaymentsInv /\ FundsInv
  BY InitPayments, InitFunds
<1>2. DataInv /\ PaymentsInv /\ FundsInv /\ [Next]_vars => PaymentsInv' /\ FundsInv'
  BY NextKeepsPayments, NextKeepsFunds
<1>3. FundsInv => FeesCoverPayments
  BY DEF FundsInv
<1> QED BY <1>1, <1>2, <1>3, DataInvariance, PTL DEF Spec
=============================================================================
