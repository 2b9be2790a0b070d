SPECIFICATION Spec
CONSTANTS
  u1 = u1
  u2 = u2
  u3 = u3
  Users <- MCUsers3
  Creator = u1
  PlatformModerators = {u2}
  MaxMembers = 2
  MaxInvites = 1
  ChangeRoles = "Admins"
  RemoveMembers = "Moderators"
  InviteUsers = "Admins"
  StartsPublic = FALSE
  HasInviteCode = FALSE
  ForModerators = TRUE
  IsGated = TRUE
  MaxPending = 1
VIEW MCView
INVARIANTS
  TypeOK
  CountersMatch
  HasOwner
  NeitherBlockedNorInvited
  WithinLimits
PROPERTIES
  ActsWithCurrentAuthority
  InvitationsStayUsable
