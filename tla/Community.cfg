SPECIFICATION FairSpec
CONSTANTS
  creator = creator
  u1 = u1
  u2 = u2
  Users <- MCUsers
  Creator = creator
  FirstOwners <- MCOwners
  Treasury = treasury
  Fee = 1
  Prices = {7, 14}
  Moderators = {u2}
  MaxFailures = 1
  MaxCalls = 3
CHECK_DEADLOCK FALSE
INVARIANTS
  ListedChannelsAreJoined
  ChannelHasOwner
  BlockedAreNotMembers
  FeesCoverPayments
  ReceiptsTruthful
PROPERTIES
  PaymentsAreMade
