SPECIFICATION Spec
CONSTANTS
  alice = alice
  bob = bob
  Users <- MCUsers
  MaxAttempts = 1
  MaxDisturbances = 2
  MaxSent = 2
CHECK_DEADLOCK FALSE
INVARIANTS
  MessagesInOrder
  NothingLost
  ReadReceiptsTruthful
  QuietCopiesAgree
SYMMETRY Symmetry
