SPECIFICATION Spec
CONSTANTS
  alice = alice
  bob = bob
  Users <- MCUsers
  Owner = alice
  Pinners = {alice}
  TTLs <- MCTTLs
  Never = 1000
  MaxEvents = 6
  MaxTime = 1
CONSTRAINT
  DeletionsApart
CHECK_DEADLOCK FALSE
INVARIANTS
  MessagesExpireOnTime
  ThreadsMatchSummaries
  MembersKnowTheirThreads
  PinsMatchEvents
  ExpiredRangesAreCorrect
