SPECIFICATION Spec
CONSTANTS
  alice = alice
  bob = bob
  Users <- MCUsers
  Owner = alice
  Pinners = {alice}
  TTLs <- MCTTLs
  Never = 1000
  MaxEvents = 5
  MaxTime = 2
CHECK_DEADLOCK FALSE
INVARIANTS
  ScanIsComplete
