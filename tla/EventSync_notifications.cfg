SPECIFICATION FairSpec
CONSTANTS
  c1 = c1
  c2 = c2
  c3 = c3
  Canisters <- MCCanisters2
  Jobs = {"notifications_index"}
  MaxCanisters = 2
  MaxPerBatch = 1
  MaxEvents = 3
PROPERTIES
  RequeuedIsCalled
