SPECIFICATION ReliableSpec
CONSTANTS
  c1 = c1
  c2 = c2
  c3 = c3
  Canisters <- MCCanisters3
  Jobs = {"local_user_index", "user_index"}
  MaxCanisters = 2
  MaxPerBatch = 2
  MaxEvents = 3
INVARIANTS
  EventsInOrder
  QueueIsExact
  TimerRunsWhenNeeded
PROPERTIES
  ImplementsDelivery
