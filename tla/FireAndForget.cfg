SPECIFICATION FairSpec
CONSTANTS
  c1 = c1
  c2 = c2
  Canisters <- MCCanisters2
  MaxCalls = 3
  MaxAttempts = 2
  MaxBatch = 1
  SecondInMs = 1
  MaxTime = 3
INVARIANTS
  TypeOK
  CallsAccountedFor
  TimerRunsWhileNeeded
PROPERTIES
  OneBatchAtATime
  ImplementsDelivery
