SPECIFICATION Spec
CONSTANTS
  p1 = p1
  u1 = u1
  u2 = u2
  alice = alice
  Prizes <- MCPrizes1
  Users <- MCUsers2
  Sender = alice
  NumPrizes = 2
  EndDates <- EarlyOrLateEnd
  TTLs <- ShortTTL
  HardDeleteDelay = 2
  RetryDelay = 1
  Float = 1
  MaxTime = 4
SYMMETRY Symmetry
INVARIANTS
  PrizesConserved
  NothingIsPaidTwice
  PaidFromOwnFunds
  RefundIsScheduled
PROPERTIES
  DestroyedOnlyAfterDelay
  RefundsAreKept
