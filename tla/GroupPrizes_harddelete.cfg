SPECIFICATION Spec
CONSTANTS
  p1 = p1
  u1 = u1
  u2 = u2
  alice = alice
  Prizes <- MCPrizes1
  Users = {}
  Sender = alice
  NumPrizes = 2
  EndDates <- EarlyOrLateEnd
  TTLs <- NoTTL
  HardDeleteDelay = 1
  RetryDelay = 1
  Float = 1
  MaxTime = 4
INVARIANT HardDeleteCancelsRefund
