\* Every entry is settled once calls stop failing.
SPECIFICATION FairSpec
CONSTANTS
  w1 = w1
  w2 = w2
  e1 = e1
  e2 = e2
  Workers = {w1}
  N = 2
  Events = {e1}
  EventsOf <- GoodAndPoison
  Legacy = {}
  MaxRetries = 2
  Attempts = 1
  ReadCount = 2
  ClaimCount = 2
  StreamCap = 1
  MaxFaults = 1
  MaxCrashes = 1
  LostReplies = TRUE
INVARIANT QuarantineNeedsFailures
PROPERTIES
  EventuallySettled
  EventuallyAccounted
CHECK_DEADLOCK FALSE
