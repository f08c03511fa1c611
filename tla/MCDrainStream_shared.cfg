\* One worker process, its two loops and its flush over entries sharing an event.
SPECIFICATION Spec
CONSTANTS
  w1 = w1
  w2 = w2
  e1 = e1
  e2 = e2
  Workers = {w1}
  N = 2
  Events = {e1, e2}
  EventsOf <- SharedEvents
  Legacy = {e2}
  MaxRetries = 2
  Attempts = 2
  ReadCount = 2
  ClaimCount = 1
  StreamCap = 1
  MaxFaults = 2
  MaxCrashes = 1
  LostReplies = TRUE
INVARIANTS
  NoSilentAck
  RawRowOnce
  ActivatedAtMostOnce
  MemoryNeverSoleCopy
PROPERTY KeepsContract
CHECK_DEADLOCK FALSE
