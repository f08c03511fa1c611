\* A failed stream batch goes through the periodic flush.
SPECIFICATION Spec
CONSTANTS
  w1 = w1
  w2 = w2
  e1 = e1
  e2 = e2
  Workers = {w1}
  N = 1
  Events = {e1}
  EventsOf <- SingleEntry
  Legacy = {}
  MaxRetries = 2
  Attempts = 1
  ReadCount = 2
  ClaimCount = 2
  StreamCap = 1
  MaxFaults = 1
  MaxCrashes = 0
  LostReplies = FALSE
INVARIANT NewRowsActivated
CHECK_DEADLOCK FALSE
