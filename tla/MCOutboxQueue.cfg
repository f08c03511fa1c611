\* Two workers and two deliveries that are refreshed, with lost leases and faults.
SPECIFICATION FairSpec
CONSTANTS
  w1 = w1
  w2 = w2
  d1 = d1
  d2 = d2
  None = None
  Workers = {w1, w2}
  Deliveries = {d1, d2}
  MaxAttempts = 2
  MaxOffers = 2
  MaxStalls = 1
  MaxFaults = 1
INVARIANTS
  CompletedMeansHandled
  AttemptsWithinLimit
PROPERTIES
  KeepsContract
  EventuallyConcluded
CHECK_DEADLOCK FALSE
