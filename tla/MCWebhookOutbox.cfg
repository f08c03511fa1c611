\* Two supervised workers and one coalesced alert, with lost leases and faults.
SPECIFICATION FairSpec
CONSTANTS
  w1 = w1
  w2 = w2
  d1 = d1
  d2 = d2
  None = None
  Workers = {w1, w2}
  Deliveries = {d1}
  MaxAttempts = 2
  MaxOffers = 2
  MaxStalls = 2
  MaxFaults = 2
  Supervised = TRUE
INVARIANTS
  DeliveredMeansReceived
  FailedMeansRefused
PROPERTIES
  KeepsContract
  EventuallyConcluded
CHECK_DEADLOCK FALSE
