\* Three requests, two of them alike, for one place; a failure and a stall.
SPECIFICATION FairSpec
CONSTANTS
  r1 = r1  r2 = r2  r3 = r3  k1 = k1  k2 = k2
  Requests = {r1, r2, r3}
  Keys = {k1, k2}
  KeyOf <- MCKeyOf
  Cleaners = {c1}
  MaxConcurrent = 1
  Parts = 1
  None = None
  MaxStalls = 1
  MaxFaults = 1
INVARIANTS ReadyMeansStaged NoOrphanTable
PROPERTIES NoResurrection EventuallyReleased
CHECK_DEADLOCK FALSE
