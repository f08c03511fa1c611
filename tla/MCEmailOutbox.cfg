\* Two workers, a mail and one of an unsupported kind, with leases that pass during a
\* send and faults.
SPECIFICATION FairSpec
CONSTANTS
  w1 = w1
  w2 = w2
  m1 = m1
  m2 = m2
  NoMail = NoMail
  Workers = {w1, w2}
  Mails = {m1, m2}
  Unsupported = {m2}
  MAX_ATTEMPTS = 2
  MaxStalls = 1
  MaxMailFaults = 1
INVARIANTS
  DeliveredMeansSent
  FailedMeansExhausted
PROPERTY EventuallyConcluded
CHECK_DEADLOCK FALSE
