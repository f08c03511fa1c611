\* Two requests at a time on one address, two accounts and two codes, one delivery worker.
SPECIFICATION SystemSpec
CONSTANTS
  c1 = c1  c2 = c2  u1 = u1  u2 = u2  k1 = k1  k2 = k2
  Calls = {c1, c2}
  Users = {u1, u2}
  Codes = {k1, k2}
  Workers = {w1}
  Mails = {k1, k2}
  Unsupported = {}
  None = None
  NoMail = NoMail
  MaxAttempts = 1
  HourlyLimit = 1
  MaxFaults = 0
  MAX_ATTEMPTS = 1
  MaxStalls = 0
  MaxMailFaults = 0
INVARIANTS VerifiedMeansSent
SYMMETRY Symmetry
CHECK_DEADLOCK FALSE
