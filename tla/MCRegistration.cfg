\* Two requests at a time on one address, two accounts, three codes, one fault.
SPECIFICATION Spec
CONSTANTS
  c1 = c1  c2 = c2  u1 = u1  u2 = u2  k1 = k1  k2 = k2  k3 = k3
  Calls = {c1, c2}
  Users = {u1, u2}
  Codes = {k1, k2, k3}
  None = None
  MaxAttempts = 1
  HourlyLimit = 1
  MaxFaults = 1
INVARIANTS MailedMeansAccount AttemptsBounded
PROPERTIES PasswordSettled
SYMMETRY Symmetry
CHECK_DEADLOCK FALSE
