\* Two requests at a time on two sessions, three tokens and two resets, one fault.
SPECIFICATION FairSpec
CONSTANTS
  Calls = {c1, c2}
  Sessions = {s1, s2}
  Tokens = {t1, t2, t3}
  Resets = {p1, p2}
  Account = Account
  None = None
  MaxFaults = 1
INVARIANTS ResetCutsSessions OneUsableToken AppliedInTime
PROPERTIES RevokedIsOver EventuallyAnswered
CHECK_DEADLOCK FALSE
