\* Two logs in overlapping windows, past the horizon, with a failure and a crash.
SPECIFICATION FairSpec
CONSTANTS
  e1 = e1  e2 = e2
  Events = {e1, e2}
  Time <- MCTime
  Errors = {e1}
  Window = 2
  Stride = 1
  MinLogs = 1
  MinHorizon = 0
  None = None
  Unset <- MCUnset
  MaxTime = 7
  MaxFaults = 1
  MaxCrashes = 1
INVARIANTS RegisteredBeforeConsumed NoDoubleCount CompletedMeansPersisted
PROPERTY EventuallyPersisted
CHECK_DEADLOCK FALSE
