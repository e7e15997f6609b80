\* Two policies for one session, applied at the same time.
SPECIFICATION SupervisorSpec
CONSTANTS
  Wts = {w1}
  Recs = {r1, r2}
  NoRec = NoRec
  MaxStarts = 2
  MaxLogons = 1
INVARIANT StopAllStopsAll
CHECK_DEADLOCK FALSE
