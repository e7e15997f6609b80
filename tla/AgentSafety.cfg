SPECIFICATION SafetySpec
CONSTANTS
  SessionIds = {s1}
  Inc = {i1, i2}
  None = None
  QueueCap = 1
  RestartLimit = 1
  MaxConns = 2
  MaxLaunches = 0
  Sessions = {d1, d2, d3}
  Sizes = {1, 3}
  Indexes = {1, 2}
  MaxBytes = 4
  MaxClock = 4
SYMMETRY SafetySymmetry
INVARIANTS Reachable NoOrphanWorker
           SenderIsCurrent NoRelaunchAfterTerminate
PROPERTIES NoStaleSignal QuotaKept OwnChunksKept
\* The bounds MaxConns, Inc and MaxClock let the modelled agent come to rest.
CHECK_DEADLOCK FALSE
