SPECIFICATION SessionsSpec
CONSTANTS
  \* SessionBroker: one session with every restart path
  SessionIds = {s1}
  Inc = {i1}
  None = None
  QueueCap = 1
  RestartLimit = 2
  MaxConns = 2
  MaxLaunches = 2
  \* RDSSupervisor
  Wts = {w1}
  Recs = {r1, r2}
  NoRec = NoRec
  MaxStarts = 2
  MaxLogons = 2
INVARIANT CompletedOnce
PROPERTIES StopCompletes OfferResolved ActiveSessionsRecorded ClosedRecordingsEnd
\* The bounds let the modelled agent come to rest.
CHECK_DEADLOCK FALSE
