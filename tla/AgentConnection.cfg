SPECIFICATION FairSpec
CONSTANTS
  Heartbeat = 2
  Grace = 3
  Stable = 3
  Jitters = {0, 1999, 4000}
  MaxScopes = 2
INVARIANTS OneLiveScope DeadPeerDetected
PROPERTIES OutageResolves StopReturns
\* RunAgent returns.
CHECK_DEADLOCK FALSE
