\* The cancel function of an expired grace timer against a reconnect.
SPECIFICATION Spec
CONSTANTS
  Heartbeat = 2
  Grace = 3
  Stable = 3
  Jitters = {2000}
  MaxScopes = 2
INVARIANT ServedScopeAlive
CHECK_DEADLOCK FALSE
