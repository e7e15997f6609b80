SPECIFICATION ClientSpec
CONSTANTS
  Keys = {"ctrl", "x"}
  Modifiers = {"ctrl"}
  LocalKeys = {"l"}
  MaxQueue = 2
  MaxBacklog = 3
  BufferSize = 16
  ScreenSizes <- MCScreenSizes
  MaxSizes <- MCMaxSizes
  Loggers = {"p1", "p2"}
  MaxLines = 2
  MaxWritten = 5
  Instances = {"i1", "i2", "i3"}
  Workers = {}
  Pids = {"s1", "s2", "other"}
  Services = {"s1", "s2"}
  Relays = {0, 2}
  Insecure = {2}
  Up = {1}
  MaxAttempt = 2
  Generations = {0, 1, 2, 3}
  MaxSessions = 2
INVARIANTS
  NoStuckKey
  SecureDesktopUntouched
  CaptureFits
  LinesKept
  WaysOn
PROPERTIES
  ReleasedEventually
  AppComesUp
  ConnectedAgain
  BindingSettles
\* All processes of the client may have ended.
CHECK_DEADLOCK FALSE
