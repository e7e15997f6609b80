\* A link-host worker shows its window while the application starts.
SPECIFICATION ClientSpec
CONSTANTS
  Keys = {"x"}
  Modifiers = {}
  LocalKeys = {"l"}
  MaxQueue = 2
  MaxBacklog = 1
  BufferSize = 16
  ScreenSizes <- MCScreenSizes
  MaxSizes <- MCMaxSizes
  Loggers = {"p1", "p2"}
  MaxLines = 2
  MaxWritten = 1
  Instances = {"i1", "i2"}
  Workers = {"w"}
  Pids = {"s1", "s2", "other"}
  Services = {"s1", "s2"}
  Relays = {0, 2}
  Insecure = {2}
  Up = {1}
  MaxAttempt = 2
  Generations = {0, 1, 2}
  MaxSessions = 1
PROPERTY AppComesUp
CHECK_DEADLOCK FALSE
