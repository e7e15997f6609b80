SPECIFICATION HostSpec
CONSTANTS
  \* AgentService
  Urls = {u1, u2}
  NoUrl = NoUrl
  MaxKeys = 2
  MaxStarts = 2
  MaxCli = 1
  \* UpdateManager and ClientWatchdog
  Tasks = {t1, t2}
  Versions = {v1}
  None = None
  MaxMsgs = 3
  MaxRestarts = 1
  Sess = {s1}
INVARIANTS PinnedServer OneDownload
PROPERTIES IdentityKept EnrolledRuns NoInterference ClientReturns
\* The bounds let the modelled host come to rest.
CHECK_DEADLOCK FALSE
