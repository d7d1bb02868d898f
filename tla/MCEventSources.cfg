SPECIFICATION Spec
CONSTANTS
  Nodes = {n1, n2}
  CronRole = cron
  Roles <- MCRoles
  Tickers = {"lock", "reload"}
  Duration = 2
  MaxUpsets = 2
  Rules = {a}
  None = None
  MaxConcurrency = 3
  PerPoller = 2
  Counts = {2, 3}
  NoReload = NoReload
  Messages = {t1, t2}
  Workers = {w1, w2}
  PerPoll = 2
  NoMessage = NoMessage
CHECK_DEADLOCK FALSE
INVARIANTS
  OneNodeRuns
  
PROPERTIES
  DaemonsSettle
