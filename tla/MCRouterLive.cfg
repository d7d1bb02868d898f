SPECIFICATION FairSpec
CONSTANTS
  r1 = r1
  r2 = r2
  h1 = h1
  h2 = h2
  h3 = h3
  u1 = u1
  Reqs = {r1, r2}
  LocalFirst = {r1}
  Handlers = {h1}
  Urls = {u1}
  Limits = {0}
  MaxRemote = 1
  MaxChans = 2
  MaxLoops = 2
  None = None
PROPERTIES
  PendingIsRetried
  RequestLeaves
  CancelledStops
CHECK_DEADLOCK FALSE
