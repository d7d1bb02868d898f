SPECIFICATION FairSpec
CONSTANTS
  Comps = {c1}
  Reqs = {r1, r2}
  MaxConvs = 2
  MaxCount = 1
  MaxCalls = 1
  MaxRemovals = 1
  None = None
PROPERTIES
  ShutdownFinishes
CHECK_DEADLOCK FALSE
