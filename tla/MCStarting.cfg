SPECIFICATION StartingSpec
CONSTANTS
  s1 = s1
  s2 = s2
  n1 = n1
  n2 = n2
  v1 = v1
  v2 = v2
  Nodes = {n1, n2}
  Versions = {v1, v2}
  ParaOf <- MCParaOf
  Health <- MCHealth
  MaxHealth = 2
  Skew = 1
  MaxClock = 5
  None = None
  Stoppers = {s1, s2}
  MaxConc = 2
  MaxFailures = 2
CHECK_DEADLOCK FALSE
INVARIANTS
  OneAtATime
  FirstRunsAlone
PROPERTIES
  RemovedDrained
  StopEnds
