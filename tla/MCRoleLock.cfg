SPECIFICATION Spec
CONSTANTS
  n1 = n1
  n2 = n2
  p1 = p1
  p2 = p2
  p3 = p3
  Nodes = {n1, n2}
  Procs = {p1, p2, p3}
  NodeOf <- MCNodeOf
  None = None
  Durs <- MCDurs
  MaxDur = 2
  Skew = 1
  MaxTries = 2
  MaxClock = 2
SYMMETRY MCSiblings
CHECK_DEADLOCK FALSE
INVARIANTS
  MutualExclusion
PROPERTIES
  RenewalKeepsTime
  ImplementsLease
