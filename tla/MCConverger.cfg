SPECIFICATION FairSpec
CONSTANTS
  c1 = c1
  s1 = s1
  Ids = {1, 2}
  Versions = {1, 2}
  MaxCount = 1
  MaxChanges = 3
  OrderOf <- MCOrderOf
  Callers = {c1}
  Setters = {s1}
  None = None
INVARIANTS
  NoOrphan
  QuietIsConverged
  MemoryBounded
PROPERTIES
  CallerAnswered
  StopCleansUp
CHECK_DEADLOCK FALSE
