SPECIFICATION FairSpec
CONSTANTS
  Comps = {c1}
  Reqs = {r1, r2}
  MaxConvs = 2
  MaxCount = 1
  MaxCalls = 2
  MaxRemovals = 1
  None = None
INVARIANTS
  OneCallPerVersion
  EveryConvergerIsStopped
  AnswersMatch
PROPERTIES
  AcceptedCallReturns
  StoppedIsEmptied
CHECK_DEADLOCK FALSE
