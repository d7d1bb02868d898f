SPECIFICATION Spec
CONSTANTS
  r1 = r1
  r2 = r2
  h1 = h1
  h2 = h2
  h3 = h3
  u1 = u1
  Reqs = {r1, r2}
  LocalFirst = {r1}
  Handlers = {h1, h2}
  Urls = {u1}
  Limits = {0, 1}
  MaxRemote = 2
  MaxChans = 2
  MaxLoops = 1
  None = None
SYMMETRY MCSymmetry
CHECK_DEADLOCK FALSE
INVARIANTS
  Consistent
  DispenserExact
  RemotesTracked
