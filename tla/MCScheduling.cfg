SPECIFICATION Spec
CONSTANTS
  MaxBefore = 4
  MaxCount = 4
  Versions = {1, 2}
  Reasons = {"docker image updated"}
  n1 = n1
  c1 = c1
  p1 = p1
  Arrivals <- MCArrivals
  Nodes = {n1, n2, n3}
  Comps = {c1, c2}
  TotalMemory <- Memory
  ReserveMemory <- Reserve
  MaxInstancesPerNode <- PerNode
  MinInstances <- AtLeast
  MaxInstances <- AtMost
  Loads = {0, 100, 200}
  MaxPerComp = 1
  MaxUpsets = 1
  Placers = {n1, n2}
  PlacerMemory <- Three
  PlacedReserve <- Two
  Unlimited <- NoLimit
  Calls = {p1, p2}
  Nobody = Nobody
  MaxFailures = 1
INVARIANTS
  ReachesTarget KeepsWhatFits StartStopKeepsCapacity
  Fits WithinTarget QueueHasPlacer
PROPERTIES
  KeepsRecent Settles CallsAnswered
CHECK_DEADLOCK FALSE
