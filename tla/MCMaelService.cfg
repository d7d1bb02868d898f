CONSTANTS
  Comps = {a, b}
  Sources = {s, t}
  Contents = {x, y, z}
  Misfiled = {z}
  Nothing = Nothing
  Clients = {k1, k2}
  Members = {n1, n2}
  a = a
  k1 = k1
  x = x
  y = y
  z = z
  s = s
  Scenes <- MCScenes
  MaxCalls = 2
  MaxUpsets = 1
SPECIFICATION ServiceSpec
CHECK_DEADLOCK FALSE
INVARIANTS PutProjectIsExact NoOrphans
PROPERTY CachesCatchUp
