CONSTANTS
  a = a
  b = b
  b2 = b2
  hostA = hostA
  hostB = hostB
  Nodes = {a, b, b2}
  Hosts = {hostA, hostB}
  PeerUrl <- MCPeerUrl
  MaxUpsets = 2
  MaxWaiting = 2
SPECIFICATION ClusterSpec
CHECK_DEADLOCK FALSE
PROPERTIES
  ViewsSettle
  ExitedStaysOut
