SPECIFICATION Spec
CONSTANTS
  p1 = p1
  p2 = p2
  p3 = p3
  Peers = {p1, p2, p3}
  max_connections = 2
  PipeSize = 1
  MaxRequests = 0
  SelectErrors = {}
INVARIANT NoConcurrentAccessIssue
SYMMETRY PeerSymmetry
CHECK_DEADLOCK FALSE
