CONSTANTS
  Nodes = {n1, n2}
  Conns = {c1, c2}
  NoConn = NoConn
  NoNode = NoNode
  NoProc = NoProc
  MaxFaults = 1
  MaxOutages = 1
  MidSectionExpiry = FALSE
  DistinctIds = FALSE
  Crashable = {n1, n2}
  Drainable = {}
  Stoppable = {}
SPECIFICATION Spec
INVARIANT ReadStaysTrue
SYMMETRY Symmetry
CHECK_DEADLOCK FALSE
