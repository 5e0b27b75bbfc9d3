CONSTANTS
  Nodes = {n1, n2}
  Conns = {c1, c2, c3}
  NoConn = NoConn
  NoNode = NoNode
  NoProc = NoProc
  MaxFaults = 0
  MaxOutages = 0
  MidSectionExpiry = FALSE
  DistinctIds = TRUE
  Crashable = {}
  Drainable = {}
  Stoppable = {n1, n2}
SPECIFICATION Spec
INVARIANTS OpenConnInMap LocalWinnerOwns CloseAllSticks
PROPERTIES ImplementsRouteOwner
SYMMETRY Symmetry
CHECK_DEADLOCK FALSE
