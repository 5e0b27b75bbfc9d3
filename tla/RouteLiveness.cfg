CONSTANTS
  Nodes = {n1, n2}
  Conns = {c1, c2}
  NoConn = NoConn
  NoNode = NoNode
  NoProc = NoProc
  MaxFaults = 1
  MaxOutages = 1
  MidSectionExpiry = TRUE
  DistinctIds = TRUE
  Crashable = {n2}
  Drainable = {n1}
  Stoppable = {}
SPECIFICATION LiveSpec
PROPERTIES Converges TeardownCompletes
CHECK_DEADLOCK FALSE
