CONSTANTS
  Conns = {c1, c2}
  Issues = {i1}
  Buffer = 1
  MaxOpens = 1
  MaxFaults = 1
SPECIFICATION DrainLiveSpec
INVARIANTS MoveNotLost NoIssueCut
PROPERTIES AllTold
CHECK_DEADLOCK FALSE
