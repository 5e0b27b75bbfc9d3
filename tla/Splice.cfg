CONSTANTS
  e = e
  o = o
  s1 = s1
  Nodes = {e, o}
  Entry = e
  Streams = {s1}
  MaxConns = 2
  MaxShocks = 1
  MaxFaults = 1
SPECIFICATION LiveSpec
INVARIANT ReasonHonest
PROPERTY StreamsEnd
CHECK_DEADLOCK FALSE
