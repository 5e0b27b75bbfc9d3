CONSTANTS
  n1 = n1
  n2 = n2
  s3 = s3
  Nodes = {n1, n2}
  Streams = {s1, s2, s3}
  NoNode = NoNode
  NoStream = NoStream
  Entries <- MCEntries
  MaxN = 1
  SlotRetries = 2
  MaxAsks = 1
  MaxFaults = 1
  Crashable = {n2}
SPECIFICATION LiveSpec
INVARIANTS CapHolds SlotReturned
PROPERTIES SlotsSettle
CHECK_DEADLOCK FALSE
