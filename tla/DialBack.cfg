CONSTANTS
  Streams = {s1, s2}
SPECIFICATION DialLiveSpec
INVARIANTS DeliveredIsOwned DeliverNeverBlocks
PROPERTIES AllEnds
CHECK_DEADLOCK FALSE
