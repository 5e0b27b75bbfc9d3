CONSTANTS
  MaxEvents = 3
  QueueCap = 1
  MaxFile = 4
  MaxBytes = 4
  MaxFaults = 1
  MaxStarts = 2
SPECIFICATION Spec
INVARIANT UncountedOnlyLeftOut
CHECK_DEADLOCK FALSE
