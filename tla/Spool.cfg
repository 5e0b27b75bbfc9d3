CONSTANTS
  MaxEvents = 3
  QueueCap = 1
  MaxFile = 4
  MaxBytes = 4
  MaxFaults = 1
  MaxStarts = 2
SPECIFICATION LiveSpec
INVARIANTS EveryEntryAccounted SpooledExact
PROPERTIES EntriesGetOut
CHECK_DEADLOCK FALSE
