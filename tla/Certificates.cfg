CONSTANTS
  Chains <- MCChains
  Runs = {1, 2}
  Renewals = {2}
  Cap <- MCCap
  Refill <- MCRefill
  PerOrder = 1
  RetryAfter = 1
  MaxFaults = 1
  MaxTimeouts = 1
  p1 = p1
  p2 = p2
  Phones = {p1, p2}
  Scenes <- MCScenes
  Names = {a, b}
  None = None
  EnrollLimit = 2
  IssuePerWeek = 1
  ClaimTries = 2
  EnrollRetries = 1
  IssueRetries = 1
  Rounds = 2
  MaxLost = 1
  EnrolFaults = 1
  MaxRolls = 1
  Refusals = {1, 2, 3}
  AppOf <- MCAppOf
  SrcOf <- MCSrcOf
  HiddenApps = {3}
  Reporters = {n1, n2}
  Retention = 1
  MaxDay = 2
  MaxJobFaults = 1
  HeadBlocks = 2
  HeadRunes = 3
  RowRunes = 2
  IntroRunes = 3
  RoomRunes = 1
  LimBlocks = 6
  LimRunes = 9
  CapKeys = {k1, k2}
  CapIPs = {i1, i2}
  NoIP = NoIP
  Window = 2
  TrackedIPs = 1
  MaxHits = 3
  MaxMinutes = 3
SPECIFICATION Spec
INVARIANTS TypeOK  BudgetFloor  NameKept WeeklyCap RecordCurrent
           FiledWereTold  RefusalsAccounted
CHECK_DEADLOCK FALSE
SYMMETRY Symmetry
