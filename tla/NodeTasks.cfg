\* Bounded runs end: a task may reach its bounds, and a stopped one stops.
CHECK_DEADLOCK FALSE
SPECIFICATION Spec
CONSTANTS
  TLSConns = {a1, a2, a3}
  HTTPConns = {h1}
  MaxClients = 2
  QueueCap = 1
  Copiers = {c1, c2}
  Chunks = {1, 2}
  BwRate = 2
  DayCap = 4
  WeekCap = 6
  Day = 3
  Week = 2
  MaxPacingWait = 2
  MaxTime = 6
  MaxErrors = 1
  Servers = {n1, n2}
  Unlocked = Unlocked
  Abandoned = Abandoned
  MaxPeriods = 2
  MaxCertFaults = 2
  Phones = {p1}
  MaxWrites = 3
  MaxBanFaults = 1
  Requests = {r1}
  MaxStale = 1
  MaxClock = 3
  Unread = Unread
  MaxEdits = 3
  Peers = {n1, n2}
  Listers = {l1}
  MaxLapses = 2
  Remotes = {n1, n2}
  Callers = {k1, k2}
  MaxPools = 3
  Handlers = {f1}
  Splices = {s1}
  Issues = {i1}
  MaxBytes = 2
  MaxSinkFaults = 1
  MaxLinks = 3
  MaxTargets = 1
INVARIANTS
  SlotsExact CapsHold NoNeedlessOrder RevokedRefused InUseKept EndsClean
PROPERTIES
  BansOfOneInstant TasksEnd TasksSettle
