SPECIFICATION Spec
CONSTANTS
  each = each
  even = even
  Null = Null
  Worker = {w1, w2}
  Time = {0, 1, 2, 3, 4, 5, 6}
  CronExpr = {each, even}
  NextFire <- NextFireMC
  FirstCron = even
  ScheduledAt = 0
  MaxOccurrences = Null
  EndAt = 5
  Policy = "allow"
  RetryAt = {0, 3}
  MaxFaults = 0
  MaxCrashes = 1
  MaxLate = 0
SYMMETRY WorkerSymmetry
INVARIANTS
  ChainUnbroken
CHECK_DEADLOCK FALSE
