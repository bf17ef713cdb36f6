SPECIFICATION Spec
CONSTANTS
  each = each
  even = even
  Null = Null
  Worker = {w1, w2}
  Time = {0, 1, 2, 3, 4, 5}
  CronExpr = {each, even}
  NextFire <- NextFireMC
  FirstCron = even
  ScheduledAt = 0
  MaxOccurrences = 2
  EndAt = 4
  Policy = "queue_once"
  RetryAt = {0, 3}
  MaxFaults = 1
  MaxCrashes = 1
  MaxLate = 1
SYMMETRY WorkerSymmetry
INVARIANTS
  TypeOK
  OneChain
  CompletedIsOver
  UnbrokenWithoutFailure
  LimitWithoutFailure
  InstancesCounted
PROPERTIES
  FiresIncrease
  CancelStopsChain
CHECK_DEADLOCK FALSE
