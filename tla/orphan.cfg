SPECIFICATION FairSpec
CONSTANTS
  a = a
  b = b
  Job = {a, b}
  Null = Null
  Worker = {w1}
  DueAt <- DueAtMC
  ExpiresAt <- ExpiresAtMC
  MaxRetries <- MaxRetriesMC
  RetryDelay <- RetryDelayMC
  LeaseDuration = 1
  QueueSize = 1
  LookaheadLimit = 2
  TimelyPickup = TRUE
  MayShutDown = FALSE
  MaxTime = 3
  MaxCrashes = 1
  MaxFaults = 0
PROPERTIES
  NoOrphans
CHECK_DEADLOCK FALSE
