SPECIFICATION Spec
CONSTANTS
  a = a
  b = b
  Job = {a, b}
  Null = Null
  Worker = {w1}
  DueAt <- DueAtMC
  ExpiresAt <- ExpiresAtMC
  MaxRetries <- MaxRetriesMC
  RetryDelay <- RetryDelayMC
  LeaseDuration = 1
  QueueSize = 1
  LookaheadLimit = 2
  TimelyPickup = FALSE
  MayShutDown = FALSE
  MaxTime = 3
  MaxCrashes = 0
  MaxFaults = 0
PROPERTIES
  TerminalFinal
CHECK_DEADLOCK FALSE
