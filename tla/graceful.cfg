SPECIFICATION FairDaemon
CONSTANTS
  a = a
  Job = {a}
  Null = Null
  Worker = {w1, w2}
  DueAt <- DueAtMC
  ExpiresAt <- ExpiresAtMC
  MaxRetries <- MaxRetriesMC
  RetryDelay <- RetryDelayMC
  LeaseDuration = 1
  QueueSize = 1
  LookaheadLimit = 1
  TimelyPickup = TRUE
  MayShutDown = TRUE
  MaxTime = 1
  MaxCrashes = 1
  MaxFaults = 1
  Announced = {a}
  WebhookMaxRetries = 1
  MaxPolls = 1
INVARIANTS
  DaemonTypeOK
  WebhookTruth
  InFlightDrained
  VerdictsAnnounced
PROPERTIES
  WebhookResultFinal
  EveryVerdictReported
  ShutdownEnds
CHECK_DEADLOCK FALSE
