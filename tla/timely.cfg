SPECIFICATION Spec
CONSTANTS
  a = a
  b = b
  Job = {a, b}
  Null = Null
  Worker = {w1, w2}
  DueAt <- DueAtMC
  ExpiresAt <- ExpiresAtMC
  MaxRetries <- MaxRetriesMC
  RetryDelay <- RetryDelayMC
  LeaseDuration = 1
  QueueSize = 1
  LookaheadLimit = 2
  TimelyPickup = TRUE
  MayShutDown = TRUE
  MaxTime = 2
  MaxCrashes = 1
  MaxFaults = 1
SYMMETRY WorkerSymmetry
INVARIANTS
  SoleOwner
  TypeOK
  HeapSound
PROPERTIES
  TerminalFinal
  NoEarlyLease
  LateRunIsLast
  ImplementsLifecycle
CHECK_DEADLOCK FALSE
