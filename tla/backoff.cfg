SPECIFICATION Spec
CONSTANTS
  Bits = 7
  RetryDelaySecs <- RetryDelaySecsMC
  MaxRetriesBound = 10
  MaxBackoffSecs = 20
  I64Max <- I64MaxMC
  SecondsMax = 40
  Pow2 <- Pow2MC
  OverflowChecks = FALSE
INVARIANTS
  TypeOK
  BackoffExact
PROPERTY BackoffGrows
CHECK_DEADLOCK FALSE
