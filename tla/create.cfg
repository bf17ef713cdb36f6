SPECIFICATION FairSpec
CONSTANTS
  a = a
  b = b
  c = c
  d = d
  x = x
  y = y
  Null = Null
  Request = {a, b, c, d}
  Key = {x, y}
  KeyOf <- KeyOfMC
  Repeating = {a, b, d}
  Fires = {a, b}
  MaxFaults = 2
INVARIANTS
  TypeOK
  OneJobPerKey
  ErrorsExplained
  AcceptedIsKept
PROPERTIES
  AcceptedIsScheduled
  ImplementsRegistry
CHECK_DEADLOCK FALSE
