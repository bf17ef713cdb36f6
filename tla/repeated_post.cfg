SPECIFICATION Spec
CONSTANTS
  a = a
  b = b
  c = c
  d = d
  x = x
  y = y
  Null = Null
  Request = {a, b, c, d}
  Key = {x, y}
  KeyOf <- KeyOfMC
  Repeating = {a, b, d}
  Fires = {a, b}
  MaxFaults = 0
INVARIANTS
  SameJobAgain
CHECK_DEADLOCK FALSE
