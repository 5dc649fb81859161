SPECIFICATION Spec
CONSTANTS
  None = None
  a = a
  b = b
  x = x
  u = u
  Devices = {a, b}
  Commands = {x}
  Owner <- OwnersX
  Unsupported = {}
  MaxDisturb = 1
  MaxPending = 2
INVARIANTS CommandReachesOwner
CHECK_DEADLOCK FALSE
