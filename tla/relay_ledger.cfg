SPECIFICATION FairSpec
CONSTANTS
  None = None
  a = a
  b = b
  x = x
  u = u
  Devices = {a, b}
  Commands = {x, u}
  Owner <- OwnersXU
  Unsupported = {u}
  MaxDisturb = 1
  MaxPending = 2
INVARIANTS TypeOK ExecutedAsWritten
PROPERTIES KeepsLedger EveryCommandReported
CHECK_DEADLOCK FALSE
