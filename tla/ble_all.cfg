SPECIFICATION Spec
CONSTANTS
  None = None
  a = a
  b = b
  c1 = c1
  c2 = c2
  la = la
  lb = lb
  Devices <- TwoDevices
  Handles = {c1, c2}
  Layout <- OtherLayout
  Offers <- NoStatus
  MaxProcs = 4
  Calls = {"start", "reconnect"}
  Faults = {"loss", "connfail", "reset"}
  MaxDisturb = 2
INVARIANTS TypeOK SearchesWhenUnlinked ConnHandleLive
CHECK_DEADLOCK FALSE
