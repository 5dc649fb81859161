SPECIFICATION Spec
CONSTANTS
  None = None
  a = a
  b = b
  c1 = c1
  c2 = c2
  la = la
  lb = lb
  Devices <- TwoDevices
  Handles = {c1, c2}
  Layout <- OtherLayout
  Offers <- AllOffered
  MaxProcs = 4
  Calls = {"start"}
  Faults = {}
  MaxDisturb = 0
INVARIANT OneLink
CHECK_DEADLOCK FALSE
