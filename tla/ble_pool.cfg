SPECIFICATION FairSpec
CONSTANTS
  None = None
  a = a
  b = b
  c1 = c1
  c2 = c2
  la = la
  lb = lb
  Devices <- OneDevice
  Handles = {c1, c2}
  Layout <- SameLayout
  Offers <- AllOffered
  MaxProcs = 4
  Calls = {"write"}
  Faults = {}
  MaxDisturb = 0
PROPERTY Resubscribes
CHECK_DEADLOCK FALSE
