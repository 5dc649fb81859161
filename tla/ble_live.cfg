SPECIFICATION FairSpec
CONSTANTS
  None = None
  a = a
  b = b
  c1 = c1
  c2 = c2
  la = la
  lb = lb
  Devices <- OneDevice
  Handles = {c1, c2}
  Layout <- OtherLayout
  Offers <- AllOffered
  MaxProcs = 4
  Calls = {"start", "reconnect"}
  Faults = {"loss", "connfail", "reset"}
  MaxDisturb = 3
PROPERTY Resubscribes
CHECK_DEADLOCK FALSE
