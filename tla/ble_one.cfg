SPECIFICATION Spec
CONSTANTS
  None = None
  a = a
  b = b
  c1 = c1
  c2 = c2
  la = la
  lb = lb
  Devices <- TwoDevices
  Handles = {c1, c2}
  Layout <- OtherLayout
  Offers <- AllOffered
  MaxProcs = 4
  Calls = {"write"}
  Faults = {"loss", "connfail", "reset", "gatt", "refuse"}
  MaxDisturb = 2
INVARIANTS OneLink FlagAgrees HandlesOfThisLink IdentityBeforeStatus
PROPERTY RecordFollowsLink ImplementsLink
CHECK_DEADLOCK FALSE
