SPECIFICATION Spec
CONSTANTS
  PollInterval = 2
  UploadInterval = 3
  ReconnectInterval = 4
  Delay = 1
  Timeout = 2
  MaxBoot = 3
  MaxTime = 16
  MaxChange = 2
INVARIANTS TypeOK PollInTime ReconnectInTime
PROPERTY RateKept
CHECK_DEADLOCK FALSE
