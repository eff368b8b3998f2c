SPECIFICATION FairSpec
CONSTANTS
  MaxCfg = 2
  MaxUsers = 2
  MaxCerts = 0
  EventCap = 1
  StatusCap = 1
  MaxWaiting = 2
  Pushed = FALSE
  FetchFaults = TRUE
  KernelFaults = FALSE
  SlowPublish = FALSE
  Refused = {}
  NoUsers = {}
PROPERTIES
  EventualConsistency
CHECK_DEADLOCK FALSE
