SPECIFICATION MCSpec
CONSTANTS
  MaxCfg = 3
  MaxUsers = 2
  MaxCerts = 0
  EventCap = 1
  StatusCap = 1
  MaxWaiting = 2
  Pushed = TRUE
  FetchFaults = FALSE
  KernelFaults = FALSE
  SlowPublish = TRUE
  Refused = {2}
  NoUsers = {}
INVARIANTS
  FetchedIsAccounted
  KernelFollows
PROPERTIES
  AtomicDespiteFaults
  ResyncEndsDespiteFaults
  SlowGoesBackOnlyOvertaken
  RestIsConsistent
CHECK_DEADLOCK FALSE
