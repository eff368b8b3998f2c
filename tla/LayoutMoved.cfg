SPECIFICATION MCSpec
CONSTANTS
  Files <- MCFiles
  Env <- MCEnv
  Norm <- MCNorm
  Assigned = {5, 6}
  Users = {"ann"}
  Addresses = {1, 2}
  Conns = {"c1", "c2"}
  UserMaps <- MCUserMaps
  DeviceLimit <- MCDeviceLimit
  MaxTrackers = 2
  MaxCarried = 3
  Tables <- MCTables
  Floor = 2
  MaxBuffer = 2
  MaxEpochs = 3
  MaxLimiters = 3
  Links = {"l1", "l2"}
  Limits = {0, 1}
  MaxCounters = 2
  MaxCounted = 1
  Devices = {1, 2}
  Hash <- MCHash
  WireCap = 2
  StatusCap = 2
  EventCap = 1
  MaxClients = 2
  Targets = {"a", "b"}
  RuleSets = {{}, {"a"}}
  ReportAll = FALSE
  Native = TRUE
  BatchMax = 2
  AuditCap = 3
  AuditBatches = 2
  MaxEvents = 5
  Configs <- MCConfigs
  MaxIssued = 2
  Requests = {"r1", "r2", "r3", "r4"}
  Op <- MCOp
  OpsCap = 1
  CacheCap = 2
  MaxRuns = 4
  Contents <- MCContents
  MaxEdits = 3
  MaxSignals = 2
  MaxUsed = 3
  MaxBatches = 3
  MaxStops = 2
  DirFaults = FALSE
  Parts = {"layout"}
INVARIANTS
  PendingIsReplayed
CHECK_DEADLOCK FALSE
