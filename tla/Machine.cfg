SPECIFICATION FairSpec
CONSTANTS
  Nodes = {1, 2}
  Assignments = {{1}, {2}}
  MaxHandles = 3
  Syncs = {"s1"}
  MaxEdits = 3
  MaxFails = 1
  EarlySync = FALSE
  SlowExit = FALSE
INVARIANTS
  OneService
  Reachable
  ParkedRests
PROPERTIES
  Converges
  Shutdown
\* The orchestrator ends when its context is cancelled.
CHECK_DEADLOCK FALSE
