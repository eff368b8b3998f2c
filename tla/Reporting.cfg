\* Reporting
SPECIFICATION FairSpec
CONSTANTS
  MaxUsed = 2
  MaxBatches = 3
  MaxStops = 2
  DirFaults = TRUE
INVARIANTS
  NoDoubleBilling
  SameTraffic
PROPERTIES
  LosesOnlyUnflushed
  CleanShutdown
  LedgerSpec
  PendingDelivered
\* The last process life allowed by MaxStops may be down for good.
CHECK_DEADLOCK FALSE
