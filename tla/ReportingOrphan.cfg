\* ReportingOrphan
SPECIFICATION ReloadSpec
CONSTANTS
  MaxUsed = 3
  MaxBatches = 3
  MaxStops = 2
  DirFaults = FALSE
PROPERTIES LosesOnlyUnflushed
\* The last process life allowed by MaxStops may be down for good.
CHECK_DEADLOCK FALSE
