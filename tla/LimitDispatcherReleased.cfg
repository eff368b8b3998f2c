SPECIFICATION Spec
CONSTANTS
  Emails = {"ann"}
  Addresses = {1, 2}
  Links = {"l1", "l2"}
  Limits = {0, 1}
  MaxCounters = 2
  MaxCounted = 2
INVARIANTS
  Released
CHECK_DEADLOCK FALSE
