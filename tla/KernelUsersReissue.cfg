SPECIFICATION Spec
CONSTANTS
  Ids = {i1, i2}
  Uuids = {a, b}
  Cfgs = {c1, c2}
  FirstCfg = c1
  KernelFaults = FALSE
SYMMETRY Symmetry
INVARIANTS
  AccountsAreWanted
