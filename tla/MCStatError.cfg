CONSTANTS
  i1 = i1
  i2 = i2
  p1 = p1
  p2 = p2
  None = None
  Inst <- OneInst
  Pid <- TwoPids
  PollingAttempts = 1
  ClusterSizes = {3}
  SeedPhases = {}
  DiskVersions = {"current"}
  Faults = {"stat"}
SPECIFICATION Spec
SYMMETRY PidSymmetry
INVARIANTS
  BootstrapAuthorised
CHECK_DEADLOCK FALSE
