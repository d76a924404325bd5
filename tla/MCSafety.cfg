CONSTANTS
  i1 = i1
  i2 = i2
  p1 = p1
  p2 = p2
  None = None
  Inst <- OneInst
  Pid <- TwoPids
  PollingAttempts = 2
  ClusterSizes = {1, 3}
  SeedPhases = {"seedUsers"}
  DiskVersions = {"absent", "current"}
  Faults = {"kill", "crash", "desync", "io", "sql", "spurious", "redeploy", "operator"}
SPECIFICATION Spec
SYMMETRY PidSymmetry
INVARIANTS
  TypeOK
  ReadyRecorded
  BootstrapAuthorised
  UpgradeBeforeServe
  NeverWaitsInVain
PROPERTIES
  StopsWithoutOrphan
  ImplementsLifecycle
