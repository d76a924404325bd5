CONSTANTS
  i1 = i1
  i2 = i2
  p1 = p1
  p2 = p2
  None = None
  Inst <- TwoInst
  Pid <- TwoPids
  PollingAttempts = 1
  ClusterSizes = {1, 3}
  SeedPhases = {"seedDatabases", "seedUsers", "runPostStartSQL"}
  DiskVersions = {"current"}
  Faults = {"crash", "desync", "sql", "accept", "operator"}
SPECIFICATION Spec
SYMMETRY Symmetry
INVARIANTS
  OneDatabase
  OwnServerAnswers
  TornOnlyByForce
  AtMostOneManager
PROPERTIES
  ImplementsLifecycle
