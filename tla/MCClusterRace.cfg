CONSTANTS
  n1 = n1
  n2 = n2
  n3 = n3
  Nodes <- ThreeNodes
  Ips <- ThreeIps
  Bootstrapper = n1
  ProbeTimeout = 10
  MaxFaults = 2
  Faults = {"seed"}
SPECIFICATION Spec
INVARIANTS
  HealthyClusterJoined
CHECK_DEADLOCK FALSE
