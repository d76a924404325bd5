CONSTANTS
  NumContainers = 2
  MaxSpecs = 2
  MaxFaults = 3
SPECIFICATION Spec
INVARIANTS
  TypeOK
  NothingLeft
CHECK_DEADLOCK FALSE
