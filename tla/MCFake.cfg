CONSTANTS
  t1 = t1
  t2 = t2
  t3 = t3
  Threads <- ThreeThreads
  None = None
  MaxCalls = 2
SPECIFICATION Spec
SYMMETRY Symmetry
INVARIANTS
  TypeOK
  RecordsAgree
  OwnNumber
  StuckOnlyByInvocations
CHECK_DEADLOCK FALSE
