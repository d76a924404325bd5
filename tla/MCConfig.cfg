CONSTANTS
  IpLists <- SomeIps
  Timeouts <- SomeTimeouts
  DatabaseLists <- SomeDatabases
  UserLists <- SomeUsers
SPECIFICATION Spec
INVARIANTS
  AcceptedIsUsable
  ErrorsAreComplete
CHECK_DEADLOCK FALSE
