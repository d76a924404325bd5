CONSTANTS
  n1 = n1
  n2 = n2
  Nodes = {n1, n2}
  Users = {"app", "root"}
  Dbs = {"d1", "d2"}
  Passwords = {"old", "new"}
  Manifests <- DemotionManifests
  MaxFailures = 0
SPECIFICATION Spec
INVARIANTS
  MinimalHasNoAccess
