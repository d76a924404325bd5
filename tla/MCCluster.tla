------------------------------- MODULE MCCluster -------------------------------
(* Cluster for three nodes, the usual size of a deployment.                  *)
EXTENDS Cluster

CONSTANTS n1, n2, n3

ThreeNodes == {n1, n2, n3}
ThreeIps == <<n1, n2, n3>>

\* A ClusterProbeTimeout that Validate accepts and http.Client ignores.
NoTimeout == -1

=============================================================================
