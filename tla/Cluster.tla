-------------------------------- MODULE Cluster --------------------------------
(***************************************************************************)
(* The nodes of one deployment.  Every node runs the start of galera-init  *)
(* that modules NodeState to GaleraInit model for a single VM; here it is  *)
(* reduced to what the other nodes can notice: the decision to bootstrap   *)
(* or to join, with HealthyCluster as the sequence of probes it is, the    *)
(* mysqld that is started, and the state file.  mysqld, its replication    *)
(* group and the health check on port 9200 are external.                   *)
(***************************************************************************)
EXTENDS Integers, Sequences, FiniteSets

CONSTANTS
  Nodes,
  Ips,            \* Manager.ClusterIps, the same list on every node
  Bootstrapper,   \* the instance that is deployed with BootstrapNode: true
  ProbeTimeout,   \* Manager.ClusterProbeTimeout, in seconds
  MaxFaults,      \* bound on the number of faults
  Faults          \* which faults there are, see FaultKinds

(***************************************************************************)
(* seed      a seeding statement fails on a synced mysqld                  *)
(* crash     a VM dies, and its galera-init and mysqld with it             *)
(* disk      a VM that dies comes back with an empty disk                  *)
(* freeze    a VM that dies still accepts connections, and never answers   *)
(* stop      galera-init is stopped by SIGTERM                             *)
(* timeout   a probe of a healthy node is not answered in time             *)
(* operator  an operator writes NEEDS_BOOTSTRAP into a state file          *)
(***************************************************************************)
FaultKinds == {"seed", "crash", "disk", "freeze", "stop", "timeout",
               "operator"}

ASSUME IpsAssumption == Ips \in Seq(Nodes) /\ {Ips[j] : j \in DOMAIN Ips} = Nodes
ASSUME SizeAssumption == Len(Ips) > 1       \* else the node is a SINGLE_NODE
ASSUME BootstrapperAssumption == Bootstrapper \in Nodes
ASSUME TimeoutAssumption == ProbeTimeout \in Int \ {0}   \* Config.Validate
ASSUME FaultsAssumption == Faults \subseteq FaultKinds /\ MaxFaults \in Nat

VARIABLES
  at,       \* where a node's galera-init is, labelled with its next call
  k,        \* the index into Ips of its next probe
  file,     \* its state file
  db,       \* its mysqld
  view,     \* the group its mysqld is a member of
  primary,  \* whether that group is a primary component
  donor,    \* the member that sends a joining mysqld the data
  frozen,   \* VMs that accept connections and never answer
  faults,   \* how many faults there were
  steady,   \* history: peers that were healthy, and in time, all along a probing
  unbroken, \* history: at every moment of the probing some peer was healthy
  excused,  \* history: what OneComponent rests on was broken, see History
  calm      \* history: there were no faults but failed seedings

initVars == <<at, k, file>>
groupVars == <<db, view, primary, donor>>
historyVars == <<steady, unbroken, excused, calm>>
vars == <<initVars, groupVars, frozen, faults, historyVars>>

Points == {"off", "Shutdown", "getCurrentNodeState", "HealthyCluster",
           "StartMysqldInBootstrap", "StartMysqldInJoin", "waitForDatabase",
           "seed", "select"}

TypeOK ==
  /\ at \in [Nodes -> Points]
  /\ k \in [Nodes -> DOMAIN Ips]
  /\ file \in [Nodes -> {"absent", "NEEDS_BOOTSTRAP", "CLUSTERED"}]
  /\ db \in [Nodes -> {"down", "bootstrapping", "connecting", "joining", "synced"}]
  /\ view \in [Nodes -> SUBSET Nodes]
  /\ primary \in [Nodes -> BOOLEAN]
  /\ donor \in [Nodes -> Nodes]
  /\ frozen \subseteq Nodes
  /\ faults \in 0 .. MaxFaults
  /\ steady \in [Nodes -> SUBSET Nodes]
  /\ unbroken \in [Nodes -> BOOLEAN]
  /\ excused \in BOOLEAN /\ calm \in BOOLEAN

Init ==
  /\ at = [n \in Nodes |-> "off"]
  /\ k = [n \in Nodes |-> 1]
  /\ file = [n \in Nodes |-> "absent"]
  /\ db = [n \in Nodes |-> "down"]
  /\ view = [n \in Nodes |-> {}]
  /\ primary = [n \in Nodes |-> FALSE]
  /\ donor = [n \in Nodes |-> n]
  /\ frozen = {}
  /\ faults = 0
  /\ steady = [n \in Nodes |-> {}]
  /\ unbroken = [n \in Nodes |-> FALSE]
  /\ excused = FALSE /\ calm = TRUE

-----------------------------------------------------------------------------
(* The replication group (external)                                          *)

Fault(f) == f \in Faults /\ faults < MaxFaults /\ faults' = faults + 1

Donating(n) == \E m \in Nodes : db[m] = "joining" /\ donor[m] = n

\* n answers queries.
Serving(n) == db[n] = "synced" /\ primary[n]

\* Port 9200 of n answers 200; else it answers 503 or nothing at all.
Healthy(n) == Serving(n)

\* wsrep_local_state_comment is "Synced", which it is not for a donor.
Synced(n) == Serving(n) /\ ~ Donating(n)

\* n is no longer a member.  An orderly leave keeps the group primary; after
\* a crash the others need more than half of the group.
Departs(n, orderly) ==
  LET rest == view[n] \ {n} IN
  /\ db' = [db EXCEPT ![n] = "down"]
  /\ view' = [m \in Nodes |-> IF m = n THEN {} ELSE IF m \in rest THEN rest ELSE view[m]]
  /\ primary' = [m \in Nodes |->
       IF m = n THEN FALSE
       ELSE IF m \in rest
            THEN primary[m] /\ (orderly \/ 2 * Cardinality(rest) > Cardinality(view[n]))
            ELSE primary[m]]
  /\ UNCHANGED donor

\* mysqld --wsrep-new-cluster: a group of its own.
FormsGroup(n) ==
  /\ db[n] = "bootstrapping"
  /\ db' = [db EXCEPT ![n] = "synced"]
  /\ view' = [view EXCEPT ![n] = {n}]
  /\ primary' = [primary EXCEPT ![n] = TRUE]
  /\ UNCHANGED <<initVars, donor, frozen, faults>>

\* mysqld without it: a member of a primary component, if there is one, that
\* gets the data from a synced member ...
JoinsGroup(n) ==
  /\ db[n] = "connecting"
  /\ \E d \in Nodes :
       /\ Synced(d)
       /\ donor' = [donor EXCEPT ![n] = d]
       /\ db' = [db EXCEPT ![n] = "joining"]
       /\ view' = [m \in Nodes |-> IF m \in view[d] \cup {n} THEN view[d] \cup {n}
                                   ELSE view[m]]
       /\ primary' = [primary EXCEPT ![n] = TRUE]
  /\ UNCHANGED <<initVars, frozen, faults>>

DonorLives(n) == primary[n] /\ donor[n] \in view[n] /\ db[donor[n]] = "synced"

CatchesUp(n) ==
  /\ db[n] = "joining" /\ DonorLives(n)
  /\ db' = [db EXCEPT ![n] = "synced"]
  /\ donor' = [donor EXCEPT ![n] = n]
  /\ UNCHANGED <<initVars, view, primary, frozen, faults>>

\* ... and that ends when there is none, or when the donor is lost.
GivesUp(n) ==
  /\ \/ db[n] = "connecting" /\ ~ \E m \in Nodes : primary[m]
     \/ db[n] = "joining" /\ ~ DonorLives(n)
  /\ Departs(n, TRUE)
  /\ UNCHANGED <<initVars, frozen, faults>>

Mysqld(n) == FormsGroup(n) \/ JoinsGroup(n) \/ CatchesUp(n) \/ GivesUp(n)

-----------------------------------------------------------------------------
(* galera-init                                                               *)

Goto(n, from, to) == at[n] = from /\ at' = [at EXCEPT ![n] = to]

\* monit starts galera-init, and Execute asks whether a mysqld is running.
Launch(n) ==
  /\ n \notin frozen
  /\ Goto(n, "off", IF db[n] = "synced" THEN "Shutdown" ELSE "getCurrentNodeState")
  /\ UNCHANGED <<k, file, groupVars, frozen, faults>>

Shutdown(n) ==
  /\ Goto(n, "Shutdown", "getCurrentNodeState")
  /\ Departs(n, TRUE)
  /\ UNCHANGED <<k, file, frozen, faults>>

\* getCurrentNodeState on a deployment of several nodes.
CurrentNodeState(n) ==
  IF file[n] # "absent" THEN file[n]
  ELSE IF n = Bootstrapper THEN "NEEDS_BOOTSTRAP" ELSE "CLUSTERED"

\* Mutant: the node the manifest names bootstraps without looking around.
DecideWithoutProbe(n) ==
  /\ Goto(n, "getCurrentNodeState",
          IF CurrentNodeState(n) = "NEEDS_BOOTSTRAP" THEN "StartMysqldInBootstrap"
          ELSE "StartMysqldInJoin")
  /\ UNCHANGED <<k, file, groupVars, frozen, faults>>

\* ... and the switch of StartNodeFromState.
Decide(n) ==
  /\ Goto(n, "getCurrentNodeState",
          IF CurrentNodeState(n) = "NEEDS_BOOTSTRAP" THEN "HealthyCluster"
          ELSE "StartMysqldInJoin")
  /\ UNCHANGED <<k, file, groupVars, frozen, faults>>

\* Mutant: the client's timeout is not set.
RequestWithoutTimeout(peer) == IF peer \in frozen THEN {} ELSE {Healthy(peer)}

\* MakeRequest: whether the answer is 200.  http.Client takes a timeout that
\* is not positive for none, and then waits for a frozen peer for ever.
MakeRequest(peer) ==
  IF peer \in frozen THEN IF ProbeTimeout > 0 THEN {FALSE} ELSE {}
  ELSE {Healthy(peer)}

\* Mutant: the last address of the list is left out.
ProbeAllButLast(n) ==
  \E healthy \in MakeRequest(Ips[k[n]]) :
    /\ Goto(n, "HealthyCluster",
            IF healthy THEN "StartMysqldInJoin"
            ELSE IF k[n] + 1 < Len(Ips) THEN "HealthyCluster"
            ELSE "StartMysqldInBootstrap")
    /\ k' = [k EXCEPT ![n] = IF healthy \/ @ + 1 >= Len(Ips) THEN 1 ELSE @ + 1]
    /\ UNCHANGED <<file, groupVars, frozen, faults>>

\* Mutant: the loop does not stop after the last address.
ProbePastEnd(n) ==
  \E healthy \in MakeRequest(Ips[k[n]]) :
    /\ Goto(n, "HealthyCluster",
            IF healthy THEN "StartMysqldInJoin" ELSE "HealthyCluster")
    /\ k' = [k EXCEPT ![n] = IF healthy THEN 1 ELSE @ + 1]
    /\ UNCHANGED <<file, groupVars, frozen, faults>>

\* One turn of the loop of HealthyCluster, and what StartNodeFromState does
\* with the result.
Probe(n) ==
  \E healthy \in MakeRequest(Ips[k[n]]) :
    /\ Goto(n, "HealthyCluster",
            IF healthy THEN "StartMysqldInJoin"
            ELSE IF k[n] < Len(Ips) THEN "HealthyCluster"
            ELSE "StartMysqldInBootstrap")
    /\ k' = [k EXCEPT ![n] = IF healthy \/ @ = Len(Ips) THEN 1 ELSE @ + 1]
    /\ UNCHANGED <<file, groupVars, frozen, faults>>

BootstrapNode(n) ==
  /\ Goto(n, "StartMysqldInBootstrap", "waitForDatabase")
  /\ db' = [db EXCEPT ![n] = "bootstrapping"]
  /\ UNCHANGED <<k, file, view, primary, donor, frozen, faults>>

JoinCluster(n) ==
  /\ Goto(n, "StartMysqldInJoin", "waitForDatabase")
  /\ db' = [db EXCEPT ![n] = "connecting"]
  /\ UNCHANGED <<k, file, view, primary, donor, frozen, faults>>

\* Mutant: the end of mysqld is not noticed.
WaitForSync(n) ==
  /\ Synced(n)
  /\ Goto(n, "waitForDatabase", "seed")
  /\ UNCHANGED <<k, file, groupVars, frozen, faults>>

\* waitForDatabaseToAcceptConnections ends with the database or with mysqld.
WaitForDatabase(n) ==
  /\ \/ db[n] = "down" /\ Goto(n, "waitForDatabase", "off")
     \/ Synced(n) /\ Goto(n, "waitForDatabase", "seed")
  /\ UNCHANGED <<k, file, groupVars, frozen, faults>>

\* Seeding, then the state file and the status server.
Record(n) ==
  /\ Goto(n, "seed", "select")
  /\ file' = [file EXCEPT ![n] = "CLUSTERED"]
  /\ UNCHANGED <<k, groupVars, frozen, faults>>

\* A failed seeding leaves mysqld running, and the state file as it was.
SeedFails(n) ==
  /\ Fault("seed")
  /\ Goto(n, "seed", "off")
  /\ UNCHANGED <<k, file, groupVars, frozen>>

\* SIGTERM is forwarded to mysqld, which leaves in an orderly way.
Stop(n) ==
  /\ Fault("stop")
  /\ Goto(n, "select", "off")
  /\ Departs(n, TRUE)
  /\ UNCHANGED <<k, file, frozen>>

GaleraInit(n) ==
  \/ Shutdown(n) \/ Decide(n) \/ Probe(n) \/ BootstrapNode(n) \/ JoinCluster(n)
  \/ WaitForDatabase(n) \/ Record(n)

-----------------------------------------------------------------------------
(* The environment                                                           *)

\* A probe of a healthy node gets no answer in time.
ProbeTimesOut(n) ==
  /\ Fault("timeout")
  /\ Healthy(Ips[k[n]])
  /\ Goto(n, "HealthyCluster",
          IF k[n] < Len(Ips) THEN "HealthyCluster" ELSE "StartMysqldInBootstrap")
  /\ k' = [k EXCEPT ![n] = IF @ = Len(Ips) THEN 1 ELSE @ + 1]
  /\ UNCHANGED <<file, groupVars, frozen>>

\* The VM of n dies; its disk may be lost, and its address may hang.
VmDies(n, f) ==
  /\ Fault(f)
  /\ at[n] # "off" \/ db[n] # "down"
  /\ at' = [at EXCEPT ![n] = "off"]
  /\ k' = [k EXCEPT ![n] = 1]
  /\ file' = [file EXCEPT ![n] = IF f = "disk" THEN "absent" ELSE @]
  /\ frozen' = IF f = "freeze" THEN frozen \cup {n} ELSE frozen
  /\ Departs(n, FALSE)

VmReplaced(n) ==
  /\ n \in frozen
  /\ frozen' = frozen \ {n}
  /\ UNCHANGED <<initVars, groupVars, faults>>

\* Repair by hand of a cluster that is lost, on one node.
OperatorBootstraps(n) ==
  /\ Fault("operator")
  /\ \A m \in Nodes : at[m] = "off" /\ db[m] = "down"
  /\ file' = [m \in Nodes |-> IF m = n THEN "NEEDS_BOOTSTRAP" ELSE "CLUSTERED"]
  /\ UNCHANGED <<at, k, groupVars, frozen>>

Environment(n) ==
  \/ SeedFails(n) \/ Stop(n) \/ ProbeTimesOut(n) \/ VmReplaced(n)
  \/ (\E f \in {"crash", "disk", "freeze"} : VmDies(n, f)) \/ OperatorBootstraps(n)

-----------------------------------------------------------------------------
(* History                                                                   *)

HealthyPeers == {n \in Nodes : Healthy(n)}

\* Nodes that would bootstrap if nobody answered.
Authorised == {n \in Nodes : CurrentNodeState(n) = "NEEDS_BOOTSTRAP"}

\* A probing begins with getCurrentNodeState.  The protocol is excused when two
\* nodes are authorised at once, and when a node finds nobody although at
\* every moment somebody was healthy, only never the same peer all along.
History ==
  LET probing(n) == at'[n] \in {"HealthyCluster", "StartMysqldInBootstrap"}
      begins(n) == at[n] = "getCurrentNodeState"
      late(n) == IF ProbeTimesOut(n) THEN {Ips[k[n]]} ELSE {}
  IN /\ steady' = [n \in Nodes |->
          IF ~ probing(n) THEN {}
          ELSE IF begins(n) THEN HealthyPeers'
          ELSE (steady[n] \cap HealthyPeers') \ late(n)]
     /\ unbroken' = [n \in Nodes |->
          probing(n) /\ (begins(n) \/ unbroken[n]) /\ HealthyPeers' # {}]
     /\ excused' = \/ excused
                   \/ Cardinality(Authorised') > 1
                   \/ \E n \in Nodes : /\ at'[n] = "StartMysqldInBootstrap"
                                       /\ unbroken'[n] /\ steady'[n] = {}
     /\ calm' = (calm /\ (faults' = faults \/ \E n \in Nodes : SeedFails(n)))

Next ==
  /\ \E n \in Nodes : Launch(n) \/ GaleraInit(n) \/ Mysqld(n) \/ Environment(n)
  /\ History

Spec == Init /\ [][Next]_vars

\* monit starts what is down, galera-init runs, and mysqld neither bootstraps
\* nor joins for ever.
FairSpec ==
  /\ Spec
  /\ \A n \in Nodes : /\ WF_vars(Launch(n) /\ History)
                      /\ WF_vars(GaleraInit(n) /\ History)
                      /\ WF_vars(Mysqld(n) /\ History)

-----------------------------------------------------------------------------
(* Properties                                                                *)

\* When StartNodeFromState calls bootstrapNode, HealthyCluster was false, and
\* that means that no peer was healthy during the whole of the probing: none
\* that was up when it began, is still up and answers in time is overlooked.
SteadyPeerIsJoined ==
  \A n \in Nodes : at[n] = "StartMysqldInBootstrap" => steady[n] = {}

\* "When the cluster is healthy" a node with NEEDS_BOOTSTRAP joins: it does
\* not bootstrap if at every moment of the probing some peer was healthy.
HealthyClusterJoined ==
  \A n \in Nodes : at[n] = "StartMysqldInBootstrap" => ~ unbroken[n]

\* The nodes implement one primary component: whatever crashes, is stopped,
\* loses its disk or its probes, getCurrentNodeState and StartNodeFromState
\* never put a second cluster beside a living one, unless two nodes are
\* authorised to bootstrap or the healthy peers take turns during a probing.
Components == INSTANCE PrimaryComponent
                WITH components <- {view[n] : n \in {m \in Nodes : Serving(m)}},
                     excused <- excused
OneComponent == Components!Spec

\* The loop of HealthyCluster ends, whatever state the VMs it probes are in.
ProbingEnds ==
  \A n \in Nodes : at[n] = "HealthyCluster" ~> at[n] # "HealthyCluster"

\* A deployment whose VMs stay alive comes up: StartNodeFromState and monit's
\* restarts bring all nodes into one cluster, each watching its mysqld,
\* whatever order they were started in and however often a seeding fails.
ClusterForms ==
  [](calm /\ ~ excused) =>
    <>[](\A n \in Nodes : at[n] = "select" /\ Serving(n) /\ view[n] = Nodes)

=============================================================================
