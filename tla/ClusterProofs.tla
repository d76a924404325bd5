----------------------------- MODULE ClusterProofs -----------------------------
(***************************************************************************)
(* Theorems about Cluster, for any number of nodes, any list of addresses, *)
(* any kinds of faults and any number of them.                             *)
(***************************************************************************)
EXTENDS Cluster, FiniteSetTheorems, TLAPS

-----------------------------------------------------------------------------
(* Types                                                                     *)

\* The types of the nodes and of the group, and those of the history.
SystemTypeOK ==
  /\ at \in [Nodes -> Points]
  /\ k \in [Nodes -> DOMAIN Ips]
  /\ file \in [Nodes -> {"absent", "NEEDS_BOOTSTRAP", "CLUSTERED"}]
  /\ db \in [Nodes -> {"down", "bootstrapping", "connecting", "joining", "synced"}]
  /\ view \in [Nodes -> SUBSET Nodes]
  /\ primary \in [Nodes -> BOOLEAN]
  /\ donor \in [Nodes -> Nodes]
  /\ frozen \subseteq Nodes
  /\ faults \in 0 .. MaxFaults

HistoryTypeOK ==
  /\ steady \in [Nodes -> SUBSET Nodes]
  /\ unbroken \in [Nodes -> BOOLEAN]
  /\ excused \in BOOLEAN /\ calm \in BOOLEAN

USE DEF groupVars, initVars, historyVars

\* The addresses are numbered from one, and there are at least two.
LEMMA Addresses ==
  /\ DOMAIN Ips = 1 .. Len(Ips) /\ Len(Ips) \in Nat /\ Len(Ips) > 1
  /\ 1 \in DOMAIN Ips
  /\ \A j \in DOMAIN Ips : Ips[j] \in Nodes
  /\ \A n \in Nodes : \E j \in DOMAIN Ips : Ips[j] = n
<1>1. Ips \in Seq(Nodes) /\ Len(Ips) > 1
  BY IpsAssumption, SizeAssumption
<1>2. DOMAIN Ips = 1 .. Len(Ips) /\ Len(Ips) \in Nat
  BY <1>1
<1>3. 1 \in DOMAIN Ips
  BY <1>1, <1>2
<1> QED
  BY <1>1, <1>2, <1>3, IpsAssumption

\* The list of addresses is finite, and so is the set of nodes.
LEMMA NodesFinite == IsFiniteSet(Nodes)
<1>1. Ips \in Surjection(DOMAIN Ips, Nodes)
  BY IpsAssumption, Addresses DEF Surjection
<1>2. IsFiniteSet(DOMAIN Ips)
  BY Addresses, FS_Interval
<1> QED
  BY <1>1, <1>2, FS_Surjection

\* What a departure leaves has the right types.
LEMMA DepartsType ==
  ASSUME SystemTypeOK, NEW n \in Nodes, NEW orderly \in BOOLEAN, Departs(n, orderly)
  PROVE  /\ db' \in [Nodes -> {"down", "bootstrapping", "connecting", "joining", "synced"}]
         /\ view' \in [Nodes -> SUBSET Nodes]
         /\ primary' \in [Nodes -> BOOLEAN]
         /\ donor' \in [Nodes -> Nodes]
BY DEF SystemTypeOK, Departs

\* The index of a probe stays within the list.
LEMMA NextAddress ==
  ASSUME NEW j \in DOMAIN Ips
  PROVE  j = Len(Ips) \/ j + 1 \in DOMAIN Ips
BY Addresses

\* Every step keeps the types of the nodes and of the group.
LEMMA SystemTypeStep ==
  ASSUME SystemTypeOK, NEW n \in Nodes,
         Launch(n) \/ GaleraInit(n) \/ Mysqld(n) \/ Environment(n)
  PROVE  SystemTypeOK'
<1>1. ASSUME Launch(n) \/ Decide(n) \/ Record(n) \/ VmReplaced(n)
      PROVE  SystemTypeOK'
  BY <1>1 DEF SystemTypeOK, Launch, Decide, Record, VmReplaced, Goto, Points
<1>2. ASSUME BootstrapNode(n) \/ JoinCluster(n) \/ WaitForDatabase(n)
      PROVE  SystemTypeOK'
  BY <1>2 DEF SystemTypeOK, BootstrapNode, JoinCluster, WaitForDatabase, Goto, Points
<1>3. ASSUME Shutdown(n)
      PROVE  SystemTypeOK'
  BY <1>3, DepartsType DEF SystemTypeOK, Shutdown, Goto, Points
<1>4. ASSUME GivesUp(n)
      PROVE  SystemTypeOK'
  BY <1>4, DepartsType DEF SystemTypeOK, GivesUp
<1>5. ASSUME FormsGroup(n) \/ JoinsGroup(n) \/ CatchesUp(n)
      PROVE  SystemTypeOK'
  <2>1. CASE FormsGroup(n)
    BY <2>1 DEF SystemTypeOK, FormsGroup
  <2>2. CASE JoinsGroup(n)
    BY <2>2 DEF SystemTypeOK, JoinsGroup
  <2>3. CASE CatchesUp(n)
    BY <2>3 DEF SystemTypeOK, CatchesUp
  <2> QED
    BY <1>5, <2>1, <2>2, <2>3
<1>6. ASSUME Probe(n)
      PROVE  SystemTypeOK'
  <2>1. k' \in [Nodes -> DOMAIN Ips]
    BY <1>6, Addresses, NextAddress DEF Probe, SystemTypeOK
  <2> QED
    BY <1>6, <2>1 DEF SystemTypeOK, Probe, Goto, Points
<1>7. ASSUME NEW f \in FaultKinds, Fault(f)
      PROVE  faults' \in 0 .. MaxFaults
  BY <1>7, FaultsAssumption DEF Fault, SystemTypeOK
<1>8. ASSUME SeedFails(n)
      PROVE  SystemTypeOK'
  BY <1>7, <1>8 DEF SystemTypeOK, SeedFails, Goto, Points, FaultKinds
<1>9. ASSUME Stop(n)
      PROVE  SystemTypeOK'
  BY <1>7, <1>9, DepartsType DEF SystemTypeOK, Stop, Goto, Points, FaultKinds
<1>10. ASSUME ProbeTimesOut(n)
       PROVE  SystemTypeOK'
  <2>1. k' \in [Nodes -> DOMAIN Ips]
    BY <1>10, Addresses, NextAddress DEF ProbeTimesOut, SystemTypeOK
  <2> QED
    BY <1>7, <1>10, <2>1 DEF SystemTypeOK, ProbeTimesOut, Goto, Points, FaultKinds
<1>11. ASSUME NEW f \in {"crash", "disk", "freeze"}, VmDies(n, f)
       PROVE  SystemTypeOK'
  <2>1. Departs(n, FALSE) /\ faults' \in 0 .. MaxFaults
    BY <1>7, <1>11 DEF VmDies, FaultKinds
  <2>2. /\ at' \in [Nodes -> Points] /\ k' \in [Nodes -> DOMAIN Ips]
        /\ frozen' \subseteq Nodes
    BY <1>11, Addresses DEF VmDies, SystemTypeOK, Points
  <2>3. file' \in [Nodes -> {"absent", "NEEDS_BOOTSTRAP", "CLUSTERED"}]
    BY <1>11 DEF VmDies, SystemTypeOK
  <2> QED
    BY <2>1, <2>2, <2>3, DepartsType DEF SystemTypeOK
<1>12. ASSUME OperatorBootstraps(n)
       PROVE  SystemTypeOK'
  BY <1>7, <1>12 DEF SystemTypeOK, OperatorBootstraps, FaultKinds
<1> QED
  BY <1>1, <1>2, <1>3, <1>4, <1>5, <1>6, <1>8, <1>9, <1>10, <1>11, <1>12
  DEF GaleraInit, Mysqld, Environment

\* The history has its types after every step.
LEMMA HistoryTypeStep ==
  ASSUME HistoryTypeOK, History
  PROVE  HistoryTypeOK'
<1>1. HealthyPeers' \subseteq Nodes
  BY DEF HealthyPeers
<1>2. steady' \in [Nodes -> SUBSET Nodes]
  BY <1>1 DEF History, HistoryTypeOK
<1>3. unbroken' \in [Nodes -> BOOLEAN]
  BY DEF History, HistoryTypeOK
<1>4. excused' \in BOOLEAN /\ calm' \in BOOLEAN
  BY DEF History, HistoryTypeOK
<1> QED
  BY <1>2, <1>3, <1>4 DEF HistoryTypeOK

\* A deployment keeps its types.
LEMMA TypeStep == TypeOK /\ [Next]_vars => TypeOK'
<1>1. TypeOK <=> SystemTypeOK /\ HistoryTypeOK
  BY DEF TypeOK, SystemTypeOK, HistoryTypeOK
<1>2. TypeOK' <=> SystemTypeOK' /\ HistoryTypeOK'
  BY DEF TypeOK, SystemTypeOK, HistoryTypeOK
<1>3. ASSUME TypeOK, Next PROVE TypeOK'
  BY <1>1, <1>2, <1>3, SystemTypeStep, HistoryTypeStep DEF Next
<1>4. ASSUME TypeOK, UNCHANGED vars PROVE TypeOK'
  BY <1>4 DEF TypeOK, vars
<1> QED
  BY <1>3, <1>4

\* Nothing has been started.
LEMMA InitType == Init => TypeOK
<1> SUFFICES ASSUME Init PROVE TypeOK
  OBVIOUS
<1>1. k \in [Nodes -> DOMAIN Ips] /\ faults \in 0 .. MaxFaults
  BY Addresses, FaultsAssumption DEF Init
<1> QED
  BY <1>1 DEF Init, TypeOK, Points

-----------------------------------------------------------------------------
(* Probing                                                                   *)

\* What runs where: galera-init decides and starts only what is down, and
\* leaves its loop over the addresses at the first of them.  A frozen VM runs
\* nothing.
PlaceInv ==
  \A n \in Nodes :
    /\ at[n] = "off" => db[n] \in {"down", "synced"}
    /\ at[n] \in {"Shutdown", "seed", "select"} => db[n] = "synced"
    /\ at[n] \in {"getCurrentNodeState", "HealthyCluster", "StartMysqldInBootstrap",
                  "StartMysqldInJoin"} => db[n] = "down"
    /\ at[n] # "HealthyCluster" => k[n] = 1
    /\ n \in frozen => at[n] = "off" /\ db[n] = "down"

\* A peer that was healthy since the probing began has not been probed yet.
Remaining(n) == {Ips[j] : j \in k[n] .. Len(Ips)}
ProbeInv ==
  \A n \in Nodes :
    /\ at[n] = "HealthyCluster" => steady[n] \subseteq Remaining(n)
    /\ at[n] = "StartMysqldInBootstrap" => steady[n] = {}

\* A step of one node or of its mysqld leaves the others' places alone.
LEMMA Local ==
  ASSUME SystemTypeOK, NEW n \in Nodes,
         Launch(n) \/ GaleraInit(n) \/ Mysqld(n) \/ Environment(n)
  PROVE  /\ \A m \in Nodes \ {n} : at'[m] = at[m] /\ k'[m] = k[m] /\ db'[m] = db[m]
         /\ frozen' \subseteq frozen \cup {n}
<1>1. ASSUME Launch(n) \/ Decide(n) \/ Record(n) \/ VmReplaced(n) \/ SeedFails(n)
             \/ OperatorBootstraps(n) \/ BootstrapNode(n) \/ JoinCluster(n)
             \/ WaitForDatabase(n)
      PROVE  /\ \A m \in Nodes \ {n} : at'[m] = at[m] /\ k'[m] = k[m] /\ db'[m] = db[m]
             /\ frozen' \subseteq frozen \cup {n}
  BY <1>1 DEF SystemTypeOK, Launch, Decide, Record, VmReplaced, SeedFails,
              OperatorBootstraps, BootstrapNode, JoinCluster, WaitForDatabase, Goto
<1>2. ASSUME Mysqld(n)
      PROVE  /\ \A m \in Nodes \ {n} : at'[m] = at[m] /\ k'[m] = k[m] /\ db'[m] = db[m]
             /\ frozen' \subseteq frozen \cup {n}
  BY <1>2 DEF SystemTypeOK, Mysqld, FormsGroup, JoinsGroup, CatchesUp, GivesUp, Departs
<1>3. ASSUME \/ Shutdown(n) \/ Stop(n) \/ Probe(n) \/ ProbeTimesOut(n)
             \/ \E f \in {"crash", "disk", "freeze"} : VmDies(n, f)
      PROVE  /\ \A m \in Nodes \ {n} : at'[m] = at[m] /\ k'[m] = k[m] /\ db'[m] = db[m]
             /\ frozen' \subseteq frozen \cup {n}
  <2>1. CASE Shutdown(n) \/ Stop(n)
    BY <2>1 DEF SystemTypeOK, Shutdown, Stop, Departs, Goto
  <2>2. CASE Probe(n) \/ ProbeTimesOut(n)
    BY <2>2 DEF SystemTypeOK, Probe, ProbeTimesOut, Goto
  <2>3. CASE \E f \in {"crash", "disk", "freeze"} : VmDies(n, f)
    BY <2>3 DEF SystemTypeOK, VmDies, Departs
  <2> QED
    BY <1>3, <2>1, <2>2, <2>3
<1> QED
  BY <1>1, <1>2, <1>3 DEF GaleraInit, Environment

\* Every step keeps the places.
LEMMA PlaceStep ==
  ASSUME SystemTypeOK, PlaceInv, NEW n \in Nodes,
         Launch(n) \/ GaleraInit(n) \/ Mysqld(n) \/ Environment(n)
  PROVE  PlaceInv'
<1> DEFINE Place ==
      /\ at'[n] = "off" => db'[n] \in {"down", "synced"}
      /\ at'[n] \in {"Shutdown", "seed", "select"} => db'[n] = "synced"
      /\ at'[n] \in {"getCurrentNodeState", "HealthyCluster", "StartMysqldInBootstrap",
                     "StartMysqldInJoin"} => db'[n] = "down"
      /\ at'[n] # "HealthyCluster" => k'[n] = 1
      /\ n \in frozen' => at'[n] = "off" /\ db'[n] = "down"
<1>1. ASSUME Launch(n) \/ Decide(n) \/ Record(n) \/ VmReplaced(n) \/ SeedFails(n)
             \/ OperatorBootstraps(n)
      PROVE  Place
  BY <1>1 DEF PlaceInv, SystemTypeOK, Launch, Decide, Record, VmReplaced, SeedFails,
              OperatorBootstraps, Goto
<1>2. ASSUME BootstrapNode(n) \/ JoinCluster(n) \/ WaitForDatabase(n)
      PROVE  Place
  BY <1>2 DEF PlaceInv, SystemTypeOK, BootstrapNode, JoinCluster, WaitForDatabase, Goto,
              Synced, Serving
<1>3. ASSUME Mysqld(n)
      PROVE  Place
  <2>1. at' = at /\ k' = k /\ frozen' = frozen
    BY <1>3 DEF Mysqld, FormsGroup, JoinsGroup, CatchesUp, GivesUp
  <2>2. db[n] \in {"bootstrapping", "connecting", "joining"}
    BY <1>3 DEF Mysqld, FormsGroup, JoinsGroup, CatchesUp, GivesUp
  <2>3. at[n] = "waitForDatabase" /\ n \notin frozen
    BY <2>2 DEF PlaceInv, SystemTypeOK, Points
  <2> QED
    BY <2>1, <2>3 DEF PlaceInv
<1>4. ASSUME \/ Shutdown(n) \/ Stop(n) \/ \E f \in {"crash", "disk", "freeze"} : VmDies(n, f)
      PROVE  Place
  BY <1>4 DEF PlaceInv, SystemTypeOK, Shutdown, Stop, VmDies, Departs, Goto
<1>5. ASSUME Probe(n) \/ ProbeTimesOut(n)
      PROVE  Place
  <2>1. db' = db /\ frozen' = frozen /\ at[n] = "HealthyCluster"
    BY <1>5 DEF Probe, ProbeTimesOut, Goto
  <2>2. /\ at'[n] \in {"HealthyCluster", "StartMysqldInBootstrap", "StartMysqldInJoin"}
        /\ at'[n] # "HealthyCluster" => k'[n] = 1
    BY <1>5, Addresses DEF Probe, ProbeTimesOut, Goto, SystemTypeOK
  <2> QED
    BY <2>1, <2>2 DEF PlaceInv
<1>6. Place
  BY <1>1, <1>2, <1>3, <1>4, <1>5 DEF GaleraInit, Environment
<1> QED
  BY <1>6, Local DEF PlaceInv

\* One turn of the loop leaves out a peer that was not healthy, or whose
\* answer came too late.
LEMMA ProbedPeer ==
  ASSUME SystemTypeOK, PlaceInv, NEW n \in Nodes, Probe(n) \/ ProbeTimesOut(n), History,
         at'[n] \in {"HealthyCluster", "StartMysqldInBootstrap"}
  PROVE  /\ steady'[n] \subseteq steady[n] \ {Ips[k[n]]}
         /\ \/ at'[n] = "HealthyCluster" /\ k'[n] = k[n] + 1
            \/ at'[n] = "StartMysqldInBootstrap" /\ k[n] = Len(Ips)
<1>1. at[n] = "HealthyCluster" /\ groupVars' = groupVars
  BY DEF Probe, ProbeTimesOut, Goto
<1>2. Ips[k[n]] \in Nodes /\ k[n] \in DOMAIN Ips
  BY Addresses DEF SystemTypeOK
<1>3. \/ at'[n] = "HealthyCluster" /\ k'[n] = k[n] + 1
      \/ at'[n] = "StartMysqldInBootstrap" /\ k[n] = Len(Ips)
  BY <1>2, Addresses DEF Probe, ProbeTimesOut, Goto, SystemTypeOK
<1>4. CASE ProbeTimesOut(n)
  BY <1>1, <1>3, <1>4 DEF History
<1>5. CASE Probe(n)
  <2>1. PICK healthy \in MakeRequest(Ips[k[n]]) :
          Goto(n, "HealthyCluster",
               IF healthy THEN "StartMysqldInJoin"
               ELSE IF k[n] < Len(Ips) THEN "HealthyCluster"
               ELSE "StartMysqldInBootstrap")
    BY <1>5 DEF Probe
  <2>2. ~ healthy
    BY <2>1 DEF Goto, SystemTypeOK
  <2>3. ~ Healthy(Ips[k[n]])
    BY <1>2, <2>2 DEF MakeRequest, Healthy, Serving, PlaceInv
  <2>4. Ips[k[n]] \notin HealthyPeers'
    BY <1>1, <2>3 DEF HealthyPeers, Healthy, Serving
  <2> QED
    BY <1>1, <1>3, <2>4 DEF History
<1> QED
  BY <1>3, <1>4, <1>5

\* Every step keeps the peers that were healthy all along among those that are
\* still to be probed.
LEMMA ProbeStep ==
  ASSUME SystemTypeOK, PlaceInv, ProbeInv, Next
  PROVE  ProbeInv'
<1>1. PICK n \in Nodes : Launch(n) \/ GaleraInit(n) \/ Mysqld(n) \/ Environment(n)
  BY DEF Next
<1>2. History
  BY DEF Next
<1>3. ASSUME NEW m \in Nodes, at'[m] = at[m], k'[m] = k[m]
      PROVE  /\ at'[m] = "HealthyCluster" => steady'[m] \subseteq Remaining(m)'
             /\ at'[m] = "StartMysqldInBootstrap" => steady'[m] = {}
  <2>1. Remaining(m)' = Remaining(m)
    BY <1>3 DEF Remaining
  <2>2. at'[m] \in {"HealthyCluster", "StartMysqldInBootstrap"} =>
          steady'[m] \subseteq steady[m]
    BY <1>2, <1>3 DEF History
  <2> QED
    BY <1>3, <2>1, <2>2 DEF ProbeInv
<1>4. ASSUME Probe(n) \/ ProbeTimesOut(n)
      PROVE  /\ at'[n] = "HealthyCluster" => steady'[n] \subseteq Remaining(n)'
             /\ at'[n] = "StartMysqldInBootstrap" => steady'[n] = {}
  <2>1. at[n] = "HealthyCluster" /\ k[n] \in 1 .. Len(Ips)
    BY <1>4, Addresses DEF Probe, ProbeTimesOut, Goto, SystemTypeOK
  <2>2. steady[n] \subseteq Remaining(n)
    BY <2>1 DEF ProbeInv
  <2>3. CASE at'[n] = "HealthyCluster"
    <3>1. steady'[n] \subseteq steady[n] \ {Ips[k[n]]} /\ k'[n] = k[n] + 1
      BY <1>2, <1>4, <2>3, ProbedPeer
    <3>2. \A j \in k[n] .. Len(Ips) : j = k[n] \/ j \in k[n] + 1 .. Len(Ips)
      BY <2>1, Addresses
    <3> QED
      BY <2>2, <2>3, <3>1, <3>2 DEF Remaining
  <2>4. CASE at'[n] = "StartMysqldInBootstrap"
    <3>1. steady'[n] \subseteq steady[n] \ {Ips[k[n]]} /\ k[n] = Len(Ips)
      BY <1>2, <1>4, <2>1, <2>4, ProbedPeer, Addresses
    <3>2. \A j \in k[n] .. Len(Ips) : j = k[n]
      <4>1. k[n] \in Int
        BY <2>1, Addresses
      <4> QED
        BY <3>1, <4>1
    <3> QED
      BY <2>2, <2>4, <3>1, <3>2 DEF Remaining
  <2> QED
    BY <2>3, <2>4
<1>5. ASSUME Decide(n)
      PROVE  /\ at'[n] = "HealthyCluster" => steady'[n] \subseteq Remaining(n)'
             /\ at'[n] = "StartMysqldInBootstrap" => steady'[n] = {}
  <2>1. /\ at'[n] \in {"HealthyCluster", "StartMysqldInJoin"}
        /\ k'[n] = 1
    BY <1>5 DEF Decide, Goto, SystemTypeOK, PlaceInv
  <2>2. at'[n] = "HealthyCluster" => steady'[n] \subseteq Nodes
    BY <1>2, <1>5 DEF History, Decide, Goto, HealthyPeers
  <2>3. Remaining(n)' = Nodes
    BY <2>1, Addresses, IpsAssumption DEF Remaining
  <2> QED
    BY <2>1, <2>2, <2>3
<1>6. \/ at'[n] = at[n] /\ k'[n] = k[n]
      \/ at'[n] \notin {"HealthyCluster", "StartMysqldInBootstrap"}
      \/ Probe(n) \/ ProbeTimesOut(n) \/ Decide(n)
  BY <1>1 DEF GaleraInit, Mysqld, Environment, Launch, Shutdown, BootstrapNode, JoinCluster,
              WaitForDatabase, Record, FormsGroup, JoinsGroup, CatchesUp, GivesUp, SeedFails,
              Stop, VmReplaced, VmDies, OperatorBootstraps, Goto, SystemTypeOK
<1>7. ASSUME NEW m \in Nodes \ {n}
      PROVE  at'[m] = at[m] /\ k'[m] = k[m]
  BY <1>1, Local
<1>8. ASSUME NEW m \in Nodes
      PROVE  /\ at'[m] = "HealthyCluster" => steady'[m] \subseteq Remaining(m)'
             /\ at'[m] = "StartMysqldInBootstrap" => steady'[m] = {}
  <2>1. CASE m = n
    BY <1>3, <1>4, <1>5, <1>6, <2>1
  <2>2. CASE m # n
    BY <1>3, <1>7, <2>2
  <2> QED
    BY <2>1, <2>2
<1> QED
  BY <1>8 DEF ProbeInv

-----------------------------------------------------------------------------
(* Groups                                                                    *)

\* The members of a group agree on who they are and on whether they are a
\* primary component.
Member == {"joining", "synced"}
GroupInv ==
  /\ \A n \in Nodes : db[n] \notin Member => view[n] = {} /\ ~ primary[n]
  /\ \A n \in Nodes : db[n] \in Member => n \in view[n]
  /\ \A n \in Nodes : \A m \in view[n] : view[m] = view[n] /\ primary[m] = primary[n]

\* Groups that are not the same have no member in common.
LEMMA GroupsDisjoint ==
  ASSUME SystemTypeOK, GroupInv, NEW n \in Nodes, NEW m \in Nodes, NEW x \in view[n]
  PROVE  /\ n \in view[n] /\ x \in Nodes
         /\ x \in view[m] => view[m] = view[n] /\ m \in view[n]
<1>1. x \in Nodes
  BY DEF SystemTypeOK
<1>2. n \in view[n]
  BY DEF GroupInv
<1>3. ASSUME x \in view[m] PROVE view[m] = view[n] /\ m \in view[n]
  <2>1. view[x] = view[m] /\ view[x] = view[n] /\ m \in view[m]
    BY <1>3 DEF GroupInv
  <2> QED
    BY <2>1
<1> QED
  BY <1>1, <1>2, <1>3

\* Node by node, what a departure does.
LEMMA DepartsEffect ==
  ASSUME SystemTypeOK, NEW n \in Nodes, NEW orderly \in BOOLEAN, Departs(n, orderly)
  PROVE  /\ db'[n] = "down" /\ view'[n] = {} /\ ~ primary'[n]
         /\ \A m \in Nodes \ {n} : db'[m] = db[m] /\ (primary'[m] => primary[m])
         /\ \A m \in Nodes \ {n} : m \in view[n] => view'[m] = view[n] \ {n}
         /\ \A m \in Nodes \ {n} : m \notin view[n] =>
              view'[m] = view[m] /\ primary'[m] = primary[m]
         /\ \E stays \in BOOLEAN : \A m \in Nodes \ {n} :
              m \in view[n] => primary'[m] = (primary[m] /\ stays)
<1> DEFINE stays == orderly \/ 2 * Cardinality(view[n] \ {n}) > Cardinality(view[n])
<1>1. \A m \in Nodes \ {n} : m \in view[n] => primary'[m] = (primary[m] /\ stays)
  BY DEF Departs, SystemTypeOK
<1>2. stays \in BOOLEAN
  OBVIOUS
<1>3. /\ db'[n] = "down" /\ view'[n] = {} /\ ~ primary'[n]
      /\ \A m \in Nodes \ {n} : db'[m] = db[m]
      /\ \A m \in Nodes \ {n} : m \in view[n] => view'[m] = view[n] \ {n}
      /\ \A m \in Nodes \ {n} : m \notin view[n] =>
           view'[m] = view[m] /\ primary'[m] = primary[m]
  BY DEF Departs, SystemTypeOK
<1> HIDE DEF stays
<1>4. \A m \in Nodes \ {n} : primary'[m] => primary[m]
  BY <1>1, <1>3
<1> QED
  BY <1>1, <1>2, <1>3, <1>4

\* A departure leaves groups behind.
LEMMA DepartsGroup ==
  ASSUME SystemTypeOK, GroupInv, NEW n \in Nodes, NEW orderly \in BOOLEAN, Departs(n, orderly)
  PROVE  GroupInv'
<1>1. ASSUME NEW m \in Nodes
      PROVE  /\ db'[m] \notin Member => view'[m] = {} /\ ~ primary'[m]
             /\ db'[m] \in Member => m \in view'[m]
  <2>1. CASE m = n
    BY <2>1, DepartsEffect DEF Member
  <2>2. CASE m # n /\ m \in view[n]
    <3>1. view[m] = view[n] /\ m \in view[m] /\ db[m] \in Member
      BY <2>2 DEF GroupInv
    <3> QED
      BY <2>2, <3>1, DepartsEffect
  <2>3. CASE m # n /\ m \notin view[n]
    BY <2>3, DepartsEffect DEF GroupInv
  <2> QED
    BY <2>1, <2>2, <2>3
<1>2. ASSUME NEW m \in Nodes, NEW x \in view'[m]
      PROVE  view'[x] = view'[m] /\ primary'[x] = primary'[m]
  <2>1. m # n
    BY <1>2, DepartsEffect
  <2>2. CASE m \in view[n]
    <3>1. x \in view[n] /\ x # n /\ x \in Nodes
      BY <2>1, <2>2, DepartsEffect DEF SystemTypeOK
    <3>2. view'[x] = view'[m]
      <4>1. view'[x] = view[n] \ {n}
        BY <3>1, DepartsEffect
      <4>2. view'[m] = view[n] \ {n}
        BY <2>1, <2>2, DepartsEffect
      <4> QED
        BY <4>1, <4>2
    <3>3. primary[x] = primary[m]
      BY <2>2, <3>1 DEF GroupInv
    <3>4. primary'[x] = primary'[m]
      BY <2>1, <2>2, <3>1, <3>3, DepartsEffect
    <3> QED
      BY <3>2, <3>4
  <2>3. CASE m \notin view[n]
    <3>1. x \in view[m] /\ view'[m] = view[m] /\ primary'[m] = primary[m]
      BY <2>1, <2>3, DepartsEffect
    <3>2. x \in Nodes /\ view[x] = view[m] /\ primary[x] = primary[m]
      BY <3>1, GroupsDisjoint DEF GroupInv
    <3>3. x \notin view[n] /\ x # n
      <4>1. m \in view[m] /\ (x \in view[n] => view[n] = view[m])
        BY <3>1, GroupsDisjoint
      <4>2. x = n => view[n] = view[m]
        BY <3>2
      <4> QED
        BY <2>3, <4>1, <4>2
    <3> QED
      BY <3>1, <3>2, <3>3, DepartsEffect
  <2> QED
    BY <2>2, <2>3
<1> QED
  BY <1>1, <1>2 DEF GroupInv

\* Node by node, what a join does: n becomes a member of the group of a node d
\* that serves.
LEMMA JoinEffect ==
  ASSUME SystemTypeOK, GroupInv, NEW n \in Nodes, JoinsGroup(n)
  PROVE  \E d \in Nodes :
           /\ Serving(d) /\ d \in view[d] /\ n # d
           /\ view[n] = {} /\ \A m \in Nodes : n \notin view[m]
           /\ db'[n] = "joining" /\ view'[n] = view[d] \cup {n} /\ primary'[n] = TRUE
           /\ \A m \in Nodes \ {n} : db'[m] = db[m] /\ primary'[m] = primary[m]
           /\ \A m \in view[d] : view'[m] = view[d] \cup {n}
           /\ \A m \in Nodes \ {n} : m \notin view[d] => view'[m] = view[m]
<1>1. PICK d \in Nodes :
        /\ Synced(d)
        /\ db' = [db EXCEPT ![n] = "joining"]
        /\ view' = [m \in Nodes |-> IF m \in view[d] \cup {n} THEN view[d] \cup {n}
                                    ELSE view[m]]
        /\ primary' = [primary EXCEPT ![n] = TRUE]
  BY DEF JoinsGroup
<1>2. db[n] = "connecting" /\ view[n] = {} /\ n # d
  BY <1>1 DEF JoinsGroup, GroupInv, Member, Synced, Serving
<1>3. Serving(d) /\ d \in view[d]
  BY <1>1 DEF Synced, Serving, GroupInv, Member
<1>4. \A m \in Nodes : n \notin view[m]
  BY <1>2 DEF GroupInv
<1>5. \A m \in view[d] : m \in Nodes
  BY DEF SystemTypeOK
<1>6. /\ db'[n] = "joining" /\ view'[n] = view[d] \cup {n} /\ primary'[n] = TRUE
      /\ \A m \in Nodes \ {n} : db'[m] = db[m] /\ primary'[m] = primary[m]
  BY <1>1 DEF SystemTypeOK
<1>7. /\ \A m \in view[d] : view'[m] = view[d] \cup {n}
      /\ \A m \in Nodes \ {n} : m \notin view[d] => view'[m] = view[m]
  BY <1>1, <1>5
<1> QED
  BY <1>2, <1>3, <1>4, <1>6, <1>7

\* A join makes a larger group.
LEMMA JoinGroup ==
  ASSUME SystemTypeOK, GroupInv, NEW n \in Nodes, JoinsGroup(n)
  PROVE  GroupInv'
<1>1. PICK d \in Nodes :
        /\ Serving(d) /\ d \in view[d] /\ n # d
        /\ view[n] = {} /\ \A m \in Nodes : n \notin view[m]
        /\ db'[n] = "joining" /\ view'[n] = view[d] \cup {n} /\ primary'[n] = TRUE
        /\ \A m \in Nodes \ {n} : db'[m] = db[m] /\ primary'[m] = primary[m]
        /\ \A m \in view[d] : view'[m] = view[d] \cup {n}
        /\ \A m \in Nodes \ {n} : m \notin view[d] => view'[m] = view[m]
  BY JoinEffect
<1>2. \A m \in view[d] : m \in Nodes /\ m # n /\ view[m] = view[d] /\ primary[m] = TRUE
  BY <1>1 DEF SystemTypeOK, GroupInv, Serving
<1>3. ASSUME NEW m \in Nodes
      PROVE  /\ db'[m] \notin Member => view'[m] = {} /\ ~ primary'[m]
             /\ db'[m] \in Member => m \in view'[m]
  <2>1. CASE m = n
    BY <1>1, <2>1 DEF Member
  <2>2. CASE m \in view[d]
    BY <1>1, <1>2, <2>2 DEF GroupInv
  <2>3. CASE m # n /\ m \notin view[d]
    BY <1>1, <2>3 DEF GroupInv
  <2> QED
    BY <2>1, <2>2, <2>3
<1>4. ASSUME NEW m \in Nodes, NEW x \in view'[m]
      PROVE  view'[x] = view'[m] /\ primary'[x] = primary'[m]
  <2>1. CASE m \in view[d] \cup {n}
    <3>1. x \in view[d] \cup {n}
      BY <1>1, <1>4, <2>1
    <3>2. view'[x] = view[d] \cup {n} /\ view'[m] = view[d] \cup {n}
      BY <1>1, <2>1, <3>1
    <3>3. primary'[x] = TRUE /\ primary'[m] = TRUE
      BY <1>1, <1>2, <2>1, <3>1
    <3> QED
      BY <3>2, <3>3
  <2>2. CASE m \notin view[d] \cup {n}
    <3>1. x \in view[m] /\ view'[m] = view[m] /\ primary'[m] = primary[m]
      BY <1>1, <1>4, <2>2
    <3>2. x \in Nodes /\ x # n /\ x \notin view[d]
      BY <1>1, <2>2, <3>1, GroupsDisjoint
    <3> QED
      BY <1>1, <3>1, <3>2 DEF GroupInv
  <2> QED
    BY <2>1, <2>2
<1> QED
  BY <1>3, <1>4 DEF GroupInv

\* Every step of a node is a bootstrap, a join, the end of a join, a
\* departure, or leaves the groups alone.
GroupsStay ==
  /\ view' = view /\ primary' = primary
  /\ \A m \in Nodes : db[m] \in Member \/ db'[m] \in Member => db'[m] = db[m]

\* Every step is one of these or leaves the groups alone.
LEMMA GroupSteps ==
  ASSUME SystemTypeOK, PlaceInv, NEW n \in Nodes,
         Launch(n) \/ GaleraInit(n) \/ Mysqld(n) \/ Environment(n)
  PROVE  \/ FormsGroup(n) \/ JoinsGroup(n) \/ CatchesUp(n)
         \/ \E orderly \in BOOLEAN : Departs(n, orderly)
         \/ GroupsStay
<1>1. ASSUME GivesUp(n) \/ Shutdown(n) \/ Stop(n)
             \/ \E f \in {"crash", "disk", "freeze"} : VmDies(n, f)
      PROVE  \E orderly \in BOOLEAN : Departs(n, orderly)
  BY <1>1 DEF GivesUp, Shutdown, Stop, VmDies
<1>2. ASSUME \/ Launch(n) \/ Decide(n) \/ Probe(n) \/ WaitForDatabase(n) \/ Record(n)
             \/ SeedFails(n) \/ ProbeTimesOut(n) \/ VmReplaced(n) \/ OperatorBootstraps(n)
      PROVE  GroupsStay
  <2>1. groupVars' = groupVars
    BY <1>2 DEF Launch, Decide, Probe, WaitForDatabase, Record, SeedFails, ProbeTimesOut,
                VmReplaced, OperatorBootstraps
  <2> QED
    BY <2>1 DEF GroupsStay
<1>3. ASSUME BootstrapNode(n) \/ JoinCluster(n)
      PROVE  GroupsStay
  <2>1. view' = view /\ primary' = primary /\ db[n] = "down"
    BY <1>3 DEF BootstrapNode, JoinCluster, Goto, PlaceInv
  <2>2. /\ db'[n] \in {"bootstrapping", "connecting"}
        /\ \A m \in Nodes \ {n} : db'[m] = db[m]
    BY <1>3 DEF BootstrapNode, JoinCluster, SystemTypeOK
  <2> QED
    BY <2>1, <2>2 DEF GroupsStay, Member
<1> QED
  BY <1>1, <1>2, <1>3 DEF GaleraInit, Mysqld, Environment

\* Every step keeps the groups.
LEMMA GroupStep ==
  ASSUME SystemTypeOK, PlaceInv, GroupInv, NEW n \in Nodes,
         Launch(n) \/ GaleraInit(n) \/ Mysqld(n) \/ Environment(n)
  PROVE  GroupInv'
<1>1. CASE FormsGroup(n)
  <2>1. db[n] = "bootstrapping" /\ view[n] = {}
    BY <1>1 DEF FormsGroup, GroupInv, Member
  <2>2. /\ db'[n] = "synced" /\ view'[n] = {n} /\ primary'[n] = TRUE
        /\ \A m \in Nodes \ {n} :
             db'[m] = db[m] /\ view'[m] = view[m] /\ primary'[m] = primary[m]
    BY <1>1 DEF FormsGroup, SystemTypeOK
  <2>3. \A m \in Nodes : n \notin view[m]
    BY <2>1 DEF GroupInv
  <2>4. ASSUME NEW m \in Nodes
        PROVE  /\ db'[m] \notin Member => view'[m] = {} /\ ~ primary'[m]
               /\ db'[m] \in Member => m \in view'[m]
    BY <2>2 DEF GroupInv, Member
  <2>5. ASSUME NEW m \in Nodes, NEW x \in view'[m]
        PROVE  view'[x] = view'[m] /\ primary'[x] = primary'[m]
    <3>1. CASE m = n
      BY <2>2, <2>5, <3>1
    <3>2. CASE m # n
      <4>1. x \in view[m] /\ x \in Nodes /\ x # n
        BY <2>2, <2>3, <2>5, <3>2 DEF SystemTypeOK
      <4> QED
        BY <2>2, <3>2, <4>1 DEF GroupInv
    <3> QED
      BY <3>1, <3>2
  <2> QED
    BY <2>4, <2>5 DEF GroupInv
<1>2. CASE JoinsGroup(n)
  BY <1>2, JoinGroup
<1>3. CASE CatchesUp(n)
  <2>1. view' = view /\ primary' = primary /\ db[n] = "joining" /\ db'[n] = "synced"
    BY <1>3 DEF CatchesUp, SystemTypeOK
  <2>2. \A m \in Nodes \ {n} : db'[m] = db[m]
    BY <1>3 DEF CatchesUp, SystemTypeOK
  <2> QED
    BY <2>1, <2>2 DEF GroupInv, Member
<1>4. CASE \E orderly \in BOOLEAN : Departs(n, orderly)
  BY <1>4, DepartsGroup
<1>5. CASE GroupsStay
  BY <1>5 DEF GroupsStay, GroupInv
<1> QED
  BY <1>1, <1>2, <1>3, <1>4, <1>5, GroupSteps

-----------------------------------------------------------------------------
(* Bootstrapping                                                             *)

Deciding == {"HealthyCluster", "StartMysqldInBootstrap"}

\* There is one node at most that may bootstrap, and nobody else tries.
AuthorityInv ==
  /\ \A n, m \in Authorised : n = m
  /\ \A n \in Nodes : at[n] \in Deciding \/ db[n] = "bootstrapping" => n \in Authorised

\* A node that has found a moment without a healthy peer may rely on it: until
\* it has bootstrapped there is none.
AloneInv ==
  \A n \in Nodes :
    /\ at[n] \in Deciding /\ ~ unbroken[n] => HealthyPeers = {}
    /\ at[n] = "StartMysqldInBootstrap" => ~ unbroken[n]
    /\ db[n] = "bootstrapping" => HealthyPeers = {}

\* The nodes that serve are members of one group.
OneViewInv == \A n, m \in HealthyPeers : view[n] = view[m]

ComponentInv == ~ excused => AuthorityInv /\ AloneInv /\ OneViewInv

\* Unless the protocol is excused, one node at most is authorised.
LEMMA OneAuthorised ==
  ASSUME History, ~ excused'
  PROVE  \A n, m \in Authorised' : n = m
<1>1. Authorised' \subseteq Nodes /\ IsFiniteSet(Authorised')
  BY NodesFinite, FS_Subset DEF Authorised
<1>2. ~ (Cardinality(Authorised') > 1)
  BY DEF History
<1>3. ASSUME NEW n \in Authorised', NEW m \in Authorised', n # m
      PROVE  FALSE
  <2>1. Cardinality({n}) = 1 /\ IsFiniteSet({n})
    BY FS_Singleton
  <2>2. Cardinality({n} \cup {m}) = 2 /\ {n} \cup {m} \in SUBSET Authorised'
    BY <1>3, <2>1, FS_AddElement
  <2>3. 2 <= Cardinality(Authorised') /\ Cardinality(Authorised') \in Nat
    BY <1>1, <2>2, FS_Subset, FS_CardinalityType
  <2> QED
    BY <1>2, <2>3
<1> QED
  BY <1>3

\* A probing is entered from getCurrentNodeState only, and a bootstrap from a
\* probing.
LEMMA Entries ==
  ASSUME SystemTypeOK, NEW n \in Nodes,
         Launch(n) \/ GaleraInit(n) \/ Mysqld(n) \/ Environment(n)
  PROVE  /\ at'[n] \in Deciding => at[n] \in Deciding \cup {"getCurrentNodeState"}
         /\ db'[n] = "bootstrapping" =>
              db[n] = "bootstrapping" \/ at[n] = "StartMysqldInBootstrap"
<1>1. at'[n] \in Deciding => at[n] \in Deciding \cup {"getCurrentNodeState"}
  BY DEF GaleraInit, Mysqld, Environment, Launch, Shutdown, Decide, Probe, BootstrapNode,
         JoinCluster, WaitForDatabase, Record, FormsGroup, JoinsGroup, CatchesUp, GivesUp,
         SeedFails, Stop, ProbeTimesOut, VmReplaced, VmDies, OperatorBootstraps, Goto,
         SystemTypeOK, Deciding
<1>2. db'[n] = "bootstrapping" => db[n] = "bootstrapping" \/ BootstrapNode(n)
  BY DEF GaleraInit, Mysqld, Environment, Launch, Shutdown, Decide, Probe, BootstrapNode,
         JoinCluster, WaitForDatabase, Record, FormsGroup, JoinsGroup, CatchesUp, GivesUp,
         Departs, SeedFails, Stop, ProbeTimesOut, VmReplaced, VmDies, OperatorBootstraps,
         SystemTypeOK
<1> QED
  BY <1>1, <1>2 DEF BootstrapNode, Goto

\* Who tries to bootstrap was authorised, and stays so until it is done.
LEMMA AuthorityStays ==
  ASSUME SystemTypeOK, PlaceInv, AuthorityInv, NEW n \in Nodes,
         Launch(n) \/ GaleraInit(n) \/ Mysqld(n) \/ Environment(n)
  PROVE  \A m \in Nodes : at'[m] \in Deciding \/ db'[m] = "bootstrapping" => m \in Authorised'
<1>1. CASE OperatorBootstraps(n)
  BY <1>1 DEF OperatorBootstraps, Deciding
<1>2. CASE \/ Record(n) \/ \E f \in {"crash", "disk", "freeze"} : VmDies(n, f)
  <2>1. \A m \in Nodes \ {n} : at'[m] = at[m] /\ db'[m] = db[m] /\ file'[m] = file[m]
    BY <1>2, Local DEF Record, VmDies, SystemTypeOK
  <2>2. at'[n] \notin Deciding /\ db'[n] # "bootstrapping"
    BY <1>2 DEF Record, VmDies, Departs, Goto, SystemTypeOK, PlaceInv, Deciding
  <2>3. \A m \in Nodes \ {n} : m \in Authorised => m \in Authorised'
    BY <2>1 DEF Authorised, CurrentNodeState
  <2> QED
    BY <2>1, <2>2, <2>3 DEF AuthorityInv
<1>3. CASE file' = file
  <2>1. Authorised' = Authorised
    BY <1>3 DEF Authorised, CurrentNodeState
  <2>2. \A m \in Nodes \ {n} : at'[m] = at[m] /\ db'[m] = db[m]
    BY Local
  <2>3. ASSUME at'[n] \in Deciding \/ db'[n] = "bootstrapping"
        PROVE  n \in Authorised
    <3>1. CASE Decide(n)
      BY <2>3, <3>1 DEF Decide, Goto, Authorised, SystemTypeOK, PlaceInv, Deciding
    <3>2. CASE Probe(n) \/ ProbeTimesOut(n) \/ BootstrapNode(n)
      BY <3>2 DEF Probe, ProbeTimesOut, BootstrapNode, Goto, AuthorityInv, Deciding
    <3>3. CASE at'[n] \in Deciding => at[n] \in Deciding
      BY <2>3, <3>3, Entries DEF AuthorityInv, Deciding
    <3>4. \/ Decide(n) \/ Probe(n) \/ ProbeTimesOut(n) \/ BootstrapNode(n)
          \/ at'[n] \in Deciding => at[n] \in Deciding
      BY DEF GaleraInit, Mysqld, Environment, Launch, Shutdown, JoinCluster, WaitForDatabase,
             Record, FormsGroup, JoinsGroup, CatchesUp, GivesUp, SeedFails, Stop, VmReplaced,
             VmDies, OperatorBootstraps, Goto, SystemTypeOK, Deciding
    <3> QED
      BY <3>1, <3>2, <3>3, <3>4
  <2> QED
    BY <2>1, <2>2, <2>3 DEF AuthorityInv
<1>4. \/ file' = file \/ OperatorBootstraps(n) \/ Record(n)
      \/ \E f \in {"crash", "disk", "freeze"} : VmDies(n, f)
  BY DEF GaleraInit, Mysqld, Environment, Launch, Shutdown, Decide, Probe, BootstrapNode,
         JoinCluster, WaitForDatabase, FormsGroup, JoinsGroup, CatchesUp, GivesUp,
         SeedFails, Stop, ProbeTimesOut, VmReplaced
<1> QED
  BY <1>1, <1>2, <1>3, <1>4

\* A joining node that catches up has a member of its group that serves.
LEMMA DonorServes ==
  ASSUME SystemTypeOK, GroupInv, NEW n \in Nodes, CatchesUp(n)
  PROVE  donor[n] \in HealthyPeers /\ view[donor[n]] = view[n]
BY DEF SystemTypeOK, GroupInv, CatchesUp, DonorLives, HealthyPeers, Healthy, Serving

\* Where nobody serves, only a bootstrap changes that.
LEMMA NobodyServes ==
  ASSUME SystemTypeOK, PlaceInv, GroupInv, NEW n \in Nodes,
         Launch(n) \/ GaleraInit(n) \/ Mysqld(n) \/ Environment(n),
         ~ FormsGroup(n), HealthyPeers = {}
  PROVE  HealthyPeers' = {}
<1>1. \A m \in Nodes : ~ Serving(m)
  BY DEF HealthyPeers, Healthy
<1>2. ~ JoinsGroup(n)
  BY <1>1, JoinEffect
<1>3. ~ CatchesUp(n)
  BY DonorServes
<1>4. CASE \E orderly \in BOOLEAN : Departs(n, orderly)
  <2>1. /\ db'[n] = "down"
        /\ \A m \in Nodes \ {n} : db'[m] = db[m] /\ (primary'[m] => primary[m])
    BY <1>4, DepartsEffect
  <2> QED
    BY <1>1, <2>1 DEF HealthyPeers, Healthy, Serving
<1>5. CASE GroupsStay
  BY <1>1, <1>5 DEF GroupsStay, HealthyPeers, Healthy, Serving, Member
<1> QED
  BY <1>2, <1>3, <1>4, <1>5, GroupSteps

\* A node that is alone stays so.
LEMMA AloneStep ==
  ASSUME SystemTypeOK, PlaceInv, GroupInv, ProbeInv', AuthorityInv, AloneInv,
         NEW n \in Nodes, Launch(n) \/ GaleraInit(n) \/ Mysqld(n) \/ Environment(n),
         History, ~ excused'
  PROVE  AloneInv'
<1>1. ASSUME NEW m \in Nodes, HealthyPeers = {}, m \in Authorised,
             db[m] # "bootstrapping" \/ db'[m] = "bootstrapping"
      PROVE  HealthyPeers' = {}
  <2>1. ~ FormsGroup(n)
    <3>1. SUFFICES ASSUME FormsGroup(n) PROVE FALSE
      OBVIOUS
    <3>2. db[n] = "bootstrapping" /\ db'[n] = "synced" /\ n = m
      BY <1>1, <3>1 DEF FormsGroup, AuthorityInv, SystemTypeOK
    <3> QED
      BY <1>1, <3>2
  <2> QED
    BY <1>1, <2>1, NobodyServes
<1>2. ASSUME NEW m \in Nodes
      PROVE  /\ at'[m] \in Deciding => at[m] \in Deciding \cup {"getCurrentNodeState"}
             /\ db'[m] = "bootstrapping" =>
                  db[m] = "bootstrapping" \/ at[m] = "StartMysqldInBootstrap"
  BY Entries, Local
<1>3. ASSUME NEW m \in Nodes, at'[m] \in Deciding, ~ unbroken'[m], HealthyPeers' # {}
      PROVE  FALSE
  <2>1. at[m] # "getCurrentNodeState" /\ ~ unbroken[m]
    BY <1>3 DEF History, Deciding
  <2>2. at[m] \in Deciding
    BY <1>2, <1>3, <2>1
  <2>3. HealthyPeers = {} /\ m \in Authorised /\ db[m] # "bootstrapping"
    BY <2>1, <2>2 DEF AloneInv, AuthorityInv, PlaceInv, Deciding
  <2> QED
    BY <1>1, <1>3, <2>3
<1>4. ASSUME NEW m \in Nodes, at'[m] = "StartMysqldInBootstrap"
      PROVE  ~ unbroken'[m]
  BY <1>4 DEF History, ProbeInv
<1>5. ASSUME NEW m \in Nodes, db'[m] = "bootstrapping"
      PROVE  HealthyPeers' = {}
  <2>1. HealthyPeers = {} /\ m \in Authorised
    BY <1>2, <1>5 DEF AloneInv, AuthorityInv, Deciding
  <2> QED
    BY <1>1, <1>5, <2>1
<1> QED
  BY <1>3, <1>4, <1>5 DEF AloneInv

-----------------------------------------------------------------------------
(* The primary component                                                     *)

components == {view[n] : n \in {m \in Nodes : Serving(m)}}

\* Where somebody serves there is one component, that of all who serve.
LEMMA TheComponent ==
  ASSUME OneViewInv, NEW n \in HealthyPeers
  PROVE  components = {view[n]}
BY DEF OneViewInv, HealthyPeers, Healthy, components

\* A step of a node changes the components as the abstract specification
\* allows, and the nodes that serve stay in one group.
LEMMA ComponentStep ==
  ASSUME SystemTypeOK, PlaceInv, GroupInv, AuthorityInv, AloneInv, OneViewInv,
         NEW n \in Nodes, Launch(n) \/ GaleraInit(n) \/ Mysqld(n) \/ Environment(n)
  PROVE  /\ OneViewInv'
         /\ \/ components' = components
            \/ components = {} /\ components' = {{n}}
            \/ \E c \in components : components' = {c \cup {n}}
            \/ \E c \in components : components' = {c \ {n}} \ {{}}
            \/ components # {} /\ components' = {}
<1>1. CASE FormsGroup(n)
  <2>1. \A m \in Nodes : ~ Serving(m)
    BY <1>1 DEF FormsGroup, AloneInv, HealthyPeers, Healthy
  <2>2. /\ db'[n] = "synced" /\ view'[n] = {n} /\ primary'[n] = TRUE
        /\ \A m \in Nodes \ {n} : db'[m] = db[m] /\ primary'[m] = primary[m]
    BY <1>1 DEF FormsGroup, SystemTypeOK
  <2>3. \A m \in Nodes : Serving(m)' <=> m = n
    BY <2>1, <2>2 DEF Serving
  <2>4. components = {} /\ components' = {{n}}
    BY <2>1, <2>2, <2>3 DEF components
  <2>5. OneViewInv'
    BY <2>3 DEF OneViewInv, HealthyPeers, Healthy
  <2> QED
    BY <2>4, <2>5
<1>2. CASE JoinsGroup(n)
  <2>1. PICK d \in Nodes :
          /\ Serving(d) /\ d \in view[d] /\ n # d
          /\ view[n] = {} /\ \A m \in Nodes : n \notin view[m]
          /\ db'[n] = "joining" /\ view'[n] = view[d] \cup {n} /\ primary'[n] = TRUE
          /\ \A m \in Nodes \ {n} : db'[m] = db[m] /\ primary'[m] = primary[m]
          /\ \A m \in view[d] : view'[m] = view[d] \cup {n}
          /\ \A m \in Nodes \ {n} : m \notin view[d] => view'[m] = view[m]
    BY <1>2, JoinEffect
  <2>2. \A m \in Nodes : Serving(m)' => Serving(m)
    BY <2>1 DEF Serving
  <2>3. Serving(d)'
    BY <2>1 DEF Serving
  <2>4. ASSUME NEW m \in Nodes, Serving(m)
        PROVE  view'[m] = view[d] \cup {n}
    <3>1. view[m] = view[d] /\ m \in view[m]
      BY <2>1, <2>4 DEF OneViewInv, HealthyPeers, Healthy, GroupInv, Serving, Member
    <3> QED
      BY <2>1, <3>1
  <2>5. view[d] \in components /\ components' = {view[d] \cup {n}}
    <3>1. \A m \in Nodes : Serving(m)' => view'[m] = view[d] \cup {n}
      BY <2>2, <2>4
    <3>2. components' = {view[d] \cup {n}}
      BY <2>3, <3>1 DEF components
    <3> QED
      BY <2>1, <3>2 DEF components
  <2>6. OneViewInv'
    BY <2>2, <2>4 DEF OneViewInv, HealthyPeers, Healthy
  <2> QED
    BY <2>5, <2>6
<1>3. CASE CatchesUp(n)
  <2>1. /\ view' = view /\ primary' = primary /\ db'[n] = "synced"
        /\ \A m \in Nodes \ {n} : db'[m] = db[m]
    BY <1>3 DEF CatchesUp, SystemTypeOK
  <2>2. PICK d \in HealthyPeers : view[n] = view[d]
    BY <1>3, DonorServes
  <2>3. \A m \in Nodes : Serving(m)' => Serving(m) \/ m = n
    BY <2>1 DEF Serving
  <2>4. \A m \in Nodes : Serving(m) => Serving(m)'
    BY <2>1 DEF Serving
  <2>5. \A m \in Nodes : Serving(m)' => view'[m] = view[d]
    BY <2>1, <2>2, <2>3 DEF OneViewInv, HealthyPeers, Healthy
  <2>6. d \in Nodes /\ Serving(d)'
    BY <2>4 DEF HealthyPeers, Healthy
  <2>7. components' = {view[d]}
    BY <2>5, <2>6 DEF components
  <2>8. OneViewInv'
    BY <2>5 DEF OneViewInv, HealthyPeers, Healthy
  <2> QED
    BY <2>7, <2>8, TheComponent
<1>4. CASE \E orderly \in BOOLEAN : Departs(n, orderly)
  <2>1. /\ db'[n] = "down"
        /\ \A m \in Nodes \ {n} : db'[m] = db[m] /\ (primary'[m] => primary[m])
        /\ \A m \in Nodes \ {n} : m \in view[n] => view'[m] = view[n] \ {n}
        /\ \A m \in Nodes \ {n} : m \notin view[n] =>
             view'[m] = view[m] /\ primary'[m] = primary[m]
    BY <1>4, DepartsEffect
  <2>2. \A m \in Nodes : Serving(m)' => Serving(m) /\ m # n
    BY <2>1 DEF Serving
  <2>3. CASE HealthyPeers = {}
    <3>1. \A m \in Nodes : ~ Serving(m) /\ ~ Serving(m)'
      BY <2>2, <2>3 DEF HealthyPeers, Healthy
    <3> QED
      BY <3>1 DEF components, OneViewInv, HealthyPeers, Healthy
  <2>4. ASSUME NEW d \in HealthyPeers, n \in view[d]
        PROVE  /\ OneViewInv'
               /\ \/ \E c \in components : components' = {c \ {n}} \ {{}}
                  \/ components # {} /\ components' = {}
    <3>1. d \in Nodes /\ view[n] = view[d] /\ components = {view[d]}
      BY <2>4, TheComponent DEF GroupInv, HealthyPeers
    <3>2. ASSUME NEW m \in Nodes, Serving(m)'
          PROVE  view'[m] = view[d] \ {n} /\ view'[m] # {}
      <4>1. m # n /\ view[m] = view[d] /\ m \in view[m]
        BY <2>2, <3>2 DEF OneViewInv, HealthyPeers, Healthy, GroupInv, Serving, Member
      <4> QED
        BY <2>1, <3>1, <4>1
    <3>3. OneViewInv'
      BY <3>2 DEF OneViewInv, HealthyPeers, Healthy
    <3>4. CASE \A m \in Nodes : ~ Serving(m)'
      <4>1. components' = {}
        BY <3>4 DEF components
      <4> QED
        BY <3>1, <3>3, <4>1
    <3>5. CASE \E m \in Nodes : Serving(m)'
      <4>1. components' = {view[d] \ {n}} /\ view[d] \ {n} # {}
        BY <3>2, <3>5 DEF components
      <4>2. components' = {view[d] \ {n}} \ {{}}
        BY <4>1
      <4> QED
        BY <3>1, <3>3, <4>2
    <3> QED
      BY <3>4, <3>5
  <2>5. ASSUME NEW d \in HealthyPeers, n \notin view[d]
        PROVE  OneViewInv' /\ components' = components
    <3>1. ASSUME NEW m \in Nodes, Serving(m)
          PROVE  m # n /\ m \notin view[n]
      <4>1. view[m] = view[d] /\ m \in view[m]
        BY <3>1 DEF OneViewInv, HealthyPeers, Healthy, GroupInv, Serving, Member
      <4>2. m \in view[n] => view[m] = view[n] /\ n \in view[n]
        BY GroupsDisjoint DEF GroupInv
      <4> QED
        BY <2>5, <4>1, <4>2
    <3>2. \A m \in Nodes : Serving(m) => Serving(m)' /\ view'[m] = view[m]
      BY <2>1, <3>1 DEF Serving
    <3>3. \A m \in Nodes : Serving(m) <=> Serving(m)'
      BY <2>2, <3>2
    <3>4. components' = components
      BY <3>2, <3>3 DEF components
    <3>5. OneViewInv'
      BY <3>2, <3>3 DEF OneViewInv, HealthyPeers, Healthy
    <3> QED
      BY <3>4, <3>5
  <2> QED
    BY <2>3, <2>4, <2>5
<1>5. CASE GroupsStay
  <2>1. \A m \in Nodes : Serving(m)' <=> Serving(m)
    BY <1>5 DEF GroupsStay, Serving, Member
  <2> QED
    BY <1>5, <2>1 DEF GroupsStay, components, OneViewInv, HealthyPeers, Healthy
<1> QED
  BY <1>1, <1>2, <1>3, <1>4, <1>5, GroupSteps

-----------------------------------------------------------------------------
(* The theorems                                                              *)

Inv == TypeOK /\ PlaceInv /\ ProbeInv /\ GroupInv /\ ComponentInv

\* Nothing runs, and one node is authorised.
LEMMA InitInv == Init => Inv
<1> SUFFICES ASSUME Init PROVE Inv
  OBVIOUS
<1>1. TypeOK
  BY InitType
<1>2. PlaceInv /\ ProbeInv /\ GroupInv
  BY DEF Init, PlaceInv, ProbeInv, GroupInv, Member
<1>3. Authorised = {Bootstrapper} /\ HealthyPeers = {}
  BY BootstrapperAssumption
  DEF Init, Authorised, CurrentNodeState, HealthyPeers, Healthy, Serving
<1>4. ComponentInv
  BY <1>3 DEF Init, ComponentInv, AuthorityInv, AloneInv, OneViewInv, Deciding
<1> QED
  BY <1>1, <1>2, <1>4 DEF Inv

\* Inv is inductive.
LEMMA InvStep == Inv /\ [Next]_vars => Inv'
<1>1. ASSUME Inv, Next PROVE Inv'
  <2>1. PICK n \in Nodes : Launch(n) \/ GaleraInit(n) \/ Mysqld(n) \/ Environment(n)
    BY <1>1 DEF Next
  <2>2. History /\ SystemTypeOK /\ PlaceInv /\ ProbeInv /\ GroupInv /\ ComponentInv
    BY <1>1 DEF Next, Inv, TypeOK, SystemTypeOK
  <2>3. TypeOK' /\ PlaceInv' /\ ProbeInv' /\ GroupInv'
    BY <1>1, <2>1, <2>2, TypeStep, PlaceStep, ProbeStep, GroupStep DEF Inv
  <2>4. ASSUME ~ excused' PROVE AuthorityInv' /\ AloneInv' /\ OneViewInv'
    <3>1. AuthorityInv /\ AloneInv /\ OneViewInv
      BY <2>2, <2>4 DEF History, ComponentInv
    <3>2. AuthorityInv'
      BY <2>1, <2>2, <2>4, <3>1, OneAuthorised, AuthorityStays DEF AuthorityInv
    <3>3. AloneInv'
      BY <2>1, <2>2, <2>3, <2>4, <3>1, AloneStep
    <3>4. OneViewInv'
      BY <2>1, <2>2, <3>1, ComponentStep
    <3> QED
      BY <3>2, <3>3, <3>4
  <2> QED
    BY <2>3, <2>4 DEF Inv, ComponentInv
<1>2. ASSUME Inv, UNCHANGED vars PROVE Inv'
  <2>1. UNCHANGED <<at, k, file, db, view, primary, frozen, steady, unbroken, excused>>
    BY <1>2 DEF vars
  <2>2. TypeOK' /\ PlaceInv' /\ ProbeInv' /\ GroupInv'
    BY <1>2, <2>1, TypeStep DEF Inv, PlaceInv, ProbeInv, Remaining, GroupInv
  <2>3. Authorised' = Authorised /\ HealthyPeers' = HealthyPeers
    BY <2>1 DEF Authorised, CurrentNodeState, HealthyPeers, Healthy, Serving
  <2>4. ComponentInv'
    BY <1>2, <2>1, <2>3 DEF Inv, ComponentInv, AuthorityInv, AloneInv, OneViewInv
  <2> QED
    BY <2>2, <2>4 DEF Inv
<1> QED
  BY <1>1, <1>2

\* Inv holds throughout every behaviour of a deployment.
THEOREM Invariance == Spec => []Inv
BY InitInv, InvStep, PTL DEF Spec

\* A deployment keeps its types; the loop of HealthyCluster stays within the
\* list of addresses.
THEOREM TypeCorrect == Spec => []TypeOK
<1>1. Inv => TypeOK
  BY DEF Inv
<1> QED
  BY <1>1, Invariance, PTL

\* A node that bootstraps has overlooked no peer that was healthy during the
\* whole of its probing, however long the list of addresses is and whatever
\* happens to the peers in the meantime.
THEOREM NoSteadyPeerOverlooked == Spec => []SteadyPeerIsJoined
<1>1. Inv => SteadyPeerIsJoined
  BY DEF Inv, ProbeInv, SteadyPeerIsJoined
<1> QED
  BY <1>1, Invariance, PTL

\* Every step changes the components as PrimaryComponent allows.
LEMMA ComponentsStep == Inv /\ [Next]_vars => [Components!Next]_components
<1> SUFFICES ASSUME Inv, [Next]_vars PROVE components' = components \/ Components!Next
  OBVIOUS
<1>1. CASE excused
  BY <1>1 DEF Components!Next
<1>2. CASE ~ excused /\ Next
  <2>1. PICK n \in Nodes : Launch(n) \/ GaleraInit(n) \/ Mysqld(n) \/ Environment(n)
    BY <1>2 DEF Next
  <2>2. SystemTypeOK /\ PlaceInv /\ GroupInv /\ AuthorityInv /\ AloneInv /\ OneViewInv
    BY <1>2 DEF Inv, TypeOK, SystemTypeOK, ComponentInv
  <2>3. \/ components' = components
        \/ components = {} /\ components' = {{n}}
        \/ \E c \in components : components' = {c \cup {n}}
        \/ \E c \in components : components' = {c \ {n}} \ {{}}
        \/ components # {} /\ components' = {}
    BY <2>1, <2>2, ComponentStep
  <2> QED
    BY <2>3
    DEF components, Components!Next, Components!Form, Components!Join, Components!Leave,
        Components!Dissolve
<1>3. CASE UNCHANGED vars
  BY <1>3 DEF vars, components, Serving
<1> QED
  BY <1>1, <1>2, <1>3

\* Nobody serves at first.
LEMMA ComponentsInit == Init => Components!Init
BY DEF Init, Components!Init, Serving

\* The nodes implement one primary component: for any number of nodes, and
\* whatever crashes, is stopped, loses its disk or its probes, a node
\* bootstraps only where nobody serves, unless two nodes are authorised or the
\* healthy peers take turns during a probing.
THEOREM OnePrimaryComponent == Spec => OneComponent
BY ComponentsInit, ComponentsStep, Invariance, PTL
DEF Spec, OneComponent, Components!Spec, components

=============================================================================
