------------------------- MODULE IntegrationSuiteProofs -------------------------
(***************************************************************************)
(* The clean-up of the integration specs, for any number of containers, of *)
(* specs and of the daemon's faults.                                       *)
(***************************************************************************)
EXTENDS IntegrationSuite, TLAPS

\* A spec begins with nothing, and makes its containers one by one.
FreshInv ==
  /\ at \in {"PullImage", "CreateNetwork"} =>
       network = "absent" /\ \A c \in Containers : container[c] = "absent"
  /\ at \in {"CreateContainer", "StartContainer", "InspectContainer"} =>
       \A c \in Containers :
         c > j \/ (at = "CreateContainer" /\ c = j) => container[c] = "absent"

\* A network that exists is one the suite has a reference to, until it has
\* been removed.
NetworkInv ==
  /\ at \in {"CreateContainer", "StartContainer", "InspectContainer", "It",
             "RemoveContainer"} => dockerNetwork = "set"
  /\ at = "RemoveNetwork" /\ excuse = {} /\ network = "present" => dockerNetwork = "set"
  /\ at = "done" /\ excuse = {} => network = "absent"

\* A container that exists is one RunContainer is about to return, or one the
\* suite has a reference to and that AfterEach has not come to.
ReferenceInv ==
  excuse = {} => \A c \in Containers : container[c] # "absent" =>
    \/ at \in {"StartContainer", "InspectContainer"} /\ c = j
    \/ /\ galeraNode[c] = "set"
       /\ at \notin {"RemoveNetwork", "done"}
       /\ at = "RemoveContainer" => c >= j

Inv == TypeOK /\ FreshInv /\ NetworkInv /\ ReferenceInv

\* Containers are numbered from 0, and j + 1 is one of them until the last.
LEMMA ContainersFacts ==
  /\ NumContainers \in Nat /\ 0 \in Containers
  /\ \A c \in Containers : c \in Nat /\ c >= 0 /\ c < NumContainers
  /\ \A c \in Nat : c < NumContainers => c \in Containers
BY BoundsAssumption DEF Containers

\* A counter below its bound can be increased.
LEMMA CounterFacts ==
  ASSUME NEW m \in Nat, NEW a \in Nat, NEW f \in a .. m, f < m
  PROVE  f + 1 \in a .. m
OBVIOUS

\* A fault is counted, and is no excuse unless the reply to a creation is lost.
LEMMA FaultFacts ==
  ASSUME TypeOK, NEW lost \in BOOLEAN, Fault(lost)
  PROVE  /\ faults' \in 0 .. MaxFaults
         /\ excuse' \subseteq {"lost reply", "failed removal"}
         /\ excuse' = {} => excuse = {} /\ ~ lost
<1>1. faults \in 0 .. MaxFaults /\ excuse \subseteq {"lost reply", "failed removal"}
  BY DEF TypeOK
<1>2. faults' \in 0 .. MaxFaults
  <2>1. MaxFaults \in Nat /\ faults < MaxFaults /\ faults' = faults + 1
    BY BoundsAssumption DEF Fault
  <2>2. QED
    BY <1>1, <2>1, CounterFacts
<1>3. QED
  BY <1>1, <1>2 DEF Fault

\* At the start there is nothing.
LEMMA InitInv == Init => Inv
BY BoundsAssumption, ContainersFacts
   DEF Init, Inv, TypeOK, FreshInv, NetworkInv, ReferenceInv

\* Every step keeps the invariant.
LEMMA StepInv == Inv /\ [Next]_vars => Inv'
<1> SUFFICES ASSUME Inv, [Next]_vars
             PROVE  Inv'
  OBVIOUS
<1> USE ContainersFacts DEF Inv
<1>0. /\ j \in Containers /\ j \in Nat /\ (j + 1 < NumContainers => j + 1 \in Containers)
      /\ galeraNode \in [Containers -> {"nil", "old", "set"}]
      /\ container \in [Containers -> {"absent", "created", "running", "exited"}]
      /\ MaxFaults \in Nat /\ faults \in 0 .. MaxFaults
      /\ MaxSpecs \in Nat /\ specs \in 1 .. MaxSpecs
  <2>1. /\ j \in Containers
        /\ galeraNode \in [Containers -> {"nil", "old", "set"}]
        /\ container \in [Containers -> {"absent", "created", "running", "exited"}]
        /\ faults \in 0 .. MaxFaults /\ specs \in 1 .. MaxSpecs
    BY DEF TypeOK
  <2>2. MaxFaults \in Nat /\ MaxSpecs \in Nat
    BY BoundsAssumption
  <2>3. j \in Nat /\ (j + 1 < NumContainers => j + 1 \in Containers)
    BY <2>1
  <2>4. QED
    BY <2>1, <2>2, <2>3
<1>1. CASE PullImage
  <2>1. TypeOK'
    BY <1>0, <1>1, FaultFacts DEF PullImage, TypeOK, dockerVars
  <2>2. FreshInv'
    BY <1>0, <1>1 DEF PullImage, FreshInv, dockerVars
  <2>3. NetworkInv'
    BY <1>0, <1>1, FaultFacts DEF PullImage, NetworkInv, FreshInv, dockerVars
  <2>4. ReferenceInv'
    BY <1>0, <1>1, FaultFacts DEF PullImage, ReferenceInv, FreshInv, dockerVars
  <2>5. QED
    BY <2>1, <2>2, <2>3, <2>4
<1>2. CASE CreateNetwork
  <2>1. TypeOK'
    BY <1>0, <1>2, FaultFacts DEF CreateNetwork, TypeOK
  <2>2. FreshInv'
    BY <1>0, <1>2 DEF CreateNetwork, FreshInv
  <2>3. NetworkInv'
    BY <1>0, <1>2, FaultFacts DEF CreateNetwork, NetworkInv, FreshInv
  <2>4. ReferenceInv'
    BY <1>0, <1>2, FaultFacts DEF CreateNetwork, ReferenceInv, FreshInv
  <2>5. QED
    BY <2>1, <2>2, <2>3, <2>4
<1>3. CASE CreateContainer
  <2>1. CASE /\ at' = "StartContainer"
             /\ container' = [container EXCEPT ![j] = "created"]
             /\ UNCHANGED <<j, galeraNode, faults, excuse>>
    <3>1. TypeOK'
      BY <1>0, <1>3, <2>1 DEF CreateContainer, TypeOK
    <3>2. FreshInv'
      BY <1>0, <1>3, <2>1 DEF CreateContainer, FreshInv
    <3>3. NetworkInv' /\ ReferenceInv'
      BY <1>0, <1>3, <2>1 DEF CreateContainer, NetworkInv, ReferenceInv
    <3>4. QED
      BY <3>1, <3>2, <3>3
  <2>2. ASSUME NEW lost \in BOOLEAN, Fault(lost), CleanUp,
               galeraNode' = [galeraNode EXCEPT ![j] = "nil"],
               container' = [container EXCEPT ![j] = IF lost THEN "created" ELSE @]
        PROVE  Inv'
    <3>1. TypeOK'
      BY <1>0, <1>3, <2>2, FaultFacts DEF CreateContainer, CleanUp, TypeOK
    <3>2. FreshInv' /\ NetworkInv'
      BY <1>0, <1>3, <2>2 DEF CreateContainer, CleanUp, FreshInv, NetworkInv
    <3>3. ASSUME excuse' = {}, NEW c \in Containers, container'[c] # "absent"
          PROVE  galeraNode'[c] = "set" /\ c >= j'
      <4>1. excuse = {} /\ container' = container /\ container[j] = "absent"
        BY <1>0, <1>3, <2>2, <3>3, FaultFacts DEF CreateContainer, FreshInv
      <4>2. galeraNode[c] = "set" /\ c # j
        BY <1>3, <3>3, <4>1 DEF CreateContainer, ReferenceInv
      <4>3. QED
        BY <1>0, <2>2, <4>2 DEF CleanUp
    <3>4. ReferenceInv'
      BY <2>2, <3>3 DEF CleanUp, ReferenceInv
    <3>5. QED
      BY <3>1, <3>2, <3>4
  <2>3. QED
    BY <1>3, <2>1, <2>2 DEF CreateContainer
<1>4. CASE StartContainer
  <2>1. CASE /\ at' = "InspectContainer"
             /\ container' = [container EXCEPT ![j] = "running"]
             /\ UNCHANGED <<j, galeraNode, faults, excuse>>
    <3>1. TypeOK'
      BY <1>0, <1>4, <2>1 DEF StartContainer, TypeOK
    <3>2. FreshInv'
      BY <1>0, <1>4, <2>1 DEF StartContainer, FreshInv
    <3>3. NetworkInv' /\ ReferenceInv'
      BY <1>0, <1>4, <2>1 DEF StartContainer, NetworkInv, ReferenceInv
    <3>4. QED
      BY <3>1, <3>2, <3>3
  <2>2. ASSUME NEW lost \in BOOLEAN, Fault(FALSE), CleanUp,
               galeraNode' = [galeraNode EXCEPT ![j] = "set"],
               container' = [container EXCEPT ![j] = IF lost THEN "running" ELSE @]
        PROVE  Inv'
    <3>1. TypeOK'
      BY <1>0, <1>4, <2>2, FaultFacts DEF StartContainer, CleanUp, TypeOK
    <3>2. FreshInv' /\ NetworkInv'
      BY <1>0, <1>4, <2>2 DEF StartContainer, CleanUp, FreshInv, NetworkInv
    <3>3. ASSUME excuse' = {}, NEW c \in Containers, container'[c] # "absent"
          PROVE  galeraNode'[c] = "set" /\ c >= j'
      <4>1. excuse = {}
        BY <2>2, <3>3, FaultFacts
      <4>2. c = j \/ galeraNode[c] = "set"
        BY <1>0, <1>4, <2>2, <3>3, <4>1 DEF StartContainer, ReferenceInv
      <4>3. QED
        BY <1>0, <2>2, <4>2 DEF CleanUp
    <3>4. ReferenceInv'
      BY <2>2, <3>3 DEF CleanUp, ReferenceInv
    <3>5. QED
      BY <3>1, <3>2, <3>4
  <2>3. QED
    BY <1>4, <2>1, <2>2 DEF StartContainer
<1>5. CASE InspectContainer
  <2>0. /\ at = "InspectContainer" /\ galeraNode' = [galeraNode EXCEPT ![j] = "set"]
        /\ container' = container /\ network' = network /\ dockerNetwork' = dockerNetwork
        /\ specs' = specs
    BY <1>5 DEF InspectContainer, dockerVars
  <2>1. ASSUME excuse' = {} => excuse = {}, NEW c \in Containers, excuse' = {},
               container'[c] # "absent"
        PROVE  galeraNode'[c] = "set"
    BY <1>0, <2>0, <2>1 DEF ReferenceInv
  <2>2. CASE /\ j + 1 < NumContainers /\ at' = "CreateContainer" /\ j' = j + 1
             /\ UNCHANGED <<faults, excuse>>
    <3>1. j' \in Containers
      BY <1>0, <2>2
    <3>2. TypeOK'
      BY <1>0, <2>0, <2>2, <3>1 DEF TypeOK
    <3>3. FreshInv'
      BY <1>0, <2>0, <2>2, <3>1 DEF FreshInv
    <3>4. NetworkInv' /\ ReferenceInv'
      BY <2>0, <2>1, <2>2 DEF NetworkInv, ReferenceInv
    <3>5. QED
      BY <3>2, <3>3, <3>4
  <2>3. CASE at' = "It" /\ UNCHANGED <<j, faults, excuse>>
    <3>1. TypeOK'
      BY <1>0, <2>0, <2>3 DEF TypeOK
    <3>2. FreshInv' /\ NetworkInv' /\ ReferenceInv'
      BY <2>0, <2>1, <2>3 DEF FreshInv, NetworkInv, ReferenceInv
    <3>3. QED
      BY <3>1, <3>2
  <2>4. CASE CleanUp /\ (UNCHANGED <<faults, excuse>> \/ Fault(FALSE))
    <3>1. /\ excuse' = {} => excuse = {}
          /\ faults' \in 0 .. MaxFaults /\ excuse' \subseteq {"lost reply", "failed removal"}
      BY <2>4, FaultFacts DEF TypeOK
    <3>2. TypeOK'
      BY <1>0, <2>0, <2>4, <3>1 DEF TypeOK, CleanUp
    <3>3. FreshInv' /\ NetworkInv' /\ ReferenceInv'
      BY <2>0, <2>1, <2>4, <3>1 DEF CleanUp, FreshInv, NetworkInv, ReferenceInv
    <3>4. QED
      BY <3>2, <3>3
  <2>5. QED
    BY <1>5, <2>2, <2>3, <2>4 DEF InspectContainer
<1>6. ASSUME NEW c0 \in Containers, HardKillMySQL(c0)
      PROVE  Inv'
  <2>1. TypeOK'
    BY <1>0, <1>6, FaultFacts
       DEF HardKillMySQL, RunExec, CleanUp, TypeOK, suiteVars, dockerVars
  <2>2. FreshInv'
    BY <1>0, <1>6 DEF HardKillMySQL, RunExec, CleanUp, FreshInv, dockerVars
  <2>3. NetworkInv'
    BY <1>0, <1>6, FaultFacts
       DEF HardKillMySQL, RunExec, CleanUp, NetworkInv, FreshInv, dockerVars
  <2>4. ReferenceInv'
    BY <1>0, <1>6, FaultFacts
       DEF HardKillMySQL, RunExec, CleanUp, ReferenceInv, FreshInv, dockerVars
  <2>5. QED
    BY <2>1, <2>2, <2>3, <2>4
<1>7. CASE ItEnds
  <2>1. TypeOK'
    BY <1>0, <1>7 DEF ItEnds, CleanUp, TypeOK, suiteVars, dockerVars
  <2>2. FreshInv'
    BY <1>0, <1>7 DEF ItEnds, CleanUp, FreshInv, dockerVars
  <2>3. NetworkInv'
    BY <1>0, <1>7 DEF ItEnds, CleanUp, NetworkInv, FreshInv, dockerVars
  <2>4. ReferenceInv'
    BY <1>0, <1>7 DEF ItEnds, CleanUp, ReferenceInv, FreshInv, dockerVars
  <2>5. QED
    BY <2>1, <2>2, <2>3, <2>4
<1>8. CASE RemoveContainer
  <2>0. /\ at = "RemoveContainer" /\ galeraNode' = galeraNode /\ network' = network
        /\ dockerNetwork' = dockerNetwork /\ dockerNetwork = "set" /\ specs' = specs
    BY <1>8 DEF RemoveContainer, NetworkInv
  <2>1. CASE /\ container' = [container EXCEPT ![j] =
                               IF galeraNode[j] = "set" THEN "absent" ELSE @]
             /\ IF j + 1 < NumContainers THEN j' = j + 1 /\ UNCHANGED at
                                         ELSE at' = "RemoveNetwork" /\ UNCHANGED j
             /\ UNCHANGED <<faults, excuse>>
    <3>1. /\ j' \in Containers /\ at' \in {"RemoveContainer", "RemoveNetwork"}
          /\ container' \in [Containers -> {"absent", "created", "running", "exited"}]
      BY <1>0, <2>0, <2>1
    <3>2. TypeOK'
      BY <2>0, <2>1, <3>1 DEF TypeOK
    <3>3. FreshInv' /\ NetworkInv'
      BY <2>0, <3>1 DEF FreshInv, NetworkInv
    <3>4. ASSUME excuse' = {}, NEW c \in Containers, container'[c] # "absent"
          PROVE  galeraNode[c] = "set" /\ c > j
      <4>1. c # j
        BY <1>0, <2>0, <2>1, <3>4 DEF ReferenceInv
      <4>2. container[c] # "absent"
        BY <1>0, <2>1, <3>4, <4>1
      <4>3. galeraNode[c] = "set" /\ c >= j
        BY <2>0, <2>1, <3>4, <4>2 DEF ReferenceInv
      <4>4. QED
        BY <1>0, <4>1, <4>3
    <3>5. ReferenceInv'
      <4>1. CASE j + 1 < NumContainers
        BY <1>0, <2>0, <2>1, <3>4, <4>1 DEF ReferenceInv
      <4>2. CASE ~(j + 1 < NumContainers)
        <5>1. \A c \in Containers : ~(c > j)
          BY <1>0, <4>2
        <5>2. QED
          BY <3>4, <5>1 DEF ReferenceInv
      <4>3. QED
        BY <4>1, <4>2
    <3>6. QED
      BY <3>2, <3>3, <3>5
  <2>2. CASE /\ faults < MaxFaults /\ faults' = faults + 1
             /\ excuse' = excuse \cup {"failed removal"}
             /\ at' = "RemoveNetwork"
             /\ UNCHANGED <<j, container>>
    <3>1. faults' \in 0 .. MaxFaults
      BY <1>0, <2>2, CounterFacts
    <3>2. TypeOK'
      BY <2>0, <2>2, <3>1 DEF TypeOK
    <3>3. FreshInv' /\ NetworkInv' /\ ReferenceInv'
      BY <2>0, <2>2 DEF FreshInv, NetworkInv, ReferenceInv
    <3>4. QED
      BY <3>2, <3>3
  <2>3. QED
    BY <1>8, <2>1, <2>2 DEF RemoveContainer
<1>9. CASE RemoveNetwork
  <2>0. /\ at = "RemoveNetwork" /\ at' = "done" /\ j' = j /\ galeraNode' = galeraNode
        /\ dockerNetwork' = dockerNetwork /\ container' = container /\ specs' = specs
    BY <1>9 DEF RemoveNetwork
  <2>1. CASE /\ network' = IF dockerNetwork = "set" /\ ~ InUse THEN "absent" ELSE network
             /\ UNCHANGED <<faults, excuse>>
    <3>1. TypeOK' /\ FreshInv' /\ ReferenceInv'
      BY <2>0, <2>1 DEF TypeOK, FreshInv, ReferenceInv
    <3>2. excuse = {} => ~ InUse
      BY <2>0 DEF ReferenceInv, InUse
    <3>3. NetworkInv'
      BY <2>0, <2>1, <3>2 DEF NetworkInv, TypeOK
    <3>4. QED
      BY <3>1, <3>3
  <2>2. CASE /\ faults < MaxFaults /\ faults' = faults + 1
             /\ excuse' = excuse \cup {"failed removal"}
             /\ UNCHANGED network
    <3>1. faults' \in 0 .. MaxFaults
      BY <1>0, <2>2, CounterFacts
    <3>2. TypeOK'
      BY <2>0, <2>2, <3>1 DEF TypeOK
    <3>3. FreshInv' /\ NetworkInv' /\ ReferenceInv'
      BY <2>0, <2>2 DEF FreshInv, NetworkInv, ReferenceInv
    <3>4. QED
      BY <3>2, <3>3
  <2>3. QED
    BY <1>9, <2>1, <2>2 DEF RemoveNetwork
<1>10. CASE NextSpec
  <2>1. specs' \in 1 .. MaxSpecs
    <3>1. specs < MaxSpecs /\ specs' = specs + 1
      BY <1>10 DEF NextSpec
    <3>2. QED
      BY <1>0, <3>1, CounterFacts
  <2>2. galeraNode' \in [Containers -> {"nil", "old", "set"}]
    BY <1>0, <1>10 DEF NextSpec
  <2>3. TypeOK'
    BY <1>10, <2>1, <2>2 DEF NextSpec, TypeOK
  <2>4. FreshInv' /\ NetworkInv' /\ ReferenceInv'
    BY <1>10 DEF NextSpec, FreshInv, NetworkInv, ReferenceInv
  <2>5. QED
    BY <2>3, <2>4
<1>11. CASE UNCHANGED vars
  BY <1>11 DEF vars, suiteVars, dockerVars, TypeOK, FreshInv, NetworkInv, ReferenceInv
<1>12. QED
  BY <1>1, <1>2, <1>3, <1>4, <1>5, <1>6, <1>7, <1>8, <1>9, <1>10, <1>11 DEF Next

-----------------------------------------------------------------------------
(* The theorems                                                              *)

\* A container or a network that exists is within the clean-up's reach.
THEOREM Invariance == Spec => []Inv
BY InitInv, StepInv, PTL DEF Spec

\* The loops over the containers stay within them, and the daemon's faults
\* within their bound.
THEOREM TypeCorrect == Spec => []TypeOK
<1>1. Inv => TypeOK
  BY DEF Inv
<1>2. QED
  BY Invariance, <1>1, PTL

\* Whichever call of RunContainer, of BeforeEach or of the spec's body fails,
\* a spec leaves nothing behind; a removal that fails, and the lost reply to
\* a creation, are the only excuses.
THEOREM SpecsCleanUp == Spec => []NothingLeft
<1>1. Inv => NothingLeft
  BY DEF Inv, NetworkInv, ReferenceInv, NothingLeft
<1>2. QED
  BY Invariance, <1>1, PTL

=============================================================================
