---------------------------- MODULE IntegrationSuite ----------------------------
(***************************************************************************)
(* integration_test/test_helpers/docker.go, and the set-up and clean-up of *)
(* the integration specs that use it: a network and the containers of a    *)
(* galera cluster, made by BeforeEach and removed by AfterEach.  A failed  *)
(* Expect ends the function it is in; ginkgo then runs the AfterEach of    *)
(* the containers of the spec it has entered.  The docker daemon may       *)
(* refuse a call, or do it although the reply is lost.                     *)
(***************************************************************************)
EXTENDS Naturals

CONSTANTS
  NumContainers,  \* containers of a spec
  MaxSpecs,       \* bound on the specs that are run
  MaxFaults       \* bound on the daemon's faults

ASSUME BoundsAssumption == {NumContainers, MaxSpecs} \subseteq Nat \ {0} /\ MaxFaults \in Nat

Containers == 0 .. NumContainers - 1

VARIABLES
  at,             \* the daemon call that comes next
  j,              \* the container it is about
  galeraNode,     \* the suite's references to its containers
  dockerNetwork,  \* and to its network
  container,      \* the containers of this spec's session, at the daemon
  network,        \* its network
  faults,         \* the daemon's faults so far
  specs,          \* the specs so far
  excuse          \* history: what a clean-up cannot do anything about

suiteVars == <<at, j, galeraNode, dockerNetwork>>
dockerVars == <<container, network>>
vars == <<suiteVars, dockerVars, faults, specs, excuse>>

TypeOK ==
  /\ at \in {"PullImage", "CreateNetwork", "CreateContainer", "StartContainer",
             "InspectContainer", "It", "RemoveContainer", "RemoveNetwork", "done", "aborted"}
  /\ j \in Containers
  /\ galeraNode \in [Containers -> {"nil", "old", "set"}]
  /\ dockerNetwork \in {"nil", "set"}
  /\ container \in [Containers -> {"absent", "created", "running", "exited"}]
  /\ network \in {"absent", "present"}
  /\ faults \in 0 .. MaxFaults
  /\ specs \in 1 .. MaxSpecs
  /\ excuse \subseteq {"lost reply", "failed removal"}

Init ==
  /\ at = "PullImage" /\ j = 0
  /\ galeraNode = [c \in Containers |-> "nil"]
  /\ dockerNetwork = "nil"
  /\ container = [c \in Containers |-> "absent"]
  /\ network = "absent"
  /\ faults = 0 /\ specs = 1 /\ excuse = {}

\* A call fails, and the daemon has done it nevertheless or not.
Fault(lost) ==
  /\ faults < MaxFaults
  /\ faults' = faults + 1
  /\ excuse' = IF lost THEN excuse \cup {"lost reply"} ELSE excuse

\* AfterEach of the spec's container, from the first galera node on.
CleanUp == at' = "RemoveContainer" /\ j' = 0

-----------------------------------------------------------------------------
(* BeforeSuite and BeforeEach                                                *)

\* Without the image no spec is run.
PullImage ==
  /\ at = "PullImage"
  /\ \/ at' = "CreateNetwork" /\ UNCHANGED <<faults, excuse>>
     \/ at' = "aborted" /\ Fault(FALSE)
  /\ UNCHANGED <<j, galeraNode, dockerNetwork, dockerVars, specs>>

\* With no network the spec's own container is not entered.
CreateNetwork ==
  /\ at = "CreateNetwork"
  /\ \/ /\ at' = "CreateContainer"
        /\ dockerNetwork' = "set" /\ network' = "present"
        /\ UNCHANGED <<faults, excuse>>
     \/ \E lost \in BOOLEAN :
          /\ Fault(lost)
          /\ at' = "RemoveNetwork"
          /\ dockerNetwork' = "nil"
          /\ network' = IF lost THEN "present" ELSE network
  /\ UNCHANGED <<j, galeraNode, container, specs>>

\* RunContainer, in three calls.  The first one that fails ends it; from the
\* second on the container is returned with the error.
CreateContainer ==
  /\ at = "CreateContainer"
  /\ \/ /\ at' = "StartContainer"
        /\ container' = [container EXCEPT ![j] = "created"]
        /\ UNCHANGED <<j, galeraNode, faults, excuse>>
     \/ \E lost \in BOOLEAN :
          /\ Fault(lost)
          /\ CleanUp
          /\ galeraNode' = [galeraNode EXCEPT ![j] = "nil"]
          /\ container' = [container EXCEPT ![j] = IF lost THEN "created" ELSE @]
  /\ UNCHANGED <<dockerNetwork, network, specs>>

\* Mutant: no container is returned with an error.
StartReturnsNil ==
  /\ at = "StartContainer"
  /\ \/ /\ at' = "InspectContainer"
        /\ container' = [container EXCEPT ![j] = "running"]
        /\ UNCHANGED <<j, galeraNode, faults, excuse>>
     \/ /\ Fault(FALSE)
        /\ CleanUp
        /\ galeraNode' = [galeraNode EXCEPT ![j] = "nil"]
        /\ UNCHANGED container
  /\ UNCHANGED <<dockerNetwork, network, specs>>

StartContainer ==
  /\ at = "StartContainer"
  /\ \/ /\ at' = "InspectContainer"
        /\ container' = [container EXCEPT ![j] = "running"]
        /\ UNCHANGED <<j, galeraNode, faults, excuse>>
     \/ \E lost \in BOOLEAN :
          /\ Fault(FALSE)
          /\ CleanUp
          /\ galeraNode' = [galeraNode EXCEPT ![j] = "set"]
          /\ container' = [container EXCEPT ![j] = IF lost THEN "running" ELSE @]
  /\ UNCHANGED <<dockerNetwork, network, specs>>

\* Mutant: one container too many.
InspectPastEnd ==
  /\ at = "InspectContainer"
  /\ galeraNode' = [galeraNode EXCEPT ![j] = "set"]
  /\ at' = "CreateContainer" /\ j' = j + 1
  /\ UNCHANGED <<dockerNetwork, dockerVars, faults, specs, excuse>>

\* BeforeEach goes on with the next container, unless galera-init does not
\* become healthy; for the last one the spec's body waits.
InspectContainer ==
  /\ at = "InspectContainer"
  /\ galeraNode' = [galeraNode EXCEPT ![j] = "set"]
  /\ \/ /\ IF j + 1 < NumContainers THEN at' = "CreateContainer" /\ j' = j + 1
                                    ELSE at' = "It" /\ UNCHANGED j
        /\ UNCHANGED <<faults, excuse>>
     \/ j + 1 < NumContainers /\ CleanUp /\ UNCHANGED <<faults, excuse>>
     \/ CleanUp /\ Fault(FALSE)
  /\ UNCHANGED <<dockerNetwork, dockerVars, specs>>

-----------------------------------------------------------------------------
(* It                                                                        *)

\* RunExec of a command that ends galera-init; an error of the exec, or of
\* looking at its result, ends the spec's body.
RunExec(c) ==
  \/ /\ container' = [container EXCEPT ![c] = "exited"]
     /\ UNCHANGED <<at, j, faults, excuse>>
  \/ /\ Fault(FALSE)
     /\ CleanUp
     /\ \E killed \in BOOLEAN :
          container' = [container EXCEPT ![c] = IF killed THEN "exited" ELSE @]

\* galera-init ends with its mysqld, and the container with galera-init.
HardKillMySQL(c) ==
  /\ at = "It"
  /\ container[c] = "running"
  /\ RunExec(c)
  /\ UNCHANGED <<galeraNode, dockerNetwork, network, specs>>

\* The spec's body ends, well or not.
ItEnds ==
  /\ at = "It"
  /\ CleanUp
  /\ UNCHANGED <<galeraNode, dockerNetwork, dockerVars, faults, specs, excuse>>

-----------------------------------------------------------------------------
(* AfterEach                                                                 *)

\* A container that does not exist counts as removed.  The first removal that
\* fails leaves the rest undone.
RemoveContainer ==
  /\ at = "RemoveContainer"
  /\ \/ /\ container' = [container EXCEPT ![j] =
                           IF galeraNode[j] = "set" THEN "absent" ELSE @]
        /\ IF j + 1 < NumContainers THEN j' = j + 1 /\ UNCHANGED at
                                    ELSE at' = "RemoveNetwork" /\ UNCHANGED j
        /\ UNCHANGED <<faults, excuse>>
     \/ /\ galeraNode[j] # "nil"
        /\ faults < MaxFaults /\ faults' = faults + 1
        /\ excuse' = excuse \cup {"failed removal"}
        /\ at' = "RemoveNetwork"
        /\ UNCHANGED <<j, container>>
  /\ UNCHANGED <<galeraNode, dockerNetwork, network, specs>>

\* Containers are created with the session's network.
InUse == \E c \in Containers : container[c] = "running"

\* The daemon refuses to remove a network that is in use.  With no network
\* AfterEach panics, which ginkgo counts as a failure.
RemoveNetwork ==
  /\ at = "RemoveNetwork"
  /\ at' = "done"
  /\ \/ /\ network' = IF dockerNetwork = "set" /\ ~ InUse THEN "absent" ELSE network
        /\ UNCHANGED <<faults, excuse>>
     \/ /\ dockerNetwork = "set"
        /\ faults < MaxFaults /\ faults' = faults + 1
        /\ excuse' = excuse \cup {"failed removal"}
        /\ UNCHANGED network
  /\ UNCHANGED <<j, galeraNode, dockerNetwork, container, specs>>

\* The next spec has a session, and names, of its own; the variables stay.
NextSpec ==
  /\ at = "done" /\ specs < MaxSpecs
  /\ at' = "CreateNetwork" /\ j' = 0
  /\ galeraNode' = [c \in Containers |-> IF galeraNode[c] = "set" THEN "old" ELSE galeraNode[c]]
  /\ container' = [c \in Containers |-> "absent"]
  /\ network' = "absent"
  /\ specs' = specs + 1
  /\ excuse' = {}
  /\ UNCHANGED <<dockerNetwork, faults>>

Next ==
  \/ PullImage \/ CreateNetwork \/ CreateContainer \/ StartContainer
  \/ InspectContainer \/ (\E c \in Containers : HardKillMySQL(c)) \/ ItEnds
  \/ RemoveContainer \/ RemoveNetwork \/ NextSpec

Spec == Init /\ [][Next]_vars

-----------------------------------------------------------------------------
(* Properties                                                                *)

\* Whichever call of RunContainer, of BeforeEach or of the spec's body fails,
\* a spec leaves neither a container nor a network behind; only a removal
\* that fails, or the lost reply to a creation, is an excuse.
NothingLeft ==
  at = "done" /\ excuse = {} =>
    network = "absent" /\ \A c \in Containers : container[c] = "absent"

=============================================================================
