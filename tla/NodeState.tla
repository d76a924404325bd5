------------------------------ MODULE NodeState ------------------------------
(***************************************************************************)
(* The state of one VM that runs galera-init: the galera-init processes    *)
(* (cmd/start), the mysqld processes they start, the files that survive a  *)
(* restart and the deployed configuration.  The packages of the repository *)
(* are modelled by the modules that extend this one:                       *)
(*    OsHelper <- DbHelper <- Upgrader, NodeStarter <- StartManager        *)
(* and GaleraInit (cmd/start/main.go) puts them together.                  *)
(***************************************************************************)
EXTENDS Naturals

CONSTANTS
  Inst,             \* galera-init processes that may exist at the same time
  Pid,              \* slots for mysqld processes (bounds the live ones)
  None,             \* no process
  PollingAttempts,  \* upgrader.DBReachablePollingAttempts (30 in the code)
  ClusterSizes,     \* possible values of len(ClusterIps)
  SeedPhases,       \* seeding phases whose part of the configuration is not empty
  DiskVersions,     \* LastUpgradedVersionFile of the data directory at first launch
  Faults            \* what the environment may do, see FaultKinds

(***************************************************************************)
(* kill      galera-init is killed by SIGKILL (monit, OOM killer)          *)
(* crash     mysqld ends on its own account                                *)
(* desync    a synced mysqld leaves the Synced state                       *)
(* io        starting a command, or opening, reading or writing a file,    *)
(*           fails                                                         *)
(* stat      os.Stat of an existing file fails                             *)
(* sql       mysql_upgrade or a seeding statement fails on a running mysqld *)
(* spurious  a probe or a shutdown request fails although mysqld serves    *)
(* accept    the status server's listener fails for good                   *)
(* redeploy  a new release or manifest is deployed                         *)
(* operator  the operator edits the state file                             *)
(***************************************************************************)
FaultKinds == {"kill", "crash", "desync", "io", "stat", "sql", "spurious",
               "accept", "redeploy", "operator"}

SeedingPhases == {"seedDatabases", "seedUsers", "runPostStartSQL"}

ASSUME ProcessAssumption == None \notin Inst /\ None \notin Pid
ASSUME PollingAssumption == PollingAttempts \in Nat \ {0}
ASSUME ConfigAssumption ==
  /\ ClusterSizes \subseteq Nat \ {0}   \* Config.Validate: ClusterIps nonzero
  /\ SeedPhases \subseteq SeedingPhases
  /\ DiskVersions \subseteq {"absent", "old", "current"}
  /\ Faults \subseteq FaultKinds

VARIABLES
  pc,            \* where main/Execute of a galera-init process is
  ctxDone,       \* its context is cancelled
  exit,          \* how it ended
  listener,      \* process that listens on GaleraInitStatusServerAddress
  nodeState,     \* currentState, then newNodeState, of Execute
  tries,         \* failed polls of waitUntilMySQLReachable
  upgradeErr,    \* how this process' mysql_upgrade ended
  cmd,           \* the mysqld command this process waits for
  ch,            \* the channel WaitForCommand made for it
  phase,         \* life cycle of a mysqld process
  mode,          \* how it was started
  stateFile, grastate, lastVersion,   \* the files, which survive a restart
  clusterSize, bootstrapNode          \* the deployed configuration

mainVars == <<ctxDone, exit, listener>>
startVars == <<nodeState, tries, upgradeErr>>
childVars == <<cmd, ch>>
procVars == <<phase, mode>>
diskVars == <<stateFile, grastate, lastVersion>>
deployVars == <<clusterSize, bootstrapNode>>
vars == <<pc, mainVars, startVars, childVars, procVars, diskVars, deployVars>>

-----------------------------------------------------------------------------
(* Program points.  A label names the call that is executed next.            *)

SetupPcs == {"NewConfig", "managerSetup"}
UpgradePcs == {"StartMysqldForUpgrade", "waitUntilMySQLReachable", "Upgrade",
               "stopStandaloneDatabase", "mysqldExitChan"}
PrologPcs == {"IsProcessRunning", "Shutdown", "NeedsUpgrade"}
DecidePcs == {"getCurrentNodeState", "StartNodeFromState", "HealthyCluster"}
GrastatePcs == {"readGrastate", "writeGrastate"}
StartPcs == {"StartMysqldInBootstrap", "StartMysqldInJoin"}
WaitPcs == {"waitForDatabase"} \cup SeedingPhases
RecordPcs == {"openStateFile", "writeStateFile", "statusServer"}
ServingPcs == {"select", "mysqldChan"}
ExecutePcs == PrologPcs \cup UpgradePcs \cup DecidePcs \cup GrastatePcs
                \cup StartPcs \cup WaitPcs \cup RecordPcs \cup ServingPcs

\* The states StartNodeFromState knows.
KnownStates == {"SINGLE_NODE", "NEEDS_BOOTSTRAP", "CLUSTERED"}

(***************************************************************************)
(* Contents of the state file.  "torn" stands for every text that          *)
(* StartNodeFromState does not know, first of all the empty or cut-off     *)
(* file an interrupted ioutil.WriteFile leaves; the padded text is one an  *)
(* operator types with a newline.                                          *)
(***************************************************************************)
Padded == "NEEDS_BOOTSTRAP\n"
StateFileContents == KnownStates \cup {Padded, "torn"}

\* Wait status of a mysqld process that has ended.
ExitStatus == {"exit0", "exitErr", "signaled"}
Live == {"booting", "serving", "synced", "stopping"}
Modes == {"upgrade", "bootstrap", "join"}

ExitCodes == {"none", "zero", "one", "mysqldStatus", "mysqldSignal",
              "panic", "killed"}

TypeOK ==
  /\ pc \in [Inst -> {"off"} \cup SetupPcs \cup ExecutePcs]
  /\ ctxDone \in [Inst -> BOOLEAN]
  /\ cmd \in [Inst -> Pid \cup {None}]
  /\ ch \in [Inst -> ExitStatus \cup {"empty"}]
  /\ nodeState \in [Inst -> StateFileContents]
  /\ tries \in [Inst -> 0 .. PollingAttempts - 1]
  /\ upgradeErr \in [Inst -> {"none", "ok", "accepted", "failed"}]
  /\ exit \in [Inst -> ExitCodes]
  /\ listener \in Inst \cup {None}
  /\ phase \in [Pid -> Live \cup ExitStatus \cup {"none"}]
  /\ mode \in [Pid -> Modes \cup {"none"}]
  /\ stateFile \in StateFileContents \cup {"absent"}
  /\ grastate \in {"absent", "0", "1", "torn"}
  /\ lastVersion \in {"absent", "old", "current"}
  /\ clusterSize \in ClusterSizes
  /\ bootstrapNode \in BOOLEAN

\* A VM on which galera-init has not run yet.
Init ==
  /\ pc = [i \in Inst |-> "off"]
  /\ ctxDone = [i \in Inst |-> FALSE]
  /\ cmd = [i \in Inst |-> None]
  /\ ch = [i \in Inst |-> "empty"]
  /\ nodeState = [i \in Inst |-> "torn"]   \* the empty string
  /\ tries = [i \in Inst |-> 0]
  /\ upgradeErr = [i \in Inst |-> "none"]
  /\ exit = [i \in Inst |-> "none"]
  /\ listener = None
  /\ phase = [p \in Pid |-> "none"]
  /\ mode = [p \in Pid |-> "none"]
  /\ stateFile = "absent"
  /\ grastate = "absent"
  /\ lastVersion \in DiskVersions
  /\ clusterSize \in ClusterSizes
  /\ bootstrapNode \in BOOLEAN

=============================================================================
