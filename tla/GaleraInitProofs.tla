--------------------------- MODULE GaleraInitProofs ---------------------------
(***************************************************************************)
(* Theorems about GaleraInit, for any number of galera-init and mysqld     *)
(* processes and every choice of the other constants.                      *)
(***************************************************************************)
EXTENDS GaleraInit, TLAPS

USE DEF SetupPcs, PrologPcs, UpgradePcs, DecidePcs, GrastatePcs, StartPcs, WaitPcs,
        SeedingPhases, RecordPcs, ServingPcs, ExecutePcs

-----------------------------------------------------------------------------
(* Type correctness                                                          *)

\* Ending a galera-init process leaves every variable in its type.
LEMMA TerminateType ==
  ASSUME TypeOK, NEW i \in Inst, NEW code \in ExitCodes,
         Terminate(i, code), UNCHANGED diskVars
  PROVE  TypeOK'
BY ProcessAssumption, PollingAssumption
DEF TypeOK, Terminate, diskVars, deployVars, ExitStatus, StateFileContents

\* The state getCurrentNodeState computes is one a state file may hold.
LEMMA CurrentNodeStateType ==
  ASSUME TypeOK, NEW state \in CurrentNodeState
  PROVE  state \in StateFileContents
BY DEF TypeOK, CurrentNodeState, TrimSpace, StateFileContents, KnownStates, Padded,
       FileExists

\* The upgrader keeps the types; the poll counter is raised below its bound
\* only.
LEMMA UpgraderType ==
  ASSUME TypeOK, NEW i \in Inst, UpgraderStep(i)
  PROVE  TypeOK'
<1> USE ProcessAssumption, PollingAssumption
<1>1. CASE NeedsUpgrade(i)
  BY <1>1, TerminateType
  DEF NeedsUpgrade, Goto, Fail, TypeOK, ExitCodes,
      mainVars, startVars, childVars, procVars, diskVars, deployVars
<1>2. CASE StartForUpgrade(i)
  BY <1>2, TerminateType
  DEF StartForUpgrade, StartMysqldForUpgrade, StartCommand, Goto, Fail, TypeOK, ExitCodes,
      mainVars, startVars, childVars, procVars, diskVars, deployVars, Modes, Live
<1>3. CASE WaitUntilMySQLReachable(i)
  BY <1>3, TerminateType
  DEF WaitUntilMySQLReachable, Goto, Fail, TypeOK, ExitCodes,
      mainVars, startVars, childVars, procVars, diskVars, deployVars
<1>4. CASE RunUpgrade(i)
  BY <1>4
  DEF RunUpgrade, Upgrade, Goto, TypeOK,
      mainVars, startVars, childVars, procVars, diskVars, deployVars
<1>5. CASE StopStandaloneDatabase(i)
  BY <1>5, TerminateType
  DEF StopStandaloneDatabase, StopMysqld, Goto, TypeOK, ExitCodes, Live,
      mainVars, startVars, childVars, procVars, diskVars, deployVars
<1>6. CASE MysqldExitChan(i)
  BY <1>6, TerminateType
  DEF MysqldExitChan, Goto, Fail, TypeOK, ExitCodes,
      mainVars, startVars, childVars, procVars, diskVars, deployVars
<1>7. QED
  BY <1>1, <1>2, <1>3, <1>4, <1>5, <1>6 DEF UpgraderStep

\* The node starter keeps the types.
LEMMA NodeStarterType ==
  ASSUME TypeOK, NEW i \in Inst, NodeStarterStep(i)
  PROVE  TypeOK'
<1> USE ProcessAssumption, PollingAssumption
<1>1. CASE StartNodeFromState(i)
  BY <1>1, TerminateType
  DEF StartNodeFromState, Goto, Fail, TypeOK, ExitCodes, StateFileContents, KnownStates,
      mainVars, startVars, childVars, procVars, diskVars, deployVars
<1>2. CASE HealthyCluster(i)
  BY <1>2
  DEF HealthyCluster, Goto, TypeOK,
      mainVars, startVars, childVars, procVars, diskVars, deployVars
<1>3. CASE ReadGrastate(i)
  BY <1>3, TerminateType
  DEF ReadGrastate, Goto, Fail, TypeOK, ExitCodes,
      mainVars, startVars, childVars, procVars, diskVars, deployVars
<1>4. CASE WriteGrastate(i)
  BY <1>4, TerminateType
  DEF WriteGrastate, Goto, Fail, TypeOK, ExitCodes,
      mainVars, startVars, childVars, procVars, diskVars, deployVars
<1>5. CASE BootstrapNode(i)
  BY <1>5, TerminateType
  DEF BootstrapNode, StartMysqldInBootstrap, StartCommand, Goto, Fail, TypeOK, ExitCodes,
      mainVars, startVars, childVars, procVars, diskVars, deployVars, Modes, Live
<1>6. CASE JoinCluster(i)
  BY <1>6, TerminateType
  DEF JoinCluster, StartMysqldInJoin, StartCommand, Goto, Fail, TypeOK, ExitCodes,
      mainVars, startVars, childVars, procVars, diskVars, deployVars, Modes, Live
<1>7. CASE WaitForDatabase(i)
  BY <1>7, TerminateType
  DEF WaitForDatabase, Goto, Fail, TypeOK, ExitCodes,
      mainVars, startVars, childVars, procVars, diskVars, deployVars
<1>8. CASE SeedPhase(i)
  BY <1>8, TerminateType
  DEF SeedPhase, AfterSeeding, Goto, Fail, TypeOK, ExitCodes,
      mainVars, startVars, childVars, procVars, diskVars, deployVars
<1>9. QED
  BY <1>1, <1>2, <1>3, <1>4, <1>5, <1>6, <1>7, <1>8 DEF NodeStarterStep

\* The start manager keeps the types.
LEMMA ExecuteType ==
  ASSUME TypeOK, NEW i \in Inst, Execute(i)
  PROVE  TypeOK'
<1> USE ProcessAssumption, PollingAssumption
<1>1. CASE CheckProcessRunning(i)
  BY <1>1
  DEF CheckProcessRunning, Goto, TypeOK,
      mainVars, startVars, childVars, procVars, diskVars, deployVars
<1>2. CASE Shutdown(i)
  BY <1>2, TerminateType
  DEF Shutdown, StopMysqld, Goto, TypeOK, ExitCodes, Live,
      mainVars, startVars, childVars, procVars, diskVars, deployVars
<1>3. CASE GetCurrentNodeState(i)
  BY <1>3, TerminateType, CurrentNodeStateType
  DEF GetCurrentNodeState, Goto, Fail, TypeOK, ExitCodes,
      mainVars, startVars, childVars, procVars, diskVars, deployVars
<1>4. CASE OpenStateFile(i)
  BY <1>4, TerminateType
  DEF OpenStateFile, Goto, Fail, TypeOK, ExitCodes, StateFileContents,
      mainVars, startVars, childVars, procVars, diskVars, deployVars
<1>5. CASE WriteStateFile(i)
  BY <1>5, TerminateType
  DEF WriteStateFile, Goto, Fail, TypeOK, ExitCodes,
      mainVars, startVars, childVars, procVars, diskVars, deployVars
<1>6. CASE StatusServerStart(i)
  BY <1>6
  DEF StatusServerStart, Goto, TypeOK,
      mainVars, startVars, childVars, procVars, diskVars, deployVars
<1>7. CASE MysqldExited(i)
  BY <1>7, TerminateType
  DEF MysqldExited, ExitCode, TypeOK, ExitStatus, ExitCodes
<1>8. CASE ForwardSigterm(i)
  BY <1>8, TerminateType
  DEF ForwardSigterm, KillCommand, KillCommandFails, Goto, Fail, TypeOK, ExitCodes, Live,
      mainVars, startVars, childVars, procVars, diskVars, deployVars
<1>9. QED
  BY <1>1, <1>2, <1>3, <1>4, <1>5, <1>6, <1>7, <1>8, UpgraderType, NodeStarterType
  DEF Execute

\* A galera-init process keeps the types, from its launch to its end.
LEMMA ProcessType ==
  ASSUME TypeOK, NEW i \in Inst, Process(i)
  PROVE  TypeOK'
<1> USE ProcessAssumption, PollingAssumption
<1>1. CASE Launch(i)
  BY <1>1
  DEF Launch, Goto, TypeOK, ExitCodes,
      startVars, childVars, procVars, diskVars, deployVars
<1>2. CASE LoadConfig(i)
  BY <1>2, TerminateType
  DEF LoadConfig, Goto, TypeOK, ExitCodes,
      mainVars, startVars, childVars, procVars, diskVars, deployVars
<1>3. CASE ManagerSetup(i)
  BY <1>3, TerminateType
  DEF ManagerSetup, Goto, Fail, TypeOK, ExitCodes,
      startVars, childVars, procVars, diskVars, deployVars
<1>4. CASE WaitForCommand(i)
  BY <1>4
  DEF WaitForCommand, TypeOK,
      mainVars, startVars, procVars, diskVars, deployVars
<1>5. CASE StatusServerFatal(i)
  BY <1>5, TerminateType DEF StatusServerFatal, ExitCodes
<1>6. CASE Sigterm(i)
  <2>1. CASE pc[i] = "NewConfig"
    BY <1>6, <2>1, TerminateType DEF Sigterm, ExitCodes
  <2>2. CASE pc[i] # "NewConfig"
    BY <1>6, <2>2
    DEF Sigterm, TypeOK, startVars, childVars, procVars, diskVars, deployVars
  <2>3. QED
    BY <2>1, <2>2
<1>7. CASE Sigkill(i)
  BY <1>7, TerminateType DEF Sigkill, ExitCodes
<1>8. QED
  BY <1>1, <1>2, <1>3, <1>4, <1>5, <1>6, <1>7, ExecuteType DEF Process, Code

\* mysqld keeps the types.
LEMMA MysqldType ==
  ASSUME TypeOK, NEW p \in Pid, Mysqld(p)
  PROVE  TypeOK'
<1>1. CASE WritesGrastate(p)
  BY <1>1
  DEF WritesGrastate, TypeOK,
      mainVars, startVars, childVars, procVars, deployVars
<1>2. CASE Opens(p) \/ Syncs(p) \/ Desyncs(p)
  BY <1>2
  DEF Opens, Syncs, Desyncs, Becomes, TypeOK, Live,
      mainVars, startVars, childVars, diskVars, deployVars
<1>3. CASE Refused(p) \/ Stops(p) \/ Crashes(p)
  BY <1>3
  DEF Refused, Stops, Crashes, Ends, TypeOK, ExitStatus,
      mainVars, startVars, childVars, diskVars, deployVars
<1>4. QED
  BY <1>1, <1>2, <1>3 DEF Mysqld

\* So does every step.
LEMMA TypeStep == TypeOK /\ [Next]_vars => TypeOK'
<1> SUFFICES ASSUME TypeOK, [Next]_vars PROVE TypeOK'
  OBVIOUS
<1>1. CASE Redeploy
  BY <1>1
  DEF Redeploy, TypeOK, mainVars, startVars, childVars, procVars
<1>2. CASE OperatorWrites
  BY <1>2
  DEF OperatorWrites, TypeOK, StateFileContents, KnownStates,
      mainVars, startVars, childVars, procVars, deployVars
<1>3. CASE UNCHANGED vars
  BY <1>3
  DEF TypeOK, vars, mainVars, startVars, childVars, procVars, diskVars, deployVars
<1>4. QED
  BY <1>1, <1>2, <1>3, ProcessType, MysqldType DEF Next

\* A node starts with its types.
LEMMA TypeInit == Init => TypeOK
BY PollingAssumption, ConfigAssumption
DEF Init, TypeOK, StateFileContents, ExitCodes

\* Every variable of the model keeps its type; above all the poll counter of
\* waitUntilMySQLReachable stays below DBReachablePollingAttempts and what
\* writeStringToFile writes is a state-file text.
THEOREM TypeCorrect == Spec => []TypeOK
BY TypeInit, TypeStep, PTL DEF Spec

-----------------------------------------------------------------------------
(* The inductive invariant                                                   *)

SafetyInv == LockInv /\ ChildInv /\ DecisionInv /\ VersionInv

USE DEF ChildPcs, DecidedPcs, UpgradedPcs

\* Ending a process: it gives up the socket and its child, and nobody else
\* shares either with it.
LEMMA TerminateInv ==
  ASSUME Inv, NEW i \in Inst, NEW code, Terminate(i, code), UNCHANGED diskVars
  PROVE  SafetyInv'
BY ProcessAssumption
DEF Inv, TypeOK, LockInv, ChildInv, DecisionInv, VersionInv, SafetyInv,
    Terminate, diskVars, deployVars

\* The upgrader keeps mysql_upgrade's result over the shutdown of its mysqld.
LEMMA UpgraderInv ==
  ASSUME Inv, NEW i \in Inst, UpgraderStep(i)
  PROVE  SafetyInv'
<1> USE ProcessAssumption
<1>1. CASE NeedsUpgrade(i)
  BY <1>1, TerminateInv
  DEF NeedsUpgrade, Goto, Fail, 
      Inv, TypeOK, LockInv, ChildInv, DecisionInv, VersionInv, SafetyInv,
      mainVars, startVars, childVars, procVars, diskVars, deployVars
<1>2. CASE StartForUpgrade(i)
  BY <1>2, TerminateInv
  DEF StartForUpgrade, StartMysqldForUpgrade, StartCommand, Free, Owned, Goto, Fail, 
      Inv, TypeOK, LockInv, ChildInv, DecisionInv, VersionInv, SafetyInv,
      mainVars, startVars, childVars, procVars, diskVars, deployVars
<1>3. CASE WaitUntilMySQLReachable(i)
  BY <1>3, TerminateInv
  DEF WaitUntilMySQLReachable, Goto, Fail, 
      Inv, TypeOK, LockInv, ChildInv, DecisionInv, VersionInv, SafetyInv,
      mainVars, startVars, childVars, procVars, diskVars, deployVars
<1>4. CASE RunUpgrade(i)
  BY <1>4
  DEF RunUpgrade, Upgrade, Goto, 
      Inv, TypeOK, LockInv, ChildInv, DecisionInv, VersionInv, SafetyInv,
      mainVars, startVars, childVars, procVars, diskVars, deployVars
<1>5. CASE StopStandaloneDatabase(i)
  BY <1>5, TerminateInv
  DEF StopStandaloneDatabase, StopMysqld, Serves, Goto, 
      Inv, TypeOK, LockInv, ChildInv, DecisionInv, VersionInv, SafetyInv,
      mainVars, startVars, childVars, procVars, diskVars, deployVars
<1>6. CASE MysqldExitChan(i)
  BY <1>6, TerminateInv
  DEF MysqldExitChan, Goto, Fail, 
      Inv, TypeOK, LockInv, ChildInv, DecisionInv, VersionInv, SafetyInv,
      mainVars, startVars, childVars, procVars, diskVars, deployVars
<1>7. QED
  BY <1>1, <1>2, <1>3, <1>4, <1>5, <1>6 DEF UpgraderStep

\* The node starter has a child once it has started one, and a fitting state to
\* return.
LEMMA NodeStarterInv ==
  ASSUME Inv, NEW i \in Inst, NodeStarterStep(i)
  PROVE  SafetyInv'
<1> USE ProcessAssumption
<1>1. CASE StartNodeFromState(i)
  BY <1>1, TerminateInv
  DEF StartNodeFromState, KnownStates, Goto, Fail,
      Inv, TypeOK, LockInv, ChildInv, DecisionInv, VersionInv, SafetyInv,
      mainVars, startVars, childVars, procVars, diskVars, deployVars
<1>2. CASE HealthyCluster(i)
  BY <1>2
  DEF HealthyCluster, Goto,
      Inv, TypeOK, LockInv, ChildInv, DecisionInv, VersionInv, SafetyInv,
      mainVars, startVars, childVars, procVars, diskVars, deployVars
<1>3. CASE ReadGrastate(i)
  BY <1>3, TerminateInv
  DEF ReadGrastate, Goto, Fail,
      Inv, TypeOK, LockInv, ChildInv, DecisionInv, VersionInv, SafetyInv,
      mainVars, startVars, childVars, procVars, diskVars, deployVars
<1>4. CASE WriteGrastate(i)
  BY <1>4, TerminateInv
  DEF WriteGrastate, Goto, Fail,
      Inv, TypeOK, LockInv, ChildInv, DecisionInv, VersionInv, SafetyInv,
      mainVars, startVars, childVars, procVars, diskVars, deployVars
<1>5. CASE BootstrapNode(i)
  BY <1>5, TerminateInv
  DEF BootstrapNode, StartMysqldInBootstrap, StartCommand, Free, Owned, Goto, Fail,
      Inv, TypeOK, LockInv, ChildInv, DecisionInv, VersionInv, SafetyInv,
      mainVars, startVars, childVars, procVars, diskVars, deployVars
<1>6. CASE JoinCluster(i)
  BY <1>6, TerminateInv
  DEF JoinCluster, StartMysqldInJoin, StartCommand, Free, Owned, Goto, Fail,
      Inv, TypeOK, LockInv, ChildInv, DecisionInv, VersionInv, SafetyInv,
      mainVars, startVars, childVars, procVars, diskVars, deployVars
<1>7. CASE WaitForDatabase(i)
  <2>1. CASE Fail(i, "waitForDatabase") /\ UNCHANGED diskVars
    BY <2>1, TerminateInv DEF Fail
  <2>2. CASE /\ Goto(i, "waitForDatabase", "seedDatabases")
             /\ UNCHANGED <<mainVars, startVars, childVars, procVars,
                            diskVars, deployVars>>
    BY <2>2
    DEF Goto, Inv, TypeOK, LockInv, ChildInv, DecisionInv, VersionInv, SafetyInv,
        mainVars, startVars, childVars, procVars, diskVars, deployVars
  <2> QED
    BY <1>7, <2>1, <2>2 DEF WaitForDatabase
<1>8. CASE SeedPhase(i)
  BY <1>8, TerminateInv
  DEF SeedPhase, AfterSeeding, Goto, Fail,
      Inv, TypeOK, LockInv, ChildInv, DecisionInv, VersionInv, SafetyInv,
      mainVars, startVars, childVars, procVars, diskVars, deployVars
<1>9. QED
  BY <1>1, <1>2, <1>3, <1>4, <1>5, <1>6, <1>7, <1>8
  DEF NodeStarterStep

\* The state for StartNodeFromState is SINGLE_NODE on a one-node deployment only.
LEMMA CurrentNodeStateSingle ==
  ASSUME NEW state \in CurrentNodeState
  PROVE  state = "SINGLE_NODE" <=> clusterSize = 1
BY DEF CurrentNodeState, TrimSpace, FileExists, Padded

\* The start manager decides, records and serves as the invariant says.
LEMMA ExecuteInv ==
  ASSUME Inv, NEW i \in Inst, Execute(i)
  PROVE  SafetyInv'
<1> USE ProcessAssumption
<1>1. CASE CheckProcessRunning(i)
  BY <1>1
  DEF CheckProcessRunning, Goto,
      Inv, TypeOK, LockInv, ChildInv, DecisionInv, VersionInv, SafetyInv,
      mainVars, startVars, childVars, procVars, diskVars, deployVars
<1>2. CASE Shutdown(i)
  BY <1>2, TerminateInv
  DEF Shutdown, StopMysqld, Serves, Goto,
      Inv, TypeOK, LockInv, ChildInv, DecisionInv, VersionInv, SafetyInv,
      mainVars, startVars, childVars, procVars, diskVars, deployVars
<1>3. CASE GetCurrentNodeState(i)
  BY <1>3, TerminateInv, CurrentNodeStateSingle
  DEF GetCurrentNodeState, Goto, Fail,
      Inv, TypeOK, LockInv, ChildInv, DecisionInv, VersionInv, SafetyInv,
      mainVars, startVars, childVars, procVars, diskVars, deployVars
<1>4. CASE OpenStateFile(i)
  BY <1>4, TerminateInv
  DEF OpenStateFile, Goto, Fail,
      Inv, TypeOK, LockInv, ChildInv, DecisionInv, VersionInv, SafetyInv,
      mainVars, startVars, childVars, procVars, diskVars, deployVars
<1>5. CASE WriteStateFile(i)
  BY <1>5, TerminateInv
  DEF WriteStateFile, Goto, Fail,
      Inv, TypeOK, LockInv, ChildInv, DecisionInv, VersionInv, SafetyInv,
      mainVars, startVars, childVars, procVars, diskVars, deployVars
<1>6. CASE StatusServerStart(i)
  BY <1>6
  DEF StatusServerStart, Goto,
      Inv, TypeOK, LockInv, ChildInv, DecisionInv, VersionInv, SafetyInv,
      mainVars, startVars, childVars, procVars, diskVars, deployVars
<1>7. CASE MysqldExited(i)
  BY <1>7, TerminateInv
  DEF MysqldExited,
      Inv, TypeOK, LockInv, ChildInv, DecisionInv, VersionInv, SafetyInv,
      mainVars, startVars, childVars, procVars, diskVars, deployVars
<1>8. CASE ForwardSigterm(i)
  BY <1>8, TerminateInv
  DEF ForwardSigterm, KillCommand, KillCommandFails, Live, Goto, Fail,
      Inv, TypeOK, LockInv, ChildInv, DecisionInv, VersionInv, SafetyInv,
      mainVars, startVars, childVars, procVars, diskVars, deployVars
<1>9. QED
  BY <1>1, <1>2, <1>3, <1>4, <1>5, <1>6, <1>7, <1>8, UpgraderInv, NodeStarterInv
  DEF Execute

\* A galera-init process keeps the invariant: it gets past its setup with the
\* socket only.
LEMMA ProcessInv ==
  ASSUME Inv, NEW i \in Inst, Process(i)
  PROVE  SafetyInv'
<1> USE ProcessAssumption
<1>1. CASE Launch(i)
  BY <1>1
  DEF Launch, Goto,
      Inv, TypeOK, LockInv, ChildInv, DecisionInv, VersionInv, SafetyInv,
      mainVars, startVars, childVars, procVars, diskVars, deployVars
<1>2. CASE LoadConfig(i)
  BY <1>2, TerminateInv
  DEF LoadConfig, Goto,
      Inv, TypeOK, LockInv, ChildInv, DecisionInv, VersionInv, SafetyInv,
      mainVars, startVars, childVars, procVars, diskVars, deployVars
<1>3. CASE ManagerSetup(i)
  BY <1>3, TerminateInv
  DEF ManagerSetup, Goto, Fail,
      Inv, TypeOK, LockInv, ChildInv, DecisionInv, VersionInv, SafetyInv,
      mainVars, startVars, childVars, procVars, diskVars, deployVars
<1>4. CASE WaitForCommand(i)
  BY <1>4
  DEF WaitForCommand, ExitStatus,
      Inv, TypeOK, LockInv, ChildInv, DecisionInv, VersionInv, SafetyInv,
      mainVars, startVars, childVars, procVars, diskVars, deployVars
<1>5. CASE StatusServerFatal(i)
  BY <1>5, TerminateInv
  DEF StatusServerFatal,
      Inv, TypeOK, LockInv, ChildInv, DecisionInv, VersionInv, SafetyInv,
      mainVars, startVars, childVars, procVars, diskVars, deployVars
<1>6. CASE Sigterm(i)
  BY <1>6, TerminateInv
  DEF Sigterm,
      Inv, TypeOK, LockInv, ChildInv, DecisionInv, VersionInv, SafetyInv,
      mainVars, startVars, childVars, procVars, diskVars, deployVars
<1>7. CASE Sigkill(i)
  BY <1>7, TerminateInv
  DEF Sigkill,
      Inv, TypeOK, LockInv, ChildInv, DecisionInv, VersionInv, SafetyInv,
      mainVars, startVars, childVars, procVars, diskVars, deployVars
<1>8. QED
  BY <1>1, <1>2, <1>3, <1>4, <1>5, <1>6, <1>7, ExecuteInv
  DEF Process, Code

\* mysqld keeps the invariant: its end is in the zombie until the parent reaps
\* it.
LEMMA MysqldInv ==
  ASSUME Inv, NEW p \in Pid, Mysqld(p)
  PROVE  SafetyInv'
<1> USE ProcessAssumption
<1>1. CASE WritesGrastate(p)
  BY <1>1
  DEF WritesGrastate,
      Inv, TypeOK, LockInv, ChildInv, DecisionInv, VersionInv, SafetyInv,
      mainVars, startVars, childVars, procVars, deployVars
<1>2. CASE Opens(p) \/ Syncs(p) \/ Desyncs(p)
  BY <1>2
  DEF Opens, Syncs, Desyncs, Becomes,
      Inv, TypeOK, LockInv, ChildInv, DecisionInv, VersionInv, SafetyInv,
      mainVars, startVars, childVars, diskVars, deployVars
<1>3. CASE Refused(p) \/ Stops(p) \/ Crashes(p)
  BY <1>3
  DEF Refused, Stops, Crashes, Ends, Owned, ExitStatus, Live,
      Inv, TypeOK, LockInv, ChildInv, DecisionInv, VersionInv, SafetyInv,
      mainVars, startVars, childVars, diskVars, deployVars
<1>4. QED
  BY <1>1, <1>2, <1>3 DEF Mysqld

\* Inv is inductive.
LEMMA InvStep == Inv /\ [Next]_vars => Inv'
<1> SUFFICES ASSUME Inv, [Next]_vars PROVE SafetyInv'
  BY TypeStep DEF Inv, SafetyInv
<1>1. CASE Redeploy
  BY <1>1
  DEF Redeploy, AllOff,
      Inv, TypeOK, LockInv, ChildInv, DecisionInv, VersionInv, SafetyInv,
      mainVars, startVars, childVars, procVars
<1>2. CASE OperatorWrites
  BY <1>2
  DEF OperatorWrites, AllOff,
      Inv, TypeOK, LockInv, ChildInv, DecisionInv, VersionInv, SafetyInv,
      mainVars, startVars, childVars, procVars, deployVars
<1>3. CASE UNCHANGED vars
  BY <1>3
  DEF vars, Inv, TypeOK, LockInv, ChildInv, DecisionInv, VersionInv, SafetyInv,
      mainVars, startVars, childVars, procVars, diskVars, deployVars
<1>4. QED
  BY <1>1, <1>2, <1>3, ProcessInv, MysqldInv DEF Next

\* Inv holds before the first launch.
LEMMA InvInit == Init => Inv
<1> SUFFICES ASSUME Init PROVE SafetyInv
  BY TypeInit DEF Inv, SafetyInv
<1> QED
  BY ProcessAssumption
  DEF Init, SafetyInv, LockInv, ChildInv, DecisionInv, VersionInv

\* The invariant holds in every reachable state.
THEOREM Invariance == Spec => []Inv
BY InvInit, InvStep, PTL DEF Spec

-----------------------------------------------------------------------------
(* The safety properties                                                     *)

\* However many galera-init processes are launched, and whenever they are
\* signalled or killed, at most one is inside startManager.Execute.
THEOREM MutualExclusion == Spec => []AtMostOneManager
<1>1. Inv => AtMostOneManager
  BY DEF Inv, LockInv, AtMostOneManager
<1> QED
  BY <1>1, Invariance, PTL

\* Whenever the status server answers, the state file holds the state
\* StartNodeFromState returned for this deployment.
THEOREM ReadyIsRecorded == Spec => []ReadyRecorded
<1>1. Inv => ReadyRecorded
  BY DEF Inv, DecisionInv, ReadyRecorded
<1> QED
  BY <1>1, Invariance, PTL

\* A mysqld that galera-init runs in the cluster has an upgraded data directory,
\* or mysql_upgrade failed with an output that Upgrade accepts.
THEOREM UpgradedFirst == Spec => []UpgradeBeforeServe
<1>1. Inv => UpgradeBeforeServe
  BY DEF Inv, VersionInv, UpgradeBeforeServe
<1> QED
  BY <1>1, Invariance, PTL

\* A step of one process does not move another.
LEMMA OthersStay ==
  ASSUME TypeOK, NEW i \in Inst, NEW j \in Inst, i # j, Process(j)
  PROVE  pc'[i] = pc[i]
<1>1. CASE UpgraderStep(j)
  BY <1>1
  DEF UpgraderStep, NeedsUpgrade, StartForUpgrade, WaitUntilMySQLReachable, RunUpgrade,
      StopStandaloneDatabase, StopMysqld, MysqldExitChan, Goto, Fail, Terminate, TypeOK
<1>2. CASE NodeStarterStep(j)
  BY <1>2
  DEF NodeStarterStep, StartNodeFromState, HealthyCluster, ReadGrastate, WriteGrastate,
      BootstrapNode, JoinCluster, WaitForDatabase, SeedPhase, Goto, Fail, Terminate, TypeOK
<1>3. CASE Execute(j)
  BY <1>1, <1>2, <1>3
  DEF Execute, CheckProcessRunning, Shutdown, StopMysqld, GetCurrentNodeState,
      OpenStateFile, WriteStateFile, StatusServerStart, MysqldExited, ForwardSigterm,
      Goto, Fail, Terminate, TypeOK
<1> QED
  BY <1>3
  DEF Process, Code, Launch, LoadConfig, ManagerSetup, WaitForCommand, StatusServerFatal,
      Sigterm, Sigkill, Goto, Fail, Terminate, TypeOK

\* What may end a process whose status server answers.
LEMMA ServingEnds ==
  ASSUME NEW i \in Inst, Process(i), pc[i] \in ServingPcs, pc'[i] = "off", TypeOK
  PROVE  \/ MysqldExited(i)
         \/ ForwardSigterm(i) /\ KillCommandFails(i)
         \/ StatusServerFatal(i)
         \/ Sigkill(i)
<1>1. ~ UpgraderStep(i)
  BY DEF UpgraderStep, NeedsUpgrade, StartForUpgrade, WaitUntilMySQLReachable, RunUpgrade,
         StopStandaloneDatabase, StopMysqld, MysqldExitChan, Goto, Fail
<1>2. ~ NodeStarterStep(i)
  BY DEF NodeStarterStep, StartNodeFromState, HealthyCluster, ReadGrastate, WriteGrastate,
         BootstrapNode, JoinCluster, WaitForDatabase, SeedPhase, Goto, Fail
<1>3. CASE Execute(i)
  BY <1>1, <1>2, <1>3
  DEF Execute, CheckProcessRunning, Shutdown, StopMysqld, GetCurrentNodeState,
      OpenStateFile, WriteStateFile, StatusServerStart, ForwardSigterm, Goto, Fail, TypeOK
<1> QED
  BY <1>3
  DEF Process, Code, Launch, LoadConfig, ManagerSetup, WaitForCommand,
      Sigterm, Goto, Fail, TypeOK

\* A galera-init process that has answered the status probe never ends by itself
\* while its mysqld lives, unless the status server's listener failed.
THEOREM NoOrphanAfterStop == Spec => StopsWithoutOrphan
<1> DEFINE A == \A i \in Inst :
                  pc[i] \in ServingPcs /\ pc'[i] = "off" /\ exit'[i] # "killed" =>
                    \/ cmd[i] \in Pid /\ phase[cmd[i]] \notin Live
                    \/ "accept" \in Faults
<1>1. Inv /\ [Next]_vars => [A]_vars
  <2> SUFFICES ASSUME Inv, Next, NEW i \in Inst,
                      pc[i] \in ServingPcs, pc'[i] = "off", exit'[i] # "killed"
               PROVE  \/ cmd[i] \in Pid /\ phase[cmd[i]] \notin Live
                      \/ "accept" \in Faults
    OBVIOUS
  <2>1. cmd[i] \in Pid /\ (ch[i] # "empty" => phase[cmd[i]] = "none") /\ TypeOK
    BY DEF Inv, ChildInv
  <2>2. Process(i)
    <3>1. pc'[i] # pc[i]
      OBVIOUS
    <3>2. ~ Redeploy /\ ~ OperatorWrites /\ \A p \in Pid : ~ Mysqld(p)
      BY <3>1
      DEF Redeploy, OperatorWrites, Mysqld, Opens, Refused, Syncs, Desyncs, Stops, Crashes,
          WritesGrastate, Becomes, Ends
    <3> QED
      BY <2>1, <3>1, <3>2, OthersStay DEF Next
  <2>3. \/ ch[i] # "empty" \/ KillCommandFails(i) \/ "accept" \in Faults
    BY <2>1, <2>2, ServingEnds DEF MysqldExited, StatusServerFatal, Sigkill, Terminate, TypeOK
  <2> QED
    BY <2>1, <2>3 DEF KillCommandFails, Live
<1> QED
  BY <1>1, Invariance, PTL DEF Spec, StopsWithoutOrphan

=============================================================================
