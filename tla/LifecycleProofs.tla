---------------------------- MODULE LifecycleProofs ----------------------------
(***************************************************************************)
(* GaleraInit implements Lifecycle: the initial states map to its initial  *)
(* state, and every step of a galera-init process, of a mysqld or of the   *)
(* environment is one step of Lifecycle or none.                           *)
(***************************************************************************)
EXTENDS GaleraInitSafetyProofs

USE DEF SetupPcs, PrologPcs, UpgradePcs, DecidePcs, GrastatePcs, StartPcs, WaitPcs,
        SeedingPhases, RecordPcs, ServingPcs, ExecutePcs, ChildPcs, DecidedPcs, UpgradedPcs

\* The variables of Lifecycle.
runBar == [i \in Inst |-> RunOf(i)]
databaseBar == [i \in Inst |-> DatabaseOf(i)]
lifecycleVars == <<runBar, databaseBar, exit>>

-----------------------------------------------------------------------------
(* The view of one process                                                   *)

\* A step of one process does not give another a command or an exit code.
LEMMA OthersKeep ==
  ASSUME TypeOK, NEW i \in Inst, NEW j \in Inst, i # j, Process(j)
  PROVE  cmd'[i] = cmd[i] /\ exit'[i] = exit[i]
<1>1. ASSUME UpgraderStep(j) PROVE cmd'[i] = cmd[i] /\ exit'[i] = exit[i]
  BY <1>1
  DEF UpgraderStep, NeedsUpgrade, StartForUpgrade, WaitUntilMySQLReachable, RunUpgrade,
      StopStandaloneDatabase, StopMysqld, MysqldExitChan, StartMysqldForUpgrade, StartCommand,
      Fail, Terminate, TypeOK, mainVars, childVars
<1>2. ASSUME NodeStarterStep(j) PROVE cmd'[i] = cmd[i] /\ exit'[i] = exit[i]
  BY <1>2
  DEF NodeStarterStep, StartNodeFromState, HealthyCluster, ReadGrastate, WriteGrastate,
      BootstrapNode, JoinCluster, WaitForDatabase, SeedPhase, StartMysqldInBootstrap,
      StartMysqldInJoin, StartCommand, Fail, Terminate, TypeOK, mainVars, childVars
<1>3. ASSUME Execute(j) PROVE cmd'[i] = cmd[i] /\ exit'[i] = exit[i]
  BY <1>1, <1>2, <1>3
  DEF Execute, CheckProcessRunning, Shutdown, StopMysqld, GetCurrentNodeState,
      OpenStateFile, WriteStateFile, StatusServerStart, MysqldExited, ForwardSigterm,
      Fail, Terminate, TypeOK, mainVars, childVars
<1> QED
  BY <1>3
  DEF Process, Code, Launch, LoadConfig, ManagerSetup, WaitForCommand, StatusServerFatal,
      Sigterm, Sigkill, Fail, Terminate, TypeOK, mainVars, childVars

\* A step of one process is not seen in another's run, database or exit code.
LEMMA OthersView ==
  ASSUME Inv, NEW i \in Inst, NEW j \in Inst, i # j, Process(j)
  PROVE  RunOf(i)' = RunOf(i) /\ DatabaseOf(i)' = DatabaseOf(i) /\ exit'[i] = exit[i]
<1>1. TypeOK /\ pc'[i] = pc[i] /\ cmd'[i] = cmd[i] /\ exit'[i] = exit[i]
  BY OthersStay, OthersKeep DEF Inv
<1>2. RunOf(i)' = RunOf(i)
  BY <1>1 DEF RunOf
<1>3. CASE cmd[i] = None
  BY <1>1, <1>2, <1>3 DEF DatabaseOf
<1>4. CASE cmd[i] \in Pid
  <2>1. pc[i] \in ExecutePcs
    BY <1>4 DEF Inv, ChildInv
  <2>2. UNCHANGED <<cmd, ch, phase>>
    BY <2>1, OutsiderStep DEF procVars
  <2> QED
    BY <1>1, <1>2, <2>2 DEF DatabaseOf
<1> QED
  BY <1>1, <1>3, <1>4 DEF TypeOK

\* So a step of process i updates the abstract variables at i only.
LEMMA ViewUpdate ==
  ASSUME Inv, NEW i \in Inst, Process(i)
  PROVE  /\ runBar' = [runBar EXCEPT ![i] = RunOf(i)']
         /\ databaseBar' = [databaseBar EXCEPT ![i] = DatabaseOf(i)']
         /\ exit' = [exit EXCEPT ![i] = exit'[i]]
<1>1. exit \in [Inst -> ExitCodes] /\ exit' \in [Inst -> ExitCodes]
  BY ProcessType DEF Inv, TypeOK
<1>2. \A j \in Inst : j # i =>
        RunOf(j)' = RunOf(j) /\ DatabaseOf(j)' = DatabaseOf(j) /\ exit'[j] = exit[j]
  BY OthersView
<1> QED
  BY <1>1, <1>2 DEF runBar, databaseBar

\* A process that ends has no database any more.
LEMMA TerminateView ==
  ASSUME TypeOK, NEW i \in Inst, NEW code, Terminate(i, code)
  PROVE  RunOf(i)' = "off" /\ DatabaseOf(i)' = "none" /\ exit'[i] = code
BY DEF TypeOK, Terminate, RunOf, DatabaseOf

\* The end of a process, seen from above.
LEMMA TerminateEnds ==
  ASSUME Inv, NEW i \in Inst, Process(i), NEW code, Terminate(i, code)
  PROVE  Contract!Ends(i, code)
BY TerminateView, ViewUpdate DEF Inv, Contract!Ends, runBar, databaseBar

\* What the abstract database of a process is, in the states of the invariant.
LEMMA DatabaseView ==
  ASSUME Inv, NEW i \in Inst
  PROVE  /\ cmd[i] = None => DatabaseOf(i) = "none"
         /\ cmd[i] \in Pid => DatabaseOf(i) # "none"
         /\ cmd[i] \in Pid /\ phase[cmd[i]] \in Live => DatabaseOf(i) = "live" /\ ch[i] = "empty"
         /\ cmd[i] \in Pid /\ phase[cmd[i]] = "none" =>
              DatabaseOf(i) = ch[i] /\ ch[i] \in ExitStatus
<1>1. /\ cmd[i] \in Pid \cup {None}
      /\ ch[i] \in ExitStatus \cup {"empty"}
      /\ cmd[i] \in Pid => phase[cmd[i]] \in Live \cup ExitStatus \cup {"none"}
      /\ cmd[i] \in Pid => cmd[i] # None /\ (ch[i] # "empty" <=> phase[cmd[i]] = "none")
  BY ProcessAssumption DEF Inv, TypeOK, ChildInv
<1> QED
  BY <1>1 DEF DatabaseOf, Live, ExitStatus

\* A step that leaves the run, the database and the exit code of its process
\* alone is not seen.
LEMMA SameView ==
  ASSUME Inv, NEW i \in Inst, Process(i),
         RunOf(i)' = RunOf(i), DatabaseOf(i)' = DatabaseOf(i), exit'[i] = exit[i]
  PROVE  UNCHANGED lifecycleVars
<1>1. /\ runBar' = [runBar EXCEPT ![i] = RunOf(i)]
      /\ databaseBar' = [databaseBar EXCEPT ![i] = DatabaseOf(i)]
  BY ViewUpdate
<1>2. runBar' = runBar /\ databaseBar' = databaseBar
  BY <1>1 DEF runBar, databaseBar
<1>3. exit' = exit
  BY ViewUpdate DEF Inv, TypeOK
<1> QED
  BY <1>2, <1>3 DEF lifecycleVars

\* Most steps only move the process on within a phase of its life.
LEMMA SilentStep ==
  ASSUME Inv, NEW i \in Inst, Process(i), RunOf(i)' = RunOf(i),
         UNCHANGED <<mainVars, childVars, procVars>>
  PROVE  UNCHANGED lifecycleVars
<1>1. DatabaseOf(i)' = DatabaseOf(i) /\ exit'[i] = exit[i]
  BY DEF DatabaseOf, mainVars, childVars, procVars
<1> QED
  BY <1>1, SameView

\* A start that ends with an error is given up.
LEMMA StartGivenUp ==
  ASSUME Inv, NEW i \in Inst, Process(i), RunOf(i) \in {"setup", "starting"},
         NEW code \in {"panic", "one"}, Terminate(i, code)
  PROVE  Contract!Next
<1>1. Contract!Ends(i, code)
  BY TerminateEnds
<1>2. Contract!GiveUp(i)
  BY <1>1 DEF Contract!GiveUp
<1> QED
  BY <1>2 DEF Contract!Next

\* A shutdown request to a mysqld, whosever child it is, is not seen before that
\* mysqld has ended.
LEMMA StopView ==
  ASSUME Inv, NEW i \in Inst, Process(i), NEW from, NEW to, StopMysqld(i, from, to),
         {from, to} \subseteq ExecutePcs \ ServingPcs
  PROVE  UNCHANGED lifecycleVars \/ Contract!Next
<1>0. TypeOK
  BY DEF Inv
<1>1. CASE pc[i] = from /\ Terminate(i, "panic")
  BY <1>1, StartGivenUp DEF RunOf
<1>2. ASSUME NEW p \in Pid, Serves(p), Goto(i, from, to),
             phase' = [phase EXCEPT ![p] = "stopping"],
             UNCHANGED <<mainVars, startVars, childVars, mode, diskVars, deployVars>>
      PROVE  UNCHANGED lifecycleVars
  <2>1. RunOf(i)' = RunOf(i)
    BY <1>0, <1>2 DEF Goto, RunOf, TypeOK
  <2>2. DatabaseOf(i)' = DatabaseOf(i)
    BY <1>0, <1>2 DEF DatabaseOf, Serves, TypeOK, Live, childVars
  <2> QED
    BY <1>2, <2>1, <2>2, SameView DEF mainVars
<1> QED
  BY <1>1, <1>2 DEF StopMysqld

\* Starting mysqld gives a process without a database one that lives.
LEMMA StartCommandView ==
  ASSUME Inv, NEW i \in Inst, Process(i), NEW m, StartCommand(i, m), UNCHANGED mainVars,
         pc[i] \in StartPcs \cup {"StartMysqldForUpgrade"}, RunOf(i)' = "starting"
  PROVE  Contract!Next
<1>1. cmd[i] = None /\ RunOf(i) = "starting" /\ TypeOK
  BY DEF Inv, ChildInv, TypeOK, RunOf
<1>2. DatabaseOf(i) = "none"
  BY <1>1, DatabaseView
<1>3. DatabaseOf(i)' = "live"
  BY <1>1, ProcessAssumption DEF StartCommand, DatabaseOf, TypeOK, Live
<1>4. Contract!StartDatabase(i)
  BY <1>1, <1>2, <1>3, ViewUpdate
  DEF Contract!StartDatabase, runBar, databaseBar, mainVars
<1> QED
  BY <1>4 DEF Contract!Next

-----------------------------------------------------------------------------
(* The steps                                                                 *)

\* The upgrader starts a database, puts it aside, gives the start up, or is not
\* seen.
LEMMA UpgraderView ==
  ASSUME Inv, NEW i \in Inst, Process(i), UpgraderStep(i)
  PROVE  UNCHANGED lifecycleVars \/ Contract!Next
<1>0. TypeOK
  BY DEF Inv
<1>1. CASE NeedsUpgrade(i)
  BY <1>0, <1>1, SilentStep, StartGivenUp DEF NeedsUpgrade, Goto, Fail, RunOf, TypeOK
<1>2. CASE StartForUpgrade(i)
  BY <1>0, <1>2, StartCommandView, StartGivenUp
  DEF StartForUpgrade, StartMysqldForUpgrade, Goto, Fail, RunOf, TypeOK
<1>3. CASE WaitUntilMySQLReachable(i)
  BY <1>0, <1>3, SilentStep, StartGivenUp
  DEF WaitUntilMySQLReachable, Goto, Fail, RunOf, TypeOK
<1>4. CASE RunUpgrade(i)
  BY <1>0, <1>4, SilentStep DEF RunUpgrade, Goto, RunOf, TypeOK
<1>5. CASE StopStandaloneDatabase(i)
  BY <1>5, StopView DEF StopStandaloneDatabase
<1>6. CASE MysqldExitChan(i)
  <2>1. CASE Fail(i, "mysqldExitChan")
    BY <1>0, <2>1, StartGivenUp DEF Fail, RunOf
  <2>2. CASE /\ Goto(i, "mysqldExitChan", "getCurrentNodeState")
             /\ cmd' = [cmd EXCEPT ![i] = None]
             /\ UNCHANGED <<mainVars, startVars, procVars, diskVars, deployVars>>
    <3>1. RunOf(i) = "starting" /\ RunOf(i)' = "starting" /\ DatabaseOf(i)' = "none"
      BY <1>0, <2>2 DEF Goto, RunOf, DatabaseOf, TypeOK
    <3>2. Contract!PutAside(i)
      BY <2>2, <3>1, ViewUpdate DEF Contract!PutAside, runBar, databaseBar, mainVars
    <3> QED
      BY <3>2 DEF Contract!Next
  <2> QED
    BY <1>6, <2>1, <2>2 DEF MysqldExitChan
<1>7. QED
  BY <1>1, <1>2, <1>3, <1>4, <1>5, <1>6 DEF UpgraderStep

\* So is a step of the node starter.
LEMMA NodeStarterView ==
  ASSUME Inv, NEW i \in Inst, Process(i), NodeStarterStep(i)
  PROVE  UNCHANGED lifecycleVars \/ Contract!Next
<1>0. TypeOK
  BY DEF Inv
<1>1. CASE StartNodeFromState(i)
  BY <1>0, <1>1, SilentStep, StartGivenUp DEF StartNodeFromState, Goto, Fail, RunOf, TypeOK
<1>2. CASE HealthyCluster(i)
  BY <1>0, <1>2, SilentStep DEF HealthyCluster, Goto, RunOf, TypeOK
<1>3. CASE ReadGrastate(i) \/ WriteGrastate(i)
  BY <1>0, <1>3, SilentStep, StartGivenUp
  DEF ReadGrastate, WriteGrastate, Goto, Fail, RunOf, TypeOK
<1>4. CASE BootstrapNode(i)
  BY <1>0, <1>4, StartCommandView, StartGivenUp
  DEF BootstrapNode, StartMysqldInBootstrap, Goto, Fail, RunOf, TypeOK
<1>5. CASE JoinCluster(i)
  BY <1>0, <1>5, StartCommandView, StartGivenUp
  DEF JoinCluster, StartMysqldInJoin, Goto, Fail, RunOf, TypeOK
<1>6. CASE WaitForDatabase(i)
  <2>1. CASE Fail(i, "waitForDatabase")
    BY <1>0, <2>1, StartGivenUp DEF Fail, RunOf
  <2>2. CASE /\ Goto(i, "waitForDatabase", "seedDatabases")
             /\ UNCHANGED <<mainVars, startVars, childVars, procVars, diskVars, deployVars>>
    BY <1>0, <2>2, SilentStep DEF Goto, RunOf, TypeOK
  <2> QED
    BY <1>6, <2>1, <2>2 DEF WaitForDatabase
<1>7. CASE SeedPhase(i)
  BY <1>0, <1>7, SilentStep, StartGivenUp
  DEF SeedPhase, AfterSeeding, Goto, Fail, RunOf, TypeOK
<1>8. QED
  BY <1>1, <1>2, <1>3, <1>4, <1>5, <1>6, <1>7 DEF NodeStarterStep

\* main's exit code for a wait status is the one Lifecycle promises.
LEMMA ExitCodeView ==
  ASSUME NEW status \in ExitStatus
  PROVE  ExitCode(status) = Contract!CodeOf(status)
BY DEF ExitStatus, ExitCode, Contract!CodeOf

\* A process whose status server answers ends with its database.
LEMMA FinishView ==
  ASSUME Inv, NEW i \in Inst, Process(i), pc[i] \in ServingPcs, phase[cmd[i]] = "none",
         NEW code \in {ExitCode(ch[i]), "one"}, Terminate(i, code)
  PROVE  Contract!Next
<1>1. RunOf(i) = "ready" /\ cmd[i] \in Pid
  BY DEF RunOf, Inv, ChildInv
<1>2. DatabaseOf(i) = ch[i] /\ ch[i] \in ExitStatus
  BY <1>1, DatabaseView
<1>3. code \in {Contract!CodeOf(DatabaseOf(i)), "one"}
  BY <1>2, ExitCodeView
<1>4. Contract!Ends(i, code)
  BY TerminateEnds
<1>5. Contract!Finish(i)
  BY <1>1, <1>2, <1>3, <1>4 DEF Contract!Finish, Contract!Ended, ExitStatus
<1> QED
  BY <1>5 DEF Contract!Next

\* The start manager becomes ready, ends with its database, gives up, or is not
\* seen.
LEMMA ExecuteView ==
  ASSUME Inv, NEW i \in Inst, Process(i), Execute(i)
  PROVE  UNCHANGED lifecycleVars \/ Contract!Next
<1>0. TypeOK
  BY DEF Inv
<1>1. CASE CheckProcessRunning(i)
  BY <1>0, <1>1, SilentStep DEF CheckProcessRunning, Goto, RunOf, TypeOK
<1>2. CASE Shutdown(i)
  BY <1>2, StopView DEF Shutdown
<1>3. CASE GetCurrentNodeState(i)
  BY <1>0, <1>3, SilentStep, StartGivenUp DEF GetCurrentNodeState, Goto, Fail, RunOf, TypeOK
<1>4. CASE OpenStateFile(i) \/ WriteStateFile(i)
  BY <1>0, <1>4, SilentStep, StartGivenUp
  DEF OpenStateFile, WriteStateFile, Goto, Fail, RunOf, TypeOK
<1>5. CASE StatusServerStart(i)
  <2>1. /\ RunOf(i) = "starting" /\ RunOf(i)' = "ready"
        /\ DatabaseOf(i) # "none" /\ DatabaseOf(i)' = DatabaseOf(i)
    <3>1. cmd[i] \in Pid
      BY <1>5 DEF StatusServerStart, Goto, Inv, ChildInv
    <3> QED
      BY <1>0, <1>5, <3>1, DatabaseView
      DEF StatusServerStart, Goto, RunOf, DatabaseOf, TypeOK, childVars, procVars
  <2>2. databaseBar' = databaseBar
    BY <2>1, ViewUpdate DEF databaseBar
  <2>3. Contract!Ready(i)
    BY <1>5, <2>1, <2>2, ViewUpdate
    DEF StatusServerStart, Contract!Ready, runBar, databaseBar, mainVars
  <2> QED
    BY <2>3 DEF Contract!Next
<1>6. CASE MysqldExited(i)
  <2>1. phase[cmd[i]] = "none"
    BY <1>6 DEF MysqldExited, Inv, ChildInv
  <2> QED
    BY <1>6, <2>1, FinishView DEF MysqldExited
<1>7. CASE ForwardSigterm(i)
  <2>1. cmd[i] \in Pid
    BY <1>7 DEF ForwardSigterm, Inv, ChildInv
  <2>2. CASE KillCommandFails(i) /\ Fail(i, "select")
    BY <2>1, <2>2, FinishView DEF KillCommandFails, Fail
  <2>3. CASE Goto(i, "select", "mysqldChan") /\ KillCommand(i) /\ UNCHANGED <<mainVars, childVars>>
    <3>1. RunOf(i)' = RunOf(i) /\ exit'[i] = exit[i]
      BY <1>0, <2>3 DEF Goto, RunOf, TypeOK, mainVars
    <3>2. DatabaseOf(i)' = DatabaseOf(i)
      BY <1>0, <2>1, <2>3 DEF KillCommand, DatabaseOf, TypeOK, Live, childVars
    <3> QED
      BY <3>1, <3>2, SameView
  <2> QED
    BY <1>7, <2>2, <2>3 DEF ForwardSigterm
<1>8. QED
  BY <1>1, <1>2, <1>3, <1>4, <1>5, <1>6, <1>7, UpgraderView, NodeStarterView DEF Execute

\* Every step of a process is a step of the contract or is not seen.
LEMMA ProcessView ==
  ASSUME Inv, NEW i \in Inst, Process(i)
  PROVE  UNCHANGED lifecycleVars \/ Contract!Next
<1>0. TypeOK
  BY DEF Inv
<1>1. CASE Launch(i)
  <2>1. RunOf(i) = "off" /\ RunOf(i)' = "setup" /\ DatabaseOf(i)' = DatabaseOf(i)
    BY <1>0, <1>1 DEF Launch, Goto, RunOf, DatabaseOf, TypeOK, childVars, procVars
  <2>2. databaseBar' = databaseBar
    BY <2>1, ViewUpdate DEF databaseBar
  <2>3. Contract!Launch(i)
    BY <1>1, <2>1, <2>2, ViewUpdate DEF Launch, Contract!Launch, runBar, databaseBar
  <2> QED
    BY <2>3 DEF Contract!Next
<1>2. CASE LoadConfig(i)
  BY <1>0, <1>2, SilentStep, StartGivenUp DEF LoadConfig, Goto, RunOf, TypeOK
<1>3. CASE ManagerSetup(i)
  <2>1. CASE Fail(i, "managerSetup")
    BY <2>1, StartGivenUp DEF Fail, RunOf
  <2>2. CASE /\ listener = None
             /\ Goto(i, "managerSetup", "IsProcessRunning")
             /\ UNCHANGED <<ctxDone, exit, startVars, childVars, procVars, diskVars, deployVars>>
    <3>1. RunOf(i) = "setup" /\ RunOf(i)' = "starting" /\ DatabaseOf(i)' = DatabaseOf(i)
      BY <1>0, <2>2 DEF Goto, RunOf, DatabaseOf, TypeOK, childVars, procVars
    <3>2. \A j \in Inst : RunOf(j) \notin {"starting", "ready"}
      BY <1>0, <2>2, ProcessAssumption DEF Inv, LockInv, RunOf, TypeOK
    <3>3. databaseBar' = databaseBar
      BY <3>1, ViewUpdate DEF databaseBar
    <3>4. Contract!Begin(i)
      BY <2>2, <3>1, <3>2, <3>3, ViewUpdate DEF Contract!Begin, runBar, databaseBar
    <3> QED
      BY <3>4 DEF Contract!Next
  <2> QED
    BY <1>3, <2>1, <2>2 DEF ManagerSetup
<1>4. CASE WaitForCommand(i)
  <2>1. DatabaseOf(i)' = DatabaseOf(i)
    BY <1>0, <1>4, ProcessAssumption
    DEF WaitForCommand, DatabaseOf, Inv, ChildInv, TypeOK, Live, ExitStatus
  <2> QED
    BY <1>4, <2>1, SameView DEF WaitForCommand, RunOf, mainVars
<1>5. CASE StatusServerFatal(i)
  <2>1. Contract!Abandon(i)
    BY <1>5, TerminateEnds DEF StatusServerFatal, Contract!Abandon, RunOf
  <2> QED
    BY <2>1 DEF Contract!Next
<1>6. ASSUME Terminate(i, "killed"), pc[i] # "off"
      PROVE  Contract!Next
  <2>1. RunOf(i) # "off"
    BY <1>6 DEF RunOf
  <2>2. Contract!Killed(i)
    BY <1>6, <2>1, TerminateEnds DEF Contract!Killed
  <2> QED
    BY <2>2 DEF Contract!Next
<1>7. CASE Sigterm(i)
  <2>1. CASE UNCHANGED <<pc, exit, childVars, procVars>>
    BY <2>1, SameView DEF RunOf, DatabaseOf, childVars, procVars
  <2> QED
    BY <1>6, <1>7, <2>1 DEF Sigterm
<1>8. CASE Sigkill(i)
  BY <1>6, <1>8 DEF Sigkill
<1>9. QED
  BY <1>1, <1>2, <1>3, <1>4, <1>5, <1>7, <1>8, ExecuteView DEF Process, Code

\* Two processes never have the same child.
LEMMA OneParent ==
  ASSUME Inv, NEW i \in Inst, NEW j \in Inst, cmd[i] \in Pid, cmd[j] \in Pid
  PROVE  i = j
BY DEF Inv, LockInv, ChildInv

\* Of a mysqld its parent's contract sees the end only.
LEMMA MysqldView ==
  ASSUME Inv, NEW p \in Pid, Mysqld(p)
  PROVE  UNCHANGED lifecycleVars \/ Contract!Next
<1>0. TypeOK /\ UNCHANGED <<pc, exit, cmd, ch>>
  BY ProcessesStay DEF Inv, mainVars, childVars
<1>1. runBar' = runBar
  BY <1>0 DEF runBar, RunOf
<1>2. ASSUME \A i \in Inst : DatabaseOf(i)' = DatabaseOf(i)
      PROVE  UNCHANGED lifecycleVars
  BY <1>0, <1>1, <1>2 DEF lifecycleVars, databaseBar
<1>3. CASE WritesGrastate(p)
  BY <1>0, <1>2, <1>3 DEF WritesGrastate, DatabaseOf, procVars
<1>4. CASE Opens(p) \/ Syncs(p) \/ Desyncs(p)
  <2>1. \A i \in Inst : DatabaseOf(i)' = DatabaseOf(i)
    BY <1>0, <1>4 DEF Opens, Syncs, Desyncs, Becomes, DatabaseOf, TypeOK, Live
  <2> QED
    BY <1>2, <2>1
<1>5. ASSUME phase[p] \in Live, NEW s \in ExitStatus, Ends(p, s)
      PROVE  UNCHANGED lifecycleVars \/ Contract!Next
  <2>1. \A i \in Inst : cmd[i] # p => DatabaseOf(i)' = DatabaseOf(i)
    BY <1>0, <1>5 DEF Ends, DatabaseOf, TypeOK
  <2>2. CASE Owned(p)
    <3>1. PICK i \in Inst : cmd[i] = p
      BY <2>2 DEF Owned
    <3>2. \A j \in Inst : j # i => DatabaseOf(j)' = DatabaseOf(j)
      BY <2>1, <3>1, OneParent
    <3>3. DatabaseOf(i) = "live" /\ ch[i] = "empty"
      BY <1>5, <3>1, DatabaseView
    <3>4. phase'[p] = s
      BY <1>0, <1>5, <2>2 DEF Ends, TypeOK
    <3>5. DatabaseOf(i)' = s
      BY <1>0, <3>1, <3>3, <3>4, ProcessAssumption DEF DatabaseOf, ExitStatus, Live
    <3>6. databaseBar' = [databaseBar EXCEPT ![i] = s]
      BY <3>2, <3>5 DEF databaseBar
    <3>7. Contract!DatabaseEnds(i)
      BY <1>0, <1>1, <3>3, <3>6
      DEF Contract!DatabaseEnds, Contract!Ended, ExitStatus, runBar, databaseBar
    <3> QED
      BY <3>7 DEF Contract!Next
  <2>3. CASE ~ Owned(p)
    BY <1>2, <2>1, <2>3 DEF Owned
  <2> QED
    BY <2>2, <2>3
<1>6. CASE Refused(p) \/ Stops(p) \/ Crashes(p)
  BY <1>5, <1>6 DEF Refused, Stops, Crashes, ExitStatus, Live
<1> QED
  BY <1>3, <1>4, <1>6 DEF Mysqld

\* Every step of GaleraInit is a step of Lifecycle or leaves its variables alone.
LEMMA LifecycleStep == Inv /\ [Next]_vars => [Contract!Next]_lifecycleVars
<1> SUFFICES ASSUME Inv, [Next]_vars PROVE UNCHANGED lifecycleVars \/ Contract!Next
  OBVIOUS
<1>1. CASE Redeploy \/ OperatorWrites \/ UNCHANGED vars
  BY <1>1
  DEF Redeploy, OperatorWrites, vars, lifecycleVars, runBar, databaseBar, RunOf, DatabaseOf,
      mainVars, childVars, procVars
<1> QED
  BY <1>1, ProcessView, MysqldView DEF Next

\* A node starts as the contract says.
LEMMA LifecycleInit == Init => Contract!Init
BY DEF Init, Contract!Init, RunOf, DatabaseOf

\* main and Execute keep the promise of Lifecycle to monit, for any number of
\* launches: one process at a time gets past its setup, it is ready only with a
\* database of its own, and unless it is killed or its status server fails it
\* ends with that database and with the exit code of its wait status.
THEOREM LifecycleRefinement == Spec => ImplementsLifecycle
BY LifecycleInit, LifecycleStep, Invariance, PTL
DEF Spec, ImplementsLifecycle, Contract!Spec, lifecycleVars, runBar, databaseBar

=============================================================================
