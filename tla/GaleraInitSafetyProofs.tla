------------------------ MODULE GaleraInitSafetyProofs ------------------------
(***************************************************************************)
(* More theorems about GaleraInit: the right to bootstrap, the wait after  *)
(* SIGTERM, the state file, and the one database of a node that nobody     *)
(* kills.  They rest on the invariant Inv of GaleraInitProofs, above all   *)
(* on LockInv: while one process executes, the others cannot interfere.    *)
(***************************************************************************)
EXTENDS GaleraInitProofs

USE DEF SetupPcs, PrologPcs, UpgradePcs, DecidePcs, GrastatePcs, StartPcs, WaitPcs,
        SeedingPhases, RecordPcs, ServingPcs, ExecutePcs, ChildPcs, DecidedPcs, UpgradedPcs

-----------------------------------------------------------------------------
(* What the steps of a process leave alone                                   *)

\* While process i executes, no step of another one touches what i works with:
\* launches, failed set-ups, signals and kills change nothing on the node.
LEMMA OutsiderStep ==
  ASSUME Inv, NEW i \in Inst, NEW j \in Inst, i # j,
         pc[i] \in ExecutePcs, Process(j)
  PROVE  /\ pc'[i] = pc[i] /\ ctxDone'[i] = ctxDone[i] /\ exit'[i] = exit[i]
         /\ nodeState'[i] = nodeState[i] /\ upgradeErr'[i] = upgradeErr[i]
         /\ cmd' = cmd /\ ch' = ch /\ listener' = listener
         /\ UNCHANGED <<procVars, diskVars, deployVars>>
         /\ pc'[j] \in {"off"} \cup SetupPcs
<1>1. pc[j] \notin ExecutePcs /\ cmd[j] = None /\ ch[j] = "empty" /\ listener = i /\ TypeOK
  BY DEF Inv, TypeOK, LockInv, ChildInv
<1>2. ~ Execute(j)
  <2>1. ~ UpgraderStep(j)
    BY <1>1
    DEF UpgraderStep, NeedsUpgrade, StartForUpgrade, WaitUntilMySQLReachable, RunUpgrade,
        StopStandaloneDatabase, StopMysqld, MysqldExitChan, Goto, Fail
  <2>2. ~ NodeStarterStep(j)
    BY <1>1
    DEF NodeStarterStep, StartNodeFromState, HealthyCluster, ReadGrastate, WriteGrastate,
        BootstrapNode, JoinCluster, WaitForDatabase, SeedPhase, Goto, Fail
  <2> QED
    BY <1>1, <2>1, <2>2
    DEF Execute, CheckProcessRunning, Shutdown, StopMysqld, GetCurrentNodeState,
        OpenStateFile, WriteStateFile, StatusServerStart, MysqldExited, ForwardSigterm,
        Goto, Fail
<1>3. ~ WaitForCommand(j) /\ ~ StatusServerFatal(j)
  BY <1>1, ProcessAssumption DEF WaitForCommand, StatusServerFatal
<1>4. ASSUME NEW code, Terminate(j, code), UNCHANGED diskVars
      PROVE  /\ pc'[i] = pc[i] /\ ctxDone'[i] = ctxDone[i] /\ exit'[i] = exit[i]
             /\ nodeState'[i] = nodeState[i] /\ upgradeErr'[i] = upgradeErr[i]
             /\ cmd' = cmd /\ ch' = ch /\ listener' = listener
             /\ UNCHANGED <<procVars, diskVars, deployVars>>
             /\ pc'[j] \in {"off"} \cup SetupPcs
  <2>1. cmd' = cmd /\ ch' = ch
    BY <1>1, <1>4 DEF Terminate, TypeOK
  <2>2. phase' = phase
    BY <1>1, <1>4, ProcessAssumption DEF Terminate, TypeOK
  <2> QED
    BY <1>1, <1>4, <2>1, <2>2 DEF Terminate, TypeOK, procVars
<1>5. CASE Launch(j)
  BY <1>1, <1>5
  DEF Launch, Goto, TypeOK, startVars, childVars, procVars, diskVars, deployVars
<1>6. CASE LoadConfig(j)
  BY <1>1, <1>4, <1>6
  DEF LoadConfig, Goto, TypeOK, mainVars, startVars, childVars, procVars, diskVars, deployVars
<1>7. CASE ManagerSetup(j)
  BY <1>1, <1>4, <1>7, ProcessAssumption
  DEF ManagerSetup, Fail
<1>8. CASE Sigterm(j)
  BY <1>1, <1>4, <1>8
  DEF Sigterm, TypeOK, startVars, childVars, procVars, diskVars, deployVars
<1>9. CASE Sigkill(j)
  BY <1>1, <1>4, <1>9 DEF Sigkill
<1> QED
  BY <1>2, <1>3, <1>5, <1>6, <1>7, <1>8, <1>9 DEF Process, Code

\* mysqld, a redeployment and an operator do not move a galera-init process.
LEMMA ProcessesStay ==
  ASSUME NEW p \in Pid, Mysqld(p) \/ Redeploy \/ OperatorWrites
  PROVE  UNCHANGED <<pc, mainVars, startVars, childVars>>
BY DEF Mysqld, Opens, Refused, Syncs, Desyncs, Stops, Crashes, WritesGrastate, Becomes, Ends,
       Redeploy, OperatorWrites

\* No step of a process changes the deployed manifest.
LEMMA ManifestStays ==
  ASSUME NEW i \in Inst, Process(i)
  PROVE  UNCHANGED deployVars
<1>1. ASSUME UpgraderStep(i) PROVE UNCHANGED deployVars
  BY <1>1
  DEF UpgraderStep, NeedsUpgrade, StartForUpgrade, WaitUntilMySQLReachable, RunUpgrade,
      StopStandaloneDatabase, StopMysqld, MysqldExitChan, Fail, Terminate
<1>2. ASSUME NodeStarterStep(i) PROVE UNCHANGED deployVars
  BY <1>2
  DEF NodeStarterStep, StartNodeFromState, HealthyCluster, ReadGrastate, WriteGrastate,
      BootstrapNode, JoinCluster, WaitForDatabase, SeedPhase, Fail, Terminate
<1>3. ASSUME Execute(i) PROVE UNCHANGED deployVars
  BY <1>1, <1>2, <1>3
  DEF Execute, CheckProcessRunning, Shutdown, StopMysqld, GetCurrentNodeState,
      OpenStateFile, WriteStateFile, StatusServerStart, MysqldExited, ForwardSigterm,
      Fail, Terminate
<1> QED
  BY <1>3
  DEF Process, Code, Launch, LoadConfig, ManagerSetup, WaitForCommand, StatusServerFatal,
      Sigterm, Sigkill, Fail, Terminate

\* The state file has two writers, both in writeStringToFile of Execute.
LEMMA StateFileWriters ==
  ASSUME NEW i \in Inst, Process(i), stateFile' # stateFile
  PROVE  \/ Goto(i, "openStateFile", "writeStateFile") /\ stateFile' = "torn"
         \/ Goto(i, "writeStateFile", "statusServer") /\ stateFile' = nodeState[i]
<1>1. ~ UpgraderStep(i)
  BY DEF UpgraderStep, NeedsUpgrade, StartForUpgrade, WaitUntilMySQLReachable, RunUpgrade,
         StopStandaloneDatabase, StopMysqld, MysqldExitChan, diskVars
<1>2. ~ NodeStarterStep(i)
  BY DEF NodeStarterStep, StartNodeFromState, HealthyCluster, ReadGrastate, WriteGrastate,
         BootstrapNode, JoinCluster, WaitForDatabase, SeedPhase, diskVars
<1>3. CASE Execute(i)
  BY <1>1, <1>2, <1>3
  DEF Execute, CheckProcessRunning, Shutdown, StopMysqld, GetCurrentNodeState,
      OpenStateFile, WriteStateFile, StatusServerStart, MysqldExited, ForwardSigterm, diskVars
<1> QED
  BY <1>3
  DEF Process, Code, Launch, LoadConfig, ManagerSetup, WaitForCommand, StatusServerFatal,
      Sigterm, Sigkill, diskVars

\* Without SIGKILL and I/O errors the truncated state file is always written.
LEMMA WriteCompletes ==
  ASSUME TypeOK, NEW i \in Inst, Process(i), pc[i] = "writeStateFile",
         Faults \cap {"kill", "io"} = {}
  PROVE  pc'[i] = pc[i] \/ stateFile' = nodeState[i]
<1>1. ~ UpgraderStep(i)
  BY DEF UpgraderStep, NeedsUpgrade, StartForUpgrade, WaitUntilMySQLReachable, RunUpgrade,
         StopStandaloneDatabase, StopMysqld, MysqldExitChan, Goto, Fail
<1>2. ~ NodeStarterStep(i)
  BY DEF NodeStarterStep, StartNodeFromState, HealthyCluster, ReadGrastate, WriteGrastate,
         BootstrapNode, JoinCluster, WaitForDatabase, SeedPhase, Goto, Fail
<1>3. CASE Execute(i)
  BY <1>1, <1>2, <1>3
  DEF Execute, CheckProcessRunning, Shutdown, StopMysqld, GetCurrentNodeState,
      OpenStateFile, WriteStateFile, StatusServerStart, MysqldExited, ForwardSigterm,
      Goto, Fail
<1> QED
  BY <1>3
  DEF Process, Code, Launch, LoadConfig, ManagerSetup, WaitForCommand, StatusServerFatal,
      Sigterm, Sigkill, Goto, Fail

\* Every step keeps a torn state file in the hands of the process that writes
\* it.
LEMMA TornStep == Inv /\ TornOnlyByForce /\ [Next]_vars => TornOnlyByForce'
<1> SUFFICES ASSUME Inv, TornOnlyByForce, [Next]_vars,
                    stateFile' = "torn", Faults \cap {"kill", "io"} = {}
             PROVE  \E i \in Inst : pc'[i] = "writeStateFile"
  BY DEF TornOnlyByForce
<1>1. TypeOK /\ \A i \in Inst : pc[i] = "writeStateFile" => nodeState[i] # "torn"
  BY DEF Inv, DecisionInv
<1>2. CASE stateFile = "torn"
  <2>1. PICK i \in Inst : pc[i] = "writeStateFile"
    BY <1>2 DEF TornOnlyByForce
  <2>2. ASSUME NEW j \in Inst, Process(j) PROVE pc'[i] = pc[i]
    BY <1>1, <1>2, <2>1, <2>2, OthersStay, WriteCompletes
  <2>3. ASSUME \/ \E p \in Pid : Mysqld(p)
               \/ OperatorWrites \/ Redeploy \/ UNCHANGED vars
        PROVE  pc' = pc
    BY <2>3, ProcessesStay DEF vars, OperatorWrites, Redeploy
  <2> QED
    BY <2>1, <2>2, <2>3 DEF Next
<1>3. CASE stateFile # "torn"
  <2>1. PICK j \in Inst : Process(j)
    BY <1>3
    DEF Next, Mysqld, Opens, Refused, Syncs, Desyncs, Stops, Crashes, WritesGrastate,
        Becomes, Ends, Redeploy, OperatorWrites, Padded, diskVars, vars
  <2>2. Goto(j, "openStateFile", "writeStateFile")
    BY <1>1, <1>3, <2>1, StateFileWriters DEF Goto
  <2> QED
    BY <1>1, <2>2 DEF Goto, TypeOK
<1> QED
  BY <1>2, <1>3

\* Without SIGKILL and I/O errors a state file that no later start understands
\* is only ever seen between the two halves of writeStringToFile: no SIGTERM,
\* no end of mysqld, no failed seeding and no concurrent launch leaves one.
THEOREM NoTornStateFile == Spec => []TornOnlyByForce
<1>1. Init => TornOnlyByForce
  BY DEF Init, TornOnlyByForce
<1> QED
  BY <1>1, TornStep, Invariance, PTL DEF Spec

-----------------------------------------------------------------------------
(* The wait after SIGTERM                                                    *)

\* What may keep or bring a process at the receive from mysqldChan.
LEMMA ToMysqldChan ==
  ASSUME TypeOK, NEW i \in Inst, Process(i), pc'[i] = "mysqldChan"
  PROVE  \/ ForwardSigterm(i) /\ ~ KillCommandFails(i) /\ KillCommand(i) /\ UNCHANGED childVars
         \/ pc[i] = "mysqldChan" /\ WaitForCommand(i)
         \/ pc[i] = "mysqldChan" /\ UNCHANGED <<childVars, procVars>>
<1>0. ~ \E code : Terminate(i, code)
  BY DEF Terminate, TypeOK
<1>1. ~ UpgraderStep(i)
  BY <1>0
  DEF UpgraderStep, NeedsUpgrade, StartForUpgrade, WaitUntilMySQLReachable, RunUpgrade,
      StopStandaloneDatabase, StopMysqld, MysqldExitChan, Goto, Fail, TypeOK
<1>2. ~ NodeStarterStep(i)
  BY <1>0
  DEF NodeStarterStep, StartNodeFromState, HealthyCluster, ReadGrastate, WriteGrastate,
      BootstrapNode, JoinCluster, WaitForDatabase, SeedPhase, AfterSeeding, Goto, Fail, TypeOK
<1>3. CASE Execute(i)
  BY <1>0, <1>1, <1>2, <1>3
  DEF Execute, CheckProcessRunning, Shutdown, StopMysqld, GetCurrentNodeState,
      OpenStateFile, WriteStateFile, StatusServerStart, MysqldExited, ForwardSigterm,
      Goto, Fail, TypeOK
<1> QED
  BY <1>0, <1>3
  DEF Process, Code, Launch, LoadConfig, ManagerSetup, WaitForCommand, StatusServerFatal,
      Sigterm, Sigkill, Goto, Fail, TypeOK, childVars, procVars

\* A mysqld that is stopping, or has ended while somebody waits for it, is not
\* brought back to life by itself.
LEMMA EndIsFinal ==
  ASSUME TypeOK, NEW p \in Pid, NEW q \in Pid, Mysqld(q), Owned(p),
         phase[p] \in {"stopping"} \cup ExitStatus
  PROVE  phase'[p] \in {"stopping"} \cup ExitStatus
<1>1. CASE WritesGrastate(q)
  BY <1>1 DEF WritesGrastate, procVars
<1>2. CASE Opens(q) \/ Syncs(q) \/ Desyncs(q)
  BY <1>2 DEF Opens, Syncs, Desyncs, Becomes, TypeOK, ExitStatus
<1>3. CASE Refused(q) \/ Stops(q) \/ Crashes(q)
  BY <1>3 DEF Refused, Stops, Crashes, Ends, TypeOK, ExitStatus, Live
<1> QED
  BY <1>1, <1>2, <1>3 DEF Mysqld

\* Every step keeps the promise to a waiting process: its mysqld stops, or its
\* status is there.
LEMMA WaitStep == Inv /\ NeverWaitsInVain /\ [Next]_vars => NeverWaitsInVain'
<1> SUFFICES ASSUME Inv, NeverWaitsInVain, [Next]_vars,
                    NEW i \in Inst, pc'[i] = "mysqldChan"
             PROVE  \/ ch'[i] # "empty"
                    \/ cmd'[i] \in Pid /\ phase'[cmd'[i]] \in {"stopping"} \cup ExitStatus
  BY DEF NeverWaitsInVain
<1>1. TypeOK /\ (pc[i] \in ServingPcs => cmd[i] \in Pid)
  BY DEF Inv, ChildInv
<1>2. CASE Process(i)
  <2>1. CASE ForwardSigterm(i) /\ ~ KillCommandFails(i) /\ KillCommand(i) /\ UNCHANGED childVars
    <3>1. cmd[i] \in Pid /\ phase[cmd[i]] # "none" /\ cmd'[i] = cmd[i]
      BY <2>1 DEF KillCommandFails, childVars
    <3>2. phase'[cmd[i]] \in {"stopping"} \cup ExitStatus
      BY <1>1, <2>1, <3>1 DEF KillCommand, TypeOK, Live
    <3> QED
      BY <3>1, <3>2
  <2>2. CASE WaitForCommand(i)
    BY <1>1, <2>2 DEF WaitForCommand, TypeOK, ExitStatus
  <2>3. CASE pc[i] = "mysqldChan" /\ UNCHANGED <<childVars, procVars>>
    BY <2>3 DEF NeverWaitsInVain, childVars, procVars
  <2> QED
    BY <1>1, <1>2, <2>1, <2>2, <2>3, ToMysqldChan
<1>3. ASSUME NEW j \in Inst, j # i, Process(j)
      PROVE  pc[i] = "mysqldChan" /\ cmd' = cmd /\ ch' = ch /\ phase' = phase
  BY <1>1, <1>3, OthersStay, OutsiderStep DEF procVars
<1>4. ASSUME NEW p \in Pid, Mysqld(p)
      PROVE  \/ ch'[i] # "empty"
             \/ cmd'[i] \in Pid /\ phase'[cmd'[i]] \in {"stopping"} \cup ExitStatus
  BY <1>1, <1>4, ProcessesStay, EndIsFinal DEF NeverWaitsInVain, childVars, Owned
<1>5. CASE Redeploy \/ OperatorWrites \/ UNCHANGED vars
  BY <1>5
  DEF Redeploy, OperatorWrites, vars, procVars, childVars, NeverWaitsInVain
<1> QED
  BY <1>2, <1>3, <1>4, <1>5 DEF Next, NeverWaitsInVain

\* Whenever Execute has forwarded SIGTERM and waits, the mysqld it waits for has
\* the signal or has ended, or its status is already in the channel: no other
\* launch, signal, mysqld or end of mysqld takes that away again.
THEOREM WaitIsJustified == Spec => []NeverWaitsInVain
<1>1. Init => NeverWaitsInVain
  BY DEF Init, NeverWaitsInVain
<1> QED
  BY <1>1, WaitStep, Invariance, PTL DEF Spec

-----------------------------------------------------------------------------
(* The right to bootstrap                                                    *)

\* NEEDS_BOOTSTRAP comes from the manifest of a first start, or from the file.
LEMMA CurrentNodeStateAuthority ==
  ASSUME "stat" \notin Faults, clusterSize # 1, "NEEDS_BOOTSTRAP" \in CurrentNodeState
  PROVE  \/ stateFile = "absent" /\ bootstrapNode
         \/ stateFile \in {"SINGLE_NODE", "NEEDS_BOOTSTRAP", Padded}
BY DEF CurrentNodeState, FileExists, MayFail, TrimSpace

\* The program points between the decision to bootstrap and the start of mysqld.
BootstrapPath(i) ==
  \/ pc[i] = "StartNodeFromState" /\ nodeState[i] = "NEEDS_BOOTSTRAP"
  \/ pc[i] \in {"HealthyCluster", "StartMysqldInBootstrap"} \cup GrastatePcs

\* On a larger deployment this path is entered by getCurrentNodeState only, and
\* nothing the authority rests on is changed on it.
LEMMA BootstrapPathStep ==
  ASSUME Inv, NEW i \in Inst, Process(i), clusterSize # 1, BootstrapPath(i)'
  PROVE  /\ UNCHANGED <<stateFile, deployVars>>
         /\ BootstrapPath(i) \/ "NEEDS_BOOTSTRAP" \in CurrentNodeState
<1>0. TypeOK
  BY DEF Inv
<1>1. ~ \E code : Terminate(i, code)
  BY <1>0 DEF Terminate, TypeOK, BootstrapPath
<1>2. CASE UpgraderStep(i)
  BY <1>0, <1>1, <1>2
  DEF UpgraderStep, NeedsUpgrade, StartForUpgrade, WaitUntilMySQLReachable, RunUpgrade,
      StopStandaloneDatabase, StopMysqld, MysqldExitChan, Goto, Fail, TypeOK, BootstrapPath
<1>3. CASE NodeStarterStep(i)
  <2>1. CASE StartNodeFromState(i)
    BY <1>0, <1>1, <2>1
    DEF StartNodeFromState, Goto, Fail, TypeOK, BootstrapPath, Inv, DecisionInv, diskVars
  <2>2. CASE HealthyCluster(i) \/ ReadGrastate(i) \/ WriteGrastate(i)
    BY <1>0, <1>1, <2>2
    DEF HealthyCluster, ReadGrastate, WriteGrastate, Goto, Fail, TypeOK, BootstrapPath, diskVars
  <2>3. ~ (BootstrapNode(i) \/ JoinCluster(i) \/ WaitForDatabase(i) \/ SeedPhase(i))
    BY <1>0, <1>1
    DEF BootstrapNode, JoinCluster, WaitForDatabase, SeedPhase, AfterSeeding, Goto, Fail,
        TypeOK, BootstrapPath
  <2> QED
    BY <1>3, <2>1, <2>2, <2>3 DEF NodeStarterStep
<1>4. CASE Execute(i)
  BY <1>0, <1>1, <1>2, <1>3, <1>4
  DEF Execute, CheckProcessRunning, Shutdown, StopMysqld, GetCurrentNodeState,
      OpenStateFile, WriteStateFile, StatusServerStart, MysqldExited, ForwardSigterm,
      Goto, Fail, TypeOK, BootstrapPath, startVars, diskVars
<1> QED
  BY <1>0, <1>1, <1>4
  DEF Process, Code, Launch, LoadConfig, ManagerSetup, WaitForCommand, StatusServerFatal,
      Sigterm, Sigkill, Goto, Fail, TypeOK, BootstrapPath, startVars, diskVars

\* Every step keeps the authority, because the file and the manifest stay as
\* they were read.
LEMMA AuthorityStep ==
  ASSUME "stat" \notin Faults
  PROVE  Inv /\ AuthorityInv /\ [Next]_vars => AuthorityInv'
<1> DEFINE Authority == \/ stateFile = "absent" /\ bootstrapNode
                       \/ stateFile \in {"SINGLE_NODE", "NEEDS_BOOTSTRAP", Padded}
<1> SUFFICES ASSUME Inv, AuthorityInv, [Next]_vars,
                    NEW i \in Inst, clusterSize' # 1, BootstrapPath(i)'
             PROVE  Authority'
  BY DEF AuthorityInv, BootstrapPath
<1>0. BootstrapPath(i) /\ clusterSize # 1 => Authority
  BY DEF AuthorityInv, BootstrapPath
<1>1. CASE Process(i)
  <2>1. clusterSize' = clusterSize
    BY <1>1, ManifestStays DEF deployVars
  <2> QED
    BY <1>0, <1>1, <2>1, BootstrapPathStep, CurrentNodeStateAuthority DEF deployVars
<1>2. ASSUME NEW j \in Inst, j # i, Process(j)
      PROVE  Authority'
  <2>1. pc[i] = pc'[i]
    BY <1>2, OthersStay DEF Inv
  <2>2. pc[i] \in ExecutePcs
    BY <2>1 DEF BootstrapPath
  <2>3. BootstrapPath(i) /\ UNCHANGED <<stateFile, clusterSize, bootstrapNode>>
    BY <1>2, <2>2, OutsiderStep DEF BootstrapPath, diskVars, deployVars
  <2> QED
    BY <1>0, <2>3
<1>3. ASSUME NEW p \in Pid, Mysqld(p)
      PROVE  Authority'
  <2>1. UNCHANGED <<pc, nodeState, stateFile, clusterSize, bootstrapNode>>
    BY <1>3
    DEF Mysqld, Opens, Refused, Syncs, Desyncs, Stops, Crashes, WritesGrastate, Becomes, Ends,
        startVars, diskVars, deployVars
  <2> QED
    BY <1>0, <2>1 DEF BootstrapPath
<1>4. CASE Redeploy \/ OperatorWrites
  BY <1>4 DEF Redeploy, OperatorWrites, AllOff, BootstrapPath
<1>5. CASE UNCHANGED vars
  BY <1>0, <1>5 DEF vars, startVars, diskVars, deployVars, BootstrapPath
<1> QED
  BY <1>1, <1>2, <1>3, <1>4, <1>5 DEF Next

\* If an existing file can be examined, a node of a larger cluster starts mysqld
\* in bootstrap mode only with the authority getCurrentNodeState has found, and
\* that authority still stands when the command is started.
THEOREM BootstrapNeedsAuthority ==
  ASSUME "stat" \notin Faults
  PROVE  Spec => []BootstrapAuthorised
<1>1. Init => AuthorityInv
  BY DEF Init, AuthorityInv
<1>2. Inv /\ AuthorityInv => BootstrapAuthorised
  BY ConfigAssumption DEF Inv, TypeOK, AuthorityInv, BootstrapAuthorised
<1>3. Inv /\ AuthorityInv /\ [Next]_vars => AuthorityInv'
  BY AuthorityStep
<1> QED
  BY <1>1, <1>2, <1>3, Invariance, PTL DEF Spec

-----------------------------------------------------------------------------
(* One database                                                              *)

\* A node that nobody kills, with files that can be read and written, probes
\* that tell the truth, and a data directory that needs no upgrade.
Orderly ==
  /\ Faults \cap {"kill", "io", "stat", "spurious", "redeploy"} = {}
  /\ DiskVersions \subseteq {"current"}

\* A mysqld that has not been told to stop.
Running(p) == phase[p] \in {"booting", "serving", "synced"}

\* Then a booting mysqld always has a parent that waits for it: what is left
\* behind is one that answers, which the next launch finds and shuts down
\* before it looks for upgrades, decides and starts its own.
OrderlyInv ==
  /\ lastVersion = "current"
  /\ \A p, q \in Pid : Running(p) /\ Running(q) => p = q
  /\ \A p \in Pid : phase[p] = "booting" =>
       \E i \in Inst : cmd[i] = p /\ pc[i] = "waitForDatabase"
  /\ \A i \in Inst :
       /\ pc[i] \notin UpgradePcs
       /\ pc[i] \in {"NeedsUpgrade"} \cup DecidePcs \cup GrastatePcs \cup StartPcs =>
            \A p \in Pid : ~ Running(p)
       /\ pc[i] \in ChildPcs => \A p \in Pid : Running(p) => p = cmd[i]

\* A process that ends without a booting child leaves an orderly node.
LEMMA TerminateOrderly ==
  ASSUME Inv, OrderlyInv, NEW i \in Inst, NEW code, Terminate(i, code), UNCHANGED diskVars,
         \A p \in Pid : p = cmd[i] => phase[p] # "booting"
  PROVE  OrderlyInv'
<1>1. TypeOK
  BY DEF Inv
<1>2. \A p \in Pid : Running(p)' <=> Running(p)
  BY <1>1 DEF Terminate, TypeOK, Running, ExitStatus
<1>3. \A j \in Inst : j # i => pc'[j] = pc[j] /\ cmd'[j] = cmd[j]
  BY <1>1 DEF Terminate, TypeOK
<1>4. pc'[i] = "off"
  BY <1>1 DEF Terminate, TypeOK
<1>5. ASSUME NEW p \in Pid, phase'[p] = "booting"
      PROVE  \E j \in Inst : cmd'[j] = p /\ pc'[j] = "waitForDatabase"
  <2>1. phase[p] = "booting"
    BY <1>1, <1>5 DEF Terminate, TypeOK
  <2> QED
    BY <1>3, <2>1 DEF OrderlyInv
<1> QED
  BY <1>2, <1>3, <1>4, <1>5 DEF OrderlyInv, diskVars

\* Without upgrades the upgrader has nothing to do but to look.
LEMMA UpgraderOrderly ==
  ASSUME Orderly, Inv, OrderlyInv, NEW i \in Inst, UpgraderStep(i)
  PROVE  OrderlyInv'
<1>1. NeedsUpgrade(i)
  BY DEF UpgraderStep, StartForUpgrade, WaitUntilMySQLReachable, RunUpgrade,
         StopStandaloneDatabase, StopMysqld, MysqldExitChan, Goto, Fail, OrderlyInv
<1>2. /\ Goto(i, "NeedsUpgrade", "getCurrentNodeState")
      /\ UNCHANGED <<mainVars, startVars, childVars, procVars, diskVars, deployVars>>
  BY <1>1 DEF NeedsUpgrade, FileExists, MayFail, Orderly, OrderlyInv
<1> QED
  BY <1>2
  DEF Goto, Inv, TypeOK, OrderlyInv, Running,
      mainVars, startVars, childVars, procVars, diskVars, deployVars

\* The node starter starts a mysqld only where none runs, and waits while it
\* boots.
LEMMA NodeStarterOrderly ==
  ASSUME Orderly, Inv, OrderlyInv, NEW i \in Inst, NodeStarterStep(i)
  PROVE  OrderlyInv'
<1> USE ProcessAssumption
<1>1. CASE StartNodeFromState(i)
  BY <1>1, TerminateOrderly
  DEF StartNodeFromState, Fail, Goto, Inv, TypeOK, LockInv, ChildInv, OrderlyInv, Running,
      mainVars, startVars, childVars, procVars, diskVars, deployVars
<1>2. CASE HealthyCluster(i)
  BY <1>2
  DEF HealthyCluster, Goto, Inv, TypeOK, LockInv, ChildInv, OrderlyInv, Running,
      mainVars, startVars, childVars, procVars, diskVars, deployVars
<1>3. CASE ReadGrastate(i)
  BY <1>3, TerminateOrderly
  DEF ReadGrastate, Fail, Goto, Inv, TypeOK, LockInv, ChildInv, OrderlyInv, Running,
      mainVars, startVars, childVars, procVars, diskVars, deployVars
<1>4. CASE WriteGrastate(i)
  BY <1>4, TerminateOrderly
  DEF WriteGrastate, Fail, Goto, Inv, TypeOK, LockInv, ChildInv, OrderlyInv, Running,
      mainVars, startVars, childVars, procVars, diskVars, deployVars
<1>5. CASE BootstrapNode(i)
  BY <1>5, TerminateOrderly
  DEF BootstrapNode, StartMysqldInBootstrap, StartCommand, Free, Owned, Fail, Orderly, Goto,
      Inv, TypeOK, LockInv, ChildInv, OrderlyInv, Running,
      mainVars, startVars, childVars, procVars, diskVars, deployVars
<1>6. CASE JoinCluster(i)
  BY <1>6, TerminateOrderly
  DEF JoinCluster, StartMysqldInJoin, StartCommand, Free, Owned, Fail, Orderly, Goto, Inv,
      TypeOK, LockInv, ChildInv, OrderlyInv, Running,
      mainVars, startVars, childVars, procVars, diskVars, deployVars
<1>7. CASE WaitForDatabase(i)
  <2>1. CASE ch[i] # "empty" /\ Fail(i, "waitForDatabase") /\ UNCHANGED diskVars
    <3>1. \A p \in Pid : p = cmd[i] => phase[p] = "none"
      BY <2>1 DEF Inv, ChildInv
    <3> QED
      BY <2>1, <3>1, TerminateOrderly DEF Fail
  <2>2. CASE /\ TRUE \in IsDatabaseReachable
             /\ Goto(i, "waitForDatabase", "seedDatabases")
             /\ UNCHANGED <<mainVars, startVars, childVars, procVars, diskVars, deployVars>>
    <3>1. PICK p \in Pid : phase[p] \in {"serving", "synced"}
      BY <2>2, Zenon DEF IsDatabaseReachable, Serves
    <3>2. \A q \in Pid : phase[q] # "booting"
      BY <3>1 DEF OrderlyInv, Running
    <3> QED
      BY <2>2, <3>2
      DEF Goto, Inv, TypeOK, OrderlyInv, Running,
          mainVars, startVars, childVars, procVars, diskVars, deployVars
  <2> QED
    BY <1>7, <2>1, <2>2 DEF WaitForDatabase
<1>8. CASE SeedPhase(i)
  BY <1>8, TerminateOrderly
  DEF SeedPhase, AfterSeeding, Fail, Goto, Inv, TypeOK, LockInv, ChildInv, OrderlyInv, Running,
      mainVars, startVars, childVars, procVars, diskVars, deployVars
<1>9. QED
  BY <1>1, <1>2, <1>3, <1>4, <1>5, <1>6, <1>7, <1>8 DEF NodeStarterStep

\* The start manager gets to its decision only past a mysqld that it has shut
\* down.
LEMMA ExecuteOrderly ==
  ASSUME Orderly, Inv, OrderlyInv, NEW i \in Inst, Execute(i)
  PROVE  OrderlyInv'
<1> USE ProcessAssumption
<1>1. CASE CheckProcessRunning(i)
  <2>1. PICK running \in IsProcessRunning :
          /\ Goto(i, "IsProcessRunning", IF running THEN "Shutdown" ELSE "NeedsUpgrade")
          /\ UNCHANGED <<mainVars, startVars, childVars, procVars, diskVars, deployVars>>
    BY <1>1 DEF CheckProcessRunning
  <2>2. running <=> SomeServer
    BY DEF IsProcessRunning, MayFail, Orderly
  <2>3. \A p \in Pid : phase[p] # "booting"
    BY <2>1 DEF OrderlyInv, Inv, LockInv, Goto
  <2>4. ~ running => \A p \in Pid : ~ Running(p)
    BY <2>2, <2>3 DEF SomeServer, Serves, Running
  <2> QED
    BY <2>1, <2>3, <2>4
    DEF Goto, Inv, TypeOK, LockInv, OrderlyInv, Running,
        mainVars, startVars, childVars, procVars, diskVars, deployVars
<1>2. CASE Shutdown(i)
  BY <1>2, TerminateOrderly
  DEF Shutdown, StopMysqld, Serves, Goto, Inv, TypeOK, LockInv, ChildInv, OrderlyInv, Running,
      mainVars, startVars, childVars, procVars, diskVars, deployVars
<1>3. CASE GetCurrentNodeState(i)
  BY <1>3, TerminateOrderly
  DEF GetCurrentNodeState, Fail, Goto, Inv, TypeOK, LockInv, ChildInv, OrderlyInv, Running,
      mainVars, startVars, childVars, procVars, diskVars, deployVars
<1>4. CASE OpenStateFile(i)
  BY <1>4, TerminateOrderly
  DEF OpenStateFile, Fail, Goto, Inv, TypeOK, LockInv, ChildInv, OrderlyInv, Running,
      mainVars, startVars, childVars, procVars, diskVars, deployVars
<1>5. CASE WriteStateFile(i)
  BY <1>5, TerminateOrderly
  DEF WriteStateFile, Fail, Goto, Inv, TypeOK, LockInv, ChildInv, OrderlyInv, Running,
      mainVars, startVars, childVars, procVars, diskVars, deployVars
<1>6. CASE StatusServerStart(i)
  BY <1>6
  DEF StatusServerStart, Goto, Inv, TypeOK, LockInv, ChildInv, OrderlyInv, Running,
      mainVars, startVars, childVars, procVars, diskVars, deployVars
<1>7. CASE MysqldExited(i)
  BY <1>7, TerminateOrderly
  DEF MysqldExited, Goto, Inv, TypeOK, LockInv, ChildInv, OrderlyInv, Running,
      mainVars, startVars, childVars, procVars, diskVars, deployVars
<1>8. CASE ForwardSigterm(i)
  BY <1>8, TerminateOrderly
  DEF ForwardSigterm, KillCommand, KillCommandFails, Live, Fail, Goto, Inv, TypeOK, LockInv,
      ChildInv, OrderlyInv, Running,
      mainVars, startVars, childVars, procVars, diskVars, deployVars
<1>9. QED
  BY <1>1, <1>2, <1>3, <1>4, <1>5, <1>6, <1>7, <1>8, UpgraderOrderly, NodeStarterOrderly
  DEF Execute

\* A process that is not killed never leaves a booting mysqld behind.
LEMMA ProcessOrderly ==
  ASSUME Orderly, Inv, OrderlyInv, NEW i \in Inst, Process(i)
  PROVE  OrderlyInv'
<1> USE ProcessAssumption
<1>1. CASE Launch(i)
  BY <1>1
  DEF Launch, Goto, Inv, TypeOK, LockInv, ChildInv, OrderlyInv, Running,
      mainVars, startVars, childVars, procVars, diskVars, deployVars
<1>2. CASE LoadConfig(i)
  BY <1>2, TerminateOrderly
  DEF LoadConfig, Goto, Inv, TypeOK, LockInv, ChildInv, OrderlyInv, Running,
      mainVars, startVars, childVars, procVars, diskVars, deployVars
<1>3. CASE ManagerSetup(i)
  BY <1>3, TerminateOrderly
  DEF ManagerSetup, Fail, Goto, Inv, TypeOK, LockInv, ChildInv, OrderlyInv, Running,
      mainVars, startVars, childVars, procVars, diskVars, deployVars
<1>4. CASE WaitForCommand(i)
  BY <1>4
  DEF WaitForCommand, ExitStatus, Goto, Inv, TypeOK, LockInv, ChildInv, OrderlyInv, Running,
      mainVars, startVars, childVars, procVars, diskVars, deployVars
<1>5. CASE StatusServerFatal(i)
  BY <1>5, TerminateOrderly
  DEF StatusServerFatal, Goto, Inv, TypeOK, LockInv, ChildInv, OrderlyInv, Running,
      mainVars, startVars, childVars, procVars, diskVars, deployVars
<1>6. CASE Sigterm(i)
  BY <1>6, TerminateOrderly
  DEF Sigterm, Goto, Inv, TypeOK, LockInv, ChildInv, OrderlyInv, Running,
      mainVars, startVars, childVars, procVars, diskVars, deployVars
<1>7. QED
  BY <1>1, <1>2, <1>3, <1>4, <1>5, <1>6, ExecuteOrderly DEF Process, Code, Sigkill, Orderly

\* mysqld boots only once, so its own steps leave a node orderly.
LEMMA MysqldOrderly ==
  ASSUME Inv, OrderlyInv, NEW p \in Pid, Mysqld(p)
  PROVE  OrderlyInv'
<1>1. TypeOK
  BY DEF Inv
<1>2. UNCHANGED <<pc, cmd, lastVersion>>
  BY DEF Mysqld, Opens, Refused, Syncs, Desyncs, Stops, Crashes, WritesGrastate, Becomes, Ends,
         childVars, diskVars
<1>3. \A q \in Pid : /\ Running(q)' => Running(q)
                     /\ phase'[q] = "booting" => phase[q] = "booting"
  <2>1. CASE WritesGrastate(p)
    BY <2>1 DEF WritesGrastate, procVars, Running
  <2>2. CASE Opens(p) \/ Syncs(p) \/ Desyncs(p)
    BY <1>1, <2>2 DEF Opens, Syncs, Desyncs, Becomes, TypeOK, Running
  <2>3. CASE Refused(p) \/ Stops(p) \/ Crashes(p)
    BY <1>1, <2>3 DEF Refused, Stops, Crashes, Ends, TypeOK, Running, ExitStatus
  <2> QED
    BY <2>1, <2>2, <2>3 DEF Mysqld
<1> QED
  BY <1>2, <1>3 DEF OrderlyInv

\* Every step leaves an orderly node orderly.
LEMMA OrderlyStep ==
  ASSUME Orderly
  PROVE  Inv /\ OrderlyInv /\ [Next]_vars => OrderlyInv'
<1> SUFFICES ASSUME Inv, OrderlyInv, [Next]_vars PROVE OrderlyInv'
  OBVIOUS
<1>1. ~ Redeploy
  BY DEF Redeploy, Orderly
<1>2. CASE OperatorWrites
  BY <1>2 DEF OperatorWrites, OrderlyInv, Running, childVars, procVars
<1>3. CASE UNCHANGED vars
  BY <1>3 DEF vars, OrderlyInv, Running, childVars, procVars, diskVars
<1> QED
  BY <1>1, <1>2, <1>3, ProcessOrderly, MysqldOrderly DEF Next

\* A node starts without a mysqld and with a current data directory.
LEMMA OrderlyInit == Orderly /\ Init => OrderlyInv
BY ProcessAssumption DEF Orderly, Init, OrderlyInv, Running

\* On an orderly node Execute reaches its aim: there is never a second mysqld
\* that has not been told to stop, however often mysqld crashes, a seeding
\* fails, the status server breaks, or galera-init is launched and signalled.
THEOREM OneDatabaseAtATime ==
  ASSUME Orderly
  PROVE  Spec => []OneDatabase
<1>1. Init => OrderlyInv
  BY OrderlyInit
<1>2. Inv /\ OrderlyInv /\ [Next]_vars => OrderlyInv'
  BY OrderlyStep
<1>3. OrderlyInv => OneDatabase
  BY DEF OrderlyInv, OneDatabase, Running
<1> QED
  BY <1>1, <1>2, <1>3, Invariance, PTL DEF Spec

\* On an orderly node the server that galera-init waits for, seeds and watches
\* is its own child, although it only ever asks "whoever answers".
THEOREM AnswersAreFromTheChild ==
  ASSUME Orderly
  PROVE  Spec => []OwnServerAnswers
<1>1. Init => OrderlyInv
  BY OrderlyInit
<1>2. Inv /\ OrderlyInv /\ [Next]_vars => OrderlyInv'
  BY OrderlyStep
<1>3. OrderlyInv => OwnServerAnswers
  BY DEF OrderlyInv, OwnServerAnswers, Running, Serves
<1> QED
  BY <1>1, <1>2, <1>3, Invariance, PTL DEF Spec

=============================================================================
