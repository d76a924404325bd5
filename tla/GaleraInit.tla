------------------------------ MODULE GaleraInit ------------------------------
(***************************************************************************)
(* cmd/start/main.go: a galera-init process from its launch to its exit,   *)
(* the signals it receives, and everything that happens around it on its   *)
(* VM (mysqld, monit, operators, deployments).                             *)
(***************************************************************************)
EXTENDS StartManager

\* monit starts galera-init.
Launch(i) ==
  /\ Goto(i, "off", "NewConfig")
  /\ exit' = [exit EXCEPT ![i] = "none"]
  /\ UNCHANGED <<ctxDone, listener, startVars, childVars, procVars,
                 diskVars, deployVars>>

\* NewConfig and Validate, then setupSignals; Logger.Fatal panics.
LoadConfig(i) ==
  \/ /\ Goto(i, "NewConfig", "managerSetup")
     /\ UNCHANGED <<mainVars, startVars, childVars, procVars, diskVars, deployVars>>
  \/ /\ pc[i] = "NewConfig"
     /\ Terminate(i, "panic")
     /\ UNCHANGED diskVars

\* Mutant: a socket that is already in use is no error.
SetupSharesSocket(i) ==
  /\ Goto(i, "managerSetup", "IsProcessRunning")
  /\ listener' = i
  /\ UNCHANGED <<ctxDone, exit, startVars, childVars, procVars,
                 diskVars, deployVars>>

\* managerSetup opens the status server's socket before Execute runs.
ManagerSetup(i) ==
  \/ /\ listener = None
     /\ Goto(i, "managerSetup", "IsProcessRunning")
     /\ listener' = i
     /\ UNCHANGED <<ctxDone, exit, startVars, childVars, procVars,
                    diskVars, deployVars>>
  \/ /\ listener # None \/ "io" \in Faults
     /\ Fail(i, "managerSetup")
     /\ UNCHANGED diskVars

\* Mutant: the signal is never caught.
SigtermKills(i) ==
  /\ pc[i] # "off"
  /\ Terminate(i, "killed")
  /\ UNCHANGED diskVars

\* SIGTERM: fatal before setupSignals, afterwards it cancels the context.
Sigterm(i) ==
  \/ /\ pc[i] = "NewConfig"
     /\ Terminate(i, "killed")
     /\ UNCHANGED diskVars
  \/ /\ pc[i] \notin {"off", "NewConfig"}
     /\ ~ ctxDone[i]
     /\ ctxDone' = [ctxDone EXCEPT ![i] = TRUE]
     /\ UNCHANGED <<pc, exit, listener, startVars, childVars, procVars,
                    diskVars, deployVars>>

Sigkill(i) ==
  /\ "kill" \in Faults
  /\ pc[i] # "off"
  /\ Terminate(i, "killed")
  /\ UNCHANGED diskVars

AllOff == \A i \in Inst : pc[i] = "off"

\* A new manifest, and perhaps a new mysqld package.
Redeploy ==
  /\ "redeploy" \in Faults
  /\ AllOff
  /\ clusterSize' \in ClusterSizes
  /\ bootstrapNode' \in BOOLEAN
  /\ lastVersion' \in {lastVersion} \cup
                      (IF lastVersion = "current" THEN {"old"} ELSE {})
  /\ UNCHANGED <<pc, mainVars, startVars, childVars, procVars, stateFile, grastate>>

\* Repair of a cluster by hand.
OperatorWrites ==
  /\ "operator" \in Faults
  /\ AllOff
  /\ stateFile' \in {"NEEDS_BOOTSTRAP", Padded, "CLUSTERED"}
  /\ UNCHANGED <<pc, mainVars, startVars, childVars, procVars,
                 grastate, lastVersion, deployVars>>

\* The sequential code of process i.
Code(i) == LoadConfig(i) \/ ManagerSetup(i) \/ Execute(i)

Process(i) ==
  \/ Launch(i) \/ Code(i) \/ WaitForCommand(i) \/ StatusServerFatal(i)
  \/ Sigterm(i) \/ Sigkill(i)

Next ==
  \/ \E i \in Inst : Process(i)
  \/ \E p \in Pid : Mysqld(p)
  \/ Redeploy
  \/ OperatorWrites

Spec == Init /\ [][Next]_vars

(***************************************************************************)
(* galera-init's goroutines are scheduled, and mysqld neither boots, syncs *)
(* nor stops forever.  Nobody has to launch, signal or repair anything.    *)
(***************************************************************************)
Fairness ==
  /\ \A i \in Inst : WF_vars(Code(i)) /\ WF_vars(WaitForCommand(i))
  /\ \A p \in Pid : /\ WF_vars(Opens(p)) /\ WF_vars(Refused(p))
                    /\ WF_vars(Syncs(p)) /\ WF_vars(Stops(p))

FairSpec == Spec /\ Fairness

-----------------------------------------------------------------------------
(* Safety                                                                    *)

\* Two galera-init processes never execute the start manager at once: the
\* socket main opens in managerSetup is the lock that keeps a second launch
\* away from the data directory, the state file and mysqld.
AtMostOneManager ==
  \A i, j \in Inst : pc[i] \in ExecutePcs /\ pc[j] \in ExecutePcs => i = j

\* When the status server says "galera init done", the state file holds the
\* state the next start has to begin with: complete, never NEEDS_BOOTSTRAP,
\* and SINGLE_NODE exactly when the deployment has one node.
ReadyRecorded ==
  \A i \in Inst : pc[i] \in ServingPcs =>
    stateFile = IF clusterSize = 1 THEN "SINGLE_NODE" ELSE "CLUSTERED"

\* A node of a larger cluster bootstraps only where that was asked for: on
\* its first start as the bootstrap node, coming from a single-node
\* deployment, or by an operator's word in the state file.  The decision of
\* getCurrentNodeState is still right when mysqld is started, many steps later.
BootstrapAuthorised ==
  \A i \in Inst :
    pc[i] \in GrastatePcs \cup {"StartMysqldInBootstrap"} /\ clusterSize > 1 =>
      \/ stateFile = "absent" /\ bootstrapNode
      \/ stateFile \in {"SINGLE_NODE", "NEEDS_BOOTSTRAP", Padded}

\* galera-init never runs a cluster mysqld on a data directory that this
\* package has not upgraded, unless mysql_upgrade's error was acceptable.
UpgradeBeforeServe ==
  \A i \in Inst : \A p \in Pid :
    cmd[i] = p /\ mode[p] \in {"bootstrap", "join"} =>
      lastVersion = "current" \/ upgradeErr[i] = "accepted"

\* After forwarding SIGTERM galera-init waits for a mysqld that is on its way
\* out: one that is stopping, has ended, or whose status is in the channel.
NeverWaitsInVain ==
  \A i \in Inst : pc[i] = "mysqldChan" =>
    \/ ch[i] # "empty"
    \/ cmd[i] \in Pid /\ phase[cmd[i]] \in {"stopping"} \cup ExitStatus

\* Only a SIGKILL or an I/O error leaves a state file that no later start
\* understands: no signal, mysqld failure or concurrent launch does.
TornOnlyByForce ==
  stateFile = "torn" =>
    \/ Faults \cap {"kill", "io"} # {}
    \/ \E i \in Inst : pc[i] = "writeStateFile"

\* A process that has answered the status probe ends on its own account only
\* after its mysqld has: a planned stop never leaves mysqld running.
StopsWithoutOrphan ==
  [][\A i \in Inst :
       pc[i] \in ServingPcs /\ pc'[i] = "off" /\ exit'[i] # "killed" =>
         \/ cmd[i] \in Pid /\ phase[cmd[i]] \notin Live
         \/ "accept" \in Faults]_vars

\* At most one mysqld that has not been told to stop.  Execute means to
\* ensure it by shutting down a running mysqld first.
OneDatabase ==
  \A p, q \in {r \in Pid : phase[r] \in {"booting", "serving", "synced"}} : p = q

\* While galera-init waits for, seeds and watches its database, no other
\* mysqld answers on the socket: what it probes and seeds is its own child.
OwnServerAnswers ==
  \A i \in Inst : \A p \in Pid :
    pc[i] \in WaitPcs \cup RecordPcs \cup ServingPcs /\ Serves(p) => p = cmd[i]

\* A node that is not the bootstrap node of a larger cluster joins.
NonBootstrapNodeJoins ==
  \A i \in Inst :
    pc[i] = "StartMysqldInBootstrap" /\ clusterSize > 1 => bootstrapNode

\* main and Execute implement what Lifecycle promises monit, under this view
\* of a process: where it is, and what has become of its command's process.
RunOf(i) ==
  CASE pc[i] = "off" -> "off"
    [] pc[i] \in SetupPcs -> "setup"
    [] pc[i] \in ServingPcs -> "ready"
    [] OTHER -> "starting"

DatabaseOf(i) ==
  CASE cmd[i] = None -> "none"
    [] cmd[i] # None /\ ch[i] # "empty" -> ch[i]
    [] cmd[i] # None /\ ch[i] = "empty" ->
         IF phase[cmd[i]] \in Live THEN "live" ELSE phase[cmd[i]]

Contract == INSTANCE Lifecycle
              WITH run <- [i \in Inst |-> RunOf(i)],
                   database <- [i \in Inst |-> DatabaseOf(i)],
                   MayAbandon <- "accept" \in Faults
ImplementsLifecycle == Contract!Spec

-----------------------------------------------------------------------------
(* What makes the safety properties inductive                                *)

ChildPcs == WaitPcs \cup RecordPcs \cup ServingPcs
DecidedPcs == {"HealthyCluster"} \cup GrastatePcs \cup StartPcs \cup ChildPcs
UpgradedPcs == {"getCurrentNodeState", "StartNodeFromState"} \cup DecidedPcs

\* Who executes holds the socket.
LockInv == \A i \in Inst : pc[i] \in ExecutePcs => listener = i

\* Who has a child executes, is past the start of one, and finds it reaped
\* exactly when its status is in the channel.
ChildInv ==
  \A i \in Inst :
    /\ cmd[i] \in Pid => pc[i] \in (ChildPcs \cup UpgradePcs) \ {"StartMysqldForUpgrade"}
    /\ pc[i] \in ChildPcs => cmd[i] \in Pid
    /\ ch[i] # "empty" => cmd[i] \in Pid
    /\ cmd[i] \in Pid => (ch[i] # "empty" <=> phase[cmd[i]] = "none")

\* What StartNodeFromState was asked for, and what it will return.
DecisionInv ==
  \A i \in Inst :
    /\ pc[i] = "StartNodeFromState" =>
         (nodeState[i] = "SINGLE_NODE" <=> clusterSize = 1)
    /\ pc[i] \in DecidedPcs =>
         nodeState[i] = IF clusterSize = 1 THEN "SINGLE_NODE" ELSE "CLUSTERED"
    /\ pc[i] \in {"statusServer"} \cup ServingPcs => stateFile = nodeState[i]

\* Whoever is past the upgrade check has an upgraded data directory.
VersionInv ==
  \A i \in Inst :
    /\ pc[i] \in {"stopStandaloneDatabase", "mysqldExitChan"} =>
         /\ upgradeErr[i] # "none"
         /\ upgradeErr[i] = "ok" => lastVersion = "current"
    /\ pc[i] \in UpgradedPcs =>
         lastVersion = "current" \/ upgradeErr[i] = "accepted"
    /\ cmd[i] \in Pid /\ mode[cmd[i]] \in {"bootstrap", "join"} =>
         pc[i] \in UpgradedPcs

\* A decision to bootstrap rests on the file and the manifest as they are.
AuthorityInv ==
  \A i \in Inst :
    (/\ clusterSize # 1
     /\ \/ pc[i] = "StartNodeFromState" /\ nodeState[i] = "NEEDS_BOOTSTRAP"
        \/ pc[i] \in {"HealthyCluster", "StartMysqldInBootstrap"} \cup GrastatePcs)
    => \/ stateFile = "absent" /\ bootstrapNode
       \/ stateFile \in {"SINGLE_NODE", "NEEDS_BOOTSTRAP", Padded}

Inv == TypeOK /\ LockInv /\ ChildInv /\ DecisionInv /\ VersionInv

-----------------------------------------------------------------------------
(* Liveness                                                                  *)

\* A SIGTERM that main has caught ends galera-init, whatever it was doing, with
\* one exception: Upgrade may wait for ever for the mysqld it has started, where
\* nobody looks at the context.
SigtermHonoured ==
  \A i \in Inst : ctxDone[i] ~> (pc[i] = "off" \/ [](pc[i] = "mysqldExitChan"))

\* A start either comes up or gives up; it does not hang between the two.
StartupResolves ==
  \A i \in Inst :
    pc[i] = "StartNodeFromState" ~> pc[i] \in {"select", "off"}

\* An abnormal end of a watched mysqld reaches monit as a nonzero exit code.
AbnormalEndReported ==
  \A i \in Inst :
    pc[i] \in ServingPcs /\ cmd[i] \in Pid
      /\ phase[cmd[i]] \in {"exitErr", "signaled"}
    ~> exit[i] \notin {"none", "zero"}

\* Once the upgrade mysqld has been told to stop, Upgrade returns.
UpgradeReturns ==
  \A i \in Inst :
    pc[i] = "mysqldExitChan" ~> pc[i] # "mysqldExitChan"

=============================================================================
