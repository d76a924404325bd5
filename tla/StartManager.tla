----------------------------- MODULE StartManager -----------------------------
(***************************************************************************)
(* Package start_manager: Execute, from the check for an old mysqld to the *)
(* select that waits for mysqld's end or for SIGTERM.                      *)
(***************************************************************************)
EXTENDS Upgrader, NodeStarter

\* Mutant: an old mysqld is not looked for.
SkipProcessCheck(i) ==
  /\ Goto(i, "IsProcessRunning", "NeedsUpgrade")
  /\ UNCHANGED <<mainVars, startVars, childVars, procVars, diskVars, deployVars>>

CheckProcessRunning(i) ==
  \E running \in IsProcessRunning :
    /\ Goto(i, "IsProcessRunning", IF running THEN "Shutdown" ELSE "NeedsUpgrade")
    /\ UNCHANGED <<mainVars, startVars, childVars, procVars, diskVars, deployVars>>

Shutdown(i) == StopMysqld(i, "Shutdown", "NeedsUpgrade")

\* Mutants: every node bootstraps on its first start; the size of the
\* deployment is not looked at.
FirstStartBootstraps ==
  IF clusterSize = 1 THEN {"SINGLE_NODE"}
  ELSE { IF ~ exists \/ TrimSpace(stateFile) = "SINGLE_NODE"
         THEN "NEEDS_BOOTSTRAP" ELSE TrimSpace(stateFile)
         : exists \in FileExists(stateFile) }
SizeIgnored ==
  { IF ~ exists THEN IF bootstrapNode THEN "NEEDS_BOOTSTRAP" ELSE "CLUSTERED"
    ELSE TrimSpace(stateFile) : exists \in FileExists(stateFile) }

\* The results of getCurrentNodeState other than an error.
CurrentNodeState ==
  IF clusterSize = 1 THEN {"SINGLE_NODE"}
  ELSE { IF ~ exists
         THEN IF bootstrapNode THEN "NEEDS_BOOTSTRAP" ELSE "CLUSTERED"
         ELSE IF TrimSpace(stateFile) = "SINGLE_NODE" THEN "NEEDS_BOOTSTRAP"
         ELSE TrimSpace(stateFile) : exists \in FileExists(stateFile) }

GetCurrentNodeState(i) ==
  \/ \E state \in CurrentNodeState :
       /\ Goto(i, "getCurrentNodeState", "StartNodeFromState")
       /\ nodeState' = [nodeState EXCEPT ![i] = state]
       /\ UNCHANGED <<mainVars, tries, upgradeErr, childVars, procVars,
                      diskVars, deployVars>>
  \/ /\ clusterSize > 1 /\ stateFile # "absent" /\ "io" \in Faults
     /\ Fail(i, "getCurrentNodeState")
     /\ UNCHANGED diskVars

\* writeStringToFile truncates the state file, then writes newNodeState.
OpenStateFile(i) ==
  \/ /\ Goto(i, "openStateFile", "writeStateFile")
     /\ stateFile' = "torn"
     /\ UNCHANGED <<mainVars, startVars, childVars, procVars,
                    grastate, lastVersion, deployVars>>
  \/ /\ "io" \in Faults
     /\ Fail(i, "openStateFile")
     /\ UNCHANGED diskVars

WriteStateFile(i) ==
  \/ /\ Goto(i, "writeStateFile", "statusServer")
     /\ stateFile' = nodeState[i]
     /\ UNCHANGED <<mainVars, startVars, childVars, procVars,
                    grastate, lastVersion, deployVars>>
  \/ /\ "io" \in Faults
     /\ Fail(i, "writeStateFile")
     /\ UNCHANGED diskVars

\* From here on the status server answers "galera init done".
StatusServerStart(i) ==
  /\ Goto(i, "statusServer", "select")
  /\ UNCHANGED <<mainVars, startVars, childVars, procVars, diskVars, deployVars>>

\* The server's goroutine ends the process when Serve returns.
StatusServerFatal(i) ==
  /\ "accept" \in Faults
  /\ pc[i] \in ServingPcs
  /\ Terminate(i, "one")
  /\ UNCHANGED diskVars

\* Mutant: ExitStatus() of a signalled process is taken for its exit code.
SignalIgnored(status) == IF status = "exitErr" THEN "mysqldStatus" ELSE "zero"

\* main turns the error of Execute, mysqld's wait status, into an exit code.
ExitCode(status) ==
  CASE status = "exit0" -> "zero"
    [] status = "exitErr" -> "mysqldStatus"
    [] status = "signaled" -> "mysqldSignal"

MysqldExited(i) ==
  /\ pc[i] \in {"select", "mysqldChan"}
  /\ ch[i] # "empty"
  /\ Terminate(i, ExitCode(ch[i]))
  /\ UNCHANGED diskVars

\* Mutant: Execute returns without waiting for mysqld.
ForwardWithoutWait(i) ==
  /\ pc[i] = "select" /\ ctxDone[i]
  /\ Terminate(i, "zero")
  /\ UNCHANGED diskVars

\* The branch of the select that forwards SIGTERM to mysqld.
ForwardSigterm(i) ==
  /\ pc[i] = "select" /\ ctxDone[i]
  /\ \/ /\ KillCommandFails(i)
        /\ Fail(i, "select")
        /\ UNCHANGED diskVars
     \/ /\ ~ KillCommandFails(i)
        /\ Goto(i, "select", "mysqldChan")
        /\ KillCommand(i)
        /\ UNCHANGED <<mainVars, startVars, childVars, mode, diskVars, deployVars>>

Execute(i) ==
  \/ CheckProcessRunning(i) \/ Shutdown(i)
  \/ UpgraderStep(i)
  \/ GetCurrentNodeState(i) \/ NodeStarterStep(i)
  \/ OpenStateFile(i) \/ WriteStateFile(i) \/ StatusServerStart(i)
  \/ MysqldExited(i) \/ ForwardSigterm(i)

=============================================================================
