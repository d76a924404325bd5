------------------------------ MODULE NodeStarter ------------------------------
(***************************************************************************)
(* Package start_manager/node_starter: the steps of StartNodeFromState.    *)
(***************************************************************************)
EXTENDS DbHelper

\* The switch on the state.  nodeState becomes newNodeState.
StartNodeFromState(i) ==
  \/ /\ nodeState[i] = "SINGLE_NODE"
     /\ Goto(i, "StartNodeFromState", "readGrastate")
     /\ UNCHANGED <<mainVars, startVars, childVars, procVars, diskVars, deployVars>>
  \/ /\ nodeState[i] = "NEEDS_BOOTSTRAP"
     /\ Goto(i, "StartNodeFromState", "HealthyCluster")
     /\ nodeState' = [nodeState EXCEPT ![i] = "CLUSTERED"]
     /\ UNCHANGED <<mainVars, tries, upgradeErr, childVars, procVars,
                    diskVars, deployVars>>
  \/ /\ nodeState[i] = "CLUSTERED"
     /\ Goto(i, "StartNodeFromState", "StartMysqldInJoin")
     /\ UNCHANGED <<mainVars, startVars, childVars, procVars, diskVars, deployVars>>
  \/ /\ nodeState[i] \notin KnownStates
     /\ Fail(i, "StartNodeFromState")
     /\ UNCHANGED diskVars

\* Whether some peer answers 200 is up to the peers, which are not modelled
\* here.
HealthyCluster(i) ==
  /\ \E healthy \in BOOLEAN :
       Goto(i, "HealthyCluster",
            IF healthy THEN "StartMysqldInJoin" ELSE "readGrastate")
  /\ UNCHANGED <<mainVars, startVars, childVars, procVars, diskVars, deployVars>>

(***************************************************************************)
(* bootstrapNode.  grastate.dat is read, its flag set to 1 in memory and   *)
(* written back by ioutil.WriteFile, which truncates the file first; a     *)
(* file that cannot be read is skipped.  A torn file has no flag to set    *)
(* and is written back as it was read.                                     *)
(***************************************************************************)
ReadGrastate(i) ==
  \/ /\ grastate \in {"absent", "torn"} \/ "io" \in Faults
     /\ Goto(i, "readGrastate", "StartMysqldInBootstrap")
     /\ UNCHANGED <<mainVars, startVars, childVars, procVars, diskVars, deployVars>>
  \/ /\ grastate \in {"0", "1"}
     /\ Goto(i, "readGrastate", "writeGrastate")
     /\ grastate' = "torn"
     /\ UNCHANGED <<mainVars, startVars, childVars, procVars,
                    stateFile, lastVersion, deployVars>>
  \/ /\ grastate # "absent" /\ "io" \in Faults
     /\ Fail(i, "readGrastate")
     /\ UNCHANGED diskVars

WriteGrastate(i) ==
  \/ /\ Goto(i, "writeGrastate", "StartMysqldInBootstrap")
     /\ grastate' = "1"
     /\ UNCHANGED <<mainVars, startVars, childVars, procVars,
                    stateFile, lastVersion, deployVars>>
  \/ /\ "io" \in Faults
     /\ Fail(i, "writeGrastate")
     /\ UNCHANGED diskVars

BootstrapNode(i) ==
  \/ /\ Goto(i, "StartMysqldInBootstrap", "waitForDatabase")
     /\ StartMysqldInBootstrap(i)
     /\ UNCHANGED <<mainVars, startVars, diskVars, deployVars>>
  \/ /\ "io" \in Faults
     /\ Fail(i, "StartMysqldInBootstrap")
     /\ UNCHANGED diskVars

JoinCluster(i) ==
  \/ /\ Goto(i, "StartMysqldInJoin", "waitForDatabase")
     /\ StartMysqldInJoin(i)
     /\ UNCHANGED <<mainVars, startVars, diskVars, deployVars>>
  \/ /\ "io" \in Faults
     /\ Fail(i, "StartMysqldInJoin")
     /\ UNCHANGED diskVars

\* Mutant: the loop does not look at mysqldChan.
WaitWithoutChannel(i) ==
  /\ TRUE \in IsDatabaseReachable
  /\ Goto(i, "waitForDatabase", "seedDatabases")
  /\ UNCHANGED <<mainVars, startVars, childVars, procVars, diskVars, deployVars>>

\* One turn of the loop of waitForDatabaseToAcceptConnections that ends it;
\* a turn that does not reach the database changes nothing.
WaitForDatabase(i) ==
  \/ /\ ch[i] # "empty"
     /\ Fail(i, "waitForDatabase")
     /\ UNCHANGED diskVars
  \/ /\ ch[i] = "empty"
     /\ TRUE \in IsDatabaseReachable
     /\ Goto(i, "waitForDatabase", "seedDatabases")
     /\ UNCHANGED <<mainVars, startVars, childVars, procVars, diskVars, deployVars>>

\* seedDatabases, seedUsers and runPostStartSQL.
AfterSeeding(ph) ==
  CASE ph = "seedDatabases" -> "seedUsers"
    [] ph = "seedUsers" -> "runPostStartSQL"
    [] ph = "runPostStartSQL" -> "openStateFile"

SeedPhase(i) ==
  /\ pc[i] \in SeedingPhases
  /\ \E err \in SeedErr(pc[i]) :
       \/ /\ ~ err
          /\ Goto(i, pc[i], AfterSeeding(pc[i]))
          /\ UNCHANGED <<mainVars, startVars, childVars, procVars,
                         diskVars, deployVars>>
       \/ /\ err
          /\ Fail(i, pc[i])
          /\ UNCHANGED diskVars

NodeStarterStep(i) ==
  \/ StartNodeFromState(i) \/ HealthyCluster(i)
  \/ ReadGrastate(i) \/ WriteGrastate(i) \/ BootstrapNode(i) \/ JoinCluster(i)
  \/ WaitForDatabase(i) \/ SeedPhase(i)

=============================================================================
