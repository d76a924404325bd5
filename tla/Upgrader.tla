------------------------------- MODULE Upgrader -------------------------------
(***************************************************************************)
(* Package upgrader: NeedsUpgrade and the steps of Upgrade.                *)
(***************************************************************************)
EXTENDS DbHelper

\* Upgrade if nothing was ever upgraded or the versions differ.  The version
\* file of the package is always deployed, but looking at it may fail.
NeedsUpgrade(i) ==
  \E exists \in FileExists(lastVersion), package \in FileExists("deployed"),
     err \in MayFail("io") :
    IF exists /\ (~ package \/ err)
    THEN Fail(i, "NeedsUpgrade") /\ UNCHANGED diskVars
    ELSE /\ IF ~ exists \/ lastVersion # "current"
            THEN Goto(i, "NeedsUpgrade", "StartMysqldForUpgrade")
            ELSE Goto(i, "NeedsUpgrade", "getCurrentNodeState")
         /\ UNCHANGED <<mainVars, startVars, childVars, procVars, diskVars, deployVars>>

StartForUpgrade(i) ==
  \/ /\ Goto(i, "StartMysqldForUpgrade", "waitUntilMySQLReachable")
     /\ StartMysqldForUpgrade(i)
     /\ UNCHANGED <<mainVars, startVars, diskVars, deployVars>>
  \/ /\ "io" \in Faults
     /\ Fail(i, "StartMysqldForUpgrade")
     /\ UNCHANGED diskVars

\* Mutant: the loop runs once too often.
PollOnceMore(i) ==
  /\ FALSE \in IsDatabaseReachable
  /\ tries[i] + 1 <= PollingAttempts
  /\ Goto(i, "waitUntilMySQLReachable", "waitUntilMySQLReachable")
  /\ tries' = [tries EXCEPT ![i] = @ + 1]
  /\ UNCHANGED <<mainVars, nodeState, upgradeErr, childVars, procVars,
                 diskVars, deployVars>>

\* One poll.  The exit channel is not looked at, and a timeout leaves the
\* started mysqld behind.
WaitUntilMySQLReachable(i) ==
  \E reachable \in IsDatabaseReachable :
    \/ /\ reachable
       /\ Goto(i, "waitUntilMySQLReachable", "Upgrade")
       /\ tries' = [tries EXCEPT ![i] = 0]
       /\ UNCHANGED <<mainVars, nodeState, upgradeErr, childVars, procVars,
                      diskVars, deployVars>>
    \/ /\ ~ reachable
       /\ tries[i] + 1 < PollingAttempts
       /\ Goto(i, "waitUntilMySQLReachable", "waitUntilMySQLReachable")
       /\ tries' = [tries EXCEPT ![i] = @ + 1]
       /\ UNCHANGED <<mainVars, nodeState, upgradeErr, childVars, procVars,
                      diskVars, deployVars>>
    \/ /\ ~ reachable
       /\ tries[i] + 1 >= PollingAttempts
       /\ Fail(i, "waitUntilMySQLReachable")
       /\ UNCHANGED diskVars

\* mysql_upgrade runs; an error with an acceptable output is dropped.
RunUpgrade(i) ==
  \E result \in Upgrade :
    /\ Goto(i, "Upgrade", "stopStandaloneDatabase")
    /\ upgradeErr' = [upgradeErr EXCEPT ![i] = result]
    /\ lastVersion' = IF result = "ok" THEN "current" ELSE lastVersion
    /\ UNCHANGED <<mainVars, nodeState, tries, childVars, procVars,
                   stateFile, grastate, deployVars>>

StopStandaloneDatabase(i) ==
  StopMysqld(i, "stopStandaloneDatabase", "mysqldExitChan")

\* Mutant: the error of mysql_upgrade is forgotten.
UpgradeErrForgotten(i) ==
  /\ ch[i] # "empty"
  /\ Goto(i, "mysqldExitChan", "getCurrentNodeState")
  /\ cmd' = [cmd EXCEPT ![i] = None]
  /\ ch' = [ch EXCEPT ![i] = "empty"]
  /\ UNCHANGED <<mainVars, startVars, procVars, diskVars, deployVars>>

\* <-mysqldExitChan: blocks until the mysqld that Upgrade started has ended.
MysqldExitChan(i) ==
  /\ ch[i] # "empty"
  /\ \/ /\ ch[i] = "exit0" /\ upgradeErr[i] # "failed"
        /\ Goto(i, "mysqldExitChan", "getCurrentNodeState")
        /\ cmd' = [cmd EXCEPT ![i] = None]
        /\ ch' = [ch EXCEPT ![i] = "empty"]
        /\ UNCHANGED <<mainVars, startVars, procVars, diskVars, deployVars>>
     \/ /\ ch[i] # "exit0" \/ upgradeErr[i] = "failed"
        /\ Fail(i, "mysqldExitChan")
        /\ UNCHANGED diskVars

UpgraderStep(i) ==
  \/ NeedsUpgrade(i) \/ StartForUpgrade(i) \/ WaitUntilMySQLReachable(i)
  \/ RunUpgrade(i) \/ StopStandaloneDatabase(i) \/ MysqldExitChan(i)

=============================================================================
