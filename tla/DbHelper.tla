------------------------------- MODULE DbHelper -------------------------------
(***************************************************************************)
(* Package db_helper: what galera-init asks of the mysqld that answers on  *)
(* the local socket, which need not be the one it started.                 *)
(***************************************************************************)
EXTENDS OsHelper

SomeServer == \E p \in Pid : Serves(p)

\* mysqladmin status: TRUE only if a server answers.
IsProcessRunning == {SomeServer /\ ~ err : err \in MayFail("spurious")}

\* wsrep_provider is "none" in a server started for the upgrade; any other
\* server has to report the state Synced.
IsDatabaseReachable ==
  {(\E p \in Pid : Serves(p) /\ (mode[p] = "upgrade" \/ phase[p] = "synced"))
     /\ ~ err : err \in MayFail("spurious")}

StartMysqldForUpgrade(i) == StartCommand(i, "upgrade")
StartMysqldInJoin(i) == StartCommand(i, "join")
StartMysqldInBootstrap(i) == StartCommand(i, "bootstrap")

(***************************************************************************)
(* mysqladmin shutdown, sent to the server that answers.  It returns when  *)
(* the shutdown has been accepted: the process may still be stopping.      *)
(* Without an answer logger.Fatal panics.                                  *)
(***************************************************************************)
StopMysqld(i, from, to) ==
  \/ \E p \in Pid :
       /\ Serves(p)
       /\ Goto(i, from, to)
       /\ phase' = [phase EXCEPT ![p] = "stopping"]
       /\ UNCHANGED <<mainVars, startVars, childVars, mode, diskVars, deployVars>>
  \/ /\ ~ SomeServer \/ "spurious" \in Faults
     /\ pc[i] = from
     /\ Terminate(i, "panic")
     /\ UNCHANGED diskVars

\* mysql_upgrade: its result, and the version file it writes on success.
Upgrade ==
  IF SomeServer
  THEN {"ok", "accepted"} \cup (IF "sql" \in Faults THEN {"failed"} ELSE {})
  ELSE {"failed"}

(***************************************************************************)
(* Seed, SeedUsers and RunPostStartSQL.  A phase with nothing configured   *)
(* succeeds without a server; any other needs one, and ends with the first *)
(* statement that fails.                                                   *)
(***************************************************************************)
SeedErr(ph) ==
  IF ph \notin SeedPhases THEN {FALSE}
  ELSE IF SomeServer THEN MayFail("sql") ELSE {TRUE}

=============================================================================
