------------------------------- MODULE OsHelper -------------------------------
(***************************************************************************)
(* Package os_helper: commands, their wait channels and files, and the     *)
(* life cycle of the external program mysqld that is started through it.   *)
(* A call that may come out in several ways is the set of its results.     *)
(***************************************************************************)
EXTENDS NodeState

\* Result of a call that fails only when the environment may do f.
MayFail(f) == IF f \in Faults THEN BOOLEAN ELSE {FALSE}

\* FileExists is "os.Stat gave no error": any error reads as a missing file.
FileExists(contents) ==
  IF contents = "absent" THEN {FALSE} ELSE {~ err : err \in MayFail("stat")}

\* strings.TrimSpace, on the contents a state file may have.
TrimSpace(contents) == IF contents = Padded THEN "NEEDS_BOOTSTRAP" ELSE contents

-----------------------------------------------------------------------------
(* Processes                                                                 *)

Goto(i, from, to) == pc[i] = from /\ pc' = [pc EXCEPT ![i] = to]

(***************************************************************************)
(* Process i ends: its goroutines, its context and its listening socket    *)
(* disappear; its mysqld child lives on without a parent, and one that has *)
(* ended already is reaped by init.                                        *)
(***************************************************************************)
Terminate(i, code) ==
  /\ pc' = [pc EXCEPT ![i] = "off"]
  /\ exit' = [exit EXCEPT ![i] = code]
  /\ ctxDone' = [ctxDone EXCEPT ![i] = FALSE]
  /\ listener' = IF listener = i THEN None ELSE listener
  /\ nodeState' = [nodeState EXCEPT ![i] = "torn"]
  /\ tries' = [tries EXCEPT ![i] = 0]
  /\ upgradeErr' = [upgradeErr EXCEPT ![i] = "none"]
  /\ cmd' = [cmd EXCEPT ![i] = None]
  /\ ch' = [ch EXCEPT ![i] = "empty"]
  /\ phase' = [p \in Pid |-> IF p = cmd[i] /\ phase[p] \in ExitStatus
                             THEN "none" ELSE phase[p]]
  /\ UNCHANGED <<mode, deployVars>>

\* Execute returns an error that does not come from mysqld's wait status.
Fail(i, from) == pc[i] = from /\ Terminate(i, "one")

Owned(p) == \E i \in Inst : cmd[i] = p
Free(p) == phase[p] = "none" /\ ~ Owned(p)

\* StartCommand, and the WaitForCommand every caller issues at once.
StartCommand(i, m) ==
  \E p \in Pid :
    /\ Free(p)
    /\ phase' = [phase EXCEPT ![p] = "booting"]
    /\ mode' = [mode EXCEPT ![p] = m]
    /\ cmd' = [cmd EXCEPT ![i] = p]
    /\ ch' = [ch EXCEPT ![i] = "empty"]

\* The goroutine of WaitForCommand: cmd.Wait returns and its result is sent.
WaitForCommand(i) ==
  /\ cmd[i] \in Pid
  /\ phase[cmd[i]] \in ExitStatus
  /\ ch' = [ch EXCEPT ![i] = phase[cmd[i]]]
  /\ phase' = [phase EXCEPT ![cmd[i]] = "none"]
  /\ UNCHANGED <<pc, mainVars, startVars, cmd, mode, diskVars, deployVars>>

\* Process.Signal fails on a command that was never started or is reaped.
KillCommandFails(i) == cmd[i] \in Pid => phase[cmd[i]] = "none"
KillCommandSkipped(i) == phase' = phase   \* mutant: the signal is not sent
KillCommand(i) ==
  phase' = [phase EXCEPT ![cmd[i]] = IF @ \in Live THEN "stopping" ELSE @]

-----------------------------------------------------------------------------
(* mysqld (external)                                                         *)

Serves(p) == phase[p] \in {"serving", "synced"}

\* The data directory is locked by one process at a time.
HoldsDatadir(p) == phase[p] \in {"serving", "synced", "stopping"}
CanOpen(p) ==
  /\ \A q \in Pid : ~ HoldsDatadir(q)
  /\ ~ (mode[p] = "bootstrap" /\ grastate = "0")

\* p ends with status s; an orphan is reaped by init.
Ends(p, s) ==
  /\ phase' = [phase EXCEPT ![p] = IF Owned(p) THEN s ELSE "none"]
  /\ mode' = [mode EXCEPT ![p] = "none"]
  /\ UNCHANGED <<pc, mainVars, startVars, childVars, diskVars, deployVars>>

Becomes(p, from, to) ==
  /\ phase[p] = from
  /\ phase' = [phase EXCEPT ![p] = to]
  /\ UNCHANGED <<pc, mainVars, startVars, childVars, mode, diskVars, deployVars>>

Opens(p) == CanOpen(p) /\ Becomes(p, "booting", "serving")
Refused(p) == phase[p] = "booting" /\ ~ CanOpen(p) /\ Ends(p, "exitErr")
Syncs(p) == mode[p] # "upgrade" /\ Becomes(p, "serving", "synced")
Desyncs(p) == "desync" \in Faults /\ Becomes(p, "synced", "serving")
Stops(p) == phase[p] = "stopping" /\ \E s \in ExitStatus : Ends(p, s)
Crashes(p) ==
  /\ "crash" \in Faults
  /\ phase[p] \in Live
  /\ \E s \in ExitStatus : Ends(p, s)

\* The Galera provider keeps grastate.dat while it runs.
WritesGrastate(p) ==
  /\ HoldsDatadir(p)
  /\ mode[p] # "upgrade"
  /\ \E safe \in {"0", "1"} : grastate' = safe
  /\ UNCHANGED <<pc, mainVars, startVars, childVars, procVars,
                 stateFile, lastVersion, deployVars>>

Mysqld(p) == \/ Opens(p) \/ Refused(p) \/ Syncs(p) \/ Desyncs(p)
             \/ Stops(p) \/ Crashes(p) \/ WritesGrastate(p)

=============================================================================
