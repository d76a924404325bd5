------------------------------- MODULE Lifecycle -------------------------------
(***************************************************************************)
(* What galera-init promises to monit, which launches it, signals it and   *)
(* reads its exit code: at most one process at a time works on the node's  *)
(* database, it calls itself ready only with a database it has started,    *)
(* and a process that was ready ends with its database, whose wait status  *)
(* decides the exit code.                                                  *)
(***************************************************************************)
CONSTANTS
  Inst,        \* galera-init processes
  MayAbandon   \* the status server may fail, and end a ready process

VARIABLES
  run,       \* how far a process is
  database,  \* the mysqld it has started: none, live, or a wait status
  exit       \* how it ended

Ended == {"exit0", "exitErr", "signaled"}

\* The exit code for a wait status.
CodeOf(status) ==
  [exit0 |-> "zero", exitErr |-> "mysqldStatus", signaled |-> "mysqldSignal"][status]

Init ==
  /\ run = [i \in Inst |-> "off"]
  /\ database = [i \in Inst |-> "none"]
  /\ exit = [i \in Inst |-> "none"]

Launch(i) ==
  /\ run[i] = "off"
  /\ run' = [run EXCEPT ![i] = "setup"]
  /\ exit' = [exit EXCEPT ![i] = "none"]
  /\ UNCHANGED database

\* Only one process gets past its setup.
Begin(i) ==
  /\ run[i] = "setup"
  /\ \A j \in Inst : run[j] \notin {"starting", "ready"}
  /\ run' = [run EXCEPT ![i] = "starting"]
  /\ UNCHANGED <<database, exit>>

\* A database is started, and may be put aside again (by an upgrade).
StartDatabase(i) ==
  /\ run[i] = "starting" /\ database[i] = "none"
  /\ database' = [database EXCEPT ![i] = "live"]
  /\ UNCHANGED <<run, exit>>

DatabaseEnds(i) ==
  /\ database[i] = "live"
  /\ \E status \in Ended : database' = [database EXCEPT ![i] = status]
  /\ UNCHANGED <<run, exit>>

PutAside(i) ==
  /\ run[i] = "starting"
  /\ database' = [database EXCEPT ![i] = "none"]
  /\ UNCHANGED <<run, exit>>

Ready(i) ==
  /\ run[i] = "starting" /\ database[i] # "none"
  /\ run' = [run EXCEPT ![i] = "ready"]
  /\ UNCHANGED <<database, exit>>

\* The process ends with the given code.
Ends(i, code) ==
  /\ run' = [run EXCEPT ![i] = "off"]
  /\ exit' = [exit EXCEPT ![i] = code]
  /\ database' = [database EXCEPT ![i] = "none"]

\* A start is given up.
GiveUp(i) ==
  run[i] \in {"setup", "starting"} /\ \E code \in {"panic", "one"} : Ends(i, code)

\* A ready process ends with its database; its code is the database's, or one
\* if SIGTERM found the database gone.
Finish(i) ==
  /\ run[i] = "ready"
  /\ database[i] \in Ended
  /\ \E code \in {CodeOf(database[i]), "one"} : Ends(i, code)

Abandon(i) == MayAbandon /\ run[i] = "ready" /\ Ends(i, "one")

Killed(i) == run[i] # "off" /\ Ends(i, "killed")

Next ==
  \E i \in Inst :
    \/ Launch(i) \/ Begin(i) \/ StartDatabase(i) \/ DatabaseEnds(i) \/ PutAside(i)
    \/ Ready(i) \/ GiveUp(i) \/ Finish(i) \/ Abandon(i) \/ Killed(i)

Spec == Init /\ [][Next]_<<run, database, exit>>

=============================================================================
