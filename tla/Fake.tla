---------------------------------- MODULE Fake ----------------------------------
(***************************************************************************)
(* The test doubles under *fakes/, for FakeStarter: counterfeiter writes   *)
(* the same body for every method of every fake.  Goroutines call the      *)
(* methods, record their calls and look at the records; each method has a  *)
(* sync.RWMutex, and one more guards the list of all invocations.  The     *)
(* setters are used while no call is under way, as the tests of this       *)
(* repository do: the stub is read without a lock.                         *)
(***************************************************************************)
EXTENDS Naturals, Sequences, FiniteSets

CONSTANTS
  Threads,
  None,      \* no thread
  MaxCalls   \* bound on the calls of a method

Methods == {"GetMysqlCmd", "StartNodeFromState"}
Mutexes == Methods \cup {"invocations"}

ASSUME ThreadsAssumption ==
  None \notin Threads /\ IsFiniteSet(Threads) /\ MaxCalls \in Nat \ {0}

VARIABLES
  stub,         \* methods with a stub
  onCall,       \* indices of a method's calls that have a return of their own
  argsForCall,  \* a method's calls, as the threads that made them
  invocations,  \* the same in the list of all invocations
  writer,       \* thread that holds a mutex for writing
  waiting,      \* threads that wait for that
  readers,      \* threads that hold it for reading
  at,           \* where a thread is
  method,       \* which method it calls
  index,        \* the number of its call
  served        \* how often the return for a call's number was given

fakeVars == <<stub, onCall, argsForCall, invocations>>
lockVars == <<writer, waiting, readers>>
callVars == <<method, index, served>>
vars == <<fakeVars, lockVars, at, callVars>>

\* The points of Invocations: before each RLock, and before the copying.
RLockPoint == [invocations |-> "RLock 1", GetMysqlCmd |-> "RLock 2",
               StartNodeFromState |-> "RLock 3"]
InvocationsPoints == {RLockPoint[x] : x \in Mutexes} \cup {"copy"}
CallPoints == {"Lock", "ReturnsOnCall", "ArgsForCall", "recordInvocation",
               "Unlock", "Stub"}

TypeOK ==
  /\ stub \subseteq Methods
  /\ onCall \in [Methods -> SUBSET (0 .. MaxCalls - 1)]
  /\ argsForCall \in [Methods -> Seq(Threads)]
  /\ invocations \in [Methods -> Seq(Threads)]
  /\ writer \in [Mutexes -> Threads \cup {None}]
  /\ waiting \in [Mutexes -> SUBSET Threads]
  /\ readers \in [Mutexes -> SUBSET Threads]
  /\ at \in [Threads -> {"idle"} \cup CallPoints \cup InvocationsPoints]
  /\ method \in [Threads -> Methods]
  /\ index \in [Threads -> 0 .. MaxCalls - 1]
  /\ served \in [Methods -> [0 .. MaxCalls - 1 -> 0 .. MaxCalls]]

Init ==
  /\ stub = {}
  /\ onCall = [m \in Methods |-> {}]
  /\ argsForCall = [m \in Methods |-> <<>>]
  /\ invocations = [m \in Methods |-> <<>>]
  /\ writer = [x \in Mutexes |-> None]
  /\ waiting = [x \in Mutexes |-> {}]
  /\ readers = [x \in Mutexes |-> {}]
  /\ at = [t \in Threads |-> "idle"]
  /\ method = [t \in Threads |-> "GetMysqlCmd"]
  /\ index = [t \in Threads |-> 0]
  /\ served = [m \in Methods |-> [i \in 0 .. MaxCalls - 1 |-> 0]]

Goto(t, from, to) == at[t] = from /\ at' = [at EXCEPT ![t] = to]

-----------------------------------------------------------------------------
(* sync.RWMutex (external): a waiting writer keeps readers out.              *)

Lockable(x) == writer[x] = None /\ readers[x] = {}
RLockable(x) == writer[x] = None /\ waiting[x] = {}

-----------------------------------------------------------------------------
(* The records of a method's calls                                           *)

CallCount(m) == Len(argsForCall[m])
ArgsForCall(m, i) == argsForCall[m][i + 1]

-----------------------------------------------------------------------------
(* A call of a method                                                        *)

CallsBegun(m) ==
  CallCount(m)
    + Cardinality({t \in Threads : method[t] = m
                     /\ at[t] \in {"Lock", "ReturnsOnCall", "ArgsForCall"}})

Call(t, m) ==
  /\ Goto(t, "idle", "Lock")
  /\ CallsBegun(m) < MaxCalls
  /\ method' = [method EXCEPT ![t] = m]
  /\ waiting' = [waiting EXCEPT ![m] = @ \cup {t}]
  /\ UNCHANGED <<fakeVars, writer, readers, index, served>>

\* Mutant: RLock where Lock is needed.
LockShared(t) ==
  /\ Goto(t, "Lock", "ReturnsOnCall")
  /\ waiting' = [waiting EXCEPT ![method[t]] = @ \ {t}]
  /\ writer' = [writer EXCEPT ![method[t]] = t]
  /\ UNCHANGED <<fakeVars, readers, callVars>>

Lock(t) ==
  /\ Lockable(method[t])
  /\ Goto(t, "Lock", "ReturnsOnCall")
  /\ waiting' = [waiting EXCEPT ![method[t]] = @ \ {t}]
  /\ writer' = [writer EXCEPT ![method[t]] = t]
  /\ UNCHANGED <<fakeVars, readers, callVars>>

\* Mutant: the calls are numbered from one.
LookUpFromOne(t) ==
  /\ Goto(t, "ReturnsOnCall", "ArgsForCall")
  /\ index' = [index EXCEPT ![t] = CallCount(method[t]) + 1]
  /\ UNCHANGED <<fakeVars, lockVars, method, served>>

\* The return for this call is looked up by the number of calls so far.
LookUp(t) ==
  /\ Goto(t, "ReturnsOnCall", "ArgsForCall")
  /\ index' = [index EXCEPT ![t] = CallCount(method[t])]
  /\ UNCHANGED <<fakeVars, lockVars, method, served>>

AppendArgs(t) ==
  /\ Goto(t, "ArgsForCall", "recordInvocation")
  /\ argsForCall' = [argsForCall EXCEPT ![method[t]] = Append(@, t)]
  /\ waiting' = [waiting EXCEPT !["invocations"] = @ \cup {t}]
  /\ UNCHANGED <<stub, onCall, invocations, writer, readers, callVars>>

\* Mutant: the method's mutex is released before the invocation is recorded.
RecordUnlocked(t) ==
  /\ at[t] = "recordInvocation"
  /\ \/ /\ writer[method[t]] = t
        /\ writer' = [writer EXCEPT ![method[t]] = None]
        /\ UNCHANGED <<fakeVars, waiting, readers, at, callVars>>
     \/ /\ writer[method[t]] # t
        /\ Lockable("invocations")
        /\ at' = [at EXCEPT ![t] = "Stub"]
        /\ invocations' = [invocations EXCEPT ![method[t]] = Append(@, t)]
        /\ waiting' = [waiting EXCEPT !["invocations"] = @ \ {t}]
        /\ UNCHANGED <<stub, onCall, argsForCall, writer, readers, callVars>>

\* recordInvocation takes and releases the other mutex.
RecordInvocation(t) ==
  /\ Lockable("invocations")
  /\ Goto(t, "recordInvocation", "Unlock")
  /\ invocations' = [invocations EXCEPT ![method[t]] = Append(@, t)]
  /\ waiting' = [waiting EXCEPT !["invocations"] = @ \ {t}]
  /\ UNCHANGED <<stub, onCall, argsForCall, writer, readers, callVars>>

\* Mutant: a call with a return of its own returns without unlocking.
UnlockSkipped(t) ==
  /\ Goto(t, "Unlock", "Stub")
  /\ writer' = [writer EXCEPT ![method[t]] =
                  IF index[t] \in onCall[method[t]] THEN t ELSE None]
  /\ UNCHANGED <<fakeVars, waiting, readers, callVars>>

Unlock(t) ==
  /\ Goto(t, "Unlock", "Stub")
  /\ writer' = [writer EXCEPT ![method[t]] = None]
  /\ UNCHANGED <<fakeVars, waiting, readers, callVars>>

\* The answer is found without a lock: the stub's, the return set for this
\* call's number, or the one for all calls.
Answer(t) ==
  /\ Goto(t, "Stub", "idle")
  /\ served' = IF method[t] \notin stub /\ index[t] \in onCall[method[t]]
               THEN [served EXCEPT ![method[t]][index[t]] = @ + 1] ELSE served
  /\ index' = [index EXCEPT ![t] = 0]
  /\ method' = [method EXCEPT ![t] = "GetMysqlCmd"]
  /\ UNCHANGED <<fakeVars, lockVars>>

-----------------------------------------------------------------------------
(* Setters, and the list of all invocations.  CallCount and ArgsForCall read *)
(* under the method's mutex, hold nothing else and change nothing.           *)

Quiet == \A t \in Threads : at[t] = "idle"

Calls(m) ==
  /\ Quiet
  /\ stub' = stub \cup {m}
  /\ UNCHANGED <<onCall, argsForCall, invocations, lockVars, at, callVars>>

Returns(m) ==
  /\ Quiet
  /\ stub' = stub \ {m}
  /\ UNCHANGED <<onCall, argsForCall, invocations, lockVars, at, callVars>>

ReturnsOnCall(m, i) ==
  /\ Quiet
  /\ stub' = stub \ {m}
  /\ onCall' = [onCall EXCEPT ![m] = @ \cup {i}]
  /\ UNCHANGED <<argsForCall, invocations, lockVars, at, callVars>>

Configure(m) ==
  Calls(m) \/ Returns(m) \/ \E i \in 0 .. MaxCalls - 1 : ReturnsOnCall(m, i)

\* Invocations takes the mutexes in the other order: first the one of the
\* list, then those of the methods.
Invocations(t) ==
  /\ Goto(t, "idle", RLockPoint.invocations)
  /\ UNCHANGED <<fakeVars, lockVars, callVars>>

RLockNext(t) ==
  \E x \in Mutexes :
    /\ RLockable(x)
    /\ Goto(t, RLockPoint[x],
            [invocations |-> RLockPoint.GetMysqlCmd,
             GetMysqlCmd |-> RLockPoint.StartNodeFromState,
             StartNodeFromState |-> "copy"][x])
    /\ readers' = [readers EXCEPT ![x] = @ \cup {t}]
    /\ UNCHANGED <<fakeVars, writer, waiting, callVars>>

CopyInvocations(t) ==
  /\ Goto(t, "copy", "idle")
  /\ readers' = [x \in Mutexes |-> readers[x] \ {t}]
  /\ UNCHANGED <<fakeVars, writer, waiting, callVars>>

Thread(t) ==
  \/ \E m \in Methods : Call(t, m)
  \/ Lock(t) \/ LookUp(t) \/ AppendArgs(t) \/ RecordInvocation(t) \/ Unlock(t)
  \/ Answer(t)
  \/ Invocations(t) \/ RLockNext(t) \/ CopyInvocations(t)

Next ==
  \/ \E t \in Threads : Thread(t)
  \/ \E m \in Methods : Configure(m)

Spec == Init /\ [][Next]_vars

-----------------------------------------------------------------------------
(* Properties                                                                *)

\* Whenever CallCount, ArgsForCall or Invocations may look, the two records
\* of a method's calls agree, in number and in order: a call that is half
\* recorded is never seen.
RecordsAgree ==
  \A m \in Methods : writer[m] = None => argsForCall[m] = invocations[m]

\* Calls have numbers of their own, also when they overlap: the return that
\* ReturnsOnCall(i) has set is given to the one call that ArgsForCall(i)
\* shows, and only once.
OwnNumber ==
  \A t \in Threads :
    /\ at[t] \in {"recordInvocation", "Unlock", "Stub"} =>
         /\ index[t] < CallCount(method[t])
         /\ ArgsForCall(method[t], index[t]) = t
    /\ \A u \in Threads \ {t} :
         (/\ {at[t], at[u]} \subseteq {"ArgsForCall", "recordInvocation", "Unlock", "Stub"}
          /\ method[t] = method[u]) => index[t] # index[u]
    /\ \A m \in Methods, i \in 0 .. MaxCalls - 1 : served[m][i] <= 1

Blocked(t) ==
  \/ at[t] = "Lock" /\ ~ Lockable(method[t])
  \/ at[t] = "recordInvocation" /\ ~ Lockable("invocations")
  \/ \E x \in Mutexes : at[t] = RLockPoint[x] /\ ~ RLockable(x)

\* Calls never wait for each other in a circle, and the order in which they
\* take the two mutexes is a danger only to Invocations, which takes them
\* the other way round: where everybody waits, somebody is in Invocations.
StuckOnlyByInvocations ==
  (\E t \in Threads : Blocked(t)) /\ (\A t \in Threads : at[t] = "idle" \/ Blocked(t))
    => \E t \in Threads : at[t] \in InvocationsPoints

=============================================================================
