------------------------------ MODULE FakeProofs ------------------------------
(***************************************************************************)
(* Theorems about Fake, for any finite number of goroutines and any bound  *)
(* on the calls.                                                           *)
(***************************************************************************)
EXTENDS Fake, FiniteSetTheorems, TLAPS

\* The points at which a call holds the mutex of its method, and those at
\* which its number is settled.
HoldPoints == {"ReturnsOnCall", "ArgsForCall", "recordInvocation", "Unlock"}
RecordedPoints == {"recordInvocation", "Unlock", "Stub"}

\* The mutex of a method is held by the one call that is between Lock and
\* Unlock.  recordInvocation returns the other mutex before anybody looks, and
\* only Invocations reads.
MutexInv ==
  /\ \A t \in Threads : at[t] \in HoldPoints => writer[method[t]] = t
  /\ \A m \in Methods : writer[m] # None =>
       at[writer[m]] \in HoldPoints /\ method[writer[m]] = m
  /\ writer["invocations"] = None
  /\ \A x \in Mutexes : \A t \in readers[x] : at[t] \in InvocationsPoints

\* The two records differ by the call that is between its two appends.
RecordInv ==
  /\ RecordsAgree
  /\ \A t \in Threads :
       /\ at[t] \in HoldPoints \ {"recordInvocation"} =>
            argsForCall[method[t]] = invocations[method[t]]
       /\ at[t] = "recordInvocation" =>
            argsForCall[method[t]] = Append(invocations[method[t]], t)

\* The calls that will still be appended.
PendingPoints == {"Lock", "ReturnsOnCall", "ArgsForCall"}
Pending(m) == {t \in Threads : method[t] = m /\ at[t] \in PendingPoints}

CountInv == \A m \in Methods : CallCount(m) + Cardinality(Pending(m)) <= MaxCalls

\* A call's number is its place in the record, and a return that was given
\* belongs to a call that is over.
NumberInv ==
  /\ \A t \in Threads :
       /\ at[t] = "ArgsForCall" => index[t] = CallCount(method[t])
       /\ at[t] \in RecordedPoints =>
            index[t] < CallCount(method[t]) /\ ArgsForCall(method[t], index[t]) = t
  /\ \A m \in Methods, i \in 0 .. MaxCalls - 1 :
       /\ served[m][i] <= 1
       /\ served[m][i] = 1 =>
            /\ i < CallCount(m)
            /\ \A t \in Threads :
                 at[t] \in RecordedPoints /\ method[t] = m => index[t] # i

Inv == TypeOK /\ MutexInv /\ RecordInv /\ CountInv /\ NumberInv

-----------------------------------------------------------------------------
(* Types                                                                     *)

\* The names of the mutexes.
LEMMA MutexNames ==
  /\ Methods \subseteq Mutexes /\ "GetMysqlCmd" \in Methods
  /\ "invocations" \in Mutexes /\ "invocations" \notin Methods
BY DEF Methods, Mutexes

\* The points of Invocations are none of a call's.
LEMMA PointNames ==
  /\ \A x \in Mutexes : RLockPoint[x] \in InvocationsPoints
  /\ "copy" \in InvocationsPoints
  /\ InvocationsPoints \cap ({"idle"} \cup CallPoints) = {}
<1>1. /\ RLockPoint["invocations"] = "RLock 1"
      /\ RLockPoint["GetMysqlCmd"] = "RLock 2"
      /\ RLockPoint["StartNodeFromState"] = "RLock 3"
  BY DEF RLockPoint
<1>2. \A x \in Mutexes : x = "invocations" \/ x = "GetMysqlCmd" \/ x = "StartNodeFromState"
  BY DEF Methods, Mutexes
<1>3. InvocationsPoints \subseteq {"RLock 1", "RLock 2", "RLock 3", "copy"}
  BY <1>1, <1>2 DEF InvocationsPoints
<1>4. InvocationsPoints \cap ({"idle"} \cup CallPoints) = {}
  BY <1>3 DEF CallPoints
<1> QED
  BY <1>4 DEF InvocationsPoints

\* A step of Invocations goes from one of its points to another.
LEMMA RLockPoints ==
  ASSUME NEW t \in Threads, RLockNext(t)
  PROVE  \E from, to \in InvocationsPoints : Goto(t, from, to)
<1> DEFINE next == [invocations |-> RLockPoint.GetMysqlCmd,
                    GetMysqlCmd |-> RLockPoint.StartNodeFromState,
                    StartNodeFromState |-> "copy"]
<1>1. PICK x \in Mutexes : Goto(t, RLockPoint[x], next[x])
  BY DEF RLockNext
<1>2. x = "invocations" \/ x = "GetMysqlCmd" \/ x = "StartNodeFromState"
  BY DEF Methods, Mutexes
<1>3. /\ next["invocations"] = RLockPoint["GetMysqlCmd"]
      /\ next["GetMysqlCmd"] = RLockPoint["StartNodeFromState"]
      /\ next["StartNodeFromState"] = "copy"
  OBVIOUS
<1>4. /\ RLockPoint["GetMysqlCmd"] \in InvocationsPoints
      /\ RLockPoint["StartNodeFromState"] \in InvocationsPoints
      /\ "copy" \in InvocationsPoints
  BY PointNames DEF Mutexes, Methods
<1> HIDE DEF next
<1>5. next[x] \in InvocationsPoints
  BY <1>2, <1>3, <1>4
<1>6. RLockPoint[x] \in InvocationsPoints
  BY PointNames
<1> QED
  BY <1>1, <1>5, <1>6

\* The points of a thread.
Points == {"idle"} \cup CallPoints \cup InvocationsPoints

\* A step leaves the other threads where they are.
OthersStay(t) ==
  /\ \A u \in Threads \ {t} : at'[u] = at[u]
  /\ at' \in [Threads -> Points]

\* Goto moves one goroutine and leaves the others where they are.
LEMMA GotoMoves ==
  ASSUME TypeOK, NEW t \in Threads, NEW from, NEW to \in Points, Goto(t, from, to)
  PROVE  at[t] = from /\ at'[t] = to /\ OthersStay(t)
BY DEF TypeOK, Goto, Points, OthersStay

\* Where each step of a thread takes it.
LEMMA Moves ==
  ASSUME TypeOK, NEW t \in Threads
  PROVE
    /\ \A m \in Methods : Call(t, m) =>
         at[t] = "idle" /\ at'[t] = "Lock" /\ OthersStay(t)
    /\ Lock(t) =>
         at[t] = "Lock" /\ at'[t] = "ReturnsOnCall" /\ OthersStay(t)
    /\ LookUp(t) =>
         at[t] = "ReturnsOnCall" /\ at'[t] = "ArgsForCall" /\ OthersStay(t)
    /\ AppendArgs(t) =>
         at[t] = "ArgsForCall" /\ at'[t] = "recordInvocation" /\ OthersStay(t)
    /\ RecordInvocation(t) =>
         at[t] = "recordInvocation" /\ at'[t] = "Unlock" /\ OthersStay(t)
    /\ Unlock(t) =>
         at[t] = "Unlock" /\ at'[t] = "Stub" /\ OthersStay(t)
    /\ Answer(t) =>
         at[t] = "Stub" /\ at'[t] = "idle" /\ OthersStay(t)
    /\ CopyInvocations(t) =>
         at[t] = "copy" /\ at'[t] = "idle" /\ OthersStay(t)
    /\ Invocations(t) =>
         at[t] = "idle" /\ at'[t] \in InvocationsPoints /\ OthersStay(t)
    /\ RLockNext(t) =>
         at[t] \in InvocationsPoints /\ at'[t] \in InvocationsPoints /\ OthersStay(t)
<1>1. CallPoints \subseteq Points /\ "idle" \in Points /\ InvocationsPoints \subseteq Points
  BY DEF Points
<1>2. ASSUME NEW m \in Methods, Call(t, m)
      PROVE  at[t] = "idle" /\ at'[t] = "Lock" /\ OthersStay(t)
  BY <1>1, <1>2, GotoMoves DEF Call, CallPoints
<1>3. Lock(t) => at[t] = "Lock" /\ at'[t] = "ReturnsOnCall" /\ OthersStay(t)
  BY <1>1, GotoMoves DEF Lock, CallPoints
<1>4. LookUp(t) => at[t] = "ReturnsOnCall" /\ at'[t] = "ArgsForCall" /\ OthersStay(t)
  BY <1>1, GotoMoves DEF LookUp, CallPoints
<1>5. AppendArgs(t) => at[t] = "ArgsForCall" /\ at'[t] = "recordInvocation" /\ OthersStay(t)
  BY <1>1, GotoMoves DEF AppendArgs, CallPoints
<1>6. RecordInvocation(t) => at[t] = "recordInvocation" /\ at'[t] = "Unlock" /\ OthersStay(t)
  BY <1>1, GotoMoves DEF RecordInvocation, CallPoints
<1>7. Unlock(t) => at[t] = "Unlock" /\ at'[t] = "Stub" /\ OthersStay(t)
  BY <1>1, GotoMoves DEF Unlock, CallPoints
<1>8. Answer(t) => at[t] = "Stub" /\ at'[t] = "idle" /\ OthersStay(t)
  BY <1>1, GotoMoves DEF Answer, CallPoints
<1>9. CopyInvocations(t) => at[t] = "copy" /\ at'[t] = "idle" /\ OthersStay(t)
  BY <1>1, GotoMoves DEF CopyInvocations, CallPoints
<1>10. Invocations(t) => at[t] = "idle" /\ at'[t] \in InvocationsPoints /\ OthersStay(t)
  BY <1>1, GotoMoves, PointNames, MutexNames DEF Invocations
<1>11. ASSUME RLockNext(t)
       PROVE  at[t] \in InvocationsPoints /\ at'[t] \in InvocationsPoints /\ OthersStay(t)
  <2>1. PICK from, to \in InvocationsPoints : Goto(t, from, to)
    BY <1>11, RLockPoints
  <2> QED
    BY <1>1, <2>1, GotoMoves
<1> QED
  BY <1>2, <1>3, <1>4, <1>5, <1>6, <1>7, <1>8, <1>9, <1>10, <1>11

USE DEF OthersStay

\* A function keeps its type when one of its values is replaced.
LEMMA Update ==
  ASSUME NEW D, NEW R, NEW f \in [D -> R], NEW d \in D, NEW r \in R
  PROVE  [f EXCEPT ![d] = r] \in [D -> R]
OBVIOUS

\* The setters touch no record, no mutex and no call.
LEMMA ConfigureKeeps ==
  ASSUME NEW m \in Methods, Configure(m)
  PROVE  UNCHANGED <<argsForCall, invocations, lockVars, at, callVars>>
BY DEF Configure, Calls, Returns, ReturnsOnCall

\* The fake starts with its types.
LEMMA InitType == Init => TypeOK
BY ThreadsAssumption, MutexNames DEF Init, TypeOK

\* The calls that are counted are finitely many.
LEMMA PendingFinite ==
  ASSUME NEW m \in Methods
  PROVE  IsFiniteSet(Pending(m)) /\ Cardinality(Pending(m)) \in Nat
BY ThreadsAssumption, FS_Subset, FS_CardinalityType DEF Pending

\* A call that is still to be appended finds room in the record.
LEMMA RoomForCall ==
  ASSUME TypeOK, CountInv, NEW t \in Threads,
         at[t] \in PendingPoints
  PROVE  CallCount(method[t]) \in 0 .. MaxCalls - 1
<1> DEFINE m == method[t]
<1>1. m \in Methods /\ t \in Pending(m) /\ CallCount(m) \in Nat
  BY DEF TypeOK, Pending, CallCount
<1>2. Cardinality(Pending(m)) # 0
  BY <1>1, PendingFinite, FS_EmptySet
<1>3. CallCount(m) + Cardinality(Pending(m)) <= MaxCalls
  BY <1>1 DEF CountInv
<1> QED
  BY <1>1, <1>2, <1>3, PendingFinite, ThreadsAssumption

\* An appended call keeps a record a sequence of calls.
LEMMA AppendType ==
  ASSUME NEW r \in [Methods -> Seq(Threads)], NEW m \in Methods, NEW t \in Threads
  PROVE  [r EXCEPT ![m] = Append(@, t)] \in [Methods -> Seq(Threads)]
<1>1. r[m] \in Seq(Threads)
  OBVIOUS
<1>2. Append(r[m], t) \in Seq(Threads)
  BY <1>1
<1> DEFINE s == Append(r[m], t)
<1> HIDE DEF s
<1>3. [r EXCEPT ![m] = s] \in [Methods -> Seq(Threads)]
  BY <1>2 DEF s
<1> QED
  BY <1>3 DEF s

\* Every step keeps the types.
LEMMA TypeStep ==
  ASSUME TypeOK, CountInv, NumberInv, [Next]_vars
  PROVE  TypeOK'
<1>1. ASSUME NEW t \in Threads, NEW m \in Methods, Call(t, m)
      PROVE  TypeOK'
  <2>1. at[t] = "idle" /\ at'[t] = "Lock" /\ OthersStay(t)
    BY <1>1, Moves
  <2> QED
    BY <1>1, <2>1, MutexNames, ThreadsAssumption
    DEF Call, TypeOK, Points, OthersStay, fakeVars, lockVars, callVars
<1>2. ASSUME NEW t \in Threads, Lock(t)
      PROVE  TypeOK'
  <2>1. at[t] = "Lock" /\ at'[t] = "ReturnsOnCall" /\ OthersStay(t)
    BY <1>2, Moves
  <2> QED
    BY <1>2, <2>1, MutexNames, ThreadsAssumption
    DEF Lock, TypeOK, Points, OthersStay, fakeVars, lockVars, callVars
<1>3. ASSUME NEW t \in Threads, LookUp(t)
      PROVE  TypeOK'
  <2>1. at[t] = "ReturnsOnCall" /\ at'[t] = "ArgsForCall" /\ OthersStay(t)
    BY <1>3, Moves
  <2>2. CallCount(method[t]) \in 0 .. MaxCalls - 1
    BY <2>1, RoomForCall DEF PendingPoints
  <2> QED
    BY <1>3, <2>1, MutexNames, ThreadsAssumption, <2>2
    DEF LookUp, TypeOK, Points, OthersStay, fakeVars, lockVars, callVars
<1>4. ASSUME NEW t \in Threads, AppendArgs(t)
      PROVE  TypeOK'
  <2>1. at[t] = "ArgsForCall" /\ at'[t] = "recordInvocation" /\ OthersStay(t)
    BY <1>4, Moves
  <2>2. method[t] \in Methods
    BY DEF TypeOK
  <2>3. argsForCall' \in [Methods -> Seq(Threads)]
    BY <1>4, <2>2, AppendType DEF AppendArgs, TypeOK
  <2> QED
    BY <1>4, <2>1, MutexNames, ThreadsAssumption, <2>3
    DEF AppendArgs, TypeOK, Points, OthersStay, fakeVars, lockVars, callVars
<1>5. ASSUME NEW t \in Threads, RecordInvocation(t)
      PROVE  TypeOK'
  <2>1. at[t] = "recordInvocation" /\ at'[t] = "Unlock" /\ OthersStay(t)
    BY <1>5, Moves
  <2>2. method[t] \in Methods
    BY DEF TypeOK
  <2>3. invocations' \in [Methods -> Seq(Threads)]
    BY <1>5, <2>2, AppendType DEF RecordInvocation, TypeOK
  <2> QED
    BY <1>5, <2>1, MutexNames, ThreadsAssumption, <2>3
    DEF RecordInvocation, TypeOK, Points, OthersStay, fakeVars, lockVars, callVars
<1>6. ASSUME NEW t \in Threads, Unlock(t)
      PROVE  TypeOK'
  <2>1. at[t] = "Unlock" /\ at'[t] = "Stub" /\ OthersStay(t)
    BY <1>6, Moves
  <2> QED
    BY <1>6, <2>1, MutexNames, ThreadsAssumption
    DEF Unlock, TypeOK, Points, OthersStay, fakeVars, lockVars, callVars
<1>7. ASSUME NEW t \in Threads, Answer(t)
      PROVE  TypeOK'
  <2>1. at[t] = "Stub" /\ at'[t] = "idle" /\ OthersStay(t)
    BY <1>7, Moves
  <2>2. method[t] \in Methods /\ index[t] \in 0 .. MaxCalls - 1
    BY DEF TypeOK
  <2>3. served[method[t]][index[t]] <= 1 /\ served[method[t]][index[t]] # 1
    BY <2>1, <2>2 DEF NumberInv, RecordedPoints
  <2>4. served[method[t]][index[t]] + 1 \in 0 .. MaxCalls
    BY <2>2, <2>3, ThreadsAssumption DEF TypeOK
  <2>5. [served[method[t]] EXCEPT ![index[t]] = @ + 1] \in [0 .. MaxCalls - 1 -> 0 .. MaxCalls]
    BY <2>2, <2>4 DEF TypeOK
  <2>6. served' \in [Methods -> [0 .. MaxCalls - 1 -> 0 .. MaxCalls]]
    BY <1>7, <2>2, <2>5 DEF Answer, TypeOK
  <2>7. method' \in [Threads -> Methods] /\ index' \in [Threads -> 0 .. MaxCalls - 1]
    <3>1. method' \in [Threads -> Methods]
      BY <1>7, MutexNames DEF Answer, TypeOK
    <3>2. 0 \in 0 .. MaxCalls - 1
      BY ThreadsAssumption
    <3>3. index' = [index EXCEPT ![t] = 0] /\ index \in [Threads -> 0 .. MaxCalls - 1]
      BY <1>7 DEF Answer, TypeOK
    <3> QED
      BY <3>1, <3>2, <3>3, Update
  <2> QED
    BY <1>7, <2>1, <2>6, <2>7
    DEF Answer, TypeOK, Points, OthersStay, fakeVars, lockVars, callVars
<1>8. ASSUME NEW t \in Threads, Invocations(t)
      PROVE  TypeOK'
  <2>1. at[t] = "idle" /\ at'[t] \in InvocationsPoints /\ OthersStay(t)
    BY <1>8, Moves
  <2> QED
    BY <1>8, <2>1
    DEF Invocations, TypeOK, Points, OthersStay, fakeVars, lockVars, callVars
<1>9. ASSUME NEW t \in Threads, RLockNext(t)
      PROVE  TypeOK'
  <2>1. at[t] \in InvocationsPoints /\ at'[t] \in InvocationsPoints /\ OthersStay(t)
    BY <1>9, Moves
  <2> QED
    BY <1>9, <2>1, MutexNames
    DEF RLockNext, TypeOK, Points, OthersStay, fakeVars, lockVars, callVars
<1>10. ASSUME NEW t \in Threads, CopyInvocations(t)
      PROVE  TypeOK'
  <2>1. at[t] = "copy" /\ at'[t] = "idle" /\ OthersStay(t)
    BY <1>10, Moves
  <2> QED
    BY <1>10, <2>1, MutexNames, ThreadsAssumption
    DEF CopyInvocations, TypeOK, Points, OthersStay, fakeVars, lockVars, callVars
<1>11. ASSUME NEW m \in Methods, Configure(m)
      PROVE  TypeOK'
  <2>1. onCall' \in [Methods -> SUBSET (0 .. MaxCalls - 1)]
    <3>1. ASSUME NEW i \in 0 .. MaxCalls - 1, ReturnsOnCall(m, i)
          PROVE  onCall' \in [Methods -> SUBSET (0 .. MaxCalls - 1)]
      <4>1. onCall' = [onCall EXCEPT ![m] = onCall[m] \cup {i}]
        BY <3>1 DEF ReturnsOnCall
      <4>2. onCall \in [Methods -> SUBSET (0 .. MaxCalls - 1)]
        BY DEF TypeOK
      <4>3. onCall[m] \cup {i} \in SUBSET (0 .. MaxCalls - 1)
        BY <4>2
      <4> QED
        BY <4>1, <4>2, <4>3, Update
    <3> QED
      BY <1>11, <3>1 DEF Configure, Calls, Returns, TypeOK
  <2>2. stub' \subseteq Methods
    BY <1>11 DEF Configure, Calls, Returns, ReturnsOnCall, TypeOK
  <2> QED
    BY <1>11, <2>1, <2>2, ConfigureKeeps DEF TypeOK, lockVars, callVars
<1>12. CASE UNCHANGED vars
  BY <1>12
  DEF vars, TypeOK,
      fakeVars, lockVars, callVars
<1> QED
  BY <1>1, <1>2, <1>3, <1>4, <1>5, <1>6, <1>7, <1>8, <1>9, <1>10, <1>11, <1>12
  DEF Next, Thread

-----------------------------------------------------------------------------
(* Mutexes and records                                                       *)

\* Nobody but Invocations holds a mutex for reading.
LEMMA NoReader ==
  ASSUME MutexInv, NEW t \in Threads, at[t] \in {"idle"} \cup CallPoints
  PROVE  \A x \in Mutexes : t \notin readers[x]
<1>1. at[t] \notin InvocationsPoints
  BY PointNames
<1> QED
  BY <1>1 DEF MutexInv

\* A step of one thread that takes and returns no mutex for writing keeps the
\* mutexes in order.
LEMMA MutexFrame ==
  ASSUME TypeOK, MutexInv, NEW t \in Threads, writer' = writer,
         \A u \in Threads \ {t} : at'[u] = at[u] /\ method'[u] = method[u],
         at[t] \in HoldPoints <=> at'[t] \in HoldPoints,
         at[t] \in HoldPoints => method'[t] = method[t],
         \A x \in Mutexes : \A u \in readers'[x] :
           u \in readers[x] \ {t} \/ (u = t /\ at'[t] \in InvocationsPoints)
  PROVE  MutexInv'
<1>1. ASSUME NEW u \in Threads, at'[u] \in HoldPoints
      PROVE  writer'[method'[u]] = u
  BY <1>1 DEF MutexInv
<1>2. ASSUME NEW m \in Methods, writer'[m] # None
      PROVE  at'[writer'[m]] \in HoldPoints /\ method'[writer'[m]] = m
  <2>1. /\ writer[m] \in Threads
        /\ at[writer[m]] \in HoldPoints /\ method[writer[m]] = m
    BY <1>2, MutexNames DEF MutexInv, TypeOK
  <2> QED
    BY <2>1
<1>3. ASSUME NEW x \in Mutexes, NEW u \in readers'[x]
      PROVE  at'[u] \in InvocationsPoints
  <2>1. CASE u \in readers[x] \ {t}
    <3>1. u \in Threads /\ at[u] \in InvocationsPoints
      BY <2>1 DEF MutexInv, TypeOK
    <3> QED
      BY <2>1, <3>1
  <2> QED
    BY <2>1
<1> QED
  BY <1>1, <1>2, <1>3 DEF MutexInv

\* Every step keeps the mutexes in order.
LEMMA MutexStep ==
  ASSUME TypeOK, MutexInv, [Next]_vars
  PROVE  MutexInv'
<1>1. ASSUME NEW t \in Threads, NEW m \in Methods, Call(t, m)
      PROVE  MutexInv'
  <2>1. at[t] = "idle" /\ at'[t] = "Lock" /\ OthersStay(t)
    BY <1>1, Moves
  <2>2. at[t] \in HoldPoints <=> at'[t] \in HoldPoints
    BY <2>1 DEF HoldPoints
  <2>3. \A x \in Mutexes : \A u \in readers'[x] :
          u \in readers[x] \ {t} \/ (u = t /\ at'[t] \in InvocationsPoints)
    <3>1. readers' = readers
      BY <1>1 DEF Call, lockVars
    <3>2. at[t] \in {"idle"} \cup CallPoints
      BY <2>1 DEF CallPoints
    <3> QED
      BY <3>1, <3>2, NoReader
  <2>4. /\ writer' = writer
        /\ \A u \in Threads \ {t} : method'[u] = method[u]
        /\ at[t] \in HoldPoints => method'[t] = method[t]
    BY <1>1, <2>1 DEF Call, TypeOK, HoldPoints, lockVars, callVars
  <2> QED
    BY <2>1, <2>2, <2>3, <2>4, MutexFrame
<1>2. ASSUME NEW t \in Threads, Lock(t)
      PROVE  MutexInv'
  <2>1. at[t] = "Lock" /\ at'[t] = "ReturnsOnCall" /\ OthersStay(t)
    BY <1>2, Moves
  <2>2. /\ method' = method /\ readers' = readers /\ method[t] \in Methods
        /\ writer[method[t]] = None /\ writer' = [writer EXCEPT ![method[t]] = t]
    BY <1>2 DEF Lock, Lockable, TypeOK, callVars
  <2>3. /\ writer'[method[t]] = t
        /\ \A x \in Mutexes \ {method[t]} : writer'[x] = writer[x]
    BY <2>2, MutexNames DEF TypeOK
  <2>4. at[t] \notin HoldPoints /\ at'[t] \in HoldPoints /\ at[t] \notin InvocationsPoints
    BY <2>1, PointNames DEF HoldPoints, CallPoints
  <2>5. ASSUME NEW u \in Threads, at'[u] \in HoldPoints
        PROVE  writer'[method'[u]] = u
    <3>1. CASE u = t
      BY <3>1, <2>2, <2>3
    <3>2. CASE u # t
      BY <3>2, <2>1, <2>2, <2>3, <2>5, ThreadsAssumption, MutexNames DEF MutexInv, TypeOK
    <3> QED
      BY <3>1, <3>2
  <2>6. ASSUME NEW m \in Methods, writer'[m] # None
        PROVE  at'[writer'[m]] \in HoldPoints /\ method'[writer'[m]] = m
    <3>1. CASE m = method[t]
      BY <3>1, <2>2, <2>3, <2>4
    <3>2. CASE m # method[t]
      <4>1. /\ writer'[m] = writer[m] /\ writer[m] \in Threads
            /\ at[writer[m]] \in HoldPoints /\ method[writer[m]] = m
        BY <3>2, <2>3, <2>6, MutexNames DEF MutexInv, TypeOK
      <4> QED
        BY <4>1, <2>1, <2>2, <2>4
    <3> QED
      BY <3>1, <3>2
  <2>7. writer'["invocations"] = None
    BY <2>2, <2>3, MutexNames DEF MutexInv
  <2>8. ASSUME NEW x \in Mutexes, NEW u \in readers'[x]
        PROVE  at'[u] \in InvocationsPoints
    <3>1. u \in Threads /\ at[u] \in InvocationsPoints
      BY <2>2 DEF MutexInv, TypeOK
    <3> QED
      BY <3>1, <2>1, <2>4
  <2> QED
    BY <2>5, <2>6, <2>7, <2>8 DEF MutexInv
<1>3. ASSUME NEW t \in Threads, LookUp(t)
      PROVE  MutexInv'
  <2>1. at[t] = "ReturnsOnCall" /\ at'[t] = "ArgsForCall" /\ OthersStay(t)
    BY <1>3, Moves
  <2>2. at[t] \in HoldPoints <=> at'[t] \in HoldPoints
    BY <2>1 DEF HoldPoints
  <2>3. \A x \in Mutexes : \A u \in readers'[x] :
          u \in readers[x] \ {t} \/ (u = t /\ at'[t] \in InvocationsPoints)
    <3>1. readers' = readers
      BY <1>3 DEF LookUp, lockVars
    <3>2. at[t] \in {"idle"} \cup CallPoints
      BY <2>1 DEF CallPoints
    <3> QED
      BY <3>1, <3>2, NoReader
  <2>4. /\ writer' = writer
        /\ \A u \in Threads \ {t} : method'[u] = method[u]
        /\ at[t] \in HoldPoints => method'[t] = method[t]
    BY <1>3, <2>1 DEF LookUp, TypeOK, HoldPoints, lockVars, callVars
  <2> QED
    BY <2>1, <2>2, <2>3, <2>4, MutexFrame
<1>4. ASSUME NEW t \in Threads, AppendArgs(t)
      PROVE  MutexInv'
  <2>1. at[t] = "ArgsForCall" /\ at'[t] = "recordInvocation" /\ OthersStay(t)
    BY <1>4, Moves
  <2>2. at[t] \in HoldPoints <=> at'[t] \in HoldPoints
    BY <2>1 DEF HoldPoints
  <2>3. \A x \in Mutexes : \A u \in readers'[x] :
          u \in readers[x] \ {t} \/ (u = t /\ at'[t] \in InvocationsPoints)
    <3>1. readers' = readers
      BY <1>4 DEF AppendArgs, lockVars
    <3>2. at[t] \in {"idle"} \cup CallPoints
      BY <2>1 DEF CallPoints
    <3> QED
      BY <3>1, <3>2, NoReader
  <2>4. /\ writer' = writer
        /\ \A u \in Threads \ {t} : method'[u] = method[u]
        /\ at[t] \in HoldPoints => method'[t] = method[t]
    BY <1>4, <2>1 DEF AppendArgs, TypeOK, HoldPoints, lockVars, callVars
  <2> QED
    BY <2>1, <2>2, <2>3, <2>4, MutexFrame
<1>5. ASSUME NEW t \in Threads, RecordInvocation(t)
      PROVE  MutexInv'
  <2>1. at[t] = "recordInvocation" /\ at'[t] = "Unlock" /\ OthersStay(t)
    BY <1>5, Moves
  <2>2. at[t] \in HoldPoints <=> at'[t] \in HoldPoints
    BY <2>1 DEF HoldPoints
  <2>3. \A x \in Mutexes : \A u \in readers'[x] :
          u \in readers[x] \ {t} \/ (u = t /\ at'[t] \in InvocationsPoints)
    <3>1. readers' = readers
      BY <1>5 DEF RecordInvocation, lockVars
    <3>2. at[t] \in {"idle"} \cup CallPoints
      BY <2>1 DEF CallPoints
    <3> QED
      BY <3>1, <3>2, NoReader
  <2>4. /\ writer' = writer
        /\ \A u \in Threads \ {t} : method'[u] = method[u]
        /\ at[t] \in HoldPoints => method'[t] = method[t]
    BY <1>5, <2>1 DEF RecordInvocation, TypeOK, HoldPoints, lockVars, callVars
  <2> QED
    BY <2>1, <2>2, <2>3, <2>4, MutexFrame
<1>6. ASSUME NEW t \in Threads, Unlock(t)
      PROVE  MutexInv'
  <2>1. at[t] = "Unlock" /\ at'[t] = "Stub" /\ OthersStay(t)
    BY <1>6, Moves
  <2>2. /\ method' = method /\ readers' = readers /\ method[t] \in Methods
        /\ writer' = [writer EXCEPT ![method[t]] = None]
    BY <1>6 DEF Unlock, TypeOK, callVars
  <2>3. /\ writer'[method[t]] = None
        /\ \A x \in Mutexes \ {method[t]} : writer'[x] = writer[x]
    BY <2>2, MutexNames DEF TypeOK
  <2>4. at[t] \in HoldPoints /\ at'[t] \notin HoldPoints /\ at[t] \notin InvocationsPoints
    BY <2>1, PointNames DEF HoldPoints, CallPoints
  <2>5. ASSUME NEW u \in Threads, at'[u] \in HoldPoints
        PROVE  writer'[method'[u]] = u
    <3>1. u # t /\ at[u] \in HoldPoints /\ writer[method[u]] = u /\ writer[method[t]] = t
      BY <2>1, <2>4, <2>5 DEF MutexInv
    <3> QED
      BY <3>1, <2>2, <2>3, MutexNames DEF TypeOK
  <2>6. ASSUME NEW m \in Methods, writer'[m] # None
        PROVE  at'[writer'[m]] \in HoldPoints /\ method'[writer'[m]] = m
    <3>1. m # method[t] /\ writer'[m] = writer[m]
      BY <2>3, <2>6, MutexNames
    <3>2. /\ writer[m] \in Threads
          /\ at[writer[m]] \in HoldPoints /\ method[writer[m]] = m
      BY <3>1, <2>6, MutexNames DEF MutexInv, TypeOK
    <3> QED
      BY <3>1, <3>2, <2>1, <2>2
  <2>7. writer'["invocations"] = None
    BY <2>2, <2>3, MutexNames DEF MutexInv
  <2>8. ASSUME NEW x \in Mutexes, NEW u \in readers'[x]
        PROVE  at'[u] \in InvocationsPoints
    <3>1. u \in Threads /\ at[u] \in InvocationsPoints
      BY <2>2 DEF MutexInv, TypeOK
    <3> QED
      BY <3>1, <2>1, <2>4
  <2> QED
    BY <2>5, <2>6, <2>7, <2>8 DEF MutexInv
<1>7. ASSUME NEW t \in Threads, Answer(t)
      PROVE  MutexInv'
  <2>1. at[t] = "Stub" /\ at'[t] = "idle" /\ OthersStay(t)
    BY <1>7, Moves
  <2>2. at[t] \in HoldPoints <=> at'[t] \in HoldPoints
    BY <2>1 DEF HoldPoints
  <2>3. \A x \in Mutexes : \A u \in readers'[x] :
          u \in readers[x] \ {t} \/ (u = t /\ at'[t] \in InvocationsPoints)
    <3>1. readers' = readers
      BY <1>7 DEF Answer, lockVars
    <3>2. at[t] \in {"idle"} \cup CallPoints
      BY <2>1 DEF CallPoints
    <3> QED
      BY <3>1, <3>2, NoReader
  <2>4. /\ writer' = writer
        /\ \A u \in Threads \ {t} : method'[u] = method[u]
        /\ at[t] \in HoldPoints => method'[t] = method[t]
    BY <1>7, <2>1 DEF Answer, TypeOK, HoldPoints, lockVars, callVars
  <2> QED
    BY <2>1, <2>2, <2>3, <2>4, MutexFrame
<1>8. ASSUME NEW t \in Threads, Invocations(t)
      PROVE  MutexInv'
  <2>1. at[t] = "idle" /\ at'[t] \in InvocationsPoints /\ OthersStay(t)
    BY <1>8, Moves
  <2>2. at[t] \in HoldPoints <=> at'[t] \in HoldPoints
    BY <2>1, PointNames DEF HoldPoints, CallPoints
  <2>3. \A x \in Mutexes : \A u \in readers'[x] :
          u \in readers[x] \ {t} \/ (u = t /\ at'[t] \in InvocationsPoints)
    <3>1. readers' = readers
      BY <1>8 DEF Invocations, lockVars
    <3>2. at[t] \in {"idle"} \cup CallPoints
      BY <2>1 DEF CallPoints
    <3> QED
      BY <3>1, <3>2, NoReader
  <2>4. /\ writer' = writer
        /\ \A u \in Threads \ {t} : method'[u] = method[u]
        /\ at[t] \in HoldPoints => method'[t] = method[t]
    BY <1>8, <2>1 DEF Invocations, TypeOK, HoldPoints, lockVars, callVars
  <2> QED
    BY <2>1, <2>2, <2>3, <2>4, MutexFrame
<1>9. ASSUME NEW t \in Threads, RLockNext(t)
      PROVE  MutexInv'
  <2>1. at[t] \in InvocationsPoints /\ at'[t] \in InvocationsPoints /\ OthersStay(t)
    BY <1>9, Moves
  <2>2. at[t] \in HoldPoints <=> at'[t] \in HoldPoints
    BY <2>1, PointNames DEF HoldPoints, CallPoints
  <2>3. \A x \in Mutexes : \A u \in readers'[x] :
          u \in readers[x] \ {t} \/ (u = t /\ at'[t] \in InvocationsPoints)
    BY <1>9, <2>1 DEF RLockNext, MutexInv, TypeOK
  <2>4. /\ writer' = writer
        /\ \A u \in Threads \ {t} : method'[u] = method[u]
        /\ at[t] \in HoldPoints => method'[t] = method[t]
    BY <1>9, <2>1 DEF RLockNext, TypeOK, HoldPoints, lockVars, callVars
  <2> QED
    BY <2>1, <2>2, <2>3, <2>4, MutexFrame
<1>10. ASSUME NEW t \in Threads, CopyInvocations(t)
      PROVE  MutexInv'
  <2>1. at[t] = "copy" /\ at'[t] = "idle" /\ OthersStay(t)
    BY <1>10, Moves
  <2>2. at[t] \in HoldPoints <=> at'[t] \in HoldPoints
    BY <2>1 DEF HoldPoints
  <2>3. \A x \in Mutexes : \A u \in readers'[x] :
          u \in readers[x] \ {t} \/ (u = t /\ at'[t] \in InvocationsPoints)
    BY <1>10 DEF CopyInvocations
  <2>4. /\ writer' = writer
        /\ \A u \in Threads \ {t} : method'[u] = method[u]
        /\ at[t] \in HoldPoints => method'[t] = method[t]
    BY <1>10, <2>1 DEF CopyInvocations, TypeOK, HoldPoints, lockVars, callVars
  <2> QED
    BY <2>1, <2>2, <2>3, <2>4, MutexFrame
<1>11. ASSUME NEW m \in Methods, Configure(m)
      PROVE  MutexInv'
  BY <1>11, ConfigureKeeps DEF MutexInv, lockVars, callVars
<1>12. CASE UNCHANGED vars
  BY <1>12 DEF MutexInv, vars, lockVars, callVars
<1> QED
  BY <1>1, <1>2, <1>3, <1>4, <1>5, <1>6, <1>7, <1>8, <1>9, <1>10, <1>11, <1>12
  DEF Next, Thread

\* A step of one thread may change the records of the method it calls while
\* no other call holds its mutex, if it leaves them as its point demands.
LEMMA RecordFrame ==
  ASSUME TypeOK, MutexInv, RecordInv, NEW t \in Threads,
         \A u \in Threads \ {t} : at'[u] = at[u] /\ method'[u] = method[u],
         \A m \in Methods \ {method[t]} :
           /\ argsForCall'[m] = argsForCall[m] /\ invocations'[m] = invocations[m]
           /\ writer'[m] = writer[m],
         \/ at[t] \in HoldPoints \/ writer[method[t]] = None
         \/ argsForCall' = argsForCall /\ invocations' = invocations,
         writer'[method[t]] = None => argsForCall'[method[t]] = invocations'[method[t]],
         at'[t] \in HoldPoints => method'[t] = method[t],
         at'[t] \in HoldPoints \ {"recordInvocation"} =>
           argsForCall'[method[t]] = invocations'[method[t]],
         at'[t] = "recordInvocation" =>
           argsForCall'[method[t]] = Append(invocations'[method[t]], t)
  PROVE  RecordInv'
<1>1. ASSUME NEW m \in Methods, writer'[m] = None
      PROVE  argsForCall'[m] = invocations'[m]
  BY <1>1 DEF RecordInv, RecordsAgree
<1>2. ASSUME NEW u \in Threads \ {t}, at'[u] \in HoldPoints
      PROVE  /\ argsForCall'[method'[u]] = argsForCall[method[u]]
             /\ invocations'[method'[u]] = invocations[method[u]]
  <2>1. method[u] \in Methods /\ method'[u] = method[u] /\ at[u] \in HoldPoints
    BY <1>2 DEF TypeOK
  <2>2. writer[method[u]] = u
    BY <2>1 DEF MutexInv
  <2>3. CASE method[u] # method[t]
    BY <2>1, <2>3
  <2>4. CASE method[u] = method[t]
    <3>1. argsForCall' = argsForCall /\ invocations' = invocations
      BY <2>2, <2>4, ThreadsAssumption DEF MutexInv
    <3> QED
      BY <2>1, <3>1
  <2> QED
    BY <2>3, <2>4
<1>3. ASSUME NEW u \in Threads, at'[u] \in HoldPoints \ {"recordInvocation"}
      PROVE  argsForCall'[method'[u]] = invocations'[method'[u]]
  <2>1. CASE u = t
    BY <1>3, <2>1
  <2>2. CASE u # t
    BY <1>2, <1>3, <2>2 DEF RecordInv
  <2> QED
    BY <2>1, <2>2
<1>4. ASSUME NEW u \in Threads, at'[u] = "recordInvocation"
      PROVE  argsForCall'[method'[u]] = Append(invocations'[method'[u]], u)
  <2>1. at'[u] \in HoldPoints
    BY <1>4 DEF HoldPoints
  <2>2. CASE u = t
    BY <1>4, <2>1, <2>2
  <2>3. CASE u # t
    BY <1>2, <1>4, <2>1, <2>3 DEF RecordInv
  <2> QED
    BY <2>2, <2>3
<1> QED
  BY <1>1, <1>3, <1>4 DEF RecordInv, RecordsAgree

\* Every step keeps the two records in agreement.
LEMMA RecordStep ==
  ASSUME TypeOK, MutexInv, RecordInv, [Next]_vars
  PROVE  RecordInv'
<1>1. ASSUME NEW t \in Threads, NEW m \in Methods, Call(t, m)
      PROVE  RecordInv'
  <2>1. at[t] = "idle" /\ at'[t] = "Lock" /\ OthersStay(t)
    BY <1>1, Moves
  <2>2. at'[t] \notin HoldPoints
    BY <2>1, PointNames DEF HoldPoints, CallPoints
  <2>3. /\ argsForCall' = argsForCall /\ invocations' = invocations /\ writer' = writer
        /\ \A u \in Threads \ {t} : method'[u] = method[u]
        /\ method[t] \in Methods
    BY <1>1 DEF Call, TypeOK, fakeVars, lockVars, callVars
  <2>4. writer[method[t]] = None => argsForCall[method[t]] = invocations[method[t]]
    BY <2>3 DEF RecordInv, RecordsAgree
  <2> QED
    BY <2>1, <2>2, <2>3, <2>4, RecordFrame DEF HoldPoints
<1>2. ASSUME NEW t \in Threads, Lock(t)
      PROVE  RecordInv'
  <2>1. at[t] = "Lock" /\ at'[t] = "ReturnsOnCall" /\ OthersStay(t)
    BY <1>2, Moves
  <2>2. at'[t] \in HoldPoints
    BY <2>1 DEF HoldPoints
  <2>3. /\ argsForCall' = argsForCall /\ invocations' = invocations /\ method' = method
        /\ method[t] \in Methods /\ writer' = [writer EXCEPT ![method[t]] = t]
    BY <1>2 DEF Lock, TypeOK, fakeVars, callVars
  <2>4. \A m \in Methods \ {method[t]} : writer'[m] = writer[m]
    BY <2>3, MutexNames DEF TypeOK
  <2>5. writer[method[t]] = None
    BY <1>2 DEF Lock, Lockable
  <2>6. argsForCall[method[t]] = invocations[method[t]]
    BY <2>3, <2>5 DEF RecordInv, RecordsAgree
  <2> QED
    BY <2>1, <2>3, <2>4, <2>5, <2>6, RecordFrame
<1>3. ASSUME NEW t \in Threads, LookUp(t)
      PROVE  RecordInv'
  <2>1. at[t] = "ReturnsOnCall" /\ at'[t] = "ArgsForCall" /\ OthersStay(t)
    BY <1>3, Moves
  <2>2. at[t] \in HoldPoints
    BY <2>1 DEF HoldPoints
  <2>3. /\ argsForCall' = argsForCall /\ invocations' = invocations /\ writer' = writer
        /\ \A u \in Threads \ {t} : method'[u] = method[u]
        /\ method[t] \in Methods /\ method'[t] = method[t]
    BY <1>3 DEF LookUp, TypeOK, fakeVars, lockVars, callVars
  <2>4. writer[method[t]] = None => argsForCall[method[t]] = invocations[method[t]]
    BY <2>3 DEF RecordInv, RecordsAgree
  <2>5. argsForCall[method[t]] = invocations[method[t]]
    BY <2>1 DEF RecordInv, HoldPoints
  <2> QED
    BY <2>1, <2>2, <2>3, <2>4, <2>5, RecordFrame
<1>4. ASSUME NEW t \in Threads, AppendArgs(t)
      PROVE  RecordInv'
  <2>1. at[t] = "ArgsForCall" /\ at'[t] = "recordInvocation" /\ OthersStay(t)
    BY <1>4, Moves
  <2>2. at[t] \in HoldPoints
    BY <2>1 DEF HoldPoints
  <2>3. /\ invocations' = invocations /\ writer' = writer /\ method' = method
        /\ method[t] \in Methods
        /\ argsForCall' = [argsForCall EXCEPT ![method[t]] = Append(argsForCall[method[t]], t)]
    BY <1>4 DEF AppendArgs, TypeOK, callVars
  <2>4. /\ argsForCall'[method[t]] = Append(argsForCall[method[t]], t)
        /\ \A m \in Methods \ {method[t]} : argsForCall'[m] = argsForCall[m]
    BY <2>3 DEF TypeOK
  <2>5. writer'[method[t]] # None
    BY <2>2, <2>3, ThreadsAssumption DEF MutexInv
  <2>6. argsForCall'[method[t]] = Append(invocations'[method[t]], t)
    BY <2>1, <2>3, <2>4 DEF RecordInv, HoldPoints
  <2> QED
    BY <2>1, <2>2, <2>3, <2>4, <2>5, <2>6, RecordFrame
<1>5. ASSUME NEW t \in Threads, RecordInvocation(t)
      PROVE  RecordInv'
  <2>1. at[t] = "recordInvocation" /\ at'[t] = "Unlock" /\ OthersStay(t)
    BY <1>5, Moves
  <2>2. at[t] \in HoldPoints
    BY <2>1 DEF HoldPoints
  <2>3. /\ argsForCall' = argsForCall /\ writer' = writer /\ method' = method
        /\ method[t] \in Methods
        /\ invocations' = [invocations EXCEPT ![method[t]] = Append(invocations[method[t]], t)]
    BY <1>5 DEF RecordInvocation, TypeOK, callVars
  <2>4. /\ invocations'[method[t]] = Append(invocations[method[t]], t)
        /\ \A m \in Methods \ {method[t]} : invocations'[m] = invocations[m]
    BY <2>3 DEF TypeOK
  <2>5. writer'[method[t]] # None
    BY <2>2, <2>3, ThreadsAssumption DEF MutexInv
  <2>6. argsForCall'[method[t]] = invocations'[method[t]]
    BY <2>1, <2>3, <2>4 DEF RecordInv
  <2> QED
    BY <2>1, <2>2, <2>3, <2>4, <2>5, <2>6, RecordFrame
<1>6. ASSUME NEW t \in Threads, Unlock(t)
      PROVE  RecordInv'
  <2>1. at[t] = "Unlock" /\ at'[t] = "Stub" /\ OthersStay(t)
    BY <1>6, Moves
  <2>2. at[t] \in HoldPoints
    BY <2>1 DEF HoldPoints
  <2>3. /\ argsForCall' = argsForCall /\ invocations' = invocations /\ method' = method
        /\ method[t] \in Methods /\ writer' = [writer EXCEPT ![method[t]] = None]
    BY <1>6 DEF Unlock, TypeOK, fakeVars, callVars
  <2>4. \A m \in Methods \ {method[t]} : writer'[m] = writer[m]
    BY <2>3, MutexNames DEF TypeOK
  <2>5. argsForCall[method[t]] = invocations[method[t]]
    BY <2>1 DEF RecordInv, HoldPoints
  <2> QED
    BY <2>1, <2>2, <2>3, <2>4, <2>5, RecordFrame
<1>7. ASSUME NEW t \in Threads, Answer(t)
      PROVE  RecordInv'
  <2>1. at[t] = "Stub" /\ at'[t] = "idle" /\ OthersStay(t)
    BY <1>7, Moves
  <2>2. at'[t] \notin HoldPoints
    BY <2>1, PointNames DEF HoldPoints, CallPoints
  <2>3. /\ argsForCall' = argsForCall /\ invocations' = invocations /\ writer' = writer
        /\ \A u \in Threads \ {t} : method'[u] = method[u]
        /\ method[t] \in Methods
    BY <1>7 DEF Answer, TypeOK, fakeVars, lockVars, callVars
  <2>4. writer[method[t]] = None => argsForCall[method[t]] = invocations[method[t]]
    BY <2>3 DEF RecordInv, RecordsAgree
  <2> QED
    BY <2>1, <2>2, <2>3, <2>4, RecordFrame DEF HoldPoints
<1>8. ASSUME NEW t \in Threads, Invocations(t)
      PROVE  RecordInv'
  <2>1. at[t] = "idle" /\ at'[t] \in InvocationsPoints /\ OthersStay(t)
    BY <1>8, Moves
  <2>2. at'[t] \notin HoldPoints
    BY <2>1, PointNames DEF HoldPoints, CallPoints
  <2>3. /\ argsForCall' = argsForCall /\ invocations' = invocations /\ writer' = writer
        /\ \A u \in Threads \ {t} : method'[u] = method[u]
        /\ method[t] \in Methods
    BY <1>8 DEF Invocations, TypeOK, fakeVars, lockVars, callVars
  <2>4. writer[method[t]] = None => argsForCall[method[t]] = invocations[method[t]]
    BY <2>3 DEF RecordInv, RecordsAgree
  <2> QED
    BY <2>1, <2>2, <2>3, <2>4, RecordFrame DEF HoldPoints
<1>9. ASSUME NEW t \in Threads, RLockNext(t)
      PROVE  RecordInv'
  <2>1. at[t] \in InvocationsPoints /\ at'[t] \in InvocationsPoints /\ OthersStay(t)
    BY <1>9, Moves
  <2>2. at'[t] \notin HoldPoints
    BY <2>1, PointNames DEF HoldPoints, CallPoints
  <2>3. /\ argsForCall' = argsForCall /\ invocations' = invocations /\ writer' = writer
        /\ \A u \in Threads \ {t} : method'[u] = method[u]
        /\ method[t] \in Methods
    BY <1>9 DEF RLockNext, TypeOK, fakeVars, lockVars, callVars
  <2>4. writer[method[t]] = None => argsForCall[method[t]] = invocations[method[t]]
    BY <2>3 DEF RecordInv, RecordsAgree
  <2> QED
    BY <2>1, <2>2, <2>3, <2>4, RecordFrame DEF HoldPoints
<1>10. ASSUME NEW t \in Threads, CopyInvocations(t)
      PROVE  RecordInv'
  <2>1. at[t] = "copy" /\ at'[t] = "idle" /\ OthersStay(t)
    BY <1>10, Moves
  <2>2. at'[t] \notin HoldPoints
    BY <2>1, PointNames DEF HoldPoints, CallPoints
  <2>3. /\ argsForCall' = argsForCall /\ invocations' = invocations /\ writer' = writer
        /\ \A u \in Threads \ {t} : method'[u] = method[u]
        /\ method[t] \in Methods
    BY <1>10 DEF CopyInvocations, TypeOK, fakeVars, lockVars, callVars
  <2>4. writer[method[t]] = None => argsForCall[method[t]] = invocations[method[t]]
    BY <2>3 DEF RecordInv, RecordsAgree
  <2> QED
    BY <2>1, <2>2, <2>3, <2>4, RecordFrame DEF HoldPoints
<1>11. ASSUME NEW m \in Methods, Configure(m)
      PROVE  RecordInv'
  BY <1>11, ConfigureKeeps DEF RecordInv, RecordsAgree, lockVars, callVars
<1>12. CASE UNCHANGED vars
  BY <1>12 DEF RecordInv, RecordsAgree, vars, fakeVars, lockVars, callVars
<1> QED
  BY <1>1, <1>2, <1>3, <1>4, <1>5, <1>6, <1>7, <1>8, <1>9, <1>10, <1>11, <1>12
  DEF Next, Thread

-----------------------------------------------------------------------------
(* The numbers of the calls                                                  *)

\* What an append does to a method's record.
LEMMA AppendedCall ==
  ASSUME TypeOK, NEW m \in Methods, NEW t \in Threads,
         argsForCall' = [argsForCall EXCEPT ![m] = Append(argsForCall[m], t)]
  PROVE  /\ CallCount(m)' = CallCount(m) + 1
         /\ CallCount(m) \in Nat
         /\ argsForCall'[m][CallCount(m) + 1] = t
         /\ \A i \in 1 .. CallCount(m) : argsForCall'[m][i] = argsForCall[m][i]
<1> DEFINE s == argsForCall[m]
<1>1. s \in Seq(Threads) /\ argsForCall'[m] = Append(s, t)
  BY DEF TypeOK
<1> HIDE DEF s
<1>2. /\ Len(Append(s, t)) = Len(s) + 1 /\ Len(s) \in Nat
      /\ Append(s, t)[Len(s) + 1] = t
      /\ \A i \in 1 .. Len(s) : Append(s, t)[i] = s[i]
  BY <1>1
<1> QED
  BY <1>1, <1>2 DEF CallCount, s

\* A step that begins no call and appends none leaves the count alone.
LEMMA CountFrame ==
  ASSUME TypeOK, CountInv, NEW t \in Threads, argsForCall' = argsForCall,
         \A u \in Threads \ {t} : at'[u] = at[u] /\ method'[u] = method[u],
         at[t] \in PendingPoints <=> at'[t] \in PendingPoints,
         at[t] \in PendingPoints => method'[t] = method[t]
  PROVE  CountInv'
<1>1. \A m \in Methods : Pending(m)' = Pending(m)
  BY DEF Pending
<1> QED
  BY <1>1 DEF CountInv, CallCount

\* Every step keeps the calls within the bound.
LEMMA CountStep ==
  ASSUME TypeOK, CountInv, [Next]_vars
  PROVE  CountInv'
<1>1. ASSUME NEW t \in Threads, NEW m \in Methods, Call(t, m)
      PROVE  CountInv'
  <2>1. at[t] = "idle" /\ at'[t] = "Lock" /\ OthersStay(t)
    BY <1>1, Moves
  <2>2. /\ argsForCall' = argsForCall /\ method'[t] = m
        /\ \A u \in Threads \ {t} : method'[u] = method[u]
    BY <1>1 DEF Call, TypeOK, fakeVars
  <2>3. at[t] \notin PendingPoints /\ at'[t] \in PendingPoints
    BY <2>1 DEF PendingPoints
  <2>4. ASSUME NEW n \in Methods
        PROVE  (CallCount(n) + Cardinality(Pending(n)) <= MaxCalls)'
    <3>1. CallCount(n)' = CallCount(n) /\ CallCount(n) \in Nat
      BY <2>2 DEF CallCount, TypeOK
    <3>2. CASE n = m
      <4>1. Pending(n)' = Pending(n) \cup {t} /\ t \notin Pending(n)
        BY <2>1, <2>2, <2>3, <3>2 DEF Pending
      <4>2. Cardinality(Pending(n)') = Cardinality(Pending(n)) + 1
        BY <4>1, PendingFinite, FS_AddElement
      <4>3. CallCount(n) + Cardinality(Pending(n)) < MaxCalls
        BY <1>1, <3>2 DEF Call, CallsBegun, Pending, PendingPoints
      <4> QED
        BY <3>1, <4>2, <4>3, PendingFinite, ThreadsAssumption
    <3>3. CASE n # m
      <4>1. Pending(n)' = Pending(n)
        BY <2>1, <2>2, <2>3, <3>3 DEF Pending
      <4> QED
        BY <3>1, <4>1 DEF CountInv
    <3> QED
      BY <3>2, <3>3
  <2> QED
    BY <2>4 DEF CountInv
<1>2. ASSUME NEW t \in Threads, Lock(t)
      PROVE  CountInv'
  <2>1. at[t] = "Lock" /\ at'[t] = "ReturnsOnCall" /\ OthersStay(t)
    BY <1>2, Moves
  <2>2. at[t] \in PendingPoints <=> at'[t] \in PendingPoints
    BY <2>1 DEF PendingPoints
  <2>3. /\ argsForCall' = argsForCall
        /\ \A u \in Threads \ {t} : method'[u] = method[u]
        /\ at[t] \in PendingPoints => method'[t] = method[t]
    BY <1>2, <2>1 DEF Lock, TypeOK, PendingPoints, fakeVars, callVars
  <2> QED
    BY <2>1, <2>2, <2>3, CountFrame
<1>3. ASSUME NEW t \in Threads, LookUp(t)
      PROVE  CountInv'
  <2>1. at[t] = "ReturnsOnCall" /\ at'[t] = "ArgsForCall" /\ OthersStay(t)
    BY <1>3, Moves
  <2>2. at[t] \in PendingPoints <=> at'[t] \in PendingPoints
    BY <2>1 DEF PendingPoints
  <2>3. /\ argsForCall' = argsForCall
        /\ \A u \in Threads \ {t} : method'[u] = method[u]
        /\ at[t] \in PendingPoints => method'[t] = method[t]
    BY <1>3, <2>1 DEF LookUp, TypeOK, PendingPoints, fakeVars, callVars
  <2> QED
    BY <2>1, <2>2, <2>3, CountFrame
<1>4. ASSUME NEW t \in Threads, AppendArgs(t)
      PROVE  CountInv'
  <2>1. at[t] = "ArgsForCall" /\ at'[t] = "recordInvocation" /\ OthersStay(t)
    BY <1>4, Moves
  <2>2. /\ method' = method /\ method[t] \in Methods
        /\ argsForCall' = [argsForCall EXCEPT ![method[t]] = Append(argsForCall[method[t]], t)]
    BY <1>4 DEF AppendArgs, TypeOK, callVars
  <2>3. at[t] \in PendingPoints /\ at'[t] \notin PendingPoints
    BY <2>1 DEF PendingPoints
  <2>4. ASSUME NEW n \in Methods
        PROVE  (CallCount(n) + Cardinality(Pending(n)) <= MaxCalls)'
    <3>1. CallCount(n) \in Nat /\ CallCount(n) + Cardinality(Pending(n)) <= MaxCalls
      BY DEF CallCount, TypeOK, CountInv
    <3>2. CASE n = method[t]
      <4>1. Pending(n)' = Pending(n) \ {t} /\ t \in Pending(n)
        BY <2>1, <2>2, <2>3, <3>2 DEF Pending
      <4>2. Cardinality(Pending(n)') = Cardinality(Pending(n)) - 1
        BY <4>1, PendingFinite, FS_RemoveElement
      <4>3. CallCount(n)' = CallCount(n) + 1
        BY <2>2, <3>2, AppendedCall
      <4> QED
        BY <3>1, <4>2, <4>3, PendingFinite, ThreadsAssumption
    <3>3. CASE n # method[t]
      <4>1. Pending(n)' = Pending(n)
        BY <2>1, <2>2, <2>3, <3>3 DEF Pending
      <4>2. CallCount(n)' = CallCount(n)
        BY <2>2, <3>3 DEF CallCount, TypeOK
      <4> QED
        BY <3>1, <4>1, <4>2
    <3> QED
      BY <3>2, <3>3
  <2> QED
    BY <2>4 DEF CountInv
<1>5. ASSUME NEW t \in Threads, RecordInvocation(t)
      PROVE  CountInv'
  <2>1. at[t] = "recordInvocation" /\ at'[t] = "Unlock" /\ OthersStay(t)
    BY <1>5, Moves
  <2>2. at[t] \in PendingPoints <=> at'[t] \in PendingPoints
    BY <2>1 DEF PendingPoints
  <2>3. /\ argsForCall' = argsForCall
        /\ \A u \in Threads \ {t} : method'[u] = method[u]
        /\ at[t] \in PendingPoints => method'[t] = method[t]
    BY <1>5, <2>1 DEF RecordInvocation, TypeOK, PendingPoints, fakeVars, callVars
  <2> QED
    BY <2>1, <2>2, <2>3, CountFrame
<1>6. ASSUME NEW t \in Threads, Unlock(t)
      PROVE  CountInv'
  <2>1. at[t] = "Unlock" /\ at'[t] = "Stub" /\ OthersStay(t)
    BY <1>6, Moves
  <2>2. at[t] \in PendingPoints <=> at'[t] \in PendingPoints
    BY <2>1 DEF PendingPoints
  <2>3. /\ argsForCall' = argsForCall
        /\ \A u \in Threads \ {t} : method'[u] = method[u]
        /\ at[t] \in PendingPoints => method'[t] = method[t]
    BY <1>6, <2>1 DEF Unlock, TypeOK, PendingPoints, fakeVars, callVars
  <2> QED
    BY <2>1, <2>2, <2>3, CountFrame
<1>7. ASSUME NEW t \in Threads, Answer(t)
      PROVE  CountInv'
  <2>1. at[t] = "Stub" /\ at'[t] = "idle" /\ OthersStay(t)
    BY <1>7, Moves
  <2>2. at[t] \in PendingPoints <=> at'[t] \in PendingPoints
    BY <2>1 DEF PendingPoints
  <2>3. /\ argsForCall' = argsForCall
        /\ \A u \in Threads \ {t} : method'[u] = method[u]
        /\ at[t] \in PendingPoints => method'[t] = method[t]
    BY <1>7, <2>1 DEF Answer, TypeOK, PendingPoints, fakeVars, callVars
  <2> QED
    BY <2>1, <2>2, <2>3, CountFrame
<1>8. ASSUME NEW t \in Threads, Invocations(t)
      PROVE  CountInv'
  <2>1. at[t] = "idle" /\ at'[t] \in InvocationsPoints /\ OthersStay(t)
    BY <1>8, Moves
  <2>2. at[t] \in PendingPoints <=> at'[t] \in PendingPoints
    BY <2>1, PointNames DEF PendingPoints, CallPoints
  <2>3. /\ argsForCall' = argsForCall
        /\ \A u \in Threads \ {t} : method'[u] = method[u]
        /\ at[t] \in PendingPoints => method'[t] = method[t]
    BY <1>8, <2>1 DEF Invocations, TypeOK, PendingPoints, fakeVars, callVars
  <2> QED
    BY <2>1, <2>2, <2>3, CountFrame
<1>9. ASSUME NEW t \in Threads, RLockNext(t)
      PROVE  CountInv'
  <2>1. at[t] \in InvocationsPoints /\ at'[t] \in InvocationsPoints /\ OthersStay(t)
    BY <1>9, Moves
  <2>2. at[t] \in PendingPoints <=> at'[t] \in PendingPoints
    BY <2>1, PointNames DEF PendingPoints, CallPoints
  <2>3. /\ argsForCall' = argsForCall
        /\ \A u \in Threads \ {t} : method'[u] = method[u]
        /\ at[t] \in PendingPoints => method'[t] = method[t]
    BY <1>9, <2>1 DEF RLockNext, TypeOK, PendingPoints, fakeVars, callVars
  <2> QED
    BY <2>1, <2>2, <2>3, CountFrame
<1>10. ASSUME NEW t \in Threads, CopyInvocations(t)
      PROVE  CountInv'
  <2>1. at[t] = "copy" /\ at'[t] = "idle" /\ OthersStay(t)
    BY <1>10, Moves
  <2>2. at[t] \in PendingPoints <=> at'[t] \in PendingPoints
    BY <2>1 DEF PendingPoints
  <2>3. /\ argsForCall' = argsForCall
        /\ \A u \in Threads \ {t} : method'[u] = method[u]
        /\ at[t] \in PendingPoints => method'[t] = method[t]
    BY <1>10, <2>1 DEF CopyInvocations, TypeOK, PendingPoints, fakeVars, callVars
  <2> QED
    BY <2>1, <2>2, <2>3, CountFrame
<1>11. ASSUME NEW m \in Methods, Configure(m)
      PROVE  CountInv'
  <2>1. UNCHANGED <<argsForCall, at, method>>
    BY <1>11, ConfigureKeeps DEF callVars
  <2> QED
    BY <2>1 DEF CountInv, CallCount, Pending
<1>12. CASE UNCHANGED vars
  BY <1>12 DEF CountInv, CallCount, Pending, vars, fakeVars, callVars
<1> QED
  BY <1>1, <1>2, <1>3, <1>4, <1>5, <1>6, <1>7, <1>8, <1>9, <1>10, <1>11, <1>12
  DEF Next, Thread

\* Two calls of a method do not hold its mutex together.
LEMMA Exclusive ==
  ASSUME MutexInv, NEW t \in Threads, NEW u \in Threads, t # u,
         at[t] \in HoldPoints, at[u] \in HoldPoints
  PROVE  method[t] # method[u]
BY DEF MutexInv

\* A step that appends nothing and serves nothing keeps the numbers.
LEMMA NumberFrame ==
  ASSUME NumberInv, NEW t \in Threads, argsForCall' = argsForCall, served' = served,
         \A u \in Threads \ {t} :
           at'[u] = at[u] /\ method'[u] = method[u] /\ index'[u] = index[u],
         at'[t] = "ArgsForCall" => index'[t] = CallCount(method'[t]),
         at'[t] \in RecordedPoints =>
           at[t] \in RecordedPoints /\ index'[t] = index[t] /\ method'[t] = method[t]
  PROVE  NumberInv'
<1>1. ASSUME NEW u \in Threads
      PROVE  /\ at'[u] = "ArgsForCall" => index'[u] = CallCount(method'[u])
             /\ at'[u] \in RecordedPoints =>
                  /\ at[u] \in RecordedPoints /\ index'[u] = index[u] /\ method'[u] = method[u]
                  /\ index'[u] < CallCount(method'[u]) /\ ArgsForCall(method'[u], index'[u]) = u
  BY DEF NumberInv
<1>2. ASSUME NEW m \in Methods, NEW i \in 0 .. MaxCalls - 1
      PROVE  /\ served[m][i] <= 1
             /\ served[m][i] = 1 =>
                  /\ i < CallCount(m)
                  /\ \A u \in Threads :
                       at'[u] \in RecordedPoints /\ method'[u] = m => index'[u] # i
  BY <1>1 DEF NumberInv
<1> QED
  BY <1>1, <1>2 DEF NumberInv, CallCount, ArgsForCall

\* Every step keeps the numbers of the calls apart.
LEMMA NumberStep ==
  ASSUME TypeOK, MutexInv, NumberInv, [Next]_vars
  PROVE  NumberInv'
<1>1. ASSUME NEW t \in Threads, NEW m \in Methods, Call(t, m)
      PROVE  NumberInv'
  <2>1. at[t] = "idle" /\ at'[t] = "Lock" /\ OthersStay(t)
    BY <1>1, Moves
  <2>2. at'[t] \notin RecordedPoints /\ at'[t] # "ArgsForCall"
    BY <2>1 DEF RecordedPoints
  <2>3. /\ argsForCall' = argsForCall /\ served' = served
        /\ \A u \in Threads \ {t} : method'[u] = method[u] /\ index'[u] = index[u]
    BY <1>1 DEF Call, TypeOK, fakeVars, callVars
  <2> QED
    BY <2>1, <2>2, <2>3, NumberFrame
<1>2. ASSUME NEW t \in Threads, Lock(t)
      PROVE  NumberInv'
  <2>1. at[t] = "Lock" /\ at'[t] = "ReturnsOnCall" /\ OthersStay(t)
    BY <1>2, Moves
  <2>2. at'[t] \notin RecordedPoints /\ at'[t] # "ArgsForCall"
    BY <2>1 DEF RecordedPoints
  <2>3. /\ argsForCall' = argsForCall /\ served' = served
        /\ \A u \in Threads \ {t} : method'[u] = method[u] /\ index'[u] = index[u]
    BY <1>2 DEF Lock, TypeOK, fakeVars, callVars
  <2> QED
    BY <2>1, <2>2, <2>3, NumberFrame
<1>3. ASSUME NEW t \in Threads, LookUp(t)
      PROVE  NumberInv'
  <2>1. at[t] = "ReturnsOnCall" /\ at'[t] = "ArgsForCall" /\ OthersStay(t)
    BY <1>3, Moves
  <2>2. at'[t] \notin RecordedPoints
    BY <2>1 DEF RecordedPoints
  <2>3. /\ argsForCall' = argsForCall /\ served' = served
        /\ \A u \in Threads \ {t} : method'[u] = method[u] /\ index'[u] = index[u]
        /\ index'[t] = CallCount(method'[t])
    BY <1>3 DEF LookUp, TypeOK, fakeVars, callVars
  <2> QED
    BY <2>1, <2>2, <2>3, NumberFrame
<1>4. ASSUME NEW t \in Threads, AppendArgs(t)
      PROVE  NumberInv'
  <2>1. at[t] = "ArgsForCall" /\ at'[t] = "recordInvocation" /\ OthersStay(t)
    BY <1>4, Moves
  <2>2. PICK mt \in Methods : mt = method[t]
    BY DEF TypeOK
  <2>3. /\ UNCHANGED <<method, index, served>>
        /\ argsForCall' = [argsForCall EXCEPT ![mt] = Append(argsForCall[mt], t)]
    BY <1>4, <2>2 DEF AppendArgs, callVars
  <2>4. /\ CallCount(mt)' = CallCount(mt) + 1 /\ CallCount(mt) \in Nat
        /\ argsForCall'[mt][CallCount(mt) + 1] = t
        /\ \A i \in 1 .. CallCount(mt) : argsForCall'[mt][i] = argsForCall[mt][i]
    BY <2>3, AppendedCall
  <2>5. \A m \in Methods \ {mt} :
          argsForCall'[m] = argsForCall[m] /\ CallCount(m)' = CallCount(m)
    BY <2>3 DEF TypeOK, CallCount
  <2>6. index[t] = CallCount(mt)
    BY <2>1, <2>2 DEF NumberInv
  <2>7. ASSUME NEW u \in Threads, NEW m \in Methods, m = method[u], at'[u] = "ArgsForCall"
        PROVE  index[u] = CallCount(m)'
    <3>1. u # t /\ at[u] = "ArgsForCall"
      BY <2>1, <2>7
    <3>2. m # mt
      BY <2>1, <2>2, <2>7, <3>1, Exclusive DEF HoldPoints
    <3> QED
      BY <2>5, <2>7, <3>1, <3>2 DEF NumberInv
  <2>8. ASSUME NEW u \in Threads, NEW m \in Methods, m = method[u], at'[u] \in RecordedPoints
        PROVE  index[u] < CallCount(m)' /\ argsForCall'[m][index[u] + 1] = u
    <3>1. CASE u = t
      BY <2>2, <2>4, <2>6, <2>8, <3>1
    <3>2. CASE u # t
      <4>1. /\ index[u] \in Nat /\ index[u] < CallCount(m)
            /\ argsForCall[m][index[u] + 1] = u
        <5>1. index[u] \in 0 .. MaxCalls - 1
          BY DEF TypeOK
        <5>2. at[u] \in RecordedPoints
          BY <2>1, <2>8, <3>2
        <5>3. index[u] < CallCount(m) /\ ArgsForCall(m, index[u]) = u
          BY <2>8, <5>2 DEF NumberInv
        <5> QED
          BY <5>1, <5>3, ThreadsAssumption DEF ArgsForCall
      <4>2. CASE m = mt
        <5>1. index[u] + 1 \in 1 .. CallCount(mt)
          BY <2>4, <4>1, <4>2
        <5> QED
          BY <2>4, <4>1, <4>2, <5>1
      <4>3. CASE m # mt
        BY <2>5, <4>1, <4>3
      <4> QED
        BY <4>2, <4>3
    <3> QED
      BY <3>1, <3>2
  <2>9. ASSUME NEW m \in Methods, NEW i \in 0 .. MaxCalls - 1, served[m][i] = 1
        PROVE  /\ i < CallCount(m)'
               /\ \A u \in Threads : at'[u] \in RecordedPoints /\ method[u] = m => index[u] # i
    <3>1. /\ i < CallCount(m) /\ CallCount(m) \in Nat
          /\ \A u \in Threads : at[u] \in RecordedPoints /\ method[u] = m => index[u] # i
      <4>1. CallCount(m) \in Nat
        BY DEF CallCount, TypeOK
      <4> QED
        BY <2>9, <4>1 DEF NumberInv
    <3>2. i < CallCount(m)'
      <4>1. CASE m = mt
        BY <2>4, <3>1, <4>1, ThreadsAssumption
      <4>2. CASE m # mt
        BY <2>5, <3>1, <4>2
      <4> QED
        BY <4>1, <4>2
    <3>3. m = mt => index[t] # i
      BY <2>6, <3>1
    <3> QED
      BY <2>1, <2>2, <3>1, <3>2, <3>3
  <2>10. ASSUME NEW u \in Threads
         PROVE  /\ at'[u] = "ArgsForCall" => index'[u] = Len(argsForCall'[method'[u]])
                /\ at'[u] \in RecordedPoints =>
                     /\ index'[u] < Len(argsForCall'[method'[u]])
                     /\ argsForCall'[method'[u]][index'[u] + 1] = u
    <3>1. method[u] \in Methods /\ method'[u] = method[u] /\ index'[u] = index[u]
      BY <2>3 DEF TypeOK
    <3> QED
      BY <2>7, <2>8, <3>1 DEF CallCount
  <2>11. ASSUME NEW m \in Methods, NEW i \in 0 .. MaxCalls - 1
         PROVE  /\ served'[m][i] <= 1
                /\ served'[m][i] = 1 =>
                     /\ i < Len(argsForCall'[m])
                     /\ \A u \in Threads :
                          at'[u] \in RecordedPoints /\ method'[u] = m => index'[u] # i
    <3>1. served[m][i] <= 1
      BY DEF NumberInv
    <3> QED
      BY <2>3, <2>9, <3>1 DEF CallCount
  <2> QED
    BY <2>10, <2>11 DEF NumberInv, CallCount, ArgsForCall
<1>5. ASSUME NEW t \in Threads, RecordInvocation(t)
      PROVE  NumberInv'
  <2>1. at[t] = "recordInvocation" /\ at'[t] = "Unlock" /\ OthersStay(t)
    BY <1>5, Moves
  <2>2. at[t] \in RecordedPoints /\ at'[t] # "ArgsForCall"
    BY <2>1 DEF RecordedPoints
  <2>3. /\ argsForCall' = argsForCall /\ served' = served
        /\ \A u \in Threads \ {t} : method'[u] = method[u] /\ index'[u] = index[u]
        /\ index'[t] = index[t] /\ method'[t] = method[t]
    BY <1>5 DEF RecordInvocation, TypeOK, fakeVars, callVars
  <2> QED
    BY <2>1, <2>2, <2>3, NumberFrame
<1>6. ASSUME NEW t \in Threads, Unlock(t)
      PROVE  NumberInv'
  <2>1. at[t] = "Unlock" /\ at'[t] = "Stub" /\ OthersStay(t)
    BY <1>6, Moves
  <2>2. at[t] \in RecordedPoints /\ at'[t] # "ArgsForCall"
    BY <2>1 DEF RecordedPoints
  <2>3. /\ argsForCall' = argsForCall /\ served' = served
        /\ \A u \in Threads \ {t} : method'[u] = method[u] /\ index'[u] = index[u]
        /\ index'[t] = index[t] /\ method'[t] = method[t]
    BY <1>6 DEF Unlock, TypeOK, fakeVars, callVars
  <2> QED
    BY <2>1, <2>2, <2>3, NumberFrame
<1>7. ASSUME NEW t \in Threads, Answer(t)
      PROVE  NumberInv'
  <2>1. at[t] = "Stub" /\ at'[t] = "idle" /\ OthersStay(t)
    BY <1>7, Moves
  <2> DEFINE mt == method[t]
  <2>2. /\ argsForCall' = argsForCall /\ mt \in Methods /\ index[t] \in 0 .. MaxCalls - 1
        /\ \A u \in Threads \ {t} : method'[u] = method[u] /\ index'[u] = index[u]
    BY <1>7 DEF Answer, TypeOK, fakeVars
  <2>3. at'[t] \notin RecordedPoints /\ at'[t] # "ArgsForCall" /\ at[t] \in RecordedPoints
    BY <2>1 DEF RecordedPoints
  <2>4. index[t] < CallCount(mt) /\ ArgsForCall(mt, index[t]) = t
    BY <2>3 DEF NumberInv
  <2>5. \A u \in Threads \ {t} :
          at[u] \in RecordedPoints /\ method[u] = mt => index[u] # index[t]
    BY <2>4 DEF NumberInv
  <2>6. CASE served' = served
    BY <2>1, <2>2, <2>3, <2>6, NumberFrame
  <2>7. CASE served' = [served EXCEPT ![mt][index[t]] = @ + 1]
    <3>1. served[mt][index[t]] <= 1 /\ served[mt][index[t]] # 1
      BY <2>2, <2>3 DEF NumberInv
    <3>2. served'[mt][index[t]] = 1
      <4>1. served[mt] \in [0 .. MaxCalls - 1 -> 0 .. MaxCalls] /\ served[mt][index[t]] = 0
        <5>1. served[mt] \in [0 .. MaxCalls - 1 -> 0 .. MaxCalls]
          BY <2>2 DEF TypeOK
        <5>2. served[mt][index[t]] \in 0 .. MaxCalls
          BY <2>2, <5>1
        <5> QED
          BY <3>1, <5>1, <5>2, ThreadsAssumption
      <4>2. served'[mt] = [served[mt] EXCEPT ![index[t]] = served[mt][index[t]] + 1]
        BY <2>2, <2>7 DEF TypeOK
      <4>3. served'[mt][index[t]] = served[mt][index[t]] + 1
        BY <2>2, <4>1, <4>2
      <4> QED
        BY <4>1, <4>3
    <3>3. ASSUME NEW m \in Methods, NEW i \in 0 .. MaxCalls - 1, ~ (m = mt /\ i = index[t])
          PROVE  served'[m][i] = served[m][i]
      BY <2>2, <2>7, <3>3 DEF TypeOK
    <3>4. ASSUME NEW u \in Threads, at'[u] = "ArgsForCall" \/ at'[u] \in RecordedPoints
          PROVE  /\ u # t /\ at[u] = at'[u]
                 /\ method'[u] = method[u] /\ index'[u] = index[u]
      BY <2>1, <2>2, <2>3, <3>4
    <3>5. ASSUME NEW m \in Methods, NEW i \in 0 .. MaxCalls - 1
          PROVE  /\ served'[m][i] <= 1
                 /\ served'[m][i] = 1 =>
                      /\ i < CallCount(m)
                      /\ \A u \in Threads :
                           at'[u] \in RecordedPoints /\ method'[u] = m => index'[u] # i
      <4>1. CASE m = mt /\ i = index[t]
        BY <2>4, <2>5, <3>2, <3>4, <4>1
      <4>2. CASE ~ (m = mt /\ i = index[t])
        BY <3>3, <3>4, <4>2 DEF NumberInv
      <4> QED
        BY <4>1, <4>2
    <3>6. ASSUME NEW u \in Threads
          PROVE  /\ at'[u] = "ArgsForCall" => index'[u] = CallCount(method'[u])
                 /\ at'[u] \in RecordedPoints =>
                      /\ index'[u] < CallCount(method'[u])
                      /\ ArgsForCall(method'[u], index'[u]) = u
      BY <3>4 DEF NumberInv
    <3> QED
      BY <2>2, <3>5, <3>6 DEF NumberInv, CallCount, ArgsForCall
  <2> QED
    BY <1>7, <2>6, <2>7 DEF Answer
<1>8. ASSUME NEW t \in Threads, Invocations(t)
      PROVE  NumberInv'
  <2>1. at[t] = "idle" /\ at'[t] \in InvocationsPoints /\ OthersStay(t)
    BY <1>8, Moves
  <2>2. at'[t] \notin RecordedPoints /\ at'[t] # "ArgsForCall"
    BY <2>1, PointNames DEF RecordedPoints, CallPoints
  <2>3. /\ argsForCall' = argsForCall /\ served' = served
        /\ \A u \in Threads \ {t} : method'[u] = method[u] /\ index'[u] = index[u]
    BY <1>8 DEF Invocations, TypeOK, fakeVars, callVars
  <2> QED
    BY <2>1, <2>2, <2>3, NumberFrame
<1>9. ASSUME NEW t \in Threads, RLockNext(t)
      PROVE  NumberInv'
  <2>1. at[t] \in InvocationsPoints /\ at'[t] \in InvocationsPoints /\ OthersStay(t)
    BY <1>9, Moves
  <2>2. at'[t] \notin RecordedPoints /\ at'[t] # "ArgsForCall"
    BY <2>1, PointNames DEF RecordedPoints, CallPoints
  <2>3. /\ argsForCall' = argsForCall /\ served' = served
        /\ \A u \in Threads \ {t} : method'[u] = method[u] /\ index'[u] = index[u]
    BY <1>9 DEF RLockNext, TypeOK, fakeVars, callVars
  <2> QED
    BY <2>1, <2>2, <2>3, NumberFrame
<1>10. ASSUME NEW t \in Threads, CopyInvocations(t)
      PROVE  NumberInv'
  <2>1. at[t] = "copy" /\ at'[t] = "idle" /\ OthersStay(t)
    BY <1>10, Moves
  <2>2. at'[t] \notin RecordedPoints /\ at'[t] # "ArgsForCall"
    BY <2>1 DEF RecordedPoints
  <2>3. /\ argsForCall' = argsForCall /\ served' = served
        /\ \A u \in Threads \ {t} : method'[u] = method[u] /\ index'[u] = index[u]
    BY <1>10 DEF CopyInvocations, TypeOK, fakeVars, callVars
  <2> QED
    BY <2>1, <2>2, <2>3, NumberFrame
<1>11. ASSUME NEW m \in Methods, Configure(m)
      PROVE  NumberInv'
  <2>1. UNCHANGED <<argsForCall, at, method, index, served>>
    BY <1>11, ConfigureKeeps DEF callVars
  <2> QED
    BY <2>1 DEF NumberInv, CallCount, ArgsForCall
<1>12. CASE UNCHANGED vars
  BY <1>12 DEF NumberInv, CallCount, ArgsForCall, vars, fakeVars, callVars
<1> QED
  BY <1>1, <1>2, <1>3, <1>4, <1>5, <1>6, <1>7, <1>8, <1>9, <1>10, <1>11, <1>12
  DEF Next, Thread

-----------------------------------------------------------------------------
(* The theorems                                                              *)

\* Nothing has been called yet.
LEMMA InitInv == Init => Inv
<1> SUFFICES ASSUME Init PROVE Inv
  OBVIOUS
<1>1. TypeOK
  BY InitType
<1>2. \A t \in Threads : at[t] = "idle"
  BY DEF Init
<1>3. MutexInv
  BY <1>2, MutexNames DEF Init, MutexInv, HoldPoints
<1>4. RecordInv
  BY <1>2 DEF Init, RecordInv, RecordsAgree, HoldPoints
<1>5. CountInv
  <2>1. ASSUME NEW m \in Methods
        PROVE  CallCount(m) + Cardinality(Pending(m)) <= MaxCalls
    <3>1. Pending(m) = {} /\ CallCount(m) = 0
      BY <1>2 DEF Init, Pending, PendingPoints, CallCount
    <3> QED
      BY <3>1, FS_EmptySet, ThreadsAssumption
  <2> QED
    BY <2>1 DEF CountInv
<1>6. NumberInv
  <2>1. \A m \in Methods, i \in 0 .. MaxCalls - 1 : served[m][i] = 0
    BY DEF Init
  <2> QED
    BY <1>2, <2>1 DEF NumberInv, RecordedPoints
<1> QED
  BY <1>1, <1>3, <1>4, <1>5, <1>6 DEF Inv

\* Inv is inductive.
LEMMA InvStep == Inv /\ [Next]_vars => Inv'
BY TypeStep, MutexStep, RecordStep, CountStep, NumberStep DEF Inv

\* Inv holds throughout every behaviour of the fake.
THEOREM Invariance == Spec => []Inv
BY InitInv, InvStep, PTL DEF Spec

\* The fake keeps its types: no call is numbered past the bound and no
\* return is given more often than there are calls.
THEOREM TypeCorrect == Spec => []TypeOK
<1>1. Inv => TypeOK
  BY DEF Inv
<1> QED
  BY <1>1, Invariance, PTL

\* However many goroutines call a method, a reader of its records finds its
\* two lists equal: appending to both under the method's mutex is enough.
THEOREM RecordsAlwaysAgree == Spec => []RecordsAgree
<1>1. Inv => RecordsAgree
  BY DEF Inv, RecordInv
<1> QED
  BY <1>1, Invariance, PTL

\* However calls overlap, each has a number of its own, the number is its
\* place in the record, and a return set for a number is given at most once.
THEOREM NumbersAreOwn == Spec => []OwnNumber
<1>1. Inv => OwnNumber
  <2> SUFFICES ASSUME TypeOK, MutexInv, NumberInv PROVE OwnNumber
    BY DEF Inv
  <2>1. ASSUME NEW t \in Threads, NEW u \in Threads \ {t}, method[t] = method[u],
               at[t] = "ArgsForCall" \/ at[t] \in RecordedPoints,
               at[u] = "ArgsForCall" \/ at[u] \in RecordedPoints
        PROVE  index[t] # index[u]
    <3>1. /\ index[t] \in Int /\ index[u] \in Int
          /\ method[t] \in Methods /\ CallCount(method[t]) \in Int
      <4>1. index[t] \in 0 .. MaxCalls - 1 /\ index[u] \in 0 .. MaxCalls - 1
        BY DEF TypeOK
      <4>2. method[t] \in Methods /\ CallCount(method[t]) \in Int
        BY DEF TypeOK, CallCount
      <4> QED
        BY <4>1, <4>2, ThreadsAssumption
    <3>2. CASE at[t] = "ArgsForCall" /\ at[u] = "ArgsForCall"
      BY <2>1, <3>2, Exclusive DEF HoldPoints
    <3>3. CASE at[t] = "ArgsForCall" /\ at[u] \in RecordedPoints
      BY <2>1, <3>1, <3>3 DEF NumberInv
    <3>4. CASE at[t] \in RecordedPoints /\ at[u] = "ArgsForCall"
      BY <2>1, <3>1, <3>4 DEF NumberInv
    <3>5. CASE at[t] \in RecordedPoints /\ at[u] \in RecordedPoints
      BY <2>1, <3>5 DEF NumberInv
    <3> QED
      BY <2>1, <3>2, <3>3, <3>4, <3>5
  <2>2. ASSUME NEW t \in Threads, at[t] \in {"recordInvocation", "Unlock", "Stub"}
        PROVE  index[t] < CallCount(method[t]) /\ ArgsForCall(method[t], index[t]) = t
    BY <2>2 DEF NumberInv, RecordedPoints
  <2>3. \A m \in Methods, i \in 0 .. MaxCalls - 1 : served[m][i] <= 1
    BY DEF NumberInv
  <2>4. ASSUME NEW t \in Threads, NEW u \in Threads \ {t}, method[t] = method[u],
               {at[t], at[u]} \subseteq {"ArgsForCall", "recordInvocation", "Unlock", "Stub"}
        PROVE  index[t] # index[u]
    BY <2>1, <2>4 DEF RecordedPoints
  <2> QED
    BY <2>2, <2>3, <2>4 DEF OwnNumber
<1> QED
  BY <1>1, Invariance, PTL

\* Calls alone never wait for each other for ever, for any number of
\* goroutines: the two orders of taking the mutexes meet only when somebody
\* is in Invocations.
THEOREM NoCircleOfCalls == Spec => []StuckOnlyByInvocations
<1>1. Inv => StuckOnlyByInvocations
  <2> SUFFICES ASSUME TypeOK, MutexInv, NEW t \in Threads, Blocked(t),
                      \A u \in Threads : at[u] = "idle" \/ Blocked(u),
                      \A u \in Threads : at[u] \notin InvocationsPoints
               PROVE  FALSE
    BY DEF Inv, StuckOnlyByInvocations
  <2>1. \A x \in Mutexes : readers[x] = {}
    BY DEF MutexInv, TypeOK
  <2>2. ASSUME NEW u \in Threads, Blocked(u)
        PROVE  at[u] = "Lock" /\ writer[method[u]] # None
    <3>1. Lockable("invocations")
      BY <2>1, MutexNames DEF Lockable, MutexInv
    <3>2. \A x \in Mutexes : at[u] # RLockPoint[x]
      BY PointNames
    <3>3. at[u] = "Lock" /\ ~ Lockable(method[u])
      BY <2>2, <3>1, <3>2 DEF Blocked
    <3> QED
      BY <2>1, <3>3, MutexNames DEF Lockable, TypeOK
  <2>3. PICK w \in Threads : w = writer[method[t]] /\ at[w] \in HoldPoints
    BY <2>2, MutexNames DEF MutexInv, TypeOK
  <2>4. at[w] # "idle" /\ at[w] # "Lock"
    BY <2>3 DEF HoldPoints
  <2> QED
    BY <2>2, <2>3, <2>4
<1> QED
  BY <1>1, Invariance, PTL

=============================================================================
