--------------------------- MODULE CachePurgeProofs ---------------------------
(***************************************************************************)
(* Theorems about CachePurge, for every set of keys and changes and every  *)
(* number of faults.                                                       *)
(***************************************************************************)
EXTENDS CachePurge, FiniteSetTheorems, TLAPS

\* The deferred tasks that may still come off the count.
Open == {c \in Changes : task[c] \in {"looking", "waiting"}}

\* The count covers them: decrementCount never takes it below zero, although a
\* rejected task stays on it and a restart forgets it.
CountInv == IsFiniteSet(Open) /\ Cardinality(Open) <= deferredCount

DebouncerTypes ==
    /\ promise \in [Changes -> [Keys -> {"none", "pending", "resolved"}]]
    /\ purge \in [Changes -> [Keys -> {"none", "armed", "throttled", "sending", "landed"}]]
    /\ purgeRequests \in [Keys -> Changes \cup {None}]
    /\ throttled \in BOOLEAN

TaskTypes ==
    /\ task \in [Changes -> {"none", "looking", "waiting", "done", "rejected", "lost"}]
    /\ deferredCount \in Nat
    /\ waiter \in {"none", "waiting", "released"}
    /\ faults \in 0..MaxFaults

PageTypes ==
    /\ unpurged \in [Keys -> SUBSET Changes]
    /\ missed \in [Keys -> SUBSET Changes]

PurgeInv == DebouncerTypes /\ TaskTypes /\ PageTypes /\ CountInv /\ PendingIsKept
----------------------------------------------------------------------------
(* The debouncer, whoever calls it. *)

LEMMA SchedulePurgeKeeps ==
  ASSUME DebouncerTypes, PendingIsKept, NEW c \in Changes, NEW ks \in SUBSET Keys,
         SchedulePurge(c, ks)
  PROVE  DebouncerTypes' /\ PendingIsKept'
<1>1. promise' \in [Changes -> [Keys -> {"none", "pending", "resolved"}]]
  BY DEF SchedulePurge, DebouncerTypes
<1>2. purge' \in [Changes -> [Keys -> {"none", "armed", "throttled", "sending", "landed"}]]
  BY DEF SchedulePurge, DebouncerTypes
<1>3. purgeRequests' \in [Keys -> Changes \cup {None}] /\ throttled' \in BOOLEAN
  BY DEF SchedulePurge, DebouncerTypes
<1>4. ASSUME NEW b \in Changes, NEW k \in Keys, promise'[b][k] = "pending"
      PROVE  purgeRequests'[k] = b
  <2>1. (b = c /\ k \in ks) \/ (~Superseded(b, k, ks) /\ promise[b][k] = "pending")
    BY <1>4 DEF SchedulePurge
  <2>2. CASE b = c /\ k \in ks
    BY <2>2 DEF SchedulePurge
  <2>3. CASE ~Superseded(b, k, ks) /\ promise[b][k] = "pending"
    <3>1. purgeRequests[k] = b
      BY <2>3 DEF PendingIsKept
    <3>2. k \notin ks
      BY <2>3, <3>1 DEF Superseded
    <3> QED
      BY <3>1, <3>2 DEF SchedulePurge
  <2> QED
    BY <2>1, <2>2, <2>3
<1> QED
  BY <1>1, <1>2, <1>3, <1>4 DEF DebouncerTypes, PendingIsKept

LEMMA DebouncerStays ==
  ASSUME DebouncerTypes, PendingIsKept, UNCHANGED debouncer
  PROVE  DebouncerTypes' /\ PendingIsKept'
BY DEF DebouncerTypes, PendingIsKept, debouncer

LEMMA PurgeMoves ==
  ASSUME DebouncerTypes, PendingIsKept, UNCHANGED <<promise, purgeRequests>>,
         throttled' \in BOOLEAN, NEW c \in Changes, NEW k \in Keys,
         NEW stage \in {"none", "armed", "throttled", "sending", "landed"},
         purge' = [purge EXCEPT ![c][k] = stage]
  PROVE  DebouncerTypes' /\ PendingIsKept'
BY DEF DebouncerTypes, PendingIsKept

\* resolvePromiseForKey resolves the very call that is kept for the key.
LEMMA AnsweredKeeps ==
  ASSUME DebouncerTypes, PendingIsKept, NEW c \in Changes, NEW k \in Keys, PurgeAnswered(c, k)
  PROVE  DebouncerTypes' /\ PendingIsKept'
<1>1. purge' \in [Changes -> [Keys -> {"none", "armed", "throttled", "sending", "landed"}]]
  BY DEF PurgeAnswered, DebouncerTypes
<1>2. /\ purgeRequests' = [purgeRequests EXCEPT ![k] = None]
      /\ purgeRequests' \in [Keys -> Changes \cup {None}] /\ throttled' \in BOOLEAN
  BY DEF PurgeAnswered, DebouncerTypes
<1>3. CASE purgeRequests[k] = None
  <2>1. promise' = promise
    BY <1>3 DEF PurgeAnswered
  <2> QED
    BY <1>1, <1>2, <1>3, <2>1 DEF DebouncerTypes, PendingIsKept
<1>4. CASE purgeRequests[k] # None
  <2>1. PICK b \in Changes : purgeRequests[k] = b
    BY <1>4 DEF DebouncerTypes
  <2>2. promise' = [promise EXCEPT ![b][k] = "resolved"]
    BY <1>4, <2>1 DEF PurgeAnswered, ResolvePromiseForKey
  <2>3. promise' \in [Changes -> [Keys -> {"none", "pending", "resolved"}]]
    BY <2>2 DEF DebouncerTypes
  <2>4. ASSUME NEW a \in Changes, NEW j \in Keys, promise'[a][j] = "pending"
        PROVE  purgeRequests'[j] = a
    <3>1. ~(a = b /\ j = k) /\ promise[a][j] = "pending"
      BY <2>2, <2>4 DEF DebouncerTypes
    <3>2. purgeRequests[j] = a
      BY <3>1 DEF PendingIsKept
    <3>3. j # k
      BY <3>1, <3>2, <2>1
    <3> QED
      BY <3>2, <3>3, <1>2 DEF DebouncerTypes
  <2> QED
    BY <1>1, <1>2, <2>3, <2>4 DEF DebouncerTypes, PendingIsKept
<1> QED
  BY <1>3, <1>4
----------------------------------------------------------------------------
(* The count of deferred tasks. *)

LEMMA TaskOpens ==
  ASSUME TaskTypes, CountInv, NEW c \in Changes, Defer(c),
         NEW stage \in {"looking", "waiting"}, task' = [task EXCEPT ![c] = stage]
  PROVE  CountInv' /\ deferredCount' \in Nat
<1>1. Open' = Open \cup {c}
  BY DEF Open, TaskTypes
<1>2. IsFiniteSet(Open') /\ Cardinality(Open') <= Cardinality(Open) + 1
  BY <1>1, FS_AddElement, FS_CardinalityType DEF CountInv
<1> QED
  BY <1>2, FS_CardinalityType DEF CountInv, Defer, TaskTypes

LEMMA TaskStaysOrCloses ==
  ASSUME CountInv, UNCHANGED deferredCount, Open' \subseteq Open, TaskTypes
  PROVE  CountInv'
BY FS_Subset, FS_CardinalityType DEF CountInv, TaskTypes

LEMMA TaskComesOff ==
  ASSUME TaskTypes, CountInv, NEW c \in Changes, DecrementCount(c)
  PROVE  CountInv' /\ deferredCount' \in Nat
<1>1. c \in Open /\ Open' = Open \ {c}
  BY DEF Open, TaskTypes, DecrementCount, AllResolved
<1>2. /\ IsFiniteSet(Open') /\ Cardinality(Open') = Cardinality(Open) - 1
      /\ Cardinality(Open) \in Nat /\ Cardinality(Open') \in Nat
  BY <1>1, FS_RemoveElement, FS_CardinalityType DEF CountInv
<1> QED
  BY <1>2 DEF CountInv, DecrementCount, TaskTypes

LEMMA TasksRestart ==
  ASSUME Restart
  PROVE  CountInv' /\ deferredCount' \in Nat
<1>1. Open' = {}
  BY DEF Open, Restart
<1> QED
  BY <1>1, FS_EmptySet DEF CountInv, Restart
----------------------------------------------------------------------------
LEMMA PurgeInitial == Init => PurgeInv
<1> SUFFICES ASSUME Init PROVE PurgeInv
  OBVIOUS
<1>1. Open = {}
  BY DEF Init, Open
<1>2. CountInv
  BY <1>1, FS_EmptySet DEF CountInv, Init
<1>3. DebouncerTypes
  BY DEF Init, DebouncerTypes
<1>4. TaskTypes /\ PageTypes
  BY MaxFaultsAssumption DEF Init, TaskTypes, PageTypes
<1>5. PendingIsKept
  BY DEF Init, PendingIsKept
<1> QED
  BY <1>2, <1>3, <1>4, <1>5 DEF PurgeInv

LEMMA PurgePreserved == PurgeInv /\ [Next]_vars => PurgeInv'
<1> SUFFICES ASSUME PurgeInv, [Next]_vars PROVE PurgeInv'
  OBVIOUS
<1> USE DEF PurgeInv
<1>1. ASSUME NEW c \in Changes, RequestFinished(c) PROVE PurgeInv'
  <2>1. KeysOf[c] \in SUBSET Keys
    BY KeysOfAssumption
  <2>2. DebouncerTypes' /\ PendingIsKept'
    BY <1>1, <2>1, SchedulePurgeKeeps DEF RequestFinished
  <2>3. CountInv' /\ deferredCount' \in Nat
    BY <1>1, TaskOpens DEF RequestFinished
  <2>4. TaskTypes' /\ PageTypes'
    BY <1>1, <2>3 DEF RequestFinished, Defer, TaskTypes, PageTypes
  <2> QED
    BY <2>2, <2>3, <2>4
<1>2. ASSUME NEW c \in Changes, ModelChanged(c) PROVE PurgeInv'
  <2>1. DebouncerTypes' /\ PendingIsKept'
    BY <1>2, DebouncerStays DEF ModelChanged
  <2>2. CountInv' /\ deferredCount' \in Nat
    BY <1>2, TaskOpens DEF ModelChanged
  <2>3. TaskTypes' /\ PageTypes'
    BY <1>2, <2>2 DEF ModelChanged, Defer, TaskTypes, PageTypes
  <2> QED
    BY <2>1, <2>2, <2>3
<1>3. ASSUME NEW c \in Changes, KeysFound(c) PROVE PurgeInv'
  <2>1. KeysOf[c] \in SUBSET Keys
    BY KeysOfAssumption
  <2>2. DebouncerTypes' /\ PendingIsKept'
    BY <1>3, <2>1, SchedulePurgeKeeps DEF KeysFound
  <2>3. Open' \subseteq Open
    BY <1>3 DEF KeysFound, Open, TaskTypes
  <2>4. CountInv'
    BY <1>3, <2>3, TaskStaysOrCloses DEF KeysFound
  <2> QED
    BY <1>3, <2>2, <2>4 DEF KeysFound, TaskTypes, PageTypes, pages
<1>4. ASSUME NEW c \in Changes, LookupFails(c) PROVE PurgeInv'
  <2>1. Open' \subseteq Open
    BY <1>4 DEF LookupFails, Open, TaskTypes
  <2>2. CountInv'
    BY <1>4, <2>1, TaskStaysOrCloses DEF LookupFails
  <2>3. TaskTypes' /\ PageTypes'
    BY <1>4, MaxFaultsAssumption DEF LookupFails, Fault, TaskTypes, PageTypes
  <2> QED
    BY <1>4, <2>2, <2>3, DebouncerStays DEF LookupFails
<1>5. ASSUME NEW c \in Changes, DecrementCount(c) PROVE PurgeInv'
  <2>1. CountInv' /\ deferredCount' \in Nat
    BY <1>5, TaskComesOff
  <2>2. TaskTypes' /\ PageTypes'
    BY <1>5, <2>1 DEF DecrementCount, TaskTypes, PageTypes, pages
  <2> QED
    BY <1>5, <2>1, <2>2, DebouncerStays DEF DecrementCount
<1>6. ASSUME NEW c \in Changes, NEW k \in Keys, ExecutePurge(c, k) PROVE PurgeInv'
  <2>1. PICK stage \in {"throttled", "sending"} :
          purge' = [purge EXCEPT ![c][k] = stage]
    BY <1>6 DEF ExecutePurge
  <2>2. DebouncerTypes' /\ PendingIsKept'
    BY <1>6, <2>1, PurgeMoves DEF ExecutePurge
  <2>3. CountInv'
    BY <1>6, TaskStaysOrCloses DEF ExecutePurge, Open
  <2> QED
    BY <1>6, <2>2, <2>3 DEF ExecutePurge, TaskTypes, PageTypes, pages
<1>7. ASSUME NEW c \in Changes, NEW k \in Keys, PurgeLands(c, k) PROVE PurgeInv'
  <2>1. DebouncerTypes' /\ PendingIsKept'
    BY <1>7, PurgeMoves DEF PurgeLands, DebouncerTypes
  <2>2. CountInv'
    BY <1>7, TaskStaysOrCloses DEF PurgeLands, Open
  <2> QED
    BY <1>7, <2>1, <2>2 DEF PurgeLands, TaskTypes, PageTypes
<1>8. ASSUME NEW c \in Changes, NEW k \in Keys, PurgeAnswered(c, k) PROVE PurgeInv'
  <2>1. CountInv'
    BY <1>8, TaskStaysOrCloses DEF PurgeAnswered, Open
  <2> QED
    BY <1>8, <2>1, AnsweredKeeps DEF PurgeAnswered, TaskTypes, PageTypes, pages
<1>9. ASSUME NEW c \in Changes, NEW k \in Keys, PurgeFails(c, k) PROVE PurgeInv'
  <2>1. DebouncerTypes' /\ PendingIsKept'
    BY <1>9, PurgeMoves DEF PurgeFails, DebouncerTypes
  <2>2. CountInv'
    BY <1>9, TaskStaysOrCloses DEF PurgeFails, Open
  <2>3. TaskTypes' /\ PageTypes'
    BY <1>9, MaxFaultsAssumption DEF PurgeFails, Fault, TaskTypes, PageTypes
  <2> QED
    BY <2>1, <2>2, <2>3
<1>10. CASE ThrottleTimePasses
  <2>1. CountInv'
    BY <1>10, TaskStaysOrCloses DEF ThrottleTimePasses, Open
  <2> QED
    BY <1>10, <2>1
    DEF ThrottleTimePasses, DebouncerTypes, TaskTypes, PageTypes, PendingIsKept, pages
<1>11. CASE FinishDeferredTasks
  <2>1. CountInv'
    BY <1>11, TaskStaysOrCloses DEF FinishDeferredTasks, Open
  <2> QED
    BY <1>11, <2>1, DebouncerStays DEF FinishDeferredTasks, TaskTypes, PageTypes, pages
<1>12. CASE Restart
  <2>1. DebouncerTypes' /\ PendingIsKept'
    BY <1>12 DEF Restart, DebouncerTypes, PendingIsKept
  <2>2. TaskTypes' /\ PageTypes'
    BY <1>12, MaxFaultsAssumption DEF Restart, Fault, TaskTypes, PageTypes
  <2> QED
    BY <1>12, <2>1, <2>2, TasksRestart
<1>13. CASE UNCHANGED vars
  <2>1. CountInv'
    BY <1>13, TaskStaysOrCloses DEF vars, Open
  <2> QED
    BY <1>13, <2>1, DebouncerStays DEF vars, TaskTypes, PageTypes, pages
<1> QED
  BY <1>1, <1>2, <1>3, <1>4, <1>5, <1>6, <1>7, <1>8, <1>9, <1>10, <1>11, <1>12, <1>13 DEF Next

THEOREM PurgeInvariant == Spec => []PurgeInv
BY PurgeInitial, PurgePreserved, PTL DEF Spec

\* Every variable keeps its type; the count of deferred tasks never falls below zero,
\* whatever is rejected, resolved late or forgotten by a restart.
THEOREM PurgeTypeCorrect == Spec => []TypeOK
<1>1. PurgeInv => TypeOK
  BY DEF PurgeInv, DebouncerTypes, TaskTypes, PageTypes, TypeOK
<1> QED
  BY <1>1, PurgeInvariant, PTL

\* No call of schedulePurge is forgotten: one that is not resolved is the one the
\* debouncer keeps for its key.
THEOREM PendingCallsAreKept == Spec => []PendingIsKept
<1>1. PurgeInv => PendingIsKept
  BY DEF PurgeInv
<1> QED
  BY <1>1, PurgeInvariant, PTL
============================================================================
