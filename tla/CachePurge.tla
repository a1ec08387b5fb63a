------------------------------ MODULE CachePurge ------------------------------
(***************************************************************************)
(* Pages are cached in front of a web server under a surrogate key (the    *)
(* host name of a community, or a cookie of a user) and have to be purged  *)
(* after every change.  A change defers a task (server/utils/deferred.ts)  *)
(* that schedules a purge with a debouncer (utils/caching); the debouncer  *)
(* keeps one request per key and spaces the purges of all keys.            *)
(*                                                                         *)
(* All of it lives in one process: callbacks run to their end, timers fire *)
(* in between, and a purge is an HTTP request in flight.                   *)
(***************************************************************************)
EXTENDS Naturals, FiniteSets

CONSTANTS
    Keys,      \* surrogate keys
    Changes,   \* changes that the process makes; each defers one task
    KeysOf,    \* the keys of the pages that a change shows on
    MaxFaults, \* bound: failed lookups and purges, restarts of the process
    None       \* no request

ASSUME KeysOfAssumption == KeysOf \in [Changes -> SUBSET Keys]
ASSUME MaxFaultsAssumption == MaxFaults \in Nat

VARIABLES
    task,     \* the deferred task of a change
    promise,  \* of the schedulePurge call of a change for a key
    purge,    \* the timer of that call, and the purge it starts
    purgeRequests, \* the call whose timer and resolver the debouncer keeps for a key
    throttled,     \* less than throttleTime has passed since lastExecutionTime
    deferredCount,
    waiter,   \* a call of finishDeferredTasks
    unpurged, \* changes of a key that no purge has come after
    missed,   \* those a failure has left so
    faults    \* failures so far

debouncer == <<promise, purge, purgeRequests, throttled>>
pages == <<unpurged, missed>>
vars == <<task, debouncer, deferredCount, waiter, pages, faults>>

Fault == faults < MaxFaults /\ faults' = faults + 1

Init ==
    /\ task = [c \in Changes |-> "none"]
    /\ promise = [c \in Changes |-> [k \in Keys |-> "none"]]
    /\ purge = [c \in Changes |-> [k \in Keys |-> "none"]]
    /\ purgeRequests = [k \in Keys |-> None]
    /\ throttled = FALSE
    /\ deferredCount = 0
    /\ waiter = "none"
    /\ unpurged = [k \in Keys |-> {}]
    /\ missed = [k \in Keys |-> {}]
    /\ faults = 0

----------------------------------------------------------------------------
(* createCachePurgeDebouncer. *)

\* A slip: a key with a request is left to it, though its purge may be on the way.
ScheduleUnlessKnown(c, ks) ==
    LET new == {k \in ks : purgeRequests[k] = None} IN
    /\ promise' = [promise EXCEPT ![c] = [k \in Keys |->
           IF k \in new THEN "pending" ELSE IF k \in ks THEN "resolved" ELSE @[k]]]
    /\ purge' = [purge EXCEPT ![c] = [k \in Keys |-> IF k \in new THEN "armed" ELSE @[k]]]
    /\ purgeRequests' = [k \in Keys |-> IF k \in new THEN c ELSE purgeRequests[k]]
    /\ UNCHANGED throttled

\* schedulePurge for each key of ks: the call kept for the key is resolved, and
\* its timer cleared if it has not fired; the new one is kept instead.
Superseded(c, k, ks) == k \in ks /\ purgeRequests[k] = c
SchedulePurge(c, ks) ==
    /\ promise' = [b \in Changes |-> [k \in Keys |->
           IF b = c /\ k \in ks THEN "pending"
           ELSE IF Superseded(b, k, ks) THEN "resolved" ELSE promise[b][k]]]
    /\ purge' = [b \in Changes |-> [k \in Keys |->
           IF b = c /\ k \in ks THEN "armed"
           ELSE IF Superseded(b, k, ks) /\ purge[b][k] = "armed" THEN "none"
           ELSE purge[b][k]]]
    /\ purgeRequests' = [k \in Keys |-> IF k \in ks THEN c ELSE purgeRequests[k]]
    /\ UNCHANGED throttled

\* executePurge, by the timer of schedulePurge or by its own.
ExecutePurge(c, k) ==
    /\ purge[c][k] \in {"armed", "throttled"}
    /\ purge' = [purge EXCEPT ![c][k] = IF throttled THEN "throttled" ELSE "sending"]
    /\ throttled' = TRUE
    /\ UNCHANGED <<task, promise, purgeRequests, deferredCount, waiter, pages, faults>>

ThrottleTimePasses ==
    /\ throttled /\ throttled' = FALSE
    /\ UNCHANGED <<task, promise, purge, purgeRequests, deferredCount, waiter, pages,
                   faults>>

\* resolvePromiseForKey: whichever call is kept for the key by now is resolved.
ResolveOnly(k, b) == [promise EXCEPT ![b][k] = "pending"]
ResolvePromiseForKey(k, b) == [promise EXCEPT ![b][k] = "resolved"]

\* The cache drops the pages of the key, and then says so.
PurgeLands(c, k) ==
    /\ purge[c][k] = "sending"
    /\ purge' = [purge EXCEPT ![c][k] = "landed"]
    /\ unpurged' = [unpurged EXCEPT ![k] = {}]
    /\ UNCHANGED <<task, promise, purgeRequests, throttled, deferredCount, waiter, missed,
                   faults>>

PurgeAnswered(c, k) ==
    /\ purge[c][k] = "landed"
    /\ purge' = [purge EXCEPT ![c][k] = "none"]
    /\ IF purgeRequests[k] # None
       THEN promise' = ResolvePromiseForKey(k, purgeRequests[k])
       ELSE UNCHANGED promise
    /\ purgeRequests' = [purgeRequests EXCEPT ![k] = None]
    /\ UNCHANGED <<task, throttled, deferredCount, waiter, pages, faults>>

\* errorHandler: the call stays as it is, and the purge is not tried again.
PurgeFails(c, k) ==
    /\ purge[c][k] \in {"sending", "landed"} /\ Fault
    /\ purge' = [purge EXCEPT ![c][k] = "none"]
    /\ missed' = [missed EXCEPT ![k] = @ \cup unpurged[k]]
    /\ UNCHANGED <<task, promise, purgeRequests, throttled, deferredCount, waiter,
                   unpurged>>

----------------------------------------------------------------------------
(* createDeferredState, and the tasks that are deferred. *)

Defer(c) ==
    /\ task[c] = "none"
    /\ deferredCount' = deferredCount + 1
    /\ unpurged' = [k \in Keys |-> IF k \in KeysOf[c] THEN unpurged[k] \cup {c} ELSE unpurged[k]]

\* purgeMiddleware: a request that changes something has been answered.
RequestFinished(c) ==
    /\ Cardinality(KeysOf[c]) = 1
    /\ Defer(c)
    /\ task' = [task EXCEPT ![c] = "waiting"]
    /\ SchedulePurge(c, KeysOf[c])
    /\ UNCHANGED <<waiter, missed, faults>>

\* createPurgeHooks: a model has changed; the hook looks up the keys of its pages.
ModelChanged(c) ==
    /\ Defer(c)
    /\ task' = [task EXCEPT ![c] = "looking"]
    /\ UNCHANGED <<debouncer, waiter, missed, faults>>

KeysFound(c) ==
    /\ task[c] = "looking"
    /\ task' = [task EXCEPT ![c] = "waiting"]
    /\ SchedulePurge(c, KeysOf[c])
    /\ UNCHANGED <<deferredCount, waiter, pages, faults>>

\* The task rejects: it is logged, and never taken off the count.
LookupFails(c) ==
    /\ task[c] = "looking" /\ Fault
    /\ task' = [task EXCEPT ![c] = "rejected"]
    /\ missed' = [k \in Keys |-> IF k \in KeysOf[c] THEN missed[k] \cup unpurged[k] ELSE missed[k]]
    /\ UNCHANGED <<debouncer, deferredCount, waiter, unpurged>>

\* The task resolves once all its schedulePurge calls have.
AllResolved(c) == task[c] = "waiting" /\ \A k \in KeysOf[c] : promise[c][k] = "resolved"

\* decrementCount.
DecrementCount(c) ==
    /\ AllResolved(c)
    /\ task' = [task EXCEPT ![c] = "done"]
    /\ deferredCount' = deferredCount - 1
    /\ waiter' = IF deferredCount' = 0 /\ waiter = "waiting" THEN "released" ELSE waiter
    /\ UNCHANGED <<debouncer, pages, faults>>

FinishDeferredTasks ==
    /\ waiter = "none"
    /\ waiter' = IF deferredCount = 0 THEN "released" ELSE "waiting"
    /\ UNCHANGED <<task, debouncer, deferredCount, pages, faults>>

\* The process is replaced: timers and requests are gone with it.
Restart ==
    /\ Fault
    /\ task' = [c \in Changes |-> IF task[c] \in {"looking", "waiting"} THEN "lost" ELSE task[c]]
    /\ promise' = [c \in Changes |-> [k \in Keys |-> "none"]]
    /\ purge' = [c \in Changes |-> [k \in Keys |-> "none"]]
    /\ purgeRequests' = [k \in Keys |-> None]
    /\ throttled' = FALSE
    /\ deferredCount' = 0
    /\ waiter' = "none"
    /\ missed' = [k \in Keys |-> missed[k] \cup unpurged[k]]
    /\ UNCHANGED unpurged

----------------------------------------------------------------------------
Next ==
    \/ \E c \in Changes :
         \/ RequestFinished(c) \/ ModelChanged(c)
         \/ KeysFound(c) \/ LookupFails(c) \/ DecrementCount(c)
    \/ \E c \in Changes, k \in Keys :
         ExecutePurge(c, k) \/ PurgeLands(c, k) \/ PurgeAnswered(c, k) \/ PurgeFails(c, k)
    \/ ThrottleTimePasses \/ FinishDeferredTasks \/ Restart

\* Timers fire, and queries and requests come back.  Nothing obliges a change.
Fairness ==
    /\ WF_vars(ThrottleTimePasses)
    /\ \A c \in Changes : WF_vars(KeysFound(c)) /\ WF_vars(DecrementCount(c))
    /\ \A c \in Changes, k \in Keys :
         WF_vars(ExecutePurge(c, k)) /\ WF_vars(PurgeLands(c, k)) /\ WF_vars(PurgeAnswered(c, k))

Spec == Init /\ [][Next]_vars /\ Fairness
----------------------------------------------------------------------------
(* Properties. *)

TypeOK ==
    /\ task \in [Changes -> {"none", "looking", "waiting", "done", "rejected", "lost"}]
    /\ promise \in [Changes -> [Keys -> {"none", "pending", "resolved"}]]
    /\ purge \in [Changes -> [Keys -> {"none", "armed", "throttled", "sending", "landed"}]]
    /\ purgeRequests \in [Keys -> Changes \cup {None}]
    /\ throttled \in BOOLEAN
    /\ deferredCount \in Nat
    /\ waiter \in {"none", "waiting", "released"}
    /\ unpurged \in [Keys -> SUBSET Changes] /\ missed \in [Keys -> SUBSET Changes]
    /\ faults \in 0..MaxFaults

\* A call that is not resolved is the one kept for its key: however calls, timers
\* and answers interleave, none is left that nothing can resolve any more.
PendingIsKept ==
    \A c \in Changes, k \in Keys : promise[c][k] = "pending" => purgeRequests[k] = c

\* A purge comes after every change, also after one made while an earlier purge
\* of its key was on the way: only a failure leaves an old page in the cache.
ChangesPurged ==
    \A c \in Changes : \A k \in KeysOf[c] :
        c \in unpurged[k] ~> c \notin unpurged[k] \/ c \in missed[k]

\* Deferred tasks come to an end, so that finishDeferredTasks returns, unless
\* something fails.
DeferredTasksEnd == waiter = "waiting" ~> waiter # "waiting" \/ faults > 0
============================================================================
