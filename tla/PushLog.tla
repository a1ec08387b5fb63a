------------------------------- MODULE PushLog -------------------------------
(***************************************************************************)
(* The history of a community's pushes to Underlay                         *)
(* (server/underlayPushLog/queries.ts).  Rows of the log are begun and     *)
(* adopted by the web server that enqueues a push and by the worker thread *)
(* that runs it, finished by the thread, and failed by the worker's main   *)
(* thread if the push does not report.  No transaction joins the queries:  *)
(* every query is a step.                                                  *)
(*                                                                         *)
(* The queue is that of WorkerQueue, with one worker process and with the  *)
(* attempt counted on delivery.  A query that a dying thread has sent has  *)
(* been answered before it dies or is lost.                                *)
(***************************************************************************)
EXTENDS Naturals, Sequences, FiniteSets, FiniteSetsExt

CONSTANTS
    Tasks,       \* pushToUnderlay tasks of one community
    MaxAttempts, \* maxAttemptCount
    MaxRows,     \* bound: rows of the log
    MaxFaults    \* bound: failed queries and publishes, deaths of threads and processes

ASSUME BoundsAssumption ==
    MaxAttempts \in Nat \ {0} /\ MaxRows \in Nat /\ MaxFaults \in Nat

VARIABLES
    log,     \* the rows, by startedAt
    push,    \* where the web server and the worker thread are with a task
    main,    \* where the worker's main thread is with a task
    message, \* of a task
    ended,   \* tasks that are no longer isProcessing
    attempts,
    stranded,\* rows that have lost whoever would finish them
    faults   \* failures so far

vars == <<log, push, main, message, ended, attempts, stranded, faults>>

Actors == {"handler", "thread"}
At(a, t, stage) == push[a][t].stage = stage
Go(a, t, stage) == push' = [push EXCEPT ![a][t].stage = stage]
GoRow(a, t, stage, i) == push' = [push EXCEPT ![a][t].stage = stage, ![a][t].row = i]
MainAt(t, stage) == main[t].stage = stage
Main(t, stage) == main' = [main EXCEPT ![t].stage = stage]
Fault == faults < MaxFaults /\ faults' = faults + 1

Running(i) == log[i].status = "running"
FreshRunning == {i \in DOMAIN log : Running(i) /\ log[i].fresh}
\* findRunningRow; 0 if there is none.
FindRunningRow == IF FreshRunning = {} THEN 0 ELSE Max(FreshRunning)

Idle == [stage |-> "none", row |-> 0, status |-> "none"]

Init ==
    /\ log = <<>>
    /\ push = [a \in Actors |-> [t \in Tasks |-> Idle]]
    /\ main = [t \in Tasks |-> [stage |-> "idle", row |-> 0]]
    /\ message = [t \in Tasks |-> "none"]
    /\ ended = {}
    /\ attempts = [t \in Tasks |-> 0]
    /\ stranded = {}
    /\ faults = 0

----------------------------------------------------------------------------
(* beginPushLog, by the handler of a push and by its thread. *)

Begun(a, t, i) ==
    push' = [push EXCEPT ![a][t] =
        IF a = "handler" THEN [Idle EXCEPT !.stage = "answered"]
        ELSE [Idle EXCEPT !.stage = "pushing", !.row = i]]

\* Nobody may finish row i, begun for task t: the handler is behind its own task,
\* the thread is one that the main thread has given up already, or there is
\* another row that is running.
Late(a, t) == IF a = "handler" THEN attempts[t] > 0 ELSE ~MainAt(t, "listening")
NamedRows(t) == {i \in DOMAIN log : Running(i) /\ log[i].task = t}
Stranded(a, t, i) ==
    LET beside == (FreshRunning \cup NamedRows(t)) \ {i} IN
    IF beside # {} THEN stranded \cup beside \cup {i}
    ELSE IF Late(a, t) THEN stranded \cup {i} ELSE stranded \ {i}

FindExisting(a, t) ==
    /\ At(a, t, "finding")
    /\ LET i == FindRunningRow IN
       IF i = 0 THEN Go(a, t, "creating")
       ELSE IF log[i].task = t THEN Begun(a, t, i)
       ELSE GoRow(a, t, "adopting", i)
    /\ UNCHANGED <<log, main, message, ended, attempts, stranded, faults>>

\* The row is pointed at the task that adopts it; a slip: it keeps its name.
KeptTask(i, t) == log[i].task
RowTask(i, t) == t

AdoptRow(a, t) ==
    /\ At(a, t, "adopting")
    /\ LET i == push[a][t].row IN
       /\ log' = [log EXCEPT ![i].task = RowTask(i, t)]
       /\ stranded' = Stranded(a, t, i)
       /\ Begun(a, t, i)
    /\ UNCHANGED <<main, message, ended, attempts, faults>>

\* Another row may have been created since the look: then a task may have two.
CreateRow(a, t) ==
    /\ At(a, t, "creating") /\ Len(log) < MaxRows
    /\ log' = Append(log, [status |-> "running", task |-> t, fresh |-> TRUE])
    /\ Begun(a, t, Len(log) + 1)
    /\ stranded' = Stranded(a, t, Len(log) + 1)
    /\ UNCHANGED <<main, message, ended, attempts, faults>>

BeginFails(a, t) ==
    /\ push[a][t].stage \in {"finding", "adopting", "creating"} /\ Fault
    /\ push' = [push EXCEPT ![a][t].stage = IF a = "handler" THEN "answered" ELSE "reporting",
                            ![a][t].status = "error"]
    /\ UNCHANGED <<log, main, message, ended, attempts, stranded>>

----------------------------------------------------------------------------
(* The web server's push handler, and tools/pushToUnderlay. *)

\* A request that finds a push in progress is answered with it and changes nothing.
HasRunningPush(t) ==
    /\ At("handler", t, "none") /\ FindRunningRow = 0
    /\ Go("handler", t, "checked")
    /\ UNCHANGED <<log, main, message, ended, attempts, stranded, faults>>

Created(t) == push["handler"][t].stage \notin {"none", "checked", "adding"}
FindRunningTask(t) ==
    /\ At("handler", t, "checked")
    /\ Go("handler", t, IF \E s \in Tasks : Created(s) /\ s \notin ended THEN "none" ELSE "adding")
    /\ UNCHANGED <<log, main, message, ended, attempts, stranded, faults>>

AddWorkerTask(t) ==
    /\ At("handler", t, "adding") /\ Go("handler", t, "finding")
    /\ message' = [message EXCEPT ![t] = "ready"]
    /\ UNCHANGED <<log, main, ended, attempts, stranded, faults>>

\* A task whose message is not sent stays isProcessing.
SendFails(t) ==
    /\ At("handler", t, "adding") /\ Go("handler", t, "answered") /\ Fault
    /\ UNCHANGED <<log, main, message, ended, attempts, stranded>>

\* A push that is due by its schedule is enqueued without a look at the log.
EnqueueDuePush(t) ==
    /\ At("handler", t, "none") /\ Go("handler", t, "answered")
    /\ message' = [message EXCEPT ![t] = "ready"]
    /\ UNCHANGED <<log, main, ended, attempts, stranded, faults>>

\* STALE_RUNNING_MS: hours later, when every handler has answered.
BecomesStale(i) ==
    /\ i \in FreshRunning
    /\ \A t \in Tasks : push["handler"][t].stage \in {"none", "answered"}
    /\ \A t \in Tasks : push["thread"][t].stage \notin {"finding", "adopting", "creating"}
    /\ log' = [log EXCEPT ![i].fresh = FALSE]
    /\ UNCHANGED <<push, main, message, ended, attempts, stranded, faults>>

----------------------------------------------------------------------------
(* The worker thread: pushToUnderlayTask. *)

HasThread(t) == push["thread"][t].stage # "none"

Push(t, status) ==
    /\ At("thread", t, "pushing")
    /\ push' = [push EXCEPT !["thread"][t].stage = "finishing", !["thread"][t].status = status]
    /\ UNCHANGED <<log, main, message, ended, attempts, stranded, faults>>

FinishPushLog(t) ==
    /\ At("thread", t, "finishing")
    /\ log' = [log EXCEPT ![push["thread"][t].row].status = push["thread"][t].status]
    /\ Go("thread", t, "reporting")
    /\ UNCHANGED <<main, message, ended, attempts, stranded, faults>>

\* catch: if this write fails, or that of the push cache that comes next, the log
\* is finished with the error, unless the error itself cannot be written.
FinishFails(t) ==
    /\ push["thread"][t].stage \in {"finishing", "reporting"} /\ Fault
    /\ LET wasError == push["thread"][t].status = "error" IN
       /\ wasError => At("thread", t, "finishing")
       /\ push' = [push EXCEPT !["thread"][t].stage = IF wasError THEN "reporting" ELSE "finishing",
                               !["thread"][t].status = "error"]
    /\ UNCHANGED <<log, main, message, ended, attempts, stranded>>

----------------------------------------------------------------------------
(* The worker's main thread: processTask for a push. *)

\* incrementAttemptCount.
CanAttempt(t) == attempts[t] < MaxAttempts

Deliver(t) ==
    /\ message[t] = "ready" /\ ~HasThread(t)
    /\ message' = [message EXCEPT ![t] = "held"]
    /\ push' = [push EXCEPT !["thread"][t] = [Idle EXCEPT !.stage = "finding"]]
    /\ IF CanAttempt(t)
       THEN Main(t, "listening") /\ attempts' = [attempts EXCEPT ![t] = @ + 1]
       ELSE Main(t, "finding") /\ UNCHANGED attempts
    /\ UNCHANGED <<log, ended, stranded, faults>>

\* A thread reports; nobody listens to one whose attempt was one too many.
Report(t) ==
    /\ At("thread", t, "reporting")
    /\ IF MainAt(t, "listening")
       THEN Main(t, IF push["thread"][t].status = "error" THEN "finding" ELSE "saving")
       ELSE UNCHANGED main
    /\ push' = [push EXCEPT !["thread"][t] = Idle]
    /\ UNCHANGED <<log, message, ended, attempts, stranded, faults>>

\* It runs out of memory, or of its time.
ThreadDies(t) ==
    /\ MainAt(t, "listening") /\ HasThread(t) /\ Fault
    /\ Main(t, "finding")
    /\ push' = [push EXCEPT !["thread"][t] = Idle]
    /\ UNCHANGED <<log, message, ended, attempts, stranded>>

\* failPushLogForWorkerTask: findOne, then the update of what it has found.
FailPushLogFind(t) ==
    /\ MainAt(t, "finding")
    /\ \/ NamedRows(t) = {} /\ Main(t, "saving")
       \/ \E i \in NamedRows(t) : main' = [main EXCEPT ![t].stage = "failing", ![t].row = i]
    /\ UNCHANGED <<log, push, message, ended, attempts, stranded, faults>>

FailPushLogUpdate(t) ==
    /\ MainAt(t, "failing")
    /\ log' = [log EXCEPT ![main[t].row].status = "error"]
    /\ main' = [main EXCEPT ![t] = [stage |-> "saving", row |-> 0]]
    /\ UNCHANGED <<push, message, ended, attempts, stranded, faults>>

\* Best effort: the task is ended all the same.
FailPushLogFails(t) ==
    /\ main[t].stage \in {"finding", "failing"} /\ Fault
    /\ main' = [main EXCEPT ![t] = [stage |-> "saving", row |-> 0]]
    /\ stranded' = stranded \cup NamedRows(t)
    /\ UNCHANGED <<log, push, message, ended, attempts>>

SaveTask(t) ==
    /\ MainAt(t, "saving") /\ Main(t, "acking")
    /\ ended' = ended \cup {t}
    /\ UNCHANGED <<log, push, message, attempts, stranded, faults>>

Ack(t) ==
    /\ MainAt(t, "acking") /\ Main(t, "idle")
    /\ message' = [message EXCEPT ![t] = "acked"]
    /\ UNCHANGED <<log, push, ended, attempts, stranded, faults>>

\* The worker process dies; its messages are delivered again.  A row held by a
\* thread that nobody listens to is lost with it.
Crash ==
    /\ Fault
    /\ push' = [push EXCEPT !["thread"] = [t \in Tasks |-> Idle]]
    /\ main' = [t \in Tasks |-> [stage |-> "idle", row |-> 0]]
    /\ message' = [t \in Tasks |-> IF message[t] = "held" THEN "ready" ELSE message[t]]
    /\ UNCHANGED <<log, ended, attempts, stranded>>

----------------------------------------------------------------------------
Thread(t) ==
    \/ FindExisting("thread", t) \/ AdoptRow("thread", t) \/ CreateRow("thread", t)
    \/ \E status \in {"success", "error"} : Push(t, status)
    \/ FinishPushLog(t) \/ Report(t)
MainThread(t) ==
    Deliver(t) \/ FailPushLogFind(t) \/ FailPushLogUpdate(t) \/ SaveTask(t) \/ Ack(t)

Next ==
    \/ \E t \in Tasks :
         \/ HasRunningPush(t) \/ FindRunningTask(t) \/ AddWorkerTask(t) \/ SendFails(t)
         \/ FindExisting("handler", t) \/ AdoptRow("handler", t) \/ CreateRow("handler", t)
         \/ EnqueueDuePush(t)
         \/ \E a \in Actors : BeginFails(a, t)
         \/ Thread(t) \/ FinishFails(t)
         \/ MainThread(t) \/ ThreadDies(t) \/ FailPushLogFails(t)
    \/ \E i \in 1..MaxRows : i \in DOMAIN log /\ BecomesStale(i)
    \/ Crash

Spec == Init /\ [][Next]_vars
----------------------------------------------------------------------------
(* Properties. *)

Statuses == {"running", "success", "error"}
TypeOK ==
    /\ log \in Seq([status : Statuses, task : Tasks, fresh : BOOLEAN])
    /\ push \in [Actors -> [Tasks ->
           [stage : {"none", "checked", "adding", "finding", "adopting", "creating", "answered",
                     "pushing", "finishing", "reporting"},
            row : 0..MaxRows, status : Statuses \cup {"none"}]]]
    /\ main \in [Tasks -> [stage : {"idle", "listening", "finding", "failing", "saving", "acking"},
                           row : 0..MaxRows]]
    /\ message \in [Tasks -> {"none", "ready", "held", "acked"}]
    /\ ended \subseteq Tasks
    /\ attempts \in [Tasks -> 0..MaxAttempts]
    /\ stranded \subseteq 1..MaxRows
    /\ faults \in 0..MaxFaults

\* A row that shows a push in progress has someone to finish it: the task that it
\* names, whose message is not acknowledged.  The rows that have nobody are the
\* named few: begun behind their task, begun beside another, or not failed because
\* the database failed.
RunningIsOwned ==
    \A i \in FreshRunning : i \in stranded \/ message[log[i].task] # "acked"

\* queries.ts:64-66: the log that the handler creates "is adopted by the worker
\* rather than duplicated".
AdoptedNotDuplicated ==
    \A i, j \in DOMAIN log : Running(i) /\ Running(j) /\ log[i].task = log[j].task => i = j
============================================================================
