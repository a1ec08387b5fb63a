---------------------------- MODULE WorkerQueue ----------------------------
(***************************************************************************)
(* Background tasks: a web server writes a WorkerTask row and publishes a  *)
(* message for it (server/utils/workers.ts); consumer processes take the   *)
(* message, run the task in a worker thread, write its outcome to the row  *)
(* and acknowledge the message (workers/queue.ts).                         *)
(*                                                                         *)
(* RabbitMQ keeps an unacknowledged message for the process it was given   *)
(* to, and hands it out again when it finds that process gone.  Handlers   *)
(* of a consumer run on JavaScript's single thread and are cut at each     *)
(* await; the worker thread runs beside them and reports by events.        *)
(***************************************************************************)
EXTENDS Integers, FiniteSets

CONSTANTS
    Tasks,       \* task ids; a task has one row and at most one message
    Consumers,   \* replicas of the worker service
    Prefetch,    \* maxWorkerThreads: unacknowledged messages per consumer
    MaxAttempts, \* maxAttemptCount
    MaxRetries,  \* MAX_RETRIES: attempts to write an outcome
    MaxFaults,   \* bound: crashes, lost connections and database errors
    NoRun        \* the consumer is not processing the task

ASSUME PrefetchAssumption == Prefetch \in Nat \ {0}
ASSUME MaxAttemptsAssumption == MaxAttempts \in Nat \ {0}
ASSUME MaxRetriesAssumption == MaxRetries \in Nat \ {0}
ASSUME MaxFaultsAssumption == MaxFaults \in Nat
\* A consumer is not one of the other places a message can be in.
ASSUME ConsumersAssumption == Consumers \cap {"none", "ready", "acked"} = {}

VARIABLES
    request,  \* addWorkerTask, on the web server
    row,      \* the WorkerTask row
    message,  \* where the task's message is: a consumer holds it unacknowledged
    mode,     \* of a consumer process; "cut": it has yet to see its connection gone
    run,      \* processTask of a consumer for a task
    thread,   \* the worker thread of that run
    starts,   \* how often the task has been started
    produced, \* tasks that have run to their end and returned a result
    faults    \* faults so far

vars == <<request, row, message, mode, run, thread, starts, produced, faults>>

Outcomes == {"none", "result", "error"}

\* outcome: the arguments of the onWorkerFinished call that set hasFinished;
\* killing: taskTimeout has fired, and the thread is to be terminated.
Run == [stage : {"reading", "counting", "listening", "saving", "acking", "stuck"},
        seen : Nat, outcome : Outcomes, tries : Nat, killing : BOOLEAN]

ASSUME NoRunAssumption == NoRun \notin Run

Up(p) == mode[p] # "down"
Unacked(p) == {t \in Tasks : message[t] = p}

\* hasFinished
HasFinished(r) == r.stage \in {"saving", "acking", "stuck"}

\* The listeners of the thread are attached once the attempt is counted.  A run
\* that finishes with its thread still working has failed to count it.
Listening(p, t) == run[p][t] # NoRun /\ run[p][t].stage = "listening"

Init ==
    /\ request = [t \in Tasks |-> "idle"]
    /\ row = [t \in Tasks |-> [isProcessing |-> FALSE, attemptCount |-> 0, outcome |-> "none"]]
    /\ message = [t \in Tasks |-> "none"]
    /\ mode = [p \in Consumers |-> "up"]
    /\ run = [p \in Consumers |-> [t \in Tasks |-> NoRun]]
    /\ thread = [p \in Consumers |-> [t \in Tasks |-> "none"]]
    /\ starts = [t \in Tasks |-> 0]
    /\ produced = {}
    /\ faults = 0

Fault == faults < MaxFaults /\ faults' = faults + 1

----------------------------------------------------------------------------
(* The web server. *)

\* createWorkerTask
CreateWorkerTask(t) ==
    /\ request[t] = "idle"
    /\ request' = [request EXCEPT ![t] = "created"]
    /\ row' = [row EXCEPT ![t].isProcessing = TRUE]
    /\ UNCHANGED <<message, mode, run, thread, starts, produced, faults>>

\* sendMessageToOpenChannel: the broker confirms.
SendMessage(t) ==
    /\ request[t] = "created"
    /\ request' = [request EXCEPT ![t] = "sent"]
    /\ message' = [message EXCEPT ![t] = "ready"]
    /\ UNCHANGED <<row, mode, run, thread, starts, produced, faults>>

\* The server dies, or the publish throws, before or after the broker has it.
SendFails(t) ==
    /\ request[t] = "created" /\ Fault
    /\ request' = [request EXCEPT ![t] = "failed"]
    /\ message' \in {message, [message EXCEPT ![t] = "ready"]}
    /\ UNCHANGED <<row, mode, run, thread, starts, produced>>

----------------------------------------------------------------------------
(* processTask. *)

SetRun(p, t, r) == run' = [run EXCEPT ![p][t] = r]

\* consume(..., { noAck: false })
AckedOnDelivery(p) == "acked"
HeldBy(p) == p

\* The broker delivers: the worker thread is spawned at once.
Deliver(p, t) ==
    /\ mode[p] = "up" /\ message[t] = "ready"
    /\ Cardinality(Unacked(p)) < Prefetch
    /\ message' = [message EXCEPT ![t] = HeldBy(p)]
    /\ SetRun(p, t, [stage |-> "reading", seen |-> 0, outcome |-> "none", tries |-> 0,
                     killing |-> FALSE])
    /\ thread' = [thread EXCEPT ![p][t] = "working"]
    /\ starts' = [starts EXCEPT ![t] = @ + 1]
    /\ UNCHANGED <<request, row, mode, produced, faults>>

\* onWorkerFinished, up to its first await.  It returns at once when a call for
\* this run has been made before.
FinishedAgain(r, outcome) == [r EXCEPT !.stage = "saving", !.outcome = outcome]
Finished(r, outcome) ==
    IF HasFinished(r) THEN r ELSE [r EXCEPT !.stage = "saving", !.outcome = outcome]

OnWorkerFinished(p, t, outcome) == SetRun(p, t, Finished(run[p][t], outcome))

\* incrementAttemptCount: findOne, and the throw.
TooMany(attempts) == attempts # 0 /\ attempts >= MaxAttempts
ReadAttempts(p, t) ==
    /\ Up(p) /\ run[p][t] # NoRun /\ run[p][t].stage = "reading"
    /\ IF TooMany(row[t].attemptCount)
       THEN OnWorkerFinished(p, t, "error")
       ELSE SetRun(p, t, [run[p][t] EXCEPT !.stage = "counting",
                                           !.seen = row[t].attemptCount])
    /\ UNCHANGED <<request, row, message, mode, thread, starts, produced, faults>>

NewAttemptCountDown(seen) == seen - 1
NewAttemptCount(seen) == seen + 1

Counted(p, t) == [row EXCEPT ![t].attemptCount = NewAttemptCount(run[p][t].seen)]

\* incrementAttemptCount: update; then the listeners and the timer.
WriteAttempts(p, t) ==
    /\ Up(p) /\ run[p][t] # NoRun /\ run[p][t].stage = "counting"
    /\ row' = Counted(p, t)
    /\ SetRun(p, t, [run[p][t] EXCEPT !.stage = "listening"])
    /\ UNCHANGED <<request, message, mode, thread, starts, produced, faults>>

\* Either query fails, the update perhaps after it was applied: the error is
\* handled like one of the task.
CountFails(p, t) ==
    /\ Up(p) /\ run[p][t] # NoRun /\ run[p][t].stage \in {"reading", "counting"}
    /\ Fault
    /\ row' = row \/ (run[p][t].stage = "counting" /\ row' = Counted(p, t))
    /\ OnWorkerFinished(p, t, "error")
    /\ UNCHANGED <<request, message, mode, thread, starts, produced>>

----------------------------------------------------------------------------
(* The worker thread and its events. *)

\* The task returns or throws and is reported by a message.  A message that
\* comes before the listeners are attached, or after hasFinished, is dropped.
ThreadReports(p, t) ==
    /\ Up(p) /\ thread[p][t] = "working"
    /\ \E outcome \in {"result", "error"} :
         /\ produced' = IF outcome = "result" THEN produced \cup {t} ELSE produced
         /\ IF Listening(p, t) THEN OnWorkerFinished(p, t, outcome) ELSE UNCHANGED run
    /\ thread' = [thread EXCEPT ![p][t] = "none"]
    /\ UNCHANGED <<request, row, message, mode, starts, faults>>

\* The process is gone: its threads with it, and the broker has its messages back.
RequeuedFrom(p) == [t \in Tasks |-> IF message[t] = p THEN "ready" ELSE message[t]]
Gone(p) ==
    /\ mode' = [mode EXCEPT ![p] = "down"]
    /\ message' = RequeuedFrom(p)
    /\ run' = [run EXCEPT ![p] = [t \in Tasks |-> NoRun]]
    /\ thread' = [thread EXCEPT ![p] = [t \in Tasks |-> "none"]]

\* The thread dies (out of memory, an uncaught exception) and emits an error
\* event.  With no listener, that event ends the whole process.
ThreadDies(p, t) ==
    /\ Up(p) /\ thread[p][t] = "working" /\ Fault
    /\ IF Listening(p, t)
       THEN /\ OnWorkerFinished(p, t, "error")
            /\ thread' = [thread EXCEPT ![p][t] = "none"]
            /\ UNCHANGED <<mode, message>>
       ELSE Gone(p)
    /\ UNCHANGED <<request, row, starts, produced>>

\* taskTimeout fires: the thread is asked to kill its subprocesses.
Yield(p, t) ==
    /\ Up(p) /\ Listening(p, t) /\ ~run[p][t].killing
    /\ SetRun(p, t, [run[p][t] EXCEPT !.killing = TRUE])
    /\ UNCHANGED <<request, row, message, mode, thread, starts, produced, faults>>

\* One second later it is terminated, whatever it has reported meanwhile.
KillsNever(r) == FALSE
Kills(r) == r.killing
KilledAsResult == "result"
KilledAs == "error"
Terminate(p, t) ==
    /\ Up(p) /\ run[p][t] # NoRun /\ Kills(run[p][t])
    /\ thread' = [thread EXCEPT ![p][t] = "none"]
    /\ SetRun(p, t, [Finished(run[p][t], KilledAs) EXCEPT !.killing = FALSE])
    /\ UNCHANGED <<request, row, message, mode, starts, produced, faults>>

----------------------------------------------------------------------------
(* onWorkerFinished, from its first await. *)

\* channel.ack reaches the broker while the connection stands.
AckedAsNack(p, t) == IF message[t] = p THEN [message EXCEPT ![t] = "ready"] ELSE message
Acked(p, t) == IF message[t] = p THEN [message EXCEPT ![t] = "acked"] ELSE message

Saved(p, t) == [row EXCEPT ![t].isProcessing = FALSE, ![t].outcome = run[p][t].outcome]

SaveOutcome(p, t) ==
    /\ Up(p) /\ run[p][t] # NoRun /\ run[p][t].stage = "saving"
    /\ row' = Saved(p, t)
    /\ SetRun(p, t, [run[p][t] EXCEPT !.stage = "acking"])
    /\ UNCHANGED <<request, message, mode, thread, starts, produced, faults>>

\* A failed update, which may have been applied and its answer lost, is tried again;
\* after the last the handler throws, and the message is not acknowledged.
AfterFailureAcking(tries) == IF tries < MaxRetries THEN "saving" ELSE "acking"
AfterFailure(tries) == IF tries < MaxRetries THEN "saving" ELSE "stuck"
SaveFails(p, t) ==
    /\ Up(p) /\ run[p][t] # NoRun /\ run[p][t].stage = "saving" /\ Fault
    /\ LET tries == run[p][t].tries + 1 IN
         SetRun(p, t, [run[p][t] EXCEPT !.tries = tries, !.stage = AfterFailure(tries)])
    /\ row' \in {row, Saved(p, t)}
    /\ UNCHANGED <<request, message, mode, thread, starts, produced>>

Ack(p, t) ==
    /\ Up(p) /\ run[p][t] # NoRun /\ run[p][t].stage = "acking"
    /\ message' = Acked(p, t)
    /\ SetRun(p, t, NoRun)
    /\ UNCHANGED <<request, row, mode, thread, starts, produced, faults>>

----------------------------------------------------------------------------
(* Consumers come and go. *)

Crash(p) ==
    /\ mode[p] = "up" /\ Fault
    /\ Gone(p)
    /\ UNCHANGED <<request, row, starts, produced>>

\* The 'close' handler makes the process exit; it never goes on with a new connection.
AfterCutUp == "up"
AfterCut == "cut"

\* The broker drops a connection whose consumer still runs.
ConnectionLost(p) ==
    /\ mode[p] = "up" /\ Fault
    /\ mode' = [mode EXCEPT ![p] = AfterCut]
    /\ message' = RequeuedFrom(p)
    /\ UNCHANGED <<request, row, run, thread, starts, produced>>

\* conn.on('error'), conn.on('close'): the process exits.
ExitOnClose(p) ==
    /\ mode[p] = "cut"
    /\ Gone(p)
    /\ UNCHANGED <<request, row, starts, produced, faults>>

\* The service is restarted and consumes again.
Restart(p) ==
    /\ mode[p] = "down"
    /\ mode' = [mode EXCEPT ![p] = "up"]
    /\ UNCHANGED <<request, row, message, run, thread, starts, produced, faults>>

----------------------------------------------------------------------------
Next ==
    \/ \E t \in Tasks : CreateWorkerTask(t) \/ SendMessage(t) \/ SendFails(t)
    \/ \E p \in Consumers, t \in Tasks :
         \/ Deliver(p, t) \/ ReadAttempts(p, t) \/ WriteAttempts(p, t) \/ CountFails(p, t)
         \/ ThreadReports(p, t) \/ ThreadDies(p, t) \/ Yield(p, t) \/ Terminate(p, t)
         \/ SaveOutcome(p, t) \/ SaveFails(p, t) \/ Ack(p, t)
    \/ \E p \in Consumers : Crash(p) \/ ConnectionLost(p) \/ ExitOnClose(p) \/ Restart(p)

Spec == Init /\ [][Next]_vars

\* Handlers and timers run, the broker delivers, a dead service is restarted.
\* Nothing obliges a task to end, a server to publish, or a fault to happen.
Fairness ==
    /\ \A t \in Tasks : WF_vars(\E p \in Consumers : Deliver(p, t))
    /\ \A p \in Consumers : WF_vars(ExitOnClose(p)) /\ WF_vars(Restart(p))
    /\ \A p \in Consumers, t \in Tasks :
         /\ WF_vars(ReadAttempts(p, t)) /\ WF_vars(WriteAttempts(p, t))
         /\ WF_vars(Yield(p, t)) /\ WF_vars(Terminate(p, t))
         /\ WF_vars(SaveOutcome(p, t)) /\ WF_vars(Ack(p, t))
----------------------------------------------------------------------------
(* Properties. *)

TypeOK ==
    /\ request \in [Tasks -> {"idle", "created", "sent", "failed"}]
    /\ row \in [Tasks -> [isProcessing : BOOLEAN, attemptCount : Nat, outcome : Outcomes]]
    /\ message \in [Tasks -> {"none", "ready", "acked"} \cup Consumers]
    /\ mode \in [Consumers -> {"up", "cut", "down"}]
    /\ run \in [Consumers -> [Tasks -> Run \cup {NoRun}]]
    /\ thread \in [Consumers -> [Tasks -> {"none", "working"}]]
    /\ starts \in [Tasks -> Nat]
    /\ produced \subseteq Tasks
    /\ faults \in 0..MaxFaults

\* A message is acknowledged only when the outcome of its task is on the row:
\* whatever crashes or fails to be saved, no client polls a row for ever.
AckedIsSettled ==
    \A t \in Tasks : message[t] = "acked" => ~row[t].isProcessing /\ row[t].outcome # "none"

\* A row with a result stands for a task that ran to its end: a task stopped by
\* its timer, a crash or the attempt count never passes for one.
ResultsAreReal == \A t \in Tasks : row[t].outcome = "result" => t \in produced

\* A connected consumer works on exactly the messages it holds, so that no task
\* is handled by two connected consumers at once.
RunsHoldMessages ==
    \A p \in Consumers, t \in Tasks :
        mode[p] = "up" => (run[p][t] # NoRun <=> message[t] = p)

\* Once a message is acknowledged the row is final, as long as no consumer runs
\* on without its connection: nothing that reports late writes to it.
SettledForGood ==
    [][\A t \in Tasks :
         (message[t] = "acked" /\ \A p \in Consumers : mode[p] # "cut") => row'[t] = row[t]]_row

\* The first report of a run decides its outcome: the timer that terminates the
\* thread does not undo a result that came in the second before.
FirstReportWins ==
    [][\A p \in Consumers, t \in Tasks :
         (run[p][t] # NoRun /\ HasFinished(run[p][t]) /\ run'[p][t] # NoRun) =>
             run'[p][t].outcome = run[p][t].outcome \/ run'[p][t].stage = "reading"]_run

\* A task is started again only for a fault, and once for each: without one it runs
\* exactly once (queue.ts:44), however many consumers, timers and reports there are.
StartsNeedFaults == \A t \in Tasks : starts[t] <= 1 + faults

\* Every message the broker accepts is acknowledged in the end, whatever dies on
\* the way, if faults are too few to fail every write of an outcome.
MessagesSettle == \A t \in Tasks : message[t] = "ready" ~> message[t] = "acked"
============================================================================
