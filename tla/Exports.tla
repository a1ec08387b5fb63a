------------------------------- MODULE Exports -------------------------------
(***************************************************************************)
(* Downloads of a pub.  A call of getOrStartExportTask                     *)
(* (server/export/queries.ts) answers with the file of an earlier export,  *)
(* with the task that is making it, or starts a task on the worker queue;  *)
(* the caller then polls that task.  The task stores the file's URL on the *)
(* Export row before it reports (workers/tasks/export/export.ts).          *)
(*                                                                         *)
(* The calls modelled are all for one pub, format and history key.  They   *)
(* run on several web servers and are cut at every await.                  *)
(***************************************************************************)
EXTENDS WorkerQueue

CONSTANTS
    Calls,  \* calls of getOrStartExportTask
    NoTask  \* no workerTaskId

VARIABLES
    exports,  \* the Export rows: the row a call creates is named after the call
    call,     \* where a call is, the row it works for, the task it has started
    input,    \* the row a task was started for
    uploaded  \* tasks of a consumer whose worker thread has stored its file

exportVars == <<exports, call, input, uploaded>>
allVars == <<vars, exportVars>>

Exists(e) == exports[e].created

ExportsInit ==
    /\ Init
    /\ exports = [e \in Calls |-> [created |-> FALSE, url |-> FALSE, task |-> NoTask]]
    /\ call = [c \in Calls |-> [stage |-> "idle", export |-> c, task |-> NoTask]]
    /\ input = [t \in Tasks |-> NoTask]
    /\ uploaded = [p \in Consumers |-> {}]

----------------------------------------------------------------------------
(* getOrStartExportTask. *)

At(c, stage) == call[c].stage = stage
Go(c, stage) == call' = [call EXCEPT ![c].stage = stage]
Answer(c, t) == call' = [call EXCEPT ![c].stage = "answered", ![c].task = t]

\* shouldAllowTaskToComplete: it has no error, or none yet.
ShouldAllowTaskToComplete(t) == t # NoTask /\ row[t].outcome # "error"

\* findOne takes any of the rows, should there be several.
FindExport(c) ==
    /\ At(c, "idle")
    /\ \/ /\ \A e \in Calls : ~Exists(e)
          /\ Go(c, "creating")
       \/ \E e \in Calls :
            /\ Exists(e)
            /\ IF exports[e].url THEN Answer(c, NoTask)
               ELSE IF ShouldAllowTaskToComplete(exports[e].task) THEN Answer(c, exports[e].task)
               ELSE call' = [call EXCEPT ![c].stage = "adding", ![c].export = e]
    /\ UNCHANGED <<vars, exports, input, uploaded>>

CreateExport(c) ==
    /\ At(c, "creating")
    /\ exports' = [exports EXCEPT ![c].created = TRUE]
    /\ Go(c, "adding")
    /\ UNCHANGED <<vars, input, uploaded>>

\* The row does not name the task before its message is sent.
NamedAtOnce(c, t) == [exports EXCEPT ![call[c].export].task = t]
NamedLater(c, t) == exports

\* addWorkerTask: the row of the task, then its message.
AddWorkerTask(c, t) ==
    /\ At(c, "adding") /\ CreateWorkerTask(t)
    /\ call' = [call EXCEPT ![c].stage = "sending", ![c].task = t]
    /\ input' = [input EXCEPT ![t] = call[c].export]
    /\ exports' = NamedLater(c, t)
    /\ UNCHANGED uploaded

MessageSent(c) ==
    /\ At(c, "sending") /\ SendMessage(call[c].task)
    /\ Go(c, "updating")
    /\ UNCHANGED <<exports, input, uploaded>>

MessageFails(c) ==
    /\ At(c, "sending") /\ SendFails(call[c].task)
    /\ Go(c, "failed")
    /\ UNCHANGED <<exports, input, uploaded>>

UpdateExport(c) ==
    /\ At(c, "updating")
    /\ exports' = [exports EXCEPT ![call[c].export].task = call[c].task]
    /\ Go(c, "answered")
    /\ UNCHANGED <<vars, input, uploaded>>

\* A query fails, or the web server dies; the queue has no part in it.
CallFails(c) ==
    /\ call[c].stage \in {"creating", "adding", "updating"}
    /\ Go(c, "failed")
    /\ UNCHANGED <<vars, exports, input, uploaded>>

----------------------------------------------------------------------------
(* The worker's side. *)

\* exportTask: render, upload, assignFileToExportById.
AssignFile(p, t) ==
    /\ Up(p) /\ thread[p][t] = "working" /\ t \notin uploaded[p]
    /\ exports' = [exports EXCEPT ![input[t]].url = TRUE]
    /\ uploaded' = [uploaded EXCEPT ![p] = @ \cup {t}]
    /\ UNCHANGED <<vars, call, input>>

\* A thread takes what it has done with it.
WithThread == uploaded' = [p \in Consumers |-> {t \in uploaded[p] : thread'[p][t] = "working"}]

\* A task reports a result once it has stored its file; a slip: or before.
HasFileOrNot(p, t) == TRUE
HasFile(p, t) == t \in uploaded[p]
ExportReports(p, t) ==
    /\ ThreadReports(p, t)
    /\ \/ HasFile(p, t)
       \/ produced' = produced /\ (Listening(p, t) => run'[p][t].outcome = "error")

Worker ==
    /\ \/ \E p \in Consumers, t \in Tasks :
            \/ Deliver(p, t) \/ ReadAttempts(p, t) \/ WriteAttempts(p, t) \/ CountFails(p, t)
            \/ ExportReports(p, t) \/ ThreadDies(p, t) \/ Yield(p, t) \/ Terminate(p, t)
            \/ SaveOutcome(p, t) \/ SaveFails(p, t) \/ Ack(p, t)
       \/ \E p \in Consumers : Crash(p) \/ ConnectionLost(p) \/ ExitOnClose(p) \/ Restart(p)
    /\ WithThread
    /\ UNCHANGED <<exports, call, input>>

----------------------------------------------------------------------------
ExportsNext ==
    \/ \E c \in Calls : \/ FindExport(c) \/ CreateExport(c) \/ UpdateExport(c)
                        \/ MessageSent(c) \/ MessageFails(c) \/ CallFails(c)
                        \/ \E t \in Tasks : AddWorkerTask(c, t)
    \/ \E p \in Consumers, t \in Tasks : AssignFile(p, t)
    \/ Worker

\* The fairness of the worker queue; no call is obliged to go on.
ExportsSpec == ExportsInit /\ [][ExportsNext]_allVars /\ Fairness
----------------------------------------------------------------------------
(* Properties. *)

ExportsTypeOK ==
    /\ TypeOK
    /\ exports \in [Calls -> [created : BOOLEAN, url : BOOLEAN, task : Tasks \cup {NoTask}]]
    /\ call \in [Calls -> [stage : {"idle", "creating", "adding", "sending", "updating",
                                    "answered", "failed"},
                           export : Calls, task : Tasks \cup {NoTask}]]
    /\ input \in [Tasks -> Calls \cup {NoTask}]
    /\ uploaded \in [Consumers -> SUBSET Tasks]

\* Whoever finds a task finished with a result finds its file: the URL is on the
\* Export row first, whichever run of the task it was that reported.
ResultsHaveFiles == \A t \in Tasks : row[t].outcome = "result" => exports[input[t]].url

\* No caller is told to wait for a task whose message never left the web server:
\* a row names a task only once the broker has it.
AnswersWereSent ==
    \A c \in Calls : At(c, "answered") /\ call[c].task # NoTask => message[call[c].task] # "none"
============================================================================
