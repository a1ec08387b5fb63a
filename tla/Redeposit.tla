------------------------------ MODULE Redeposit ------------------------------
(***************************************************************************)
(* A redepositDois task sends the deposits of a community's items to       *)
(* Crossref again (server/doi/redeposit.ts, workers/tasks/redepositDois.ts *)
(* and setDoiData of server/doi/queries.ts): every item is checked, sent   *)
(* without and then with its relationships, and its new deposit stored;    *)
(* at last Crossref's submission log is read for all of them.  Editors go  *)
(* on editing, Crossref works through its uploads, an admin may ask to     *)
(* stop, and the worker may die and run the task again.                    *)
(*                                                                         *)
(* Of a deposit the model keeps its shape: what a redeposit must not       *)
(* change (DOI, type, journal, issue).                                     *)
(***************************************************************************)
EXTENDS Naturals, Sequences, FiniteSets

CONSTANTS
    N,         \* the items of the plan are 1..N
    MaxStarts, \* times that the task is started: once, and again for a worker that died
    MaxEdits,  \* bound: edits that change a shape
    EditedTo,  \* bound: the shapes they lead to
    MaxFaults, \* bound: failed queries and uploads, deaths of the worker
    NoCopy     \* no depositJson

ASSUME BoundsAssumption ==
    N \in Nat \ {0} /\ MaxStarts \in Nat /\ MaxEdits \in Nat /\ MaxFaults \in Nat

Items == 1..N

\* The shape an item has at first ("same"); that shape without its journal and
\* issue ("bare"), with others ("moved"); and one of another DOI or type ("other").
Shapes == {"same", "bare", "moved", "other"}

ASSUME EditedToAssumption == EditedTo \subseteq Shapes

\* A journal and issue that were not known may be filled in: nothing else may change.
Fits(new, old) == new = old \/ (old = "bare" /\ new \in {"same", "moved"})

VARIABLES
    data,     \* the shape of the deposit that an item's data makes
    record,   \* ... of the deposit stored in its deposit record
    backups,  \* copies of deposit records
    uploads,  \* what Crossref has received, by timestamp
    crossref, \* what Crossref has of an item
    known,    \* what the last deposit or, without a copy, Crossref tells at first
    checkOnly, stopRequested,
    pc, item, \* where the task is, and with which item
    built,    \* the deposit it has built
    results, output, \* its results, and those that are written to the WorkerTask
    starts, edits, faults,
    editedSince, \* items edited between their check and their deposit
    sentSince    \* items sent since stopRequested

editors == <<data, edits, editedSince>>
service == <<uploads, crossref>>
stored == <<record, backups>>
thread == <<pc, item, built, results>>
fixed == <<known, checkOnly, starts>>
vars == <<editors, service, stored, thread, fixed, stopRequested, output, faults, sentSince>>

Fault == faults < MaxFaults /\ faults' = faults + 1
Nothing == [i \in Items |-> "none"]

Init ==
    /\ data = [i \in Items |-> "same"]
    /\ known \in {"same", "bare"}
    /\ \E copy \in {known, NoCopy} : record = [i \in Items |-> copy]
    /\ backups = {}
    /\ uploads = <<>>
    /\ crossref = [i \in Items |-> [shape |-> known, isConnected |-> TRUE]]
    /\ checkOnly \in BOOLEAN /\ stopRequested = FALSE
    /\ pc = "queued" /\ item = 1 /\ built = "same"
    /\ results = Nothing /\ output = Nothing
    /\ starts = 0 /\ edits = 0 /\ faults = 0
    /\ editedSince = {} /\ sentSince = {}

----------------------------------------------------------------------------
(* Everyone else. *)

Sending == {"backup", "disconnected", "upload", "connected", "uploadConnected"}

\* A connection, a collection or a setting changes.
Edit(i) ==
    /\ edits < MaxEdits /\ edits' = edits + 1
    /\ \E shape \in EditedTo \ {data[i]} : data' = [data EXCEPT ![i] = shape]
    /\ editedSince' = IF i = item /\ pc \in Sending THEN editedSince \cup {i} ELSE editedSince
    /\ UNCHANGED <<service, stored, thread, fixed, stopRequested, output, faults, sentSince>>

RequestStop ==
    /\ ~stopRequested /\ stopRequested' = TRUE
    /\ UNCHANGED <<editors, service, stored, thread, fixed, output, faults, sentSince>>

\* Crossref takes uploads in their order: one that another overtakes is refused
\* for its timestamp, which comes to the same.
CrossrefProcesses ==
    \E n \in DOMAIN uploads :
        /\ uploads[n].status = "queued" /\ \A m \in 1..n - 1 : uploads[m].status # "queued"
        /\ \/ /\ crossref' = [crossref EXCEPT ![uploads[n].item] =
                     [shape |-> uploads[n].shape, isConnected |-> uploads[n].isConnected]]
              /\ uploads' = [uploads EXCEPT ![n].status = "success"]
           \/ /\ uploads' = [uploads EXCEPT ![n].status = "failure"]
              /\ UNCHANGED crossref
        /\ UNCHANGED <<editors, stored, thread, fixed, stopRequested, output, faults, sentSince>>

----------------------------------------------------------------------------
(* runRedeposit. *)

InThread == UNCHANGED <<editors, crossref, fixed, stopRequested>>
Quietly == InThread /\ UNCHANGED <<uploads, stored, output, faults, sentSince>>

Start ==
    /\ pc = "queued" /\ starts < MaxStarts
    /\ starts' = starts + 1
    /\ pc' = "next" /\ item' = 1 /\ results' = Nothing
    /\ UNCHANGED <<editors, service, stored, built, known, checkOnly, stopRequested, output,
                   faults, sentSince>>

\* shouldStop, before every item; a slip: before the first.
StopsAtFirst == stopRequested /\ item = 1
Stops == stopRequested

NextItem ==
    /\ pc = "next"
    /\ pc' = IF item > N \/ Stops THEN "reading" ELSE "check"
    /\ item' = IF item > N \/ Stops THEN 1 ELSE item
    /\ UNCHANGED <<built, results>> /\ Quietly

\* preflightItem: the deposit of now against the last one, or Crossref's; it may
\* be skipped for reasons that have nothing to do with its shape.  Where Crossref
\* did not tell the journal and issue at first, it does not tell them later.
Told(i) == IF known = "bare" /\ crossref[i].shape # "other" THEN "bare" ELSE crossref[i].shape
Previous(i) == IF record[i] # NoCopy THEN record[i] ELSE Told(i)
SafeAlways(i) == TRUE
Safe(i) == Fits(data[i], Previous(i))

PreflightItem ==
    /\ pc = "check"
    /\ \/ /\ Safe(item) /\ ~checkOnly
          /\ pc' = "backup" /\ UNCHANGED results
       \/ /\ pc' = "report"
          /\ \E status \in {"ready", "skipped"} :
                /\ status = "ready" => Safe(item) /\ checkOnly
                /\ results' = [results EXCEPT ![item] = status]
    /\ UNCHANGED <<item, built>> /\ Quietly

\* A copy of the deposit that is about to be overwritten, if there is one.
CopyOf(i) == IF record[i] # NoCopy THEN {<<i, record[i], starts>>} ELSE {}

CreateBackup ==
    /\ pc = "backup" /\ pc' = "disconnected"
    /\ backups' = backups \cup CopyOf(item)
    /\ UNCHANGED <<item, built, results, uploads, record, output, faults, sentSince>> /\ InThread

\* setDoiData: both deposits are built from the data as it is then.
BuildDeposit ==
    /\ pc \in {"disconnected", "connected"}
    /\ built' = data[item]
    /\ pc' = IF pc = "disconnected" THEN "upload" ELSE "uploadConnected"
    /\ UNCHANGED <<item, results>> /\ Quietly

Upload ==
    /\ uploads' = Append(uploads, [item |-> item, shape |-> built, status |-> "queued",
                                   isConnected |-> pc = "uploadConnected"])
    /\ sentSince' = IF stopRequested THEN sentSince \cup {<<starts, item>>} ELSE sentSince

SubmitDoiData ==
    /\ pc \in {"upload", "uploadConnected"}
    /\ Upload
    /\ pc' = IF pc = "upload" THEN "connected" ELSE "persist"
    /\ UNCHANGED <<item, built, results, stored, output, faults>> /\ InThread

Persist ==
    /\ pc = "persist" /\ pc' = "report"
    /\ record' = [record EXCEPT ![item] = built] /\ built' = "same"
    /\ results' = [results EXCEPT ![item] = "submitted"]
    /\ UNCHANGED <<item, uploads, backups, output, faults, sentSince>> /\ InThread

\* A step fails, an upload with or without having reached Crossref, a write with
\* or without the other of the two: the backup is destroyed.
SendFails ==
    /\ pc \in {"backup", "disconnected", "upload", "connected", "uploadConnected", "persist"} /\ Fault
    /\ \/ UNCHANGED <<uploads, record, sentSince>>
       \/ pc \in {"upload", "uploadConnected"} /\ Upload /\ UNCHANGED record
       \/ pc = "persist" /\ record' = [record EXCEPT ![item] = built] /\ UNCHANGED <<uploads, sentSince>>
    /\ backups' = {b \in backups : ~(b[1] = item /\ b[3] = starts)}
    /\ results' = [results EXCEPT ![item] = "error"]
    /\ pc' = "report" /\ built' = "same"
    /\ UNCHANGED <<item, output>> /\ InThread

\* onProgress: written at most every two seconds, and for the last item.
ReportProgress ==
    /\ pc = "report" /\ pc' = "next" /\ item' = item + 1
    /\ output' = results \/ (item < N /\ UNCHANGED output)
    /\ UNCHANGED <<built, results, uploads, stored, faults, sentSince>> /\ InThread

----------------------------------------------------------------------------
(* verifySubmissions. *)

\* The submission file of a result names its last upload; a slip: the one without
\* relationships.
FirstFile(i) == {n \in DOMAIN uploads : uploads[n].item = i /\ ~uploads[n].isConnected}
LastFile(i) == {n \in DOMAIN uploads : uploads[n].item = i /\ uploads[n].isConnected}
LogOf(i) == LET n == CHOOSE n \in LastFile(i) : \A m \in LastFile(i) : m <= n IN uploads[n].status

ReadLog ==
    /\ pc = "reading" /\ item <= N
    /\ item' = item + 1
    /\ results' = [results EXCEPT ![item] =
           IF @ # "submitted" \/ LogOf(item) = "queued" THEN @
           ELSE IF LogOf(item) = "success" THEN "succeeded" ELSE "failed"]
    /\ UNCHANGED <<pc, built>> /\ Quietly

\* After a round: all are known, or the admin or the deadline ends it.
Pending == {i \in Items : results[i] = "submitted"}
EndRound ==
    /\ pc = "reading" /\ item = N + 1
    /\ output' = results
    /\ \/ /\ results' = [i \in Items |-> IF i \in Pending THEN "unverified" ELSE results[i]]
          /\ pc' = "done" /\ UNCHANGED item
       \/ /\ Pending # {} /\ ~stopRequested
          /\ item' = 1 /\ UNCHANGED <<pc, results>>
    /\ UNCHANGED <<built, uploads, stored, faults, sentSince>> /\ InThread

\* The task's result replaces its output.
Finish ==
    /\ pc = "done" /\ pc' = "ended"
    /\ output' = results
    /\ UNCHANGED <<item, built, results, uploads, stored, faults, sentSince>> /\ InThread

\* The worker dies.  What was written last is kept; the task is delivered again.
WorkerDies ==
    /\ pc \notin {"queued", "ended"} /\ Fault
    /\ pc' = IF starts < MaxStarts THEN "queued" ELSE "ended"
    /\ item' = 1 /\ built' = "same" /\ results' = Nothing
    /\ UNCHANGED <<uploads, stored, output, sentSince>> /\ InThread

----------------------------------------------------------------------------
Run == \/ Start \/ NextItem \/ PreflightItem \/ CreateBackup \/ BuildDeposit \/ SubmitDoiData
       \/ Persist \/ ReportProgress \/ ReadLog \/ EndRound \/ Finish

Next ==
    \/ Run \/ CrossrefProcesses \/ SendFails \/ WorkerDies \/ RequestStop
    \/ \E i \in Items : Edit(i)

Spec == Init /\ [][Next]_vars
----------------------------------------------------------------------------
(* Properties. *)

Statuses == {"none", "ready", "skipped", "error", "submitted", "succeeded", "failed", "unverified"}
TypeOK ==
    /\ data \in [Items -> Shapes] /\ record \in [Items -> Shapes \cup {NoCopy}]
    /\ backups \subseteq Items \X Shapes \X (1..MaxStarts)
    /\ uploads \in Seq([item : Items, shape : Shapes, isConnected : BOOLEAN,
                        status : {"queued", "success", "failure"}])
    /\ crossref \in [Items -> [shape : Shapes, isConnected : BOOLEAN]]
    /\ known \in Shapes /\ checkOnly \in BOOLEAN /\ stopRequested \in BOOLEAN
    /\ pc \in Sending \cup {"queued", "next", "check", "persist", "report", "reading", "done", "ended"}
    /\ item \in 1..N + 1 /\ built \in Shapes
    /\ results \in [Items -> Statuses] /\ output \in [Items -> Statuses]
    /\ starts \in 0..MaxStarts /\ edits \in 0..MaxEdits /\ faults \in 0..MaxFaults
    /\ editedSince \subseteq Items /\ sentSince \subseteq (1..MaxStarts) \X Items

\* Crossref's record changes its DOI or type, or a journal or issue that was known,
\* only if the item was edited between its check and its deposit: never by an edit
\* before the check, an old copy, a crash or a second start.
ShapesKept == \A i \in Items : ~Fits(crossref[i].shape, known) => i \in editedSince

\* A run that has been asked to stop sends the item it is at and no other, also
\* when the worker dies and the task is started again.
StopIsHeeded == Cardinality(sentSince) <= 1

\* An item is said to have succeeded only if Crossref took a deposit of it with
\* its relationships.
SuccessIsReal ==
    \A i \in Items : output[i] = "succeeded" =>
        \E n \in DOMAIN uploads :
            uploads[n].item = i /\ uploads[n].isConnected /\ uploads[n].status = "success"
============================================================================
