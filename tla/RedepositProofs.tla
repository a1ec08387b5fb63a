--------------------------- MODULE RedepositProofs ---------------------------
(***************************************************************************)
(* Theorems about Redeposit, for every number of items, starts, edits and  *)
(* faults.                                                                 *)
(***************************************************************************)
EXTENDS Redeposit, FiniteSetTheorems, TLAPS

UploadRow == [item : Items, shape : Shapes, isConnected : BOOLEAN,
              status : {"queued", "success", "failure"}]

\* A task that is under way has been started.
Started == pc \notin {"queued", "ended"} => starts \in 1..MaxStarts

\* It works on an item of the plan.
AtItem == pc \in Sending \cup {"check", "persist", "report"} => item \in Items

Types ==
    /\ TypeOK
    /\ Started
    /\ AtItem

\* What was sent since the stop was sent for one item in one start, and no other
\* is checked for sending before the task has seen the stop.
StopInv ==
    /\ ~stopRequested => sentSince = {}
    /\ \A x, y \in sentSince : x = y
    /\ \A x \in sentSince : pc # "check" /\ (pc \in Sending => x = <<starts, item>>)

\* What an item that was not edited after its check has fits what was known of it,
\* everywhere: at Crossref, on the way there, in its record, in the deposit being made.
SameShape(i) ==
    /\ Fits(crossref[i].shape, known)
    /\ \A n \in DOMAIN uploads : uploads[n].item = i => Fits(uploads[n].shape, known)
    /\ record[i] # NoCopy => Fits(record[i], known)
    /\ item = i /\ pc \in Sending => Fits(data[i], known)
    /\ item = i /\ pc \in {"upload", "uploadConnected", "persist"} => Fits(built, known)
ShapeInv ==
    /\ known \in {"same", "bare"}
    /\ \A i \in Items \ editedSince : SameShape(i)

Took(i) ==
    \E n \in DOMAIN uploads :
        uploads[n].item = i /\ uploads[n].isConnected /\ uploads[n].status = "success"

\* An item has a last upload with its relationships.
HasLast(i) == \E n \in LastFile(i) : \A m \in LastFile(i) : m <= n

\* A result is of an upload with relationships, and a success of one that Crossref took.
ResultOf(i) ==
    /\ pc = "persist" /\ item = i => HasLast(i)
    /\ results[i] = "submitted" => HasLast(i)
    /\ results[i] = "succeeded" \/ output[i] = "succeeded" => Took(i)
ResultInv == \A i \in Items : ResultOf(i)
----------------------------------------------------------------------------
(* The uploads. *)

\* The steps that upload add one row, for the item and of the deposit at hand.
Adds == \E u \in UploadRow :
    /\ uploads' = Append(uploads, u)
    /\ u.item = item /\ u.shape = built /\ u.status = "queued"
    /\ u.isConnected <=> pc = "uploadConnected"
    /\ pc \in {"upload", "uploadConnected"}
Settles == \E n \in DOMAIN uploads, s \in {"success", "failure"} :
    /\ uploads[n].status = "queued"
    /\ uploads' = [uploads EXCEPT ![n].status = s]

\* What an action does to the uploads.
LEMMA UploadSteps ==
    ASSUME Types, [Next]_vars
    PROVE  uploads' = uploads \/ Adds \/ (Settles /\ CrossrefProcesses)
<1>1. ASSUME Upload, pc \in {"upload", "uploadConnected"}
      PROVE  Adds
  <2> DEFINE u == [item |-> item, shape |-> built, status |-> "queued",
                   isConnected |-> pc = "uploadConnected"]
  <2>1. item \in Items /\ built \in Shapes
    BY <1>1 DEF Types, AtItem, Sending, TypeOK
  <2>2. u \in UploadRow
    BY <2>1 DEF UploadRow
  <2>3. uploads' = Append(uploads, u)
    BY <1>1 DEF Upload
  <2> QED
    BY <1>1, <2>2, <2>3 DEF Adds
<1>2. CASE CrossrefProcesses
  BY <1>2 DEF CrossrefProcesses, Settles
<1>3. CASE SubmitDoiData
  BY <1>1, <1>3 DEF SubmitDoiData
<1>4. CASE SendFails
  BY <1>1, <1>4 DEF SendFails
<1>5. CASE Start \/ NextItem \/ PreflightItem \/ CreateBackup \/ BuildDeposit \/ Persist
           \/ ReportProgress \/ ReadLog \/ EndRound \/ Finish \/ WorkerDies
  BY <1>5 DEF Start, NextItem, PreflightItem, CreateBackup, BuildDeposit, Persist,
     ReportProgress, ReadLog, EndRound, Finish, WorkerDies, Quietly, service
<1>6. ASSUME RequestStop \/ \E i \in Items : Edit(i)
      PROVE  uploads' = uploads
  BY <1>6 DEF RequestStop, Edit, service
<1>7. CASE UNCHANGED vars
  BY <1>7 DEF vars, service
<1> QED
  BY <1>2, <1>3, <1>4, <1>5, <1>6, <1>7 DEF Next, Run

\* Uploads are kept, and what Crossref has said of one it does not take back.
LEMMA UploadsAreKept ==
    ASSUME Types, [Next]_vars
    PROVE  /\ uploads' \in Seq(UploadRow)
           /\ \A n \in DOMAIN uploads :
                /\ n \in DOMAIN uploads'
                /\ uploads'[n].item = uploads[n].item
                /\ uploads'[n].isConnected = uploads[n].isConnected
                /\ uploads'[n].shape = uploads[n].shape
                /\ uploads[n].status = "success" => uploads'[n].status = "success"
           /\ \A n \in DOMAIN uploads' \ DOMAIN uploads :
                /\ Adds
                /\ uploads'[n].item = item /\ uploads'[n].shape = built
<1>1. uploads \in Seq(UploadRow)
  BY DEF Types, TypeOK, UploadRow
<1>2. CASE uploads' = uploads
  BY <1>1, <1>2
<1>3. CASE Adds
  <2>1. PICK u \in UploadRow : uploads' = Append(uploads, u) /\ u.item = item /\ u.shape = built
    BY <1>3 DEF Adds
  <2>2. /\ uploads' \in Seq(UploadRow)
        /\ Len(uploads') = Len(uploads) + 1
        /\ \A n \in 1..Len(uploads) : uploads'[n] = uploads[n]
        /\ uploads'[Len(uploads) + 1] = u
    BY <1>1, <2>1
  <2>3. DOMAIN uploads = 1..Len(uploads) /\ DOMAIN uploads' = 1..Len(uploads) + 1
        /\ Len(uploads) \in Nat
    BY <1>1, <2>2
  <2>4. \A n \in DOMAIN uploads' \ DOMAIN uploads : n = Len(uploads) + 1
    BY <2>3
  <2>5. DOMAIN uploads \subseteq DOMAIN uploads'
    BY <2>3
  <2> QED
    BY <1>3, <2>1, <2>2, <2>3, <2>4, <2>5
<1>4. CASE Settles
  <2>1. PICK n \in DOMAIN uploads, s \in {"success", "failure"} :
            /\ uploads[n].status = "queued"
            /\ uploads' = [uploads EXCEPT ![n].status = s]
    BY <1>4 DEF Settles
  <2>2. uploads[n] \in UploadRow
    BY <1>1, <2>1
  <2> DEFINE r == [uploads[n] EXCEPT !.status = s]
  <2>3. /\ r \in UploadRow /\ r.item = uploads[n].item /\ r.shape = uploads[n].shape
        /\ r.isConnected = uploads[n].isConnected
    BY <2>2 DEF UploadRow
  <2>4. uploads' = [uploads EXCEPT ![n] = r]
    BY <2>1
  <2> HIDE DEF r
  <2>5. uploads' \in Seq(UploadRow) /\ DOMAIN uploads' = DOMAIN uploads
    BY <1>1, <2>3, <2>4
  <2>6. \A m \in DOMAIN uploads : uploads'[m] = IF m = n THEN r ELSE uploads[m]
    BY <2>4
  <2> QED
    BY <1>4, <2>1, <2>3, <2>5, <2>6
<1> QED
  BY <1>2, <1>3, <1>4, UploadSteps
----------------------------------------------------------------------------
(* Types. *)

LEMMA InitTypes == Init => Types
<1> SUFFICES ASSUME Init PROVE Types
  OBVIOUS
<1>1. "same" \in Shapes /\ known \in Shapes /\ 1 \in Items /\ 1 \in 1..N + 1
  BY BoundsAssumption DEF Init, Shapes, Items
<1>2. record \in [Items -> Shapes \cup {NoCopy}]
  BY <1>1 DEF Init
<1>3. uploads \in Seq([item : Items, shape : Shapes, isConnected : BOOLEAN,
                       status : {"queued", "success", "failure"}])
  BY DEF Init
<1>4. crossref \in [Items -> [shape : Shapes, isConnected : BOOLEAN]]
  BY <1>1 DEF Init
<1>5. results \in [Items -> Statuses] /\ output \in [Items -> Statuses]
  BY DEF Init, Nothing, Statuses
<1>6. /\ data \in [Items -> Shapes] /\ built \in Shapes
      /\ starts \in 0..MaxStarts /\ edits \in 0..MaxEdits /\ faults \in 0..MaxFaults
  BY <1>1, BoundsAssumption DEF Init
<1>7. Started /\ AtItem
  BY DEF Init, Started, AtItem, Sending
<1> QED
  BY <1>1, <1>2, <1>3, <1>4, <1>5, <1>6, <1>7 DEF Init, Types, TypeOK

LEMMA NextTypes == Types /\ [Next]_vars => Types'
<1> SUFFICES ASSUME Types, [Next]_vars PROVE Types'
  OBVIOUS
<1> USE BoundsAssumption
<1>1. uploads' \in Seq([item : Items, shape : Shapes, isConnected : BOOLEAN,
                        status : {"queued", "success", "failure"}])
  BY UploadsAreKept DEF UploadRow
<1>2. CASE RequestStop
  BY <1>1, <1>2 DEF RequestStop, Types, TypeOK, Started, AtItem, Sending, editors, service,
     stored, thread, fixed
<1>3. CASE \E i \in Items : Edit(i)
  <2>1. PICK i \in Items : Edit(i)
    BY <1>3
  <2>2. data' \in [Items -> Shapes]
    <3>1. PICK shape \in Shapes : data' = [data EXCEPT ![i] = shape]
      BY <2>1, EditedToAssumption DEF Edit
    <3> QED
      BY <3>1 DEF Types, TypeOK
  <2>3. edits' \in 0..MaxEdits /\ editedSince' \subseteq Items
    BY <2>1 DEF Edit, Types, TypeOK
  <2> QED
    BY <1>1, <2>1, <2>2, <2>3 DEF Edit, Types, TypeOK, Started, AtItem, Sending, service,
       stored, thread, fixed
<1>4. CASE CrossrefProcesses
  <2>1. PICK n \in DOMAIN uploads :
            \/ crossref' = [crossref EXCEPT ![uploads[n].item] =
                   [shape |-> uploads[n].shape, isConnected |-> uploads[n].isConnected]]
            \/ crossref' = crossref
    BY <1>4 DEF CrossrefProcesses
  <2>2. uploads[n] \in UploadRow
    <3>1. uploads \in Seq(UploadRow)
      BY DEF Types, TypeOK, UploadRow
    <3> QED
      BY <2>1, <3>1
  <2>3. [shape |-> uploads[n].shape, isConnected |-> uploads[n].isConnected]
            \in [shape : Shapes, isConnected : BOOLEAN]
    BY <2>2 DEF UploadRow
  <2>4. crossref' \in [Items -> [shape : Shapes, isConnected : BOOLEAN]]
    BY <2>1, <2>3 DEF Types, TypeOK
  <2> QED
    BY <1>1, <1>4, <2>4 DEF CrossrefProcesses, Types, TypeOK, Started, AtItem, Sending,
       editors, stored, thread, fixed
<1>5. CASE Start
  <2>1. starts' \in 1..MaxStarts /\ item' \in Items
    BY <1>5 DEF Start, Types, TypeOK, Items
  <2>2. results' \in [Items -> Statuses]
    BY <1>5 DEF Start, Nothing, Statuses
  <2> QED
    BY <1>1, <1>5, <2>1, <2>2 DEF Start, Types, TypeOK, Started, AtItem, Sending, editors,
       service, stored, Items
<1>6. CASE NextItem
  BY <1>1, <1>6 DEF NextItem, Quietly, InThread, Types, TypeOK, Started, AtItem, Sending,
     Items, editors, stored, fixed
<1>7. CASE PreflightItem
  <2>1. results' \in [Items -> Statuses]
    BY <1>7 DEF PreflightItem, Types, TypeOK, Statuses
  <2> QED
    BY <1>1, <1>7, <2>1 DEF PreflightItem, Quietly, InThread, Types, TypeOK, Started, AtItem,
       Sending, editors, stored, fixed
<1>8. CASE CreateBackup
  <2>1. backups' \subseteq Items \X Shapes \X (1..MaxStarts)
    <3>1. item \in Items /\ starts \in 1..MaxStarts
      BY <1>8 DEF CreateBackup, Types, Started, AtItem, Sending
    <3>2. CopyOf(item) \subseteq Items \X Shapes \X (1..MaxStarts)
      BY <3>1 DEF CopyOf, Types, TypeOK
    <3> QED
      BY <1>8, <3>2 DEF CreateBackup, Types, TypeOK
  <2> QED
    BY <1>1, <1>8, <2>1 DEF CreateBackup, InThread, Types, TypeOK, Started, AtItem, Sending,
       editors, fixed
<1>9. CASE BuildDeposit
  <2>1. built' \in Shapes
    BY <1>9 DEF BuildDeposit, Types, TypeOK, AtItem, Sending
  <2> QED
    BY <1>1, <1>9, <2>1 DEF BuildDeposit, Quietly, InThread, Types, TypeOK, Started, AtItem,
       Sending, editors, stored, fixed
<1>10. ASSUME Upload, pc \in {"upload", "uploadConnected"}
       PROVE  sentSince' \subseteq (1..MaxStarts) \X Items
  <2>1. item \in Items /\ starts \in 1..MaxStarts
    BY <1>10 DEF Types, Started, AtItem, Sending
  <2> QED
    BY <1>10, <2>1 DEF Upload, Types, TypeOK
<1>11. CASE SubmitDoiData
  <2>1. sentSince' \subseteq (1..MaxStarts) \X Items
    BY <1>10, <1>11 DEF SubmitDoiData
  <2> QED
    BY <1>1, <1>11, <2>1 DEF SubmitDoiData, InThread, Types, TypeOK, Started, AtItem, Sending,
       editors, stored, fixed
<1>12. CASE Persist
  <2>1. "same" \in Shapes
    BY DEF Shapes
  <2>2. /\ record' \in [Items -> Shapes \cup {NoCopy}]
        /\ results' \in [Items -> Statuses]
    BY <1>12 DEF Persist, Types, TypeOK, Statuses
  <2> QED
    BY <1>1, <1>12, <2>1, <2>2 DEF Persist, InThread, Types, TypeOK, Started, AtItem, Sending,
       editors, fixed
<1>13. CASE SendFails
  <2>1. "same" \in Shapes
    BY DEF Shapes
  <2>2. record' \in [Items -> Shapes \cup {NoCopy}]
    BY <1>13 DEF SendFails, Types, TypeOK
  <2>3. results' \in [Items -> Statuses]
    BY <1>13 DEF SendFails, Types, TypeOK, Statuses
  <2>4. sentSince' \subseteq (1..MaxStarts) \X Items
    BY <1>10, <1>13 DEF SendFails, Types, TypeOK
  <2>5. backups' \subseteq Items \X Shapes \X (1..MaxStarts)
    BY <1>13 DEF SendFails, Types, TypeOK
  <2>6. faults' \in 0..MaxFaults
    BY <1>13 DEF SendFails, Fault, Types, TypeOK
  <2>7. pc' = "report" /\ built' = "same" /\ item' = item /\ output' = output /\ starts' = starts
    BY <1>13 DEF SendFails, InThread, fixed
  <2>8. item \in Items /\ starts \in 1..MaxStarts
    BY <1>13 DEF SendFails, Types, Started, AtItem, Sending
  <2> QED
    BY <1>1, <1>13, <2>1, <2>2, <2>3, <2>4, <2>5, <2>6, <2>7, <2>8 DEF SendFails, InThread,
       Types, TypeOK, Started, AtItem, Sending, editors, fixed
<1>14. CASE ReportProgress
  <2>1. item \in Items
    BY <1>14 DEF ReportProgress, Types, AtItem
  <2>2. item' \in 1..N + 1
    BY <1>14, <2>1 DEF ReportProgress, Items
  <2>3. output' \in [Items -> Statuses]
    BY <1>14 DEF ReportProgress, Types, TypeOK
  <2> QED
    BY <1>1, <1>14, <2>2, <2>3 DEF ReportProgress, InThread, Types, TypeOK, Started, AtItem,
       Sending, editors, stored, fixed
<1>15. CASE ReadLog
  <2>1. item' \in 1..N + 1
    BY <1>15 DEF ReadLog, Types, TypeOK
  <2>2. \A i \in Items : results[i] \in Statuses
    BY DEF Types, TypeOK
  <2>3. PICK r \in Statuses : results' = [results EXCEPT ![item] = r]
    <3>1. item \in Items
      BY <1>15 DEF ReadLog, Types, TypeOK, Items
    <3> DEFINE r == IF results[item] # "submitted" \/ LogOf(item) = "queued" THEN results[item]
                    ELSE IF LogOf(item) = "success" THEN "succeeded" ELSE "failed"
    <3>2. r \in Statuses
      BY <2>2, <3>1 DEF Statuses
    <3>3. results' = [results EXCEPT ![item] = r]
      BY <1>15 DEF ReadLog
    <3> QED
      BY <3>2, <3>3
  <2>4. results' \in [Items -> Statuses]
    BY <2>3 DEF Types, TypeOK
  <2> QED
    BY <1>1, <1>15, <2>1, <2>4 DEF ReadLog, Quietly, InThread, Types, TypeOK, Started, AtItem,
       Sending, editors, stored, fixed
<1>16. CASE EndRound
  <2>1. results' \in [Items -> Statuses]
    BY <1>16 DEF EndRound, Types, TypeOK, Statuses
  <2>2. item' \in 1..N + 1 /\ output' \in [Items -> Statuses]
    BY <1>16 DEF EndRound, Types, TypeOK
  <2> QED
    BY <1>1, <1>16, <2>1, <2>2 DEF EndRound, InThread, Types, TypeOK, Started, AtItem,
       Sending, editors, stored, fixed
<1>17. CASE Finish
  BY <1>1, <1>17 DEF Finish, InThread, Types, TypeOK, Started, AtItem, Sending, editors,
     stored, fixed
<1>18. CASE WorkerDies
  <2>1. /\ "same" \in Shapes /\ 1 \in 1..N + 1
        /\ results' \in [Items -> Statuses]
        /\ faults' \in 0..MaxFaults
    BY <1>18 DEF WorkerDies, Fault, Nothing, Statuses, Shapes, Types, TypeOK
  <2> QED
    BY <1>1, <1>18, <2>1 DEF WorkerDies, InThread, Types, TypeOK, Started, AtItem, Sending,
       editors, stored, fixed
<1>19. CASE UNCHANGED vars
  BY <1>1, <1>19 DEF Types, TypeOK, Started, AtItem, Sending, vars, editors, service, stored,
     thread, fixed
<1> QED
  BY <1>2, <1>3, <1>4, <1>5, <1>6, <1>7, <1>8, <1>9, <1>11, <1>12, <1>13, <1>14, <1>15,
     <1>16, <1>17, <1>18, <1>19 DEF Next, Run

\* Every variable of a redeposit keeps its type.
THEOREM RedepositTypeCorrect == Spec => []TypeOK
<1>1. Types => TypeOK
  BY DEF Types
<1> QED
  BY InitTypes, NextTypes, <1>1, PTL DEF Spec
----------------------------------------------------------------------------
(* The stop. *)

LEMMA InitStopInv == Init => StopInv
BY DEF Init, StopInv

LEMMA NextStopInv == Types /\ StopInv /\ [Next]_vars => StopInv'
<1> SUFFICES ASSUME Types, StopInv, [Next]_vars PROVE StopInv'
  OBVIOUS
\* Where nothing is sent, it is enough that the item at hand stays the one.
<1>1. ASSUME sentSince' = sentSince, stopRequested => stopRequested',
             pc' = "check" => pc = "check" \/ ~stopRequested,
             pc' \in Sending => \/ pc = "check"
                                \/ pc \in Sending /\ item' = item /\ starts' = starts
      PROVE  StopInv'
  BY <1>1 DEF StopInv, Sending, Types, TypeOK
<1>2. ASSUME Upload, pc \in {"upload", "uploadConnected"}, item' = item, starts' = starts,
             stopRequested' = stopRequested, pc' # "check"
      PROVE  StopInv'
  <2>1. \A x \in sentSince : x = <<starts, item>>
    BY <1>2 DEF StopInv, Sending
  <2>2. \A x \in sentSince' : x = <<starts, item>>
    BY <1>2, <2>1 DEF Upload
  <2>3. ~stopRequested' => sentSince' = {}
    BY <1>2 DEF Upload, StopInv
  <2> QED
    BY <1>2, <2>2, <2>3 DEF StopInv
<1>3. CASE SubmitDoiData
  BY <1>2, <1>3 DEF SubmitDoiData, InThread, fixed
<1>4. CASE SendFails
  <2>1. pc' = "report" /\ item' = item /\ starts' = starts /\ stopRequested' = stopRequested
    BY <1>4 DEF SendFails, InThread, fixed
  <2>2. sentSince' = sentSince \/ (Upload /\ pc \in {"upload", "uploadConnected"})
    BY <1>4 DEF SendFails
  <2> QED
    BY <1>1, <1>2, <2>1, <2>2 DEF Sending
<1>5. CASE Start \/ NextItem \/ PreflightItem \/ CreateBackup \/ BuildDeposit \/ Persist
           \/ ReportProgress \/ ReadLog \/ EndRound \/ Finish \/ WorkerDies
  <2>1. sentSince' = sentSince /\ stopRequested' = stopRequested
    BY <1>5 DEF Start, NextItem, PreflightItem, CreateBackup, BuildDeposit, Persist,
       ReportProgress, ReadLog, EndRound, Finish, WorkerDies, Quietly, InThread
  <2>2. pc' = "check" => pc = "check" \/ ~stopRequested
    BY <1>5 DEF Start, NextItem, Stops, PreflightItem, CreateBackup, BuildDeposit, Persist,
       ReportProgress, ReadLog, EndRound, Finish, WorkerDies
  <2>3. pc' \in Sending => \/ pc = "check"
                           \/ pc \in Sending /\ item' = item /\ starts' = starts
    BY <1>5 DEF Start, NextItem, PreflightItem, CreateBackup, BuildDeposit, Persist,
       ReportProgress, ReadLog, EndRound, Finish, WorkerDies, Quietly, InThread, fixed, Sending
  <2> QED
    BY <1>1, <2>1, <2>2, <2>3
<1>6. ASSUME CrossrefProcesses \/ RequestStop \/ \E i \in Items : Edit(i)
      PROVE  StopInv'
  <2>1. /\ sentSince' = sentSince /\ pc' = pc /\ item' = item /\ starts' = starts
        /\ stopRequested => stopRequested'
    <3>1. CASE CrossrefProcesses
      BY <3>1 DEF CrossrefProcesses, thread, fixed
    <3>2. CASE RequestStop
      BY <3>2 DEF RequestStop, thread, fixed
    <3>3. ASSUME NEW i \in Items, Edit(i)
          PROVE  /\ sentSince' = sentSince /\ pc' = pc /\ item' = item /\ starts' = starts
                 /\ stopRequested => stopRequested'
      BY <3>3 DEF Edit, thread, fixed
    <3> QED
      BY <1>6, <3>1, <3>2, <3>3
  <2> QED
    BY <1>1, <2>1
<1>7. CASE UNCHANGED vars
  BY <1>7 DEF vars, thread, fixed, StopInv
<1> QED
  BY <1>3, <1>4, <1>5, <1>6, <1>7 DEF Next, Run

\* A run that has been asked to stop sends the item it is at and no other, in
\* whatever start of the task.
THEOREM StopsAreHeeded == Spec => []StopIsHeeded
<1>1. StopInv => StopIsHeeded
  <2> SUFFICES ASSUME StopInv PROVE StopIsHeeded
    OBVIOUS
  <2>1. CASE sentSince = {}
    BY <2>1, FS_EmptySet DEF StopIsHeeded
  <2>2. CASE sentSince # {}
    <3>1. PICK x \in sentSince : TRUE
      BY <2>2
    <3>2. sentSince = {x}
      BY <3>1 DEF StopInv
    <3> QED
      BY <3>2, FS_Singleton DEF StopIsHeeded
  <2> QED
    BY <2>1, <2>2
<1>2. Init => Types /\ StopInv
  BY InitTypes, InitStopInv
<1>3. Types /\ StopInv /\ [Next]_vars => (Types /\ StopInv)'
  BY NextTypes, NextStopInv
<1> QED
  BY <1>1, <1>2, <1>3, PTL DEF Spec
----------------------------------------------------------------------------
(* The shapes. *)

LEMMA InitShapeInv == Init => ShapeInv
BY DEF Init, ShapeInv, SameShape, Sending, Fits

\* The check keeps to what was known at first, whatever it compares with.
LEMMA SafeFits ==
    ASSUME known \in {"same", "bare"}, NEW i \in Items, SameShape(i), Safe(i)
    PROVE  Fits(data[i], known)
BY DEF Safe, Previous, Told, SameShape, Fits

LEMMA KnownStays == [Next]_vars => known' = known
BY DEF Next, Run, Start, NextItem, PreflightItem, CreateBackup, BuildDeposit, Persist,
   SubmitDoiData, SendFails, ReportProgress, ReadLog, EndRound, Finish, WorkerDies, Edit,
   CrossrefProcesses, RequestStop, Quietly, InThread, fixed, vars

LEMMA NextShapeInv == Types /\ ShapeInv /\ [Next]_vars => ShapeInv'
<1> SUFFICES ASSUME Types, ShapeInv, [Next]_vars, NEW i \in Items \ editedSince'
             PROVE  SameShape(i)'
  BY KnownStays DEF ShapeInv
<1>known. known' = known /\ known \in {"same", "bare"}
  BY KnownStays DEF ShapeInv
<1>1. editedSince \subseteq editedSince'
  <2>1. editedSince' = editedSince \/ \E j \in Items : Edit(j)
    BY DEF Next, Run, Start, NextItem, PreflightItem, CreateBackup, BuildDeposit, Persist,
       SubmitDoiData, SendFails, ReportProgress, ReadLog, EndRound, Finish, WorkerDies,
       CrossrefProcesses, RequestStop, Quietly, InThread, editors, vars
  <2> QED
    BY <2>1 DEF Edit
<1>2. SameShape(i)
  BY <1>1 DEF ShapeInv
<1>3. \A n \in DOMAIN uploads' : uploads'[n].item = i => Fits(uploads'[n].shape, known)
  <2> SUFFICES ASSUME NEW n \in DOMAIN uploads', uploads'[n].item = i
               PROVE  Fits(uploads'[n].shape, known)
    OBVIOUS
  <2>1. CASE n \in DOMAIN uploads
    BY <1>2, <2>1, UploadsAreKept DEF SameShape
  <2>2. CASE n \notin DOMAIN uploads
    <3>1. Adds /\ uploads'[n].item = item /\ uploads'[n].shape = built
      BY <2>2, UploadsAreKept
    <3> QED
      BY <1>2, <3>1 DEF Adds, SameShape
  <2> QED
    BY <2>1, <2>2
\* Where the task does not go on to build, the rest is as it was.
<1>4. ASSUME Fits(crossref'[i].shape, known), record'[i] # NoCopy => Fits(record'[i], known),
             item' = i /\ pc' \in Sending => Fits(data'[i], known),
             item' = i /\ pc' \in {"upload", "uploadConnected", "persist"} =>
                 Fits(built', known)
      PROVE  SameShape(i)'
  BY <1>3, <1>4, <1>known DEF SameShape, Fits
<1>5. CASE Start \/ NextItem \/ ReportProgress \/ ReadLog \/ EndRound \/ Finish \/ WorkerDies
  <2>1. /\ crossref' = crossref /\ record' = record
        /\ pc' \notin Sending \cup {"upload", "uploadConnected", "persist"}
    BY <1>5 DEF Start, NextItem, ReportProgress, ReadLog, EndRound, Finish, WorkerDies,
       Quietly, InThread, service, stored, Sending
  <2> QED
    BY <1>2, <1>4, <2>1 DEF SameShape
<1>6. CASE PreflightItem
  <2>1. /\ crossref' = crossref /\ record' = record /\ data' = data /\ item' = item
        /\ pc' = "report" \/ (pc' = "backup" /\ Safe(item))
    BY <1>6 DEF PreflightItem, Quietly, InThread, stored, editors
  <2>2. ASSUME item = i, Safe(item)
        PROVE  Fits(data[i], known)
    BY <1>2, <1>known, <2>2, SafeFits
  <2> QED
    BY <1>2, <1>4, <2>1, <2>2 DEF SameShape, Sending
<1>7. CASE CreateBackup \/ SubmitDoiData
  <2>1. /\ crossref' = crossref /\ record' = record /\ data' = data /\ item' = item
        /\ built' = built /\ pc \in Sending
        /\ \/ pc' \in {"disconnected", "connected"}
           \/ pc' = "persist" /\ pc = "uploadConnected"
    BY <1>7 DEF CreateBackup, SubmitDoiData, InThread, stored, editors, Sending
  <2> QED
    BY <1>2, <1>4, <2>1 DEF SameShape, Sending
<1>8. CASE BuildDeposit
  <2>1. /\ crossref' = crossref /\ record' = record /\ data' = data /\ item' = item
        /\ built' = data[item] /\ pc \in Sending
    BY <1>8 DEF BuildDeposit, Quietly, InThread, stored, editors, Sending
  <2> QED
    BY <1>2, <1>4, <2>1 DEF SameShape
<1>9. CASE Persist
  <2>1. /\ crossref' = crossref /\ pc = "persist" /\ pc' = "report"
        /\ record' = [record EXCEPT ![item] = built]
    BY <1>9 DEF Persist, InThread
  <2>2. record'[i] # NoCopy => Fits(record'[i], known)
    BY <1>2, <2>1 DEF SameShape, Types, TypeOK
  <2> QED
    BY <1>2, <1>4, <2>1, <2>2 DEF SameShape, Sending
<1>10. CASE SendFails
  <2>1. /\ crossref' = crossref /\ pc' = "report"
        /\ \/ record' = record
           \/ pc = "persist" /\ record' = [record EXCEPT ![item] = built]
    BY <1>10 DEF SendFails, InThread
  <2>2. record'[i] # NoCopy => Fits(record'[i], known)
    BY <1>2, <2>1 DEF SameShape, Types, TypeOK
  <2> QED
    BY <1>2, <1>4, <2>1, <2>2 DEF SameShape, Sending
<1>11. CASE CrossrefProcesses
  <2>1. /\ record' = record /\ data' = data /\ item' = item /\ pc' = pc /\ built' = built
    BY <1>11 DEF CrossrefProcesses, stored, editors, thread
  <2>2. PICK n \in DOMAIN uploads :
            \/ crossref' = [crossref EXCEPT ![uploads[n].item] =
                   [shape |-> uploads[n].shape, isConnected |-> uploads[n].isConnected]]
            \/ crossref' = crossref
    BY <1>11 DEF CrossrefProcesses
  <2>3. Fits(crossref'[i].shape, known)
    BY <1>2, <2>2 DEF SameShape, Types, TypeOK
  <2> QED
    BY <1>2, <1>4, <2>1, <2>3 DEF SameShape
<1>12. ASSUME \E j \in Items : Edit(j)
       PROVE  SameShape(i)'
  <2>1. PICK j \in Items : Edit(j)
    BY <1>12
  <2>2. /\ record' = record /\ crossref' = crossref /\ item' = item /\ pc' = pc
        /\ built' = built
    BY <2>1 DEF Edit, service, stored, thread
  <2>3. ASSUME item' = i, pc' \in Sending
        PROVE  Fits(data'[i], known)
    <3>1. j # i
      BY <2>1, <2>2, <2>3 DEF Edit
    <3>2. data'[i] = data[i]
      BY <2>1, <3>1 DEF Edit, Types, TypeOK
    <3> QED
      BY <1>2, <2>2, <2>3, <3>2 DEF SameShape
  <2> QED
    BY <1>2, <1>4, <2>2, <2>3 DEF SameShape
<1>13. CASE RequestStop \/ UNCHANGED vars
  BY <1>2, <1>4, <1>13 DEF RequestStop, vars, editors, service, stored, thread, SameShape
<1> QED
  BY <1>5, <1>6, <1>7, <1>8, <1>9, <1>10, <1>11, <1>12, <1>13 DEF Next, Run

\* Crossref's record changes its DOI or type, or a journal or issue that was known,
\* only by an edit between an item's check and its deposit.
THEOREM ShapesAreKept == Spec => []ShapesKept
<1>1. ShapeInv => ShapesKept
  BY DEF ShapeInv, SameShape, ShapesKept
<1>2. Init => Types /\ ShapeInv
  BY InitTypes, InitShapeInv
<1>3. Types /\ ShapeInv /\ [Next]_vars => (Types /\ ShapeInv)'
  BY NextTypes, NextShapeInv
<1> QED
  BY <1>1, <1>2, <1>3, PTL DEF Spec
----------------------------------------------------------------------------
(* The results. *)

LEMMA InitResultInv == Init => ResultInv
BY DEF Init, ResultInv, ResultOf, Nothing

\* What Crossref has taken it has taken for good.
LEMMA TookStays ==
    ASSUME Types, [Next]_vars, NEW i \in Items, Took(i)
    PROVE  Took(i)'
BY UploadsAreKept DEF Took

\* An item's last upload is the last of a longer list, or the new one.
LEMMA LastStays ==
    ASSUME Types, [Next]_vars, NEW i \in Items,
           \/ HasLast(i)
           \/ Adds /\ i = item /\ pc = "uploadConnected"
    PROVE  HasLast(i)'
<1>1. uploads \in Seq(UploadRow)
  BY DEF Types, TypeOK, UploadRow
<1>2. ASSUME NEW u \in UploadRow, uploads' = Append(uploads, u),
             HasLast(i) \/ (u.item = i /\ u.isConnected)
      PROVE  HasLast(i)'
  <2>1. /\ DOMAIN uploads = 1..Len(uploads) /\ DOMAIN uploads' = 1..Len(uploads) + 1
        /\ Len(uploads) \in Nat
        /\ \A n \in 1..Len(uploads) : uploads'[n] = uploads[n]
        /\ uploads'[Len(uploads) + 1] = u
    BY <1>1, <1>2
  <2>2. LastFile(i) \subseteq 1..Len(uploads) /\ LastFile(i)' \subseteq 1..Len(uploads) + 1
    BY <2>1 DEF LastFile
  <2>3. CASE u.item = i /\ u.isConnected
    <3>1. Len(uploads) + 1 \in LastFile(i)'
      BY <2>1, <2>3 DEF LastFile
    <3>2. \A m \in LastFile(i)' : m <= Len(uploads) + 1
      BY <2>1, <2>2
    <3> QED
      BY <3>1, <3>2 DEF HasLast
  <2>4. CASE ~(u.item = i /\ u.isConnected)
    <3>1. LastFile(i)' = LastFile(i)
      <4>1. ASSUME NEW n \in LastFile(i)'
            PROVE  n \in LastFile(i)
        <5>1. n \in 1..Len(uploads) + 1 /\ uploads'[n].item = i /\ uploads'[n].isConnected
          BY <2>1 DEF LastFile
        <5>2. n # Len(uploads) + 1
          BY <2>1, <2>4, <5>1
        <5>3. n \in 1..Len(uploads)
          BY <2>1, <5>1, <5>2
        <5> QED
          BY <2>1, <5>1, <5>3 DEF LastFile
      <4>2. ASSUME NEW n \in LastFile(i)
            PROVE  n \in LastFile(i)'
        BY <2>1, <2>2 DEF LastFile
      <4> QED
        BY <4>1, <4>2
    <3> QED
      BY <1>2, <2>4, <3>1 DEF HasLast
  <2> QED
    BY <2>3, <2>4
<1>3. CASE Adds
  <2>1. PICK u \in UploadRow :
            /\ uploads' = Append(uploads, u) /\ u.item = item
            /\ u.isConnected <=> pc = "uploadConnected"
    BY <1>3 DEF Adds
  <2> QED
    BY <1>2, <2>1
<1>4. ASSUME DOMAIN uploads' = DOMAIN uploads, HasLast(i)
      PROVE  HasLast(i)'
  <2>1. LastFile(i)' = LastFile(i)
    BY <1>4, UploadsAreKept DEF LastFile
  <2> QED
    BY <1>4, <2>1 DEF HasLast
<1>5. CASE Settles
  <2>1. DOMAIN uploads' = DOMAIN uploads
    BY <1>1, <1>5 DEF Settles
  <2>2. ~Adds
    <3>1. \A u \in UploadRow : Len(Append(uploads, u)) = Len(uploads) + 1
      BY <1>1
    <3>2. Len(uploads') = Len(uploads) /\ Len(uploads) \in Nat
      BY <1>1, <2>1, UploadsAreKept
    <3> QED
      BY <3>1, <3>2 DEF Adds
  <2> QED
    BY <1>4, <2>1, <2>2
<1>6. CASE uploads' = uploads /\ ~Adds
  BY <1>4, <1>6
<1> QED
  BY <1>3, <1>5, <1>6, UploadSteps

LEMMA NextResultInv == Types /\ ResultInv /\ [Next]_vars => ResultInv'
<1> SUFFICES ASSUME Types, ResultInv, [Next]_vars, NEW i \in Items
             PROVE  ResultOf(i)'
  BY DEF ResultInv
<1>1. ResultOf(i)
  BY DEF ResultInv
<1>2. /\ HasLast(i) => HasLast(i)'
      /\ Adds /\ item = i /\ pc = "uploadConnected" => HasLast(i)'
      /\ Took(i) => Took(i)'
  BY LastStays, TookStays
\* What an action must show of the item.
<1>3. ASSUME pc' = "persist" /\ item' = i => \/ pc = "persist" /\ item = i
                                             \/ Adds /\ item = i /\ pc = "uploadConnected",
             results'[i] = "submitted" => \/ results[i] = "submitted"
                                          \/ pc = "persist" /\ item = i,
             results'[i] = "succeeded" => results[i] = "succeeded" \/ Took(i),
             output'[i] = "succeeded" => results[i] = "succeeded" \/ output[i] = "succeeded"
      PROVE  ResultOf(i)'
  BY <1>1, <1>2, <1>3 DEF ResultOf
<1>4. CASE Start \/ NextItem \/ PreflightItem \/ CreateBackup \/ BuildDeposit \/ WorkerDies
  <2>1. pc' # "persist" /\ output' = output
    BY <1>4 DEF Start, NextItem, PreflightItem, CreateBackup, BuildDeposit, WorkerDies,
       Quietly
  <2>2. \/ results' = results \/ results' = Nothing
        \/ \E r \in {"ready", "skipped"} : results' = [results EXCEPT ![item] = r]
    BY <1>4 DEF Start, NextItem, PreflightItem, CreateBackup, BuildDeposit, WorkerDies
  <2>3. /\ results'[i] = "submitted" => results[i] = "submitted"
        /\ results'[i] = "succeeded" => results[i] = "succeeded"
    BY <2>2 DEF Nothing, Types, TypeOK
  <2> QED
    BY <1>3, <2>1, <2>3
<1>5. CASE SubmitDoiData
  <2>1. /\ results' = results /\ output' = output /\ item' = item
        /\ pc' = "persist" => pc = "uploadConnected"
    BY <1>5 DEF SubmitDoiData
  <2>2. Adds
    <3> DEFINE u == [item |-> item, shape |-> built, status |-> "queued",
                     isConnected |-> pc = "uploadConnected"]
    <3>1. item \in Items /\ built \in Shapes
      BY <1>5 DEF SubmitDoiData, Types, AtItem, Sending, TypeOK
    <3>2. u \in UploadRow
      BY <3>1 DEF UploadRow
    <3>3. uploads' = Append(uploads, u) /\ pc \in {"upload", "uploadConnected"}
      BY <1>5 DEF SubmitDoiData, Upload
    <3> QED
      BY <3>2, <3>3 DEF Adds
  <2> QED
    BY <1>3, <2>1, <2>2
<1>6. CASE Persist
  <2>1. /\ pc = "persist" /\ pc' = "report" /\ output' = output
        /\ results' = [results EXCEPT ![item] = "submitted"]
    BY <1>6 DEF Persist
  <2> QED
    BY <1>3, <2>1 DEF Types, TypeOK
<1>7. CASE SendFails
  <2>1. pc' = "report" /\ output' = output /\ results' = [results EXCEPT ![item] = "error"]
    BY <1>7 DEF SendFails
  <2> QED
    BY <1>3, <2>1 DEF Types, TypeOK
<1>8. CASE ReportProgress \/ Finish
  <2>1. pc' # "persist" /\ results' = results /\ output' \in {output, results}
    BY <1>8 DEF ReportProgress, Finish
  <2> QED
    BY <1>3, <2>1
<1>9. CASE ReadLog
  <2>1. pc' = "reading" /\ output' = output /\ item \in Items
    BY <1>9 DEF ReadLog, Quietly, Types, TypeOK, Items
  <2>2. results' = [results EXCEPT ![item] =
            IF @ # "submitted" \/ LogOf(item) = "queued" THEN @
            ELSE IF LogOf(item) = "success" THEN "succeeded" ELSE "failed"]
    BY <1>9 DEF ReadLog
  <2>3. CASE i # item
    <3>1. results'[i] = results[i]
      BY <2>2, <2>3 DEF Types, TypeOK
    <3> QED
      BY <1>3, <2>1, <3>1
  <2>4. CASE i = item
    <3>1. results'[i] = IF results[i] # "submitted" \/ LogOf(i) = "queued" THEN results[i]
                        ELSE IF LogOf(i) = "success" THEN "succeeded" ELSE "failed"
      BY <2>1, <2>2, <2>4 DEF Types, TypeOK
    <3>2. ASSUME HasLast(i), LogOf(i) = "success"
          PROVE  Took(i)
      <4> DEFINE n == CHOOSE n \in LastFile(i) : \A m \in LastFile(i) : m <= n
      <4>1. n \in LastFile(i)
        BY <3>2 DEF HasLast
      <4>2. uploads[n].status = "success"
        BY <3>2 DEF LogOf
      <4> HIDE DEF n
      <4> QED
        BY <4>1, <4>2 DEF LastFile, Took
    <3>3. results'[i] = "submitted" => results[i] = "submitted"
      BY <3>1
    <3>4. results'[i] = "succeeded" => results[i] = "succeeded" \/ Took(i)
      BY <1>1, <3>1, <3>2 DEF ResultOf
    <3> QED
      BY <1>3, <2>1, <3>3, <3>4
  <2> QED
    BY <2>3, <2>4
<1>10. CASE EndRound
  <2>1. /\ pc' # "persist" /\ output' = results
        /\ \/ results' = results
           \/ results' = [j \in Items |-> IF j \in Pending THEN "unverified" ELSE results[j]]
    BY <1>10 DEF EndRound
  <2>2. results'[i] = results[i] \/ results'[i] = "unverified"
    BY <2>1
  <2> QED
    BY <1>3, <2>1, <2>2
<1>11. ASSUME CrossrefProcesses \/ RequestStop \/ \E j \in Items : Edit(j)
       PROVE  ResultOf(i)'
  <2>1. pc' = pc /\ item' = item /\ results' = results /\ output' = output
    <3>1. CASE CrossrefProcesses
      BY <3>1 DEF CrossrefProcesses, thread
    <3>2. CASE RequestStop
      BY <3>2 DEF RequestStop, thread
    <3>3. ASSUME NEW j \in Items, Edit(j)
          PROVE  pc' = pc /\ item' = item /\ results' = results /\ output' = output
      BY <3>3 DEF Edit, thread
    <3> QED
      BY <1>11, <3>1, <3>2, <3>3
  <2> QED
    BY <1>3, <2>1
<1>12. CASE UNCHANGED vars
  BY <1>3, <1>12 DEF vars, thread
<1> QED
  BY <1>4, <1>5, <1>6, <1>7, <1>8, <1>9, <1>10, <1>11, <1>12 DEF Next, Run

\* An item is said to have succeeded only if Crossref took a deposit of it with its
\* relationships.
THEOREM SuccessesAreReal == Spec => []SuccessIsReal
<1>1. ResultInv => SuccessIsReal
  BY DEF ResultInv, ResultOf, Took, SuccessIsReal
<1>2. Init => Types /\ ResultInv
  BY InitTypes, InitResultInv
<1>3. Types /\ ResultInv /\ [Next]_vars => (Types /\ ResultInv)'
  BY NextTypes, NextResultInv
<1> QED
  BY <1>1, <1>2, <1>3, PTL DEF Spec
============================================================================
