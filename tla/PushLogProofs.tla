---------------------------- MODULE PushLogProofs ----------------------------
(***************************************************************************)
(* Theorems about PushLog, for every number of tasks, attempts, rows and   *)
(* faults: a running row that is not stranded is alone, and its task       *)
(* cannot be acknowledged before it.                                       *)
(***************************************************************************)
EXTENDS PushLog, WellFoundedInduction, TLAPS

PushStages == {"none", "checked", "adding", "finding", "adopting", "creating", "answered",
               "pushing", "finishing", "reporting"}
PushRow == [stage : PushStages, row : 0..MaxRows, status : Statuses \cup {"none"}]
LogRow == [status : Statuses, task : Tasks, fresh : BOOLEAN]
MainStages == {"idle", "listening", "finding", "failing", "saving", "acking"}
MainRow == [stage : MainStages, row : 0..MaxRows]

HandlerStages == {"none", "checked", "adding", "finding", "adopting", "creating", "answered"}
ThreadStages == {"none", "finding", "adopting", "creating", "pushing", "finishing", "reporting"}

\* The stages that an actor can be at, and what it holds there.
PushFits(a, t) ==
    /\ push[a][t].stage \in IF a = "handler" THEN HandlerStages ELSE ThreadStages
    /\ push[a][t].stage = "adopting" => push[a][t].row \in DOMAIN log
    /\ push[a][t].stage = "finishing" => push[a][t].status \in {"success", "error"}

Types ==
    /\ TypeOK
    /\ Len(log) <= MaxRows
    /\ \A a \in Actors, t \in Tasks : PushFits(a, t)

\* A message is held as long as the main thread is at its task, is not sent before
\* the handler sends it, and is not acknowledged without an attempt.  A thread
\* outlives its task's place in the main thread only if that was acknowledged.
TaskFits(t) ==
    /\ ~MainAt(t, "idle") => message[t] = "held"
    /\ push["handler"][t].stage \in {"none", "checked", "adding"} => message[t] = "none"
    /\ attempts[t] = 0 => MainAt(t, "idle") /\ message[t] \in {"none", "ready"}
    /\ HasThread(t) => ~MainAt(t, "idle") \/ message[t] = "acked"

\* What the named task of a running row is at, if the row is not stranded: its
\* thread will find the row, holds it, or has failed, and then the main thread will
\* find it.
Attended(i, t) ==
    /\ MainAt(t, "idle") => message[t] # "acked"
    /\ MainAt(t, "listening") =>
         \/ At("thread", t, "finding")
         \/ push["thread"][t].stage \in {"pushing", "finishing"} /\ push["thread"][t].row = i
         \/ At("thread", t, "reporting") /\ push["thread"][t].status = "error"
    /\ MainAt(t, "failing") => main[t].row = i
    /\ ~MainAt(t, "saving") /\ ~MainAt(t, "acking")

\* A row that is not stranded is the only fresh one, and the only one of its task.
Unstranded == FreshRunning \ stranded
Alone(i) == FreshRunning = {i} /\ NamedRows(log[i].task) = {i}

\* The inductive invariant.
PushLogInv ==
    /\ Types
    /\ \A t \in Tasks : TaskFits(t)
    /\ \A i \in Unstranded : Alone(i) /\ Attended(i, log[i].task)
----------------------------------------------------------------------------
(* The row that is found. *)

\* A non-empty set of numbers up to k has a maximum.
LEMMA MaxIsMember ==
    ASSUME NEW k \in Nat, NEW S \in SUBSET (0..k), S # {}
    PROVE  Max(S) \in S
<1> DEFINE T == {x \in 0..k : k - x \in S}
<1>1. T \subseteq Nat
  OBVIOUS
<1>2. T # {}
  <2>1. PICK x \in S : TRUE
    OBVIOUS
  <2>2. k - x \in 0..k /\ k - (k - x) = x
    BY <2>1
  <2>3. k - x \in T
    BY <2>1, <2>2
  <2> QED
    BY <2>3
<1>3. PICK m \in T : \A y \in T : <<y, m>> \notin OpToRel(<, Nat)
  BY <1>1, <1>2, NatLessThanWellFounded, WFMin, Zenon
<1>4. \A y \in T : ~(y < m)
  BY <1>1, <1>3 DEF OpToRel
<1>5. k - m \in S /\ m \in 0..k
  BY <1>3
<1>6. ASSUME NEW y \in S
      PROVE  y <= k - m
  <2>1. k - y \in 0..k /\ k - (k - y) = y
    OBVIOUS
  <2>2. k - y \in T
    BY <2>1
  <2>3. ~(k - y < m)
    BY <1>4, <2>2
  <2> QED
    BY <1>5, <2>3
<1>7. \E x \in S : \A y \in S : x >= y
  BY <1>5, <1>6
<1> QED
  BY <1>7 DEF Max

\* The rows of a log, and the one that is found in it.
LEMMA RowsOfLog ==
    ASSUME Types
    PROVE  /\ log \in Seq(LogRow) /\ Len(log) \in 0..MaxRows
           /\ DOMAIN log = 1..Len(log) /\ DOMAIN log \subseteq 1..MaxRows
           /\ \A i \in DOMAIN log : log[i] \in LogRow
           /\ FindRunningRow \in 0..MaxRows
           /\ FreshRunning = {} <=> FindRunningRow = 0
           /\ FindRunningRow # 0 => FindRunningRow \in FreshRunning
<1>1. log \in Seq(LogRow) /\ Len(log) \in 0..MaxRows
  BY BoundsAssumption DEF Types, TypeOK, LogRow
<1>2. DOMAIN log = 1..Len(log) /\ DOMAIN log \subseteq 1..MaxRows
  BY <1>1, BoundsAssumption
<1>3. \A i \in DOMAIN log : log[i] \in LogRow
  BY <1>1
<1>4. FreshRunning \subseteq 1..MaxRows
  BY <1>2 DEF FreshRunning
<1>5. FreshRunning # {} => Max(FreshRunning) \in FreshRunning
  <2>1. FreshRunning \in SUBSET (0..MaxRows) /\ MaxRows \in Nat
    BY <1>4, BoundsAssumption
  <2> QED
    BY <2>1, MaxIsMember
<1>6. CASE FreshRunning = {}
  BY <1>1, <1>2, <1>3, <1>6, BoundsAssumption DEF FindRunningRow
<1>7. CASE FreshRunning # {}
  <2>1. FindRunningRow \in FreshRunning
    BY <1>5, <1>7 DEF FindRunningRow
  <2>2. FindRunningRow \in 1..MaxRows
    BY <1>4, <2>1
  <2> QED
    BY <1>1, <1>2, <1>3, <1>7, <2>1, <2>2, BoundsAssumption
<1> QED
  BY <1>6, <1>7
----------------------------------------------------------------------------
(* What an action does to the place of an actor. *)

PushType == [Actors -> [Tasks -> PushRow]]

\* The actor is moved to p, and nobody else is.
Moved(a, t, p) ==
    /\ push' \in PushType
    /\ push'[a][t] = p
    /\ \A b \in Actors, u \in Tasks : b # a \/ u # t => push'[b][u] = push[b][u]

LEMMA Moving ==
    ASSUME push \in PushType, NEW a \in Actors, NEW t \in Tasks, NEW p \in PushRow,
           push' = [push EXCEPT ![a][t] = p]
    PROVE  Moved(a, t, p)
<1>1. push' \in PushType
  BY DEF PushType
<1>2. push'[a][t] = p
  BY DEF PushType
<1>3. ASSUME NEW b \in Actors, NEW u \in Tasks, b # a \/ u # t
      PROVE  push'[b][u] = push[b][u]
  <2>1. CASE b # a
    BY <2>1 DEF PushType
  <2>2. CASE b = a /\ u # t
    BY <2>2 DEF PushType
  <2> QED
    BY <1>3, <2>1, <2>2
<1> QED
  BY <1>1, <1>2, <1>3 DEF Moved

LEMMA PushTyped ==
    ASSUME Types
    PROVE  /\ push \in PushType
           /\ \A a \in Actors, t \in Tasks : push[a][t] \in PushRow
<1>1. push \in PushType
  BY DEF Types, TypeOK, PushType, PushRow, PushStages
<1> QED
  BY <1>1 DEF PushType

\* Go and GoRow.
LEMMA Going ==
    ASSUME Types, NEW a \in Actors, NEW t \in Tasks, NEW stage \in PushStages
    PROVE  /\ Go(a, t, stage) => Moved(a, t, [push[a][t] EXCEPT !.stage = stage])
           /\ \A i \in 0..MaxRows :
                GoRow(a, t, stage, i) =>
                    Moved(a, t, [push[a][t] EXCEPT !.stage = stage, !.row = i])
<1>1. push \in PushType /\ push[a][t] \in PushRow
  BY PushTyped
<1>2. ASSUME Go(a, t, stage)
      PROVE  Moved(a, t, [push[a][t] EXCEPT !.stage = stage])
  <2>1. PICK p \in PushRow : p = [push[a][t] EXCEPT !.stage = stage]
    BY <1>1 DEF PushRow
  <2>2. push' = [push EXCEPT ![a][t] = p]
    BY <1>2, <2>1 DEF Go
  <2>3. Moved(a, t, p)
    BY <1>1, <2>2, Moving
  <2> QED
    BY <2>1, <2>3
<1>3. ASSUME NEW i \in 0..MaxRows, GoRow(a, t, stage, i)
      PROVE  Moved(a, t, [push[a][t] EXCEPT !.stage = stage, !.row = i])
  <2>1. PICK p \in PushRow : p = [push[a][t] EXCEPT !.stage = stage, !.row = i]
    BY <1>1 DEF PushRow
  <2>2. push' = [push EXCEPT ![a][t] = p]
    BY <1>3, <2>1 DEF GoRow
  <2>3. Moved(a, t, p)
    BY <1>1, <2>2, Moving
  <2> QED
    BY <2>1, <2>3
<1> QED
  BY <1>2, <1>3

\* Begun.
Answered == [Idle EXCEPT !.stage = "answered"]
PushingRow(i) == [Idle EXCEPT !.stage = "pushing", !.row = i]
LEMMA BegunRows ==
    ASSUME NEW i \in 0..MaxRows
    PROVE  /\ Idle \in PushRow /\ Answered \in PushRow /\ PushingRow(i) \in PushRow
           /\ Answered.stage = "answered"
           /\ PushingRow(i).stage = "pushing" /\ PushingRow(i).row = i
<1>1. Idle \in PushRow
  BY BoundsAssumption DEF Idle, PushRow, PushStages
<1>2. Answered \in PushRow /\ Answered.stage = "answered"
  BY <1>1 DEF Answered, PushRow, PushStages
<1>3. /\ PushingRow(i) \in PushRow
      /\ PushingRow(i).stage = "pushing" /\ PushingRow(i).row = i
  BY <1>1 DEF PushingRow, PushRow, PushStages
<1> QED
  BY <1>1, <1>2, <1>3

LEMMA Beginning ==
    ASSUME Types, NEW a \in Actors, NEW t \in Tasks, NEW i \in 0..MaxRows, Begun(a, t, i)
    PROVE  Moved(a, t, IF a = "handler" THEN Answered ELSE PushingRow(i))
<1>1. push \in PushType
  BY PushTyped
<1>2. Answered \in PushRow /\ PushingRow(i) \in PushRow
  BY BegunRows
<1>3. CASE a = "handler"
  <2>1. push' = [push EXCEPT ![a][t] = Answered]
    BY <1>3 DEF Begun, Answered
  <2>2. Moved(a, t, Answered)
    BY <1>1, <1>2, <2>1, Moving
  <2> QED
    BY <1>3, <2>2
<1>4. CASE a # "handler"
  <2>1. push' = [push EXCEPT ![a][t] = PushingRow(i)]
    BY <1>4 DEF Begun, PushingRow
  <2>2. Moved(a, t, PushingRow(i))
    BY <1>1, <1>2, <2>1, Moving
  <2> QED
    BY <1>4, <2>2
<1> QED
  BY <1>3, <1>4

LEMMA BeginFailsMoves ==
    ASSUME Types, NEW a \in Actors, NEW t \in Tasks, BeginFails(a, t)
    PROVE  Moved(a, t, [push[a][t] EXCEPT
               !.stage = IF a = "handler" THEN "answered" ELSE "reporting", !.status = "error"])
<1>1. push \in PushType /\ push[a][t] \in PushRow
  BY PushTyped
<1>2. PICK p \in PushRow : p = [push[a][t] EXCEPT
          !.stage = IF a = "handler" THEN "answered" ELSE "reporting", !.status = "error"]
  BY <1>1 DEF PushRow, PushStages, Statuses
<1>3. push' = [push EXCEPT ![a][t] = p]
  BY <1>2 DEF BeginFails
<1>4. Moved(a, t, p)
  BY <1>1, <1>3, Moving
<1> QED
  BY <1>2, <1>4

LEMMA PushMoves ==
    ASSUME Types, NEW t \in Tasks, NEW status \in {"success", "error"}, Push(t, status)
    PROVE  Moved("thread", t, [push["thread"][t] EXCEPT !.stage = "finishing", !.status = status])
<1>1. push \in PushType /\ push["thread"][t] \in PushRow /\ "thread" \in Actors
  BY PushTyped DEF Actors
<1>2. PICK p \in PushRow :
          p = [push["thread"][t] EXCEPT !.stage = "finishing", !.status = status]
  BY <1>1 DEF PushRow, PushStages, Statuses
<1>3. push' = [push EXCEPT !["thread"][t] = p]
  BY <1>2 DEF Push
<1>4. Moved("thread", t, p)
  BY <1>1, <1>3, Moving
<1> QED
  BY <1>2, <1>4

LEMMA FinishFailsMoves ==
    ASSUME Types, NEW t \in Tasks, FinishFails(t)
    PROVE  LET wasError == push["thread"][t].status = "error" IN
           /\ Moved("thread", t, [push["thread"][t] EXCEPT
                  !.stage = IF wasError THEN "reporting" ELSE "finishing", !.status = "error"])
           /\ wasError => At("thread", t, "finishing")
<1>1. push \in PushType /\ push["thread"][t] \in PushRow /\ "thread" \in Actors
  BY PushTyped DEF Actors
<1>2. PICK p \in PushRow : p = [push["thread"][t] EXCEPT
          !.stage = IF push["thread"][t].status = "error" THEN "reporting" ELSE "finishing",
          !.status = "error"]
  BY <1>1 DEF PushRow, PushStages, Statuses
<1>3. push' = [push EXCEPT !["thread"][t] = p]
  BY <1>2 DEF FinishFails
<1>4. Moved("thread", t, p)
  BY <1>1, <1>3, Moving
<1> QED
  BY <1>2, <1>4 DEF FinishFails

\* A thread is started, or is gone.
LEMMA ThreadMoves ==
    ASSUME Types, NEW t \in Tasks
    PROVE  /\ Deliver(t) => Moved("thread", t, [Idle EXCEPT !.stage = "finding"])
           /\ Report(t) \/ ThreadDies(t) => Moved("thread", t, Idle)
<1>1. push \in PushType /\ "thread" \in Actors
  BY PushTyped DEF Actors
<1>2. Idle \in PushRow /\ [Idle EXCEPT !.stage = "finding"] \in PushRow
  BY BoundsAssumption DEF Idle, PushRow, PushStages
<1>3. ASSUME NEW p \in PushRow, push' = [push EXCEPT !["thread"][t] = p]
      PROVE  Moved("thread", t, p)
  BY <1>1, <1>3, Moving
<1> QED
  BY <1>2, <1>3 DEF Deliver, Report, ThreadDies
----------------------------------------------------------------------------
(* Types. *)

LEMMA InitTypes == Init => Types
<1> SUFFICES ASSUME Init PROVE Types
  OBVIOUS
<1> USE BoundsAssumption
<1>1. Idle \in PushRow
  BY DEF Idle, PushRow, PushStages
<1>2. push \in PushType /\ \A a \in Actors, t \in Tasks : push[a][t] = Idle
  BY <1>1 DEF Init, PushType
<1>3. log = <<>> /\ log \in Seq(LogRow) /\ Len(log) = 0
  BY DEF Init
<1>4. main \in [Tasks -> MainRow]
  BY DEF Init, MainRow, MainStages
<1>5. \A a \in Actors, t \in Tasks : PushFits(a, t)
  BY <1>2 DEF PushFits, Idle, HandlerStages, ThreadStages
<1> QED
  BY <1>2, <1>3, <1>4, <1>5 DEF Init, Types, TypeOK, PushType, PushRow, PushStages, LogRow,
     MainRow, MainStages

\* The log keeps its type if no row is lost and what changes is a row.
LEMMA LogKeepsType ==
    ASSUME Types, NEW i
    PROVE  /\ \A t \in Tasks : log' = [log EXCEPT ![i].task = t] =>
                  log' \in Seq(LogRow) /\ DOMAIN log' = DOMAIN log /\ Len(log') = Len(log)
           /\ \A s \in Statuses : log' = [log EXCEPT ![i].status = s] =>
                  log' \in Seq(LogRow) /\ DOMAIN log' = DOMAIN log /\ Len(log') = Len(log)
           /\ log' = [log EXCEPT ![i].fresh = FALSE] =>
                  log' \in Seq(LogRow) /\ DOMAIN log' = DOMAIN log /\ Len(log') = Len(log)
<1>1. log \in Seq(LogRow) /\ \A j \in DOMAIN log : log[j] \in LogRow
  BY RowsOfLog
<1>2. ASSUME NEW r, i \in DOMAIN log => r \in LogRow, log' = [log EXCEPT ![i] = r]
      PROVE  log' \in Seq(LogRow) /\ DOMAIN log' = DOMAIN log /\ Len(log') = Len(log)
  <2>1. CASE i \in DOMAIN log
    BY <1>1, <1>2, <2>1
  <2>2. CASE i \notin DOMAIN log
    <3>1. log' = log
      BY <1>1, <1>2, <2>2
    <3> QED
      BY <1>1, <3>1
  <2> QED
    BY <2>1, <2>2
<1>3. /\ \A t \in Tasks : i \in DOMAIN log => [log[i] EXCEPT !.task = t] \in LogRow
      /\ \A s \in Statuses : i \in DOMAIN log => [log[i] EXCEPT !.status = s] \in LogRow
      /\ i \in DOMAIN log => [log[i] EXCEPT !.fresh = FALSE] \in LogRow
  BY <1>1 DEF LogRow
<1> QED
  BY <1>2, <1>3

LEMMA MovedFits ==
    ASSUME Types, NEW a \in Actors, NEW t \in Tasks, NEW p, Moved(a, t, p),
           DOMAIN log \subseteq DOMAIN log',
           p.stage \in IF a = "handler" THEN HandlerStages ELSE ThreadStages,
           p.stage = "adopting" => p.row \in DOMAIN log',
           p.stage = "finishing" => p.status \in {"success", "error"}
    PROVE  push' \in PushType /\ \A b \in Actors, u \in Tasks : PushFits(b, u)'
<1>1. ASSUME NEW b \in Actors, NEW u \in Tasks
      PROVE  PushFits(b, u)'
  <2>1. PushFits(b, u)
    BY DEF Types
  <2>2. CASE b = a /\ u = t
    BY <2>2 DEF Moved, PushFits
  <2>3. CASE b # a \/ u # t
    <3>1. push'[b][u] = push[b][u]
      BY <2>3 DEF Moved
    <3> QED
      BY <2>1, <3>1 DEF PushFits
  <2> QED
    BY <2>2, <2>3
<1> QED
  BY <1>1 DEF Moved

\* What the look-up of a running row leads to.
LEMMA Looking ==
    ASSUME Types, NEW a \in Actors, NEW t \in Tasks, FindExisting(a, t)
    PROVE  \/ /\ FreshRunning = {}
              /\ Moved(a, t, [push[a][t] EXCEPT !.stage = "creating"])
           \/ \E i \in FreshRunning :
                /\ log[i].task = t
                /\ Moved(a, t, IF a = "handler" THEN Answered ELSE PushingRow(i))
           \/ \E i \in FreshRunning :
                /\ log[i].task # t
                /\ Moved(a, t, [push[a][t] EXCEPT !.stage = "adopting", !.row = i])
<1> DEFINE i == FindRunningRow
<1>1. i \in 0..MaxRows /\ (FreshRunning = {} <=> i = 0) /\ (i # 0 => i \in FreshRunning)
  BY RowsOfLog
<1>2. /\ i = 0 => Go(a, t, "creating")
      /\ i # 0 /\ log[i].task = t => Begun(a, t, i)
      /\ i # 0 /\ log[i].task # t => GoRow(a, t, "adopting", i)
  BY DEF FindExisting
<1> HIDE DEF i
<1>3. "creating" \in PushStages /\ "adopting" \in PushStages
  BY DEF PushStages
<1>4. CASE i = 0
  BY <1>1, <1>2, <1>3, <1>4, Going
<1>5. CASE i # 0 /\ log[i].task = t
  BY <1>1, <1>2, <1>5, Beginning
<1>6. CASE i # 0 /\ log[i].task # t
  BY <1>1, <1>2, <1>3, <1>6, Going
<1> QED
  BY <1>4, <1>5, <1>6

\* The actors' places keep their type.
PushKept == push' \in PushType /\ \A a \in Actors, t \in Tasks : PushFits(a, t)'

LEMMA ActorsKeepTypes ==
    ASSUME Types, NEW a \in Actors, NEW t \in Tasks
    PROVE  /\ FindExisting(a, t) \/ AdoptRow(a, t) \/ CreateRow(a, t) \/ BeginFails(a, t) => PushKept
           /\ \/ HasRunningPush(t) \/ FindRunningTask(t) \/ AddWorkerTask(t) \/ SendFails(t)
              \/ EnqueueDuePush(t)
              => PushKept
<1>1. push[a][t] \in PushRow /\ PushFits(a, t)
  BY PushTyped DEF Types
<1>2. CASE FindExisting(a, t)
  <2>1. log' = log
    BY <1>2 DEF FindExisting
  <2>2. ASSUME Moved(a, t, [push[a][t] EXCEPT !.stage = "creating"])
        PROVE  PushKept
    <3> DEFINE p == [push[a][t] EXCEPT !.stage = "creating"]
    <3>1. p.stage = "creating"
      BY <1>1 DEF PushRow
    <3>2. Moved(a, t, p)
      BY <2>2
    <3> HIDE DEF p
    <3> QED
      BY <2>1, <3>1, <3>2, MovedFits DEF PushKept, HandlerStages, ThreadStages
  <2>3. ASSUME NEW i \in FreshRunning, Moved(a, t, IF a = "handler" THEN Answered ELSE PushingRow(i))
        PROVE  PushKept
    <3> DEFINE p == IF a = "handler" THEN Answered ELSE PushingRow(i)
    <3>1. p.stage = IF a = "handler" THEN "answered" ELSE "pushing"
      BY BegunRows, RowsOfLog DEF FreshRunning
    <3>2. Moved(a, t, p)
      BY <2>3
    <3> HIDE DEF p
    <3> QED
      BY <2>1, <3>1, <3>2, MovedFits DEF PushKept, HandlerStages, ThreadStages
  <2>4. ASSUME NEW i \in FreshRunning, Moved(a, t, [push[a][t] EXCEPT !.stage = "adopting", !.row = i])
        PROVE  PushKept
    <3> DEFINE p == [push[a][t] EXCEPT !.stage = "adopting", !.row = i]
    <3>1. p.stage = "adopting" /\ p.row = i /\ i \in DOMAIN log
      BY <1>1 DEF PushRow, FreshRunning
    <3>2. Moved(a, t, p)
      BY <2>4
    <3> HIDE DEF p
    <3> QED
      BY <2>1, <3>1, <3>2, MovedFits DEF PushKept, HandlerStages, ThreadStages
  <2> QED
    BY <1>2, <2>2, <2>3, <2>4, Looking
<1>3. ASSUME NEW i \in 0..MaxRows, Begun(a, t, i), DOMAIN log \subseteq DOMAIN log'
      PROVE  PushKept
  <2> DEFINE p == IF a = "handler" THEN Answered ELSE PushingRow(i)
  <2>1. Moved(a, t, p)
    BY <1>3, Beginning
  <2>2. p.stage = IF a = "handler" THEN "answered" ELSE "pushing"
    BY BegunRows
  <2> HIDE DEF p
  <2> QED
    BY <1>3, <2>1, <2>2, MovedFits DEF PushKept, HandlerStages, ThreadStages
<1>4. CASE AdoptRow(a, t)
  <2> DEFINE i == push[a][t].row
  <2>1. i \in 0..MaxRows
    BY <1>1 DEF PushRow
  <2>2. Begun(a, t, i) /\ DOMAIN log' = DOMAIN log
    BY <1>4, LogKeepsType DEF AdoptRow, RowTask
  <2> HIDE DEF i
  <2> QED
    BY <1>3, <2>1, <2>2
<1>5. CASE CreateRow(a, t)
  <2> DEFINE i == Len(log) + 1
  <2>1. i \in 0..MaxRows
    BY <1>5, RowsOfLog, BoundsAssumption DEF CreateRow
  <2>2. Begun(a, t, i)
    BY <1>5 DEF CreateRow
  <2>3. DOMAIN log \subseteq DOMAIN log'
    <3>1. log' = Append(log, [status |-> "running", task |-> t, fresh |-> TRUE])
      BY <1>5 DEF CreateRow
    <3> QED
      BY <3>1, RowsOfLog
  <2> HIDE DEF i
  <2> QED
    BY <1>3, <2>1, <2>2, <2>3
<1>6. CASE BeginFails(a, t)
  <2> DEFINE p == [push[a][t] EXCEPT
        !.stage = IF a = "handler" THEN "answered" ELSE "reporting", !.status = "error"]
  <2>1. Moved(a, t, p) /\ log' = log
    BY <1>6, BeginFailsMoves DEF BeginFails
  <2>2. p.stage = IF a = "handler" THEN "answered" ELSE "reporting"
    BY <1>1 DEF PushRow
  <2> HIDE DEF p
  <2> QED
    BY <2>1, <2>2, MovedFits DEF PushKept, HandlerStages, ThreadStages
<1>7. ASSUME NEW stage \in {"none", "checked", "adding", "finding", "answered"},
             Go("handler", t, stage), log' = log
      PROVE  PushKept
  <2> DEFINE p == [push["handler"][t] EXCEPT !.stage = stage]
  <2>1. "handler" \in Actors /\ stage \in PushStages
    BY DEF Actors, PushStages
  <2>2. Moved("handler", t, p)
    BY <1>7, <2>1, Going
  <2>3. p.stage = stage
    BY <2>1, PushTyped DEF PushRow
  <2> HIDE DEF p
  <2> QED
    BY <1>7, <2>1, <2>2, <2>3, MovedFits DEF PushKept, HandlerStages
<1>8. CASE HasRunningPush(t) \/ FindRunningTask(t) \/ AddWorkerTask(t) \/ SendFails(t)
           \/ EnqueueDuePush(t)
  <2>1. /\ log' = log
        /\ \E stage \in {"none", "checked", "adding", "finding", "answered"} :
               Go("handler", t, stage)
    BY <1>8 DEF HasRunningPush, FindRunningTask, AddWorkerTask, SendFails, EnqueueDuePush
  <2> QED
    BY <1>7, <2>1
<1> QED
  BY <1>2, <1>4, <1>5, <1>6, <1>8

LEMMA ThreadsKeepTypes ==
    ASSUME Types, NEW t \in Tasks,
           \/ \E status \in {"success", "error"} : Push(t, status)
           \/ FinishPushLog(t) \/ FinishFails(t) \/ Deliver(t) \/ Report(t) \/ ThreadDies(t)
    PROVE  PushKept
<1>1. /\ "thread" \in Actors /\ push["thread"][t] \in PushRow /\ PushFits("thread", t)
  BY PushTyped DEF Types, Actors
<1>2. ASSUME NEW status \in {"success", "error"}, Push(t, status)
      PROVE  PushKept
  <2> DEFINE p == [push["thread"][t] EXCEPT !.stage = "finishing", !.status = status]
  <2>1. Moved("thread", t, p) /\ log' = log
    BY <1>2, PushMoves DEF Push
  <2>2. p.stage = "finishing" /\ p.status = status
    BY <1>1 DEF PushRow
  <2> HIDE DEF p
  <2> QED
    BY <1>1, <2>1, <2>2, MovedFits DEF PushKept, ThreadStages
<1>3. CASE FinishPushLog(t)
  <2> DEFINE p == [push["thread"][t] EXCEPT !.stage = "reporting"]
  <2>1. Moved("thread", t, p)
    BY <1>1, <1>3, Going DEF FinishPushLog, PushStages
  <2>2. p.stage = "reporting"
    BY <1>1 DEF PushRow
  <2>3. DOMAIN log' = DOMAIN log
    BY <1>1, <1>3, LogKeepsType DEF FinishPushLog, At, PushFits, Statuses
  <2> HIDE DEF p
  <2> QED
    BY <1>1, <2>1, <2>2, <2>3, MovedFits DEF PushKept, ThreadStages
<1>4. CASE FinishFails(t)
  <2> DEFINE p == [push["thread"][t] EXCEPT
        !.stage = IF push["thread"][t].status = "error" THEN "reporting" ELSE "finishing",
        !.status = "error"]
  <2>1. Moved("thread", t, p) /\ log' = log
    BY <1>4, FinishFailsMoves DEF FinishFails
  <2>2. p.stage \in {"reporting", "finishing"} /\ p.status = "error"
    BY <1>1 DEF PushRow
  <2> HIDE DEF p
  <2> QED
    BY <1>1, <2>1, <2>2, MovedFits DEF PushKept, ThreadStages
<1>5. CASE Deliver(t)
  <2> DEFINE p == [Idle EXCEPT !.stage = "finding"]
  <2>1. Moved("thread", t, p) /\ log' = log
    BY <1>5, ThreadMoves DEF Deliver
  <2>2. p.stage = "finding"
    BY DEF Idle
  <2> HIDE DEF p
  <2> QED
    BY <1>1, <2>1, <2>2, MovedFits DEF PushKept, ThreadStages
<1>6. CASE Report(t) \/ ThreadDies(t)
  <2>1. Moved("thread", t, Idle) /\ log' = log
    BY <1>6, ThreadMoves DEF Report, ThreadDies
  <2>2. Idle.stage = "none"
    BY DEF Idle
  <2> QED
    BY <1>1, <2>1, <2>2, MovedFits DEF PushKept, ThreadStages
<1> QED
  BY <1>2, <1>3, <1>4, <1>5, <1>6

\* The log keeps its type, and its rows stay.
LogKept ==
    /\ log' \in Seq(LogRow)
    /\ Len(log') <= MaxRows

LEMMA LogStepsKeepType ==
    ASSUME Types, [Next]_vars
    PROVE  LogKept /\ stranded' \subseteq 1..MaxRows
<1>1. /\ log \in Seq(LogRow) /\ Len(log) <= MaxRows /\ Len(log) \in Nat
      /\ DOMAIN log = 1..Len(log) /\ DOMAIN log \subseteq 1..MaxRows
  BY RowsOfLog DEF Types
<1>2. stranded \subseteq 1..MaxRows
  BY DEF Types, TypeOK
<1>3. ASSUME NEW t \in Tasks
      PROVE  NamedRows(t) \subseteq 1..MaxRows
  BY <1>1 DEF NamedRows
<1>4. ASSUME NEW a \in Actors, NEW t \in Tasks, NEW i \in 1..MaxRows
      PROVE  Stranded(a, t, i) \subseteq 1..MaxRows
  <2>1. FreshRunning \subseteq 1..MaxRows
    BY <1>1 DEF FreshRunning
  <2> QED
    BY <1>2, <1>3, <1>4, <2>1 DEF Stranded
<1>5. ASSUME NEW a \in Actors, NEW t \in Tasks, AdoptRow(a, t)
      PROVE  LogKept /\ stranded' \subseteq 1..MaxRows
  <2> DEFINE i == push[a][t].row
  <2>1. i \in DOMAIN log
    BY <1>5 DEF AdoptRow, At, Types, PushFits
  <2>2. log' = [log EXCEPT ![i].task = t] /\ stranded' = Stranded(a, t, i)
    BY <1>5 DEF AdoptRow, RowTask
  <2> HIDE DEF i
  <2>3. log' \in Seq(LogRow) /\ Len(log') = Len(log)
    BY <2>2, LogKeepsType
  <2>4. i \in 1..MaxRows
    BY <1>1, <2>1
  <2> QED
    BY <1>1, <1>4, <2>2, <2>3, <2>4 DEF LogKept
<1>6. ASSUME NEW a \in Actors, NEW t \in Tasks, CreateRow(a, t)
      PROVE  LogKept /\ stranded' \subseteq 1..MaxRows
  <2> DEFINE r == [status |-> "running", task |-> t, fresh |-> TRUE]
             i == Len(log) + 1
  <2>1. r \in LogRow
    BY DEF LogRow, Statuses
  <2>2. log' = Append(log, r) /\ stranded' = Stranded(a, t, i) /\ Len(log) < MaxRows
    BY <1>6 DEF CreateRow
  <2>3. i \in 1..MaxRows
    BY <1>1, <2>2, BoundsAssumption
  <2> HIDE DEF r
  <2>4. log' \in Seq(LogRow) /\ Len(log') = Len(log) + 1
    BY <1>1, <2>1, <2>2
  <2>5. Len(log') <= MaxRows
    BY <1>1, <2>2, <2>4, BoundsAssumption
  <2> HIDE DEF i
  <2>6. stranded' \subseteq 1..MaxRows
    BY <1>4, <2>2, <2>3
  <2> QED
    BY <2>4, <2>5, <2>6 DEF LogKept
<1>7. ASSUME NEW i, NEW s \in Statuses, log' = [log EXCEPT ![i].status = s]
      PROVE  LogKept
  BY <1>1, <1>7, LogKeepsType DEF LogKept
<1>8. ASSUME NEW t \in Tasks, FinishPushLog(t)
      PROVE  LogKept /\ stranded' \subseteq 1..MaxRows
  <2>1. push["thread"][t].status \in Statuses
    BY <1>8 DEF FinishPushLog, At, Types, PushFits, Actors, Statuses
  <2> QED
    BY <1>2, <1>7, <1>8, <2>1 DEF FinishPushLog
<1>9. ASSUME NEW t \in Tasks, FailPushLogUpdate(t)
      PROVE  LogKept /\ stranded' \subseteq 1..MaxRows
  BY <1>2, <1>7, <1>9 DEF FailPushLogUpdate, Statuses
<1>10. ASSUME NEW i \in 1..MaxRows, BecomesStale(i)
       PROVE  LogKept /\ stranded' \subseteq 1..MaxRows
  BY <1>1, <1>2, <1>10, LogKeepsType DEF BecomesStale, LogKept
<1>11. ASSUME log' = log, stranded' = stranded
       PROVE  LogKept /\ stranded' \subseteq 1..MaxRows
  BY <1>1, <1>2, <1>11 DEF LogKept
<1>12. ASSUME NEW t \in Tasks, FailPushLogFails(t)
       PROVE  LogKept /\ stranded' \subseteq 1..MaxRows
  BY <1>1, <1>2, <1>3, <1>12 DEF FailPushLogFails, LogKept
<1>13. ASSUME NEW t \in Tasks, NEW a \in Actors,
              \/ HasRunningPush(t) \/ FindRunningTask(t) \/ AddWorkerTask(t) \/ SendFails(t)
              \/ FindExisting(a, t) \/ EnqueueDuePush(t) \/ BeginFails(a, t)
              \/ FinishFails(t) \/ Deliver(t) \/ Report(t) \/ ThreadDies(t)
              \/ FailPushLogFind(t) \/ SaveTask(t) \/ Ack(t) \/ Crash \/ UNCHANGED vars
              \/ \E status \in {"success", "error"} : Push(t, status)
       PROVE  log' = log /\ stranded' = stranded
  BY <1>13 DEF HasRunningPush, FindRunningTask, AddWorkerTask, SendFails, FindExisting,
     EnqueueDuePush, BeginFails, FinishFails, Deliver, Report, ThreadDies, FailPushLogFind,
     SaveTask, Ack, Crash, Push, vars
<1>14. CASE Crash \/ UNCHANGED vars
  BY <1>11, <1>14 DEF Crash, vars
<1>15. "handler" \in Actors /\ "thread" \in Actors
  BY DEF Actors
<1> QED
  BY <1>5, <1>6, <1>8, <1>9, <1>10, <1>11, <1>12, <1>13, <1>14, <1>15
     DEF Next, Thread, MainThread

LEMMA PushStepsKeepType ==
    ASSUME Types, [Next]_vars
    PROVE  PushKept
<1>1. ASSUME push' = push, DOMAIN log' = DOMAIN log
      PROVE  PushKept
  BY <1>1, PushTyped DEF PushKept, Types, PushFits
<1>2. ASSUME NEW t \in Tasks, FailPushLogUpdate(t)
      PROVE  PushKept
  BY <1>1, <1>2, LogKeepsType DEF FailPushLogUpdate, Statuses
<1>3. ASSUME NEW t \in Tasks, FailPushLogFind(t) \/ FailPushLogFails(t) \/ SaveTask(t) \/ Ack(t)
      PROVE  PushKept
  BY <1>1, <1>3 DEF FailPushLogFind, FailPushLogFails, SaveTask, Ack
<1>4. ASSUME NEW i \in 1..MaxRows, BecomesStale(i)
      PROVE  PushKept
  BY <1>1, <1>4, LogKeepsType DEF BecomesStale
<1>5. CASE Crash
  <2>1. push' = [push EXCEPT !["thread"] = [t \in Tasks |-> Idle]] /\ log' = log
    BY <1>5 DEF Crash
  <2>2. push \in PushType /\ Idle \in PushRow
    BY PushTyped, BegunRows, BoundsAssumption
  <2>3. push' \in PushType
    BY <2>1, <2>2 DEF PushType
  <2>4. ASSUME NEW a \in Actors, NEW t \in Tasks
        PROVE  push'[a][t] = IF a = "thread" THEN Idle ELSE push[a][t]
    BY <2>1, <2>2 DEF PushType
  <2>5. ASSUME NEW a \in Actors, NEW t \in Tasks
        PROVE  PushFits(a, t)'
    <3>1. PushFits(a, t)
      BY DEF Types
    <3>2. CASE a = "thread"
      BY <2>1, <2>4, <3>2 DEF PushFits, Idle, ThreadStages
    <3>3. CASE a # "thread"
      <4>1. push'[a][t] = push[a][t]
        BY <2>4, <3>3
      <4> QED
        BY <2>1, <3>1, <4>1 DEF PushFits
    <3> QED
      BY <3>2, <3>3
  <2> QED
    BY <2>3, <2>5 DEF PushKept
<1>6. CASE UNCHANGED vars
  BY <1>1, <1>6 DEF vars
<1>7. "handler" \in Actors /\ "thread" \in Actors
  BY DEF Actors
<1> QED
  BY <1>2, <1>3, <1>4, <1>5, <1>6, <1>7, ActorsKeepTypes, ThreadsKeepTypes
     DEF Next, Thread, MainThread

\* What the main thread, the queue and the faults come to.
RestKept ==
    /\ main' \in [Tasks -> MainRow]
    /\ message' \in [Tasks -> {"none", "ready", "held", "acked"}]
    /\ ended' \subseteq Tasks
    /\ attempts' \in [Tasks -> 0..MaxAttempts]
    /\ faults' \in 0..MaxFaults

LEMMA RestKeepsType ==
    ASSUME Types, [Next]_vars
    PROVE  RestKept
<1> USE BoundsAssumption
<1>1. /\ main \in [Tasks -> MainRow]
      /\ message \in [Tasks -> {"none", "ready", "held", "acked"}]
      /\ ended \subseteq Tasks
      /\ attempts \in [Tasks -> 0..MaxAttempts]
      /\ faults \in 0..MaxFaults
  BY DEF Types, TypeOK, MainRow, MainStages
<1>2. ASSUME NEW t \in Tasks, NEW stage \in MainStages, Main(t, stage)
      PROVE  main' \in [Tasks -> MainRow]
  <2>1. PICK r \in MainRow : r = [main[t] EXCEPT !.stage = stage]
    BY <1>1 DEF MainRow
  <2>2. main' = [main EXCEPT ![t] = r]
    BY <1>2, <2>1 DEF Main
  <2> QED
    BY <1>1, <2>2
<1>3. faults' = faults \/ Fault => faults' \in 0..MaxFaults
  BY <1>1 DEF Fault
<1>4. [stage |-> "saving", row |-> 0] \in MainRow /\ [stage |-> "idle", row |-> 0] \in MainRow
  BY DEF MainRow, MainStages
<1>5. ASSUME NEW a \in Actors, NEW t \in Tasks,
             \/ HasRunningPush(t) \/ FindRunningTask(t) \/ SendFails(t)
             \/ FindExisting(a, t) \/ AdoptRow(a, t) \/ CreateRow(a, t) \/ BeginFails(a, t)
             \/ FinishPushLog(t) \/ FinishFails(t)
             \/ \E status \in {"success", "error"} : Push(t, status)
      PROVE  RestKept
  <2>1. /\ main' = main /\ message' = message /\ ended' = ended /\ attempts' = attempts
        /\ faults' = faults \/ Fault
    BY <1>5 DEF HasRunningPush, FindRunningTask, SendFails, FindExisting, AdoptRow, CreateRow,
       BeginFails, FinishPushLog, FinishFails, Push
  <2> QED
    BY <1>1, <1>3, <2>1 DEF RestKept
<1>6. ASSUME NEW t \in Tasks, AddWorkerTask(t) \/ EnqueueDuePush(t)
      PROVE  RestKept
  BY <1>1, <1>6 DEF AddWorkerTask, EnqueueDuePush, RestKept
<1>7. ASSUME NEW i \in 1..MaxRows, BecomesStale(i)
      PROVE  RestKept
  BY <1>1, <1>7 DEF BecomesStale, RestKept
<1>8. ASSUME NEW t \in Tasks, Deliver(t)
      PROVE  RestKept
  <2>1. main' \in [Tasks -> MainRow]
    BY <1>2, <1>8 DEF Deliver, MainStages
  <2>2. attempts' \in [Tasks -> 0..MaxAttempts]
    <3>1. CASE CanAttempt(t)
      BY <1>1, <1>8, <3>1 DEF Deliver, CanAttempt
    <3>2. CASE ~CanAttempt(t)
      BY <1>1, <1>8, <3>2 DEF Deliver
    <3> QED
      BY <3>1, <3>2
  <2> QED
    BY <1>1, <1>8, <2>1, <2>2 DEF Deliver, RestKept
<1>9. ASSUME NEW t \in Tasks, Report(t) \/ ThreadDies(t) \/ SaveTask(t) \/ Ack(t)
      PROVE  RestKept
  <2>1. main' = main \/ \E stage \in MainStages : Main(t, stage)
    BY <1>9 DEF Report, ThreadDies, SaveTask, Ack, MainStages
  <2>2. main' \in [Tasks -> MainRow]
    BY <1>1, <1>2, <2>1
  <2>3. /\ message' = message \/ message' = [message EXCEPT ![t] = "acked"]
        /\ ended' = ended \/ ended' = ended \cup {t}
        /\ attempts' = attempts /\ (faults' = faults \/ Fault)
    BY <1>9 DEF Report, ThreadDies, SaveTask, Ack
  <2> QED
    BY <1>1, <1>3, <2>2, <2>3 DEF RestKept
<1>10. ASSUME NEW t \in Tasks, FailPushLogFind(t)
       PROVE  RestKept
  <2>1. ASSUME NEW i \in NamedRows(t), main' = [main EXCEPT ![t].stage = "failing", ![t].row = i]
        PROVE  main' \in [Tasks -> MainRow]
    <3>1. i \in 0..MaxRows
      BY RowsOfLog DEF NamedRows
    <3>2. PICK r \in MainRow : r = [main[t] EXCEPT !.stage = "failing", !.row = i]
      BY <1>1, <3>1 DEF MainRow, MainStages
    <3>3. main' = [main EXCEPT ![t] = r]
      BY <2>1, <3>2
    <3> QED
      BY <1>1, <3>3
  <2>2. main' \in [Tasks -> MainRow]
    BY <1>2, <1>10, <2>1 DEF FailPushLogFind, MainStages
  <2> QED
    BY <1>1, <1>10, <2>2 DEF FailPushLogFind, RestKept
<1>11. ASSUME NEW t \in Tasks, FailPushLogUpdate(t) \/ FailPushLogFails(t)
       PROVE  RestKept
  <2>1. /\ main' = [main EXCEPT ![t] = [stage |-> "saving", row |-> 0]]
        /\ message' = message /\ ended' = ended /\ attempts' = attempts
        /\ faults' = faults \/ Fault
    BY <1>11 DEF FailPushLogUpdate, FailPushLogFails
  <2>2. main' \in [Tasks -> MainRow]
    BY <1>1, <1>4, <2>1
  <2> QED
    BY <1>1, <1>3, <2>1, <2>2 DEF RestKept
<1>12. CASE Crash
  <2>1. main' \in [Tasks -> MainRow]
    BY <1>4, <1>12 DEF Crash
  <2>2. message' \in [Tasks -> {"none", "ready", "held", "acked"}]
    BY <1>1, <1>12 DEF Crash
  <2> QED
    BY <1>1, <1>3, <1>12, <2>1, <2>2 DEF Crash, RestKept
<1>13. CASE UNCHANGED vars
  BY <1>1, <1>13 DEF vars, RestKept
<1>14. "handler" \in Actors /\ "thread" \in Actors
  BY DEF Actors
<1> QED
  BY <1>5, <1>6, <1>7, <1>8, <1>9, <1>10, <1>11, <1>12, <1>13, <1>14
     DEF Next, Thread, MainThread

LEMMA NextTypes == Types /\ [Next]_vars => Types'
BY LogStepsKeepType, PushStepsKeepType, RestKeepsType
   DEF LogKept, PushKept, RestKept, Types, TypeOK, PushType, PushRow, PushStages, LogRow,
       MainRow, MainStages

\* Every variable keeps its type.
THEOREM PushLogTypeCorrect == Spec => []TypeOK
<1>1. Types => TypeOK
  BY DEF Types
<1> QED
  BY InitTypes, NextTypes, <1>1, PTL DEF Spec
----------------------------------------------------------------------------
(* Messages, attempts and threads. *)

\* A query of beginPushLog leaves its actor at a later stage.
LEMMA BeginStages ==
    ASSUME Types, NEW a \in Actors, NEW t \in Tasks,
           FindExisting(a, t) \/ AdoptRow(a, t) \/ CreateRow(a, t) \/ BeginFails(a, t)
    PROVE  /\ push[a][t].stage \in {"finding", "adopting", "creating"}
           /\ \E p : /\ Moved(a, t, p)
                     /\ p.stage \in {"creating", "adopting", "answered", "pushing", "reporting"}
<1>1. push[a][t] \in PushRow
  BY PushTyped
<1>2. ASSUME NEW i \in 0..MaxRows, Begun(a, t, i)
      PROVE  \E p : Moved(a, t, p) /\ p.stage \in {"answered", "pushing"}
  BY <1>2, Beginning, BegunRows
<1>3. CASE FindExisting(a, t)
  <2>1. push[a][t].stage = "finding"
    BY <1>3 DEF FindExisting, At
  <2>2. ASSUME NEW i \in FreshRunning, Moved(a, t, IF a = "handler" THEN Answered ELSE PushingRow(i))
        PROVE  \E p : Moved(a, t, p) /\ p.stage \in {"answered", "pushing"}
    <3>1. i \in 0..MaxRows
      BY RowsOfLog DEF FreshRunning
    <3> QED
      BY <2>2, <3>1, BegunRows
  <2>3. ASSUME Moved(a, t, [push[a][t] EXCEPT !.stage = "creating"])
        PROVE  \E p : Moved(a, t, p) /\ p.stage = "creating"
    <3>1. [push[a][t] EXCEPT !.stage = "creating"].stage = "creating"
      BY <1>1 DEF PushRow
    <3> QED
      BY <2>3, <3>1
  <2>4. ASSUME NEW i \in FreshRunning, Moved(a, t, [push[a][t] EXCEPT !.stage = "adopting", !.row = i])
        PROVE  \E p : Moved(a, t, p) /\ p.stage = "adopting"
    <3>1. [push[a][t] EXCEPT !.stage = "adopting", !.row = i].stage = "adopting"
      BY <1>1 DEF PushRow
    <3> QED
      BY <2>4, <3>1
  <2>5. \E p : /\ Moved(a, t, p)
               /\ p.stage \in {"creating", "adopting", "answered", "pushing", "reporting"}
    <3>1. CASE /\ FreshRunning = {}
               /\ Moved(a, t, [push[a][t] EXCEPT !.stage = "creating"])
      BY <2>3, <3>1
    <3>2. ASSUME NEW i \in FreshRunning,
                 Moved(a, t, IF a = "handler" THEN Answered ELSE PushingRow(i))
          PROVE  \E p : /\ Moved(a, t, p)
                        /\ p.stage \in {"creating", "adopting", "answered", "pushing", "reporting"}
      BY <2>2, <3>2
    <3>3. ASSUME NEW i \in FreshRunning,
                 Moved(a, t, [push[a][t] EXCEPT !.stage = "adopting", !.row = i])
          PROVE  \E p : /\ Moved(a, t, p)
                        /\ p.stage \in {"creating", "adopting", "answered", "pushing", "reporting"}
      BY <2>4, <3>3
    <3> QED
      BY <1>3, <3>1, <3>2, <3>3, Looking
  <2> QED
    BY <2>1, <2>5
<1>4. CASE AdoptRow(a, t)
  <2>1. push[a][t].row \in 0..MaxRows /\ Begun(a, t, push[a][t].row)
    BY <1>1, <1>4 DEF AdoptRow, PushRow
  <2> QED
    BY <1>2, <1>4, <2>1 DEF AdoptRow, At
<1>5. CASE CreateRow(a, t)
  <2>1. Len(log) + 1 \in 0..MaxRows /\ Begun(a, t, Len(log) + 1)
    BY <1>5, RowsOfLog, BoundsAssumption DEF CreateRow
  <2> QED
    BY <1>2, <1>5, <2>1 DEF CreateRow, At
<1>6. CASE BeginFails(a, t)
  <2> DEFINE p == [push[a][t] EXCEPT
        !.stage = IF a = "handler" THEN "answered" ELSE "reporting", !.status = "error"]
  <2>1. Moved(a, t, p)
    BY <1>6, BeginFailsMoves
  <2>2. p.stage \in {"answered", "reporting"}
    BY <1>1 DEF PushRow
  <2> HIDE DEF p
  <2> QED
    BY <1>6, <2>1, <2>2 DEF BeginFails
<1> QED
  BY <1>3, <1>4, <1>5, <1>6

\* The handler's own steps.
LEMMA HandlerGoes ==
    ASSUME Types, NEW t \in Tasks, NEW stage \in PushStages, Go("handler", t, stage)
    PROVE  \E p : Moved("handler", t, p) /\ p.stage = stage
<1>1. "handler" \in Actors /\ push["handler"][t] \in PushRow
  BY PushTyped DEF Actors
<1>2. [push["handler"][t] EXCEPT !.stage = stage].stage = stage
  BY <1>1 DEF PushRow
<1> QED
  BY <1>1, <1>2, Going

\* A thread that works goes on, with its row.
LEMMA WorkingStages ==
    ASSUME Types, NEW t \in Tasks,
           \/ \E status \in {"success", "error"} : Push(t, status)
           \/ FinishPushLog(t) \/ FinishFails(t)
    PROVE  /\ push["thread"][t].stage \in {"pushing", "finishing", "reporting"}
           /\ \E p : /\ Moved("thread", t, p)
                     /\ p.stage \in {"finishing", "reporting"} /\ p.row = push["thread"][t].row
                     /\ push["thread"][t].stage = "reporting" =>
                            p.stage = "finishing" /\ push["thread"][t].status # "error"
                     /\ p.stage = "reporting" =>
                            \/ FinishPushLog(t) /\ p.status = push["thread"][t].status
                            \/ p.status = "error"
<1>1. "thread" \in Actors /\ push["thread"][t] \in PushRow
  BY PushTyped DEF Actors
<1>2. ASSUME NEW status \in {"success", "error"}, Push(t, status)
      PROVE  /\ push["thread"][t].stage = "pushing"
             /\ \E p : /\ Moved("thread", t, p)
                       /\ p.stage = "finishing" /\ p.row = push["thread"][t].row
  <2> DEFINE p == [push["thread"][t] EXCEPT !.stage = "finishing", !.status = status]
  <2>1. Moved("thread", t, p)
    BY <1>2, PushMoves
  <2>2. p.stage = "finishing" /\ p.row = push["thread"][t].row
    BY <1>1 DEF PushRow
  <2> HIDE DEF p
  <2> QED
    BY <1>2, <2>1, <2>2 DEF Push, At
<1>3. CASE FinishPushLog(t)
  <2> DEFINE p == [push["thread"][t] EXCEPT !.stage = "reporting"]
  <2>1. Moved("thread", t, p)
    BY <1>1, <1>3, Going DEF FinishPushLog, PushStages
  <2>2. /\ p.stage = "reporting" /\ p.row = push["thread"][t].row
        /\ p.status = push["thread"][t].status
    BY <1>1 DEF PushRow
  <2>3. push["thread"][t].stage = "finishing"
    BY <1>3 DEF FinishPushLog, At
  <2> HIDE DEF p
  <2> QED
    BY <1>3, <2>1, <2>2, <2>3
<1>4. CASE FinishFails(t)
  <2> DEFINE wasError == push["thread"][t].status = "error"
             p == [push["thread"][t] EXCEPT
                     !.stage = IF wasError THEN "reporting" ELSE "finishing", !.status = "error"]
  <2>1. Moved("thread", t, p) /\ (wasError => push["thread"][t].stage = "finishing")
    BY <1>4, FinishFailsMoves DEF At
  <2>2. /\ p.stage = IF wasError THEN "reporting" ELSE "finishing"
        /\ p.row = push["thread"][t].row /\ p.status = "error"
    BY <1>1 DEF PushRow
  <2>3. push["thread"][t].stage \in {"finishing", "reporting"}
    BY <1>4 DEF FinishFails
  <2> HIDE DEF p
  <2> QED
    BY <2>1, <2>2, <2>3
<1> QED
  BY <1>2, <1>3, <1>4

LEMMA CrashMoves ==
    ASSUME Types, Crash, NEW t \in Tasks
    PROVE  /\ push'["thread"][t] = Idle /\ push'["handler"][t] = push["handler"][t]
           /\ main'[t] = [stage |-> "idle", row |-> 0]
           /\ message'[t] = IF message[t] = "held" THEN "ready" ELSE message[t]
           /\ attempts' = attempts /\ log' = log /\ stranded' = stranded
<1>1. push \in PushType
  BY PushTyped
<1>2. push' = [push EXCEPT !["thread"] = [u \in Tasks |-> Idle]]
  BY DEF Crash
<1>3. push'["thread"][t] = Idle /\ push'["handler"][t] = push["handler"][t]
  BY <1>1, <1>2 DEF PushType, Actors
<1> QED
  BY <1>3 DEF Crash

\* The main thread's stage at a task, as its actions set it.
LEMMA MainMoves ==
    ASSUME Types, NEW u \in Tasks, NEW stage \in MainStages, Main(u, stage), NEW t \in Tasks
    PROVE  /\ main'[t].stage = IF t = u THEN stage ELSE main[t].stage
           /\ main'[t].row = main[t].row
<1>1. main \in [Tasks -> MainRow]
  BY DEF Types, TypeOK, MainRow, MainStages
<1> QED
  BY <1>1 DEF Main, MainRow

LEMMA InitTaskFits == Init => \A t \in Tasks : TaskFits(t)
BY DEF Init, TaskFits, Idle, Actors, MainAt, HasThread

LEMMA NextTaskFits ==
    ASSUME Types, [Next]_vars, \A t \in Tasks : TaskFits(t)
    PROVE  \A t \in Tasks : TaskFits(t)'
<1> SUFFICES ASSUME NEW t \in Tasks
             PROVE  TaskFits(t)'
  OBVIOUS
<1> DEFINE Early == {"none", "checked", "adding"}
<1>1. TaskFits(t) /\ "handler" \in Actors /\ "thread" \in Actors
  BY DEF Actors
<1>2. /\ main \in [Tasks -> MainRow]
      /\ message \in [Tasks -> {"none", "ready", "held", "acked"}]
      /\ attempts \in [Tasks -> 0..MaxAttempts]
  BY DEF Types, TypeOK, MainRow, MainStages
\* Nothing new: no handler starts afresh and no thread starts.
<1> DEFINE Onward == /\ push'["handler"][t].stage \in Early => push["handler"][t].stage \in Early
                     /\ push'["thread"][t].stage # "none" => push["thread"][t].stage # "none"
<1>3. ASSUME Onward, main'[t].stage = main[t].stage, message'[t] = message[t],
             attempts'[t] = attempts[t]
      PROVE  TaskFits(t)'
  BY <1>1, <1>3 DEF TaskFits, MainAt, HasThread, At
<1>4. ASSUME NEW a \in Actors, NEW u \in Tasks, NEW p, Moved(a, u, p),
             a = "handler" => p.stage \notin Early \/ push[a][u].stage \in Early,
             a = "thread" => p.stage = "none" \/ push[a][u].stage # "none"
      PROVE  Onward
  BY <1>1, <1>4 DEF Moved
<1>5. ASSUME NEW a \in Actors, NEW u \in Tasks,
             FindExisting(a, u) \/ AdoptRow(a, u) \/ CreateRow(a, u) \/ BeginFails(a, u)
      PROVE  TaskFits(t)'
  <2>1. Onward
    BY <1>4, <1>5, BeginStages
  <2>2. main' = main /\ message' = message /\ attempts' = attempts
    BY <1>5 DEF FindExisting, AdoptRow, CreateRow, BeginFails
  <2> QED
    BY <1>3, <2>1, <2>2
<1>6. ASSUME NEW u \in Tasks, HasRunningPush(u) \/ FindRunningTask(u) \/ SendFails(u)
      PROVE  TaskFits(t)'
  <2>1. /\ main' = main /\ message' = message /\ attempts' = attempts
        /\ push["handler"][u].stage \in Early
        /\ \E stage \in {"none", "checked", "adding", "answered"} : Go("handler", u, stage)
    BY <1>6 DEF HasRunningPush, FindRunningTask, SendFails, At
  <2>2. Onward
    BY <1>1, <1>4, <2>1, HandlerGoes DEF PushStages
  <2> QED
    BY <1>3, <2>1, <2>2
<1>7. ASSUME NEW u \in Tasks, AddWorkerTask(u) \/ EnqueueDuePush(u)
      PROVE  TaskFits(t)'
  <2>1. /\ main' = main /\ attempts' = attempts
        /\ push["handler"][u].stage \in Early
        /\ message' = [message EXCEPT ![u] = "ready"]
        /\ \E stage \in {"finding", "answered"} : Go("handler", u, stage)
    BY <1>7 DEF AddWorkerTask, EnqueueDuePush, At
  <2>2. PICK p : Moved("handler", u, p) /\ p.stage \in {"finding", "answered"}
    BY <2>1, HandlerGoes DEF PushStages
  <2>3. Onward
    BY <1>1, <1>4, <2>1, <2>2
  <2>4. CASE t # u
    BY <1>2, <1>3, <2>1, <2>3, <2>4
  <2>5. CASE t = u
    <3>1. message[t] = "none"
      BY <1>1, <2>1, <2>5 DEF TaskFits
    <3>2. MainAt(t, "idle") /\ ~HasThread(t)
      BY <1>1, <3>1 DEF TaskFits
    <3>3. message'[t] = "ready" /\ push'["handler"][t].stage \notin Early
      BY <1>1, <1>2, <2>1, <2>2, <2>5 DEF Moved
    <3>4. push'["thread"][t].stage = "none"
      BY <2>3, <3>2 DEF HasThread, At
    <3> QED
      BY <2>1, <3>2, <3>3, <3>4 DEF TaskFits, MainAt, HasThread, At
  <2> QED
    BY <2>4, <2>5
<1>8. ASSUME NEW u \in Tasks,
             \/ \E status \in {"success", "error"} : Push(u, status)
             \/ FinishPushLog(u) \/ FinishFails(u)
      PROVE  TaskFits(t)'
  <2>1. Onward
    BY <1>1, <1>4, <1>8, WorkingStages
  <2>2. main' = main /\ message' = message /\ attempts' = attempts
    BY <1>8 DEF Push, FinishPushLog, FinishFails
  <2> QED
    BY <1>3, <2>1, <2>2
<1>9. ASSUME NEW u \in Tasks, Deliver(u)
      PROVE  TaskFits(t)'
  <2>1. PICK p : Moved("thread", u, p) /\ p.stage = "finding"
    <3>1. [Idle EXCEPT !.stage = "finding"].stage = "finding"
      BY DEF Idle
    <3> QED
      BY <1>9, <3>1, ThreadMoves
  <2>2. push'["handler"][t].stage = push["handler"][t].stage
    BY <1>1, <2>1 DEF Moved
  <2>3. CASE t # u
    <3>1. message'[t] = message[t] /\ attempts'[t] = attempts[t]
      BY <1>2, <1>9, <2>3 DEF Deliver
    <3>2. main'[t].stage = main[t].stage
      BY <1>9, <2>3, MainMoves DEF Deliver, MainStages
    <3>3. push'["thread"][t] = push["thread"][t]
      BY <1>1, <2>1, <2>3 DEF Moved
    <3> QED
      BY <1>3, <2>2, <3>1, <3>2, <3>3
  <2>4. CASE t = u
    <3>1. message'[t] = "held" /\ message[t] = "ready"
      BY <1>2, <1>9, <2>4 DEF Deliver
    <3>2. main'[t].stage \in {"listening", "finding"}
      BY <1>9, <2>4, MainMoves DEF Deliver, MainStages
    <3>3. attempts'[t] # 0
      <4>1. CASE CanAttempt(u)
        BY <1>2, <1>9, <2>4, <4>1 DEF Deliver
      <4>2. CASE ~CanAttempt(u)
        BY <1>2, <1>9, <2>4, <4>2, BoundsAssumption DEF Deliver, CanAttempt
      <4> QED
        BY <4>1, <4>2
    <3>4. push["handler"][t].stage \notin Early
      BY <1>1, <3>1 DEF TaskFits
    <3> QED
      BY <2>2, <3>1, <3>2, <3>3, <3>4 DEF TaskFits, MainAt, HasThread, At
  <2> QED
    BY <2>3, <2>4
<1>10. ASSUME NEW u \in Tasks, NEW stage, main[u].stage # "idle", stage # "idle",
              \A v \in Tasks : main'[v].stage = IF v = u THEN stage ELSE main[v].stage,
              message' = message, attempts' = attempts, Onward
       PROVE  TaskFits(t)'
  BY <1>1, <1>10 DEF TaskFits, MainAt, HasThread, At
<1>11. ASSUME NEW u \in Tasks, Report(u) \/ ThreadDies(u)
       PROVE  TaskFits(t)'
  <2>1. Idle.stage = "none" /\ Moved("thread", u, Idle)
    BY <1>11, ThreadMoves DEF Idle
  <2>2. Onward
    BY <1>1, <1>4, <2>1
  <2>3. /\ message' = message /\ attempts' = attempts
        /\ \/ main' = main
           \/ main[u].stage = "listening" /\ \E stage \in {"finding", "saving"} : Main(u, stage)
    BY <1>11 DEF Report, ThreadDies, MainAt
  <2>4. CASE main' = main
    BY <1>3, <2>2, <2>3, <2>4
  <2>5. ASSUME NEW stage \in {"finding", "saving"}, Main(u, stage), main[u].stage = "listening"
        PROVE  TaskFits(t)'
    BY <1>10, <2>2, <2>3, <2>5, MainMoves DEF MainStages
  <2> QED
    BY <2>3, <2>4, <2>5
<1>12. ASSUME NEW u \in Tasks,
              FailPushLogFind(u) \/ FailPushLogUpdate(u) \/ FailPushLogFails(u) \/ SaveTask(u)
       PROVE  TaskFits(t)'
  <2>1. push' = push /\ message' = message /\ attempts' = attempts /\ main[u].stage # "idle"
    BY <1>12 DEF FailPushLogFind, FailPushLogUpdate, FailPushLogFails, SaveTask, MainAt
  <2>2. \E stage \in {"saving", "failing", "acking"} :
            \A v \in Tasks : main'[v].stage = IF v = u THEN stage ELSE main[v].stage
    <3>1. CASE FailPushLogFind(u)
      <4>1. ASSUME NEW i, main' = [main EXCEPT ![u].stage = "failing", ![u].row = i]
            PROVE  \A v \in Tasks : main'[v].stage = IF v = u THEN "failing" ELSE main[v].stage
        BY <1>2, <4>1 DEF MainRow
      <4> QED
        BY <3>1, <4>1, MainMoves DEF FailPushLogFind, MainStages
    <3>2. CASE FailPushLogUpdate(u) \/ FailPushLogFails(u)
      <4>1. main' = [main EXCEPT ![u] = [stage |-> "saving", row |-> 0]]
        BY <3>2 DEF FailPushLogUpdate, FailPushLogFails
      <4> QED
        BY <1>2, <4>1
    <3>3. CASE SaveTask(u)
      BY <3>3, MainMoves DEF SaveTask, MainStages
    <3> QED
      BY <1>12, <3>1, <3>2, <3>3
  <2>3. Onward
    BY <2>1
  <2> QED
    BY <1>10, <2>1, <2>2, <2>3
<1>13. ASSUME NEW u \in Tasks, Ack(u)
       PROVE  TaskFits(t)'
  <2>1. /\ push' = push /\ attempts' = attempts /\ main[u].stage = "acking" /\ Main(u, "idle")
        /\ message' = [message EXCEPT ![u] = "acked"]
    BY <1>13 DEF Ack, MainAt
  <2>2. main'[t].stage = IF t = u THEN "idle" ELSE main[t].stage
    BY <2>1, MainMoves DEF MainStages
  <2>3. CASE t # u
    BY <1>2, <1>3, <2>1, <2>2, <2>3
  <2>4. CASE t = u
    <3>1. message'[t] = "acked" /\ message[t] = "held" /\ attempts[t] # 0
      BY <1>1, <1>2, <2>1, <2>4 DEF TaskFits, MainAt
    <3>2. push["handler"][t].stage \notin Early
      BY <1>1, <3>1 DEF TaskFits
    <3> QED
      BY <2>1, <2>2, <2>4, <3>1, <3>2 DEF TaskFits, MainAt, HasThread, At
  <2> QED
    BY <2>3, <2>4
<1>14. CASE Crash
  <2>1. Idle.stage = "none"
    BY DEF Idle
  <2> QED
    BY <1>1, <1>14, <2>1, CrashMoves DEF TaskFits, MainAt, HasThread, At
<1>15. ASSUME NEW i \in 1..MaxRows, BecomesStale(i)
       PROVE  TaskFits(t)'
  BY <1>3, <1>15 DEF BecomesStale
<1>16. CASE UNCHANGED vars
  BY <1>3, <1>16 DEF vars
<1> HIDE DEF Onward, Early
<1> QED
  BY <1>1, <1>5, <1>6, <1>7, <1>8, <1>9, <1>11, <1>12, <1>13, <1>14, <1>15, <1>16
     DEF Next, Thread, MainThread
----------------------------------------------------------------------------
(* Rows that are not stranded. *)

\* No row becomes unstranded, and those that are still are alone.
Kept == \A i \in Unstranded' : /\ i \in Unstranded /\ log'[i].task = log[i].task
                               /\ Alone(i)'

LEMMA QuietLog ==
    ASSUME Types, \A i \in Unstranded : Alone(i), log' = log, stranded \subseteq stranded'
    PROVE  Kept
BY DEF Kept, Unstranded, Alone, FreshRunning, NamedRows, Running

\* A row that ends is no longer one of them.
LEMMA RowEnds ==
    ASSUME Types, \A i \in Unstranded : Alone(i), stranded' = stranded,
           NEW r, NEW s \in {"success", "error"}, log' = [log EXCEPT ![r].status = s]
    PROVE  Kept /\ r \notin Unstranded'
<1>1. \A i \in DOMAIN log : log[i] \in LogRow
  BY RowsOfLog
<1>2. DOMAIN log' = DOMAIN log
  OBVIOUS
<1>3. ASSUME NEW i \in DOMAIN log
      PROVE  /\ log'[i].task = log[i].task /\ log'[i].fresh = log[i].fresh
             /\ log'[i].status = IF i = r THEN s ELSE log[i].status
  BY <1>1, <1>3 DEF LogRow
<1>4. FreshRunning' = FreshRunning \ {r}
  BY <1>2, <1>3 DEF FreshRunning, Running
<1>5. \A t : NamedRows(t)' = NamedRows(t) \ {r}
  BY <1>2, <1>3 DEF NamedRows, Running
<1>6. ASSUME NEW i \in Unstranded'
      PROVE  /\ i \in Unstranded /\ i # r /\ log'[i].task = log[i].task
             /\ Alone(i)'
  <2>1. i \in Unstranded /\ i # r /\ i \in DOMAIN log
    BY <1>4, <1>6 DEF Unstranded, FreshRunning
  <2>2. log'[i].task = log[i].task
    BY <1>3, <2>1
  <2>3. FreshRunning = {i} /\ NamedRows(log[i].task) = {i}
    BY <2>1 DEF Alone
  <2>4. FreshRunning' = {i}
    BY <1>4, <2>1, <2>3
  <2>5. {j \in DOMAIN log' : Running(j)' /\ log'[j].task = log'[i].task} = {i}
    BY <1>5, <2>1, <2>2, <2>3 DEF NamedRows
  <2> QED
    BY <2>1, <2>2, <2>4, <2>5 DEF Alone, NamedRows
<1>7. r \notin Unstranded'
  BY <1>6
<1> QED
  BY <1>6, <1>7 DEF Kept

\* The only fresh row is no longer it.
LEMMA RowBecomesStale ==
    ASSUME Types, \A i \in Unstranded : Alone(i), NEW r \in 1..MaxRows, BecomesStale(r)
    PROVE  Kept
<1>1. \A i \in DOMAIN log : log[i] \in LogRow
  BY RowsOfLog
<1>2. r \in FreshRunning /\ log' = [log EXCEPT ![r].fresh = FALSE] /\ stranded' = stranded
  BY DEF BecomesStale
<1>3. FreshRunning' = FreshRunning \ {r}
  <2>1. ASSUME NEW i \in DOMAIN log
        PROVE  /\ log'[i].status = log[i].status
               /\ log'[i].fresh = IF i = r THEN FALSE ELSE log[i].fresh
    BY <1>1, <1>2, <2>1 DEF LogRow
  <2> QED
    BY <1>2, <2>1 DEF FreshRunning, Running
<1>4. ASSUME NEW i \in Unstranded'
      PROVE  FALSE
  <2>1. i \in Unstranded /\ i # r
    BY <1>2, <1>3 DEF Unstranded
  <2> QED
    BY <1>2, <2>1 DEF Alone
<1> QED
  BY <1>4 DEF Kept

\* A row that is begun strands every other, or is the only one.
LEMMA RowBegins ==
    ASSUME Types, NEW a \in Actors, NEW t \in Tasks, AdoptRow(a, t) \/ CreateRow(a, t)
    PROVE  \E i \in 1..MaxRows :
             /\ Begun(a, t, i)
             /\ \A j \in Unstranded' : j = i /\ log'[j].task = t /\ Alone(j)' /\ ~Late(a, t)
<1>1. /\ log \in Seq(LogRow) /\ DOMAIN log = 1..Len(log) /\ DOMAIN log \subseteq 1..MaxRows
      /\ Len(log) \in Nat /\ \A j \in DOMAIN log : log[j] \in LogRow
  BY RowsOfLog
<1>2. PICK i \in 1..MaxRows :
        /\ Begun(a, t, i) /\ stranded' = Stranded(a, t, i)
        /\ i \in DOMAIN log' /\ DOMAIN log \subseteq DOMAIN log' /\ log'[i].task = t
        /\ \A j \in DOMAIN log' : j # i => j \in DOMAIN log /\ log'[j] = log[j]
  <2>1. CASE AdoptRow(a, t)
    <3> DEFINE i == push[a][t].row
    <3>1. i \in DOMAIN log
      BY <2>1 DEF AdoptRow, At, Types, PushFits
    <3>2. Begun(a, t, i) /\ stranded' = Stranded(a, t, i) /\ log' = [log EXCEPT ![i].task = t]
      BY <2>1 DEF AdoptRow, RowTask
    <3> HIDE DEF i
    <3>3. DOMAIN log' = DOMAIN log /\ log'[i].task = t
      BY <1>1, <3>1, <3>2 DEF LogRow
    <3>4. \A j \in DOMAIN log : j # i => log'[j] = log[j]
      BY <3>2
    <3> QED
      BY <1>1, <3>1, <3>2, <3>3, <3>4
  <2>2. CASE CreateRow(a, t)
    <3> DEFINE i == Len(log) + 1
               r == [status |-> "running", task |-> t, fresh |-> TRUE]
    <3>1. /\ Begun(a, t, i) /\ stranded' = Stranded(a, t, i) /\ log' = Append(log, r)
          /\ Len(log) < MaxRows
      BY <2>2 DEF CreateRow
    <3>2. i \in 1..MaxRows /\ r.task = t
      BY <1>1, <3>1, BoundsAssumption
    <3> HIDE DEF r
    <3>3. /\ DOMAIN log' = 1..i /\ log'[i] = r
          /\ \A j \in 1..Len(log) : log'[j] = log[j]
      BY <1>1, <3>1
    <3>4. \A j \in 1..i : j # i => j \in 1..Len(log)
      BY <1>1
    <3>5. DOMAIN log \subseteq DOMAIN log' /\ i \in DOMAIN log'
      BY <1>1, <3>3
    <3> QED
      BY <1>1, <3>1, <3>2, <3>3, <3>4, <3>5
  <2> QED
    BY <2>1, <2>2
<1> DEFINE beside == (FreshRunning \cup NamedRows(t)) \ {i}
<1>3. ASSUME NEW j \in DOMAIN log', j # i
      PROVE  /\ j \in FreshRunning' <=> j \in FreshRunning
             /\ \A s : j \in NamedRows(s)' <=> j \in NamedRows(s)
  BY <1>2, <1>3 DEF FreshRunning, NamedRows, Running
<1>4. ASSUME NEW j \in Unstranded'
      PROVE  j = i /\ log'[j].task = t /\ Alone(j)' /\ ~Late(a, t)
  <2>1. j \in FreshRunning' /\ j \in DOMAIN log' /\ j \notin Stranded(a, t, i)
    BY <1>2 DEF Unstranded, FreshRunning
  <2>2. beside = {}
    <3>1. beside # {} => Stranded(a, t, i) = stranded \cup beside \cup {i}
      BY DEF Stranded
    <3> QED
      BY <1>3, <2>1, <3>1
  <2>3. j = i
    BY <1>3, <2>1, <2>2
  <2>4. ~Late(a, t)
    BY <2>1, <2>2, <2>3 DEF Stranded
  <2>5. FreshRunning' = {i}
    <3>1. ASSUME NEW k \in FreshRunning'
          PROVE  k = i
      <4>1. k \in DOMAIN log'
        BY DEF FreshRunning
      <4> QED
        BY <1>3, <2>2, <4>1
    <3> QED
      BY <2>1, <2>3, <3>1
  <2>6. {k \in DOMAIN log' : Running(k)' /\ log'[k].task = log'[i].task} = {i}
    <3>1. ASSUME NEW k \in DOMAIN log', Running(k)', log'[k].task = t
          PROVE  k = i
      <4>1. k \in NamedRows(t)'
        BY <3>1 DEF NamedRows
      <4> QED
        BY <1>3, <2>2, <4>1
    <3>2. Running(i)'
      BY <2>1, <2>3 DEF FreshRunning
    <3> QED
      BY <1>2, <3>1, <3>2
  <2> QED
    BY <1>2, <2>3, <2>4, <2>5, <2>6 DEF Alone, NamedRows
<1> QED
  BY <1>2, <1>4
----------------------------------------------------------------------------
(* Who attends to a row. *)

\* A row that has just been begun.
LEMMA BegunIsAttended ==
    ASSUME Types, \A t \in Tasks : TaskFits(t), NEW a \in Actors, NEW t \in Tasks,
           AdoptRow(a, t) \/ CreateRow(a, t), NEW i \in Unstranded'
    PROVE  log'[i].task = t /\ Alone(i)' /\ Attended(i, t)'
<1>1. PICK j \in 1..MaxRows :
        /\ Begun(a, t, j)
        /\ \A k \in Unstranded' : k = j /\ log'[k].task = t /\ Alone(k)' /\ ~Late(a, t)
  BY RowBegins
<1>2. /\ i \in 0..MaxRows /\ Begun(a, t, i) /\ log'[i].task = t /\ Alone(i)' /\ ~Late(a, t)
  BY <1>1, BoundsAssumption
<1>3. main' = main /\ message' = message
  BY DEF AdoptRow, CreateRow
<1>4. CASE a = "handler"
  <2>1. attempts[t] = 0
    BY <1>2, <1>4 DEF Late, Types, TypeOK
  <2>2. MainAt(t, "idle") /\ message[t] # "acked"
    BY <2>1 DEF TaskFits
  <2> QED
    BY <1>2, <1>3, <2>2 DEF Attended, MainAt
<1>5. CASE a # "handler"
  <2>1. a = "thread" /\ MainAt(t, "listening")
    BY <1>2, <1>5 DEF Late, Actors
  <2>2. Moved("thread", t, PushingRow(i))
    BY <1>2, <2>1, Beginning
  <2>3. push'["thread"][t].stage = "pushing" /\ push'["thread"][t].row = i
    BY <1>2, <2>2, BegunRows DEF Moved
  <2> QED
    BY <1>2, <1>3, <2>1, <2>3 DEF Attended, MainAt, At
<1> QED
  BY <1>4, <1>5

\* A row that was there before.
LEMMA KeptIsAttended ==
    ASSUME Types, \A t \in Tasks : TaskFits(t), [Next]_vars,
           \A j \in Unstranded : Alone(j) /\ Attended(j, log[j].task),
           NEW i \in Unstranded, i \in Unstranded', NEW t \in Tasks, log[i].task = t,
           ~ \E a \in Actors, u \in Tasks : AdoptRow(a, u) \/ CreateRow(a, u)
    PROVE  Attended(i, t)'
<1>1. /\ Attended(i, t) /\ FreshRunning = {i} /\ NamedRows(t) = {i}
      /\ TaskFits(t) /\ "handler" \in Actors /\ "thread" \in Actors
  BY DEF Actors, Alone
<1>2. /\ main \in [Tasks -> MainRow]
      /\ message \in [Tasks -> {"none", "ready", "held", "acked"}]
  BY DEF Types, TypeOK, MainRow, MainStages
<1>3. ASSUME push'["thread"][t] = push["thread"][t], main'[t] = main[t],
             message'[t] = message[t] \/ message'[t] # "acked"
      PROVE  Attended(i, t)'
  BY <1>1, <1>3 DEF Attended, MainAt, At
<1>4. ASSUME NEW u \in Tasks,
             \/ HasRunningPush(u) \/ FindRunningTask(u) \/ SendFails(u) \/ AddWorkerTask(u)
             \/ EnqueueDuePush(u)
      PROVE  Attended(i, t)'
  <2>1. /\ main' = main
        /\ message' = message \/ message' = [message EXCEPT ![u] = "ready"]
        /\ \E stage \in {"none", "checked", "adding", "finding", "answered"} :
               Go("handler", u, stage)
    BY <1>4 DEF HasRunningPush, FindRunningTask, SendFails, AddWorkerTask, EnqueueDuePush
  <2>2. \E p : Moved("handler", u, p)
    BY <2>1, HandlerGoes DEF PushStages
  <2>3. push'["thread"][t] = push["thread"][t]
    BY <1>1, <2>2 DEF Moved
  <2> QED
    BY <1>2, <1>3, <2>1, <2>3
<1>5. ASSUME NEW a \in Actors, NEW u \in Tasks, FindExisting(a, u) \/ BeginFails(a, u)
      PROVE  Attended(i, t)'
  <2>1. main' = main /\ message' = message /\ \E p : Moved(a, u, p)
    BY <1>5, BeginStages DEF FindExisting, BeginFails
  <2>2. CASE a # "thread" \/ u # t
    <3>1. push'["thread"][t] = push["thread"][t]
      BY <1>1, <2>1, <2>2 DEF Moved
    <3> QED
      BY <1>3, <2>1, <3>1
  <2>3. CASE FindExisting(a, u) /\ a = "thread" /\ u = t
    <3>1. Moved("thread", t, PushingRow(i))
      BY <1>1, <2>3, Looking
    <3>2. i \in 0..MaxRows
      BY <1>1, RowsOfLog DEF FreshRunning
    <3>3. push'["thread"][t].stage = "pushing" /\ push'["thread"][t].row = i
      BY <3>1, <3>2, BegunRows DEF Moved
    <3> QED
      BY <1>1, <2>1, <3>3 DEF Attended, MainAt, At
  <2>4. CASE BeginFails(a, u) /\ a = "thread" /\ u = t
    <3> DEFINE p == [push["thread"][t] EXCEPT
          !.stage = IF "thread" = "handler" THEN "answered" ELSE "reporting", !.status = "error"]
    <3>1. Moved("thread", t, p)
      BY <1>1, <2>4, BeginFailsMoves
    <3>2. p.stage = "reporting" /\ p.status = "error"
      BY <1>1, PushTyped DEF PushRow
    <3> HIDE DEF p
    <3>3. push'["thread"][t].stage = "reporting" /\ push'["thread"][t].status = "error"
      BY <3>1, <3>2 DEF Moved
    <3> QED
      BY <1>1, <2>1, <3>3 DEF Attended, MainAt, At
  <2> QED
    BY <1>5, <2>2, <2>3, <2>4
<1>6. ASSUME NEW u \in Tasks,
             \/ \E status \in {"success", "error"} : Push(u, status)
             \/ FinishPushLog(u) \/ FinishFails(u)
      PROVE  Attended(i, t)'
  <2>1. main' = main /\ message' = message
    BY <1>6 DEF Push, FinishPushLog, FinishFails
  <2>2. PICK p :
          /\ Moved("thread", u, p)
          /\ p.stage \in {"finishing", "reporting"} /\ p.row = push["thread"][u].row
          /\ push["thread"][u].stage = "reporting" =>
                 p.stage = "finishing" /\ push["thread"][u].status # "error"
          /\ p.stage = "reporting" =>
                 \/ FinishPushLog(u) /\ p.status = push["thread"][u].status
                 \/ p.status = "error"
    BY <1>6, WorkingStages
  <2>3. CASE u # t
    <3>1. push'["thread"][t] = push["thread"][t]
      BY <1>1, <2>2, <2>3 DEF Moved
    <3> QED
      BY <1>3, <2>1, <3>1
  <2>4. CASE u = t /\ ~MainAt(t, "listening")
    BY <1>1, <2>1, <2>4 DEF Attended, MainAt
  <2>5. CASE u = t /\ MainAt(t, "listening")
    <3>1. push["thread"][t].stage \in {"pushing", "finishing", "reporting"}
      BY <1>6, <2>5, WorkingStages
    <3>2. \/ push["thread"][t].stage \in {"pushing", "finishing"} /\ push["thread"][t].row = i
          \/ push["thread"][t].stage = "reporting" /\ push["thread"][t].status = "error"
      BY <1>1, <2>5, <3>1 DEF Attended, At
    <3>3. push["thread"][t].stage \in {"pushing", "finishing"} /\ p.row = i
      BY <2>2, <2>5, <3>2
    <3>4. ~FinishPushLog(t)
      <4>1. SUFFICES ASSUME FinishPushLog(t) PROVE FALSE
        OBVIOUS
      <4>2. push["thread"][t].status \in {"success", "error"}
        BY <1>1, <4>1 DEF FinishPushLog, At, Types, PushFits
      <4>3. /\ log' = [log EXCEPT ![push["thread"][t].row].status = push["thread"][t].status]
            /\ stranded' = stranded
        BY <4>1 DEF FinishPushLog
      <4>4. push["thread"][t].row \notin Unstranded'
        BY <4>2, <4>3, RowEnds
      <4>5. push["thread"][t].row = i
        BY <2>2, <2>5, <3>3
      <4> QED
        BY <4>4, <4>5
    <3>5. p.stage = "reporting" => p.status = "error"
      BY <2>2, <2>5, <3>4
    <3>6. push'["thread"][t] = p
      BY <2>2, <2>5 DEF Moved
    <3> QED
      BY <1>1, <2>1, <2>2, <3>3, <3>5, <3>6 DEF Attended, MainAt, At
  <2> QED
    BY <2>3, <2>4, <2>5
<1>7. ASSUME NEW u \in Tasks, Deliver(u)
      PROVE  Attended(i, t)'
  <2> DEFINE p == [Idle EXCEPT !.stage = "finding"]
  <2>1. Moved("thread", u, p) /\ p.stage = "finding"
    BY <1>7, ThreadMoves DEF Idle
  <2> HIDE DEF p
  <2>2. CASE u # t
    <3>1. push'["thread"][t] = push["thread"][t] /\ message'[t] = message[t]
      BY <1>1, <1>2, <1>7, <2>1, <2>2 DEF Moved, Deliver
    <3>2. main'[t] = main[t]
      BY <1>2, <1>7, <2>2 DEF Deliver, Main
    <3> QED
      BY <1>3, <3>1, <3>2
  <2>3. CASE u = t
    <3>1. main'[t].stage \in {"listening", "finding"}
      BY <1>7, <2>3, MainMoves DEF Deliver, MainStages
    <3>2. push'["thread"][t].stage = "finding"
      BY <2>1, <2>3 DEF Moved
    <3> QED
      BY <3>1, <3>2 DEF Attended, MainAt, At
  <2> QED
    BY <2>2, <2>3
<1>8. ASSUME NEW u \in Tasks, Report(u) \/ ThreadDies(u)
      PROVE  Attended(i, t)'
  <2>1. Moved("thread", u, Idle) /\ message' = message
    BY <1>8, ThreadMoves DEF Report, ThreadDies
  <2>2. CASE u # t
    <3>1. push'["thread"][t] = push["thread"][t]
      BY <1>1, <2>1, <2>2 DEF Moved
    <3>2. main'[t] = main[t]
      BY <1>2, <1>8, <2>2 DEF Report, ThreadDies, Main
    <3> QED
      BY <1>3, <2>1, <3>1, <3>2
  <2>3. CASE u = t /\ MainAt(t, "listening")
    <3>1. Report(t) => push["thread"][t].status = "error"
      BY <1>1, <2>3 DEF Report, Attended, At
    <3>2. Main(t, "finding")
      BY <1>8, <2>3, <3>1 DEF Report, ThreadDies
    <3>3. main'[t].stage = "finding"
      BY <3>2, MainMoves DEF MainStages
    <3> QED
      BY <3>3 DEF Attended, MainAt
  <2>4. CASE u = t /\ ~MainAt(t, "listening")
    <3>1. main' = main
      BY <1>8, <2>4 DEF Report, ThreadDies
    <3> QED
      BY <1>1, <2>1, <2>4, <3>1 DEF Attended, MainAt
  <2> QED
    BY <2>2, <2>3, <2>4
<1>9. ASSUME NEW u \in Tasks, FailPushLogFind(u)
      PROVE  Attended(i, t)'
  <2>1. push' = push /\ message' = message
    BY <1>9 DEF FailPushLogFind
  <2>2. CASE u # t
    <3>1. main'[t] = main[t]
      BY <1>2, <1>9, <2>2 DEF FailPushLogFind, Main
    <3> QED
      BY <1>3, <2>1, <3>1
  <2>3. CASE u = t
    <3>1. main' = [main EXCEPT ![t].stage = "failing", ![t].row = i]
      BY <1>1, <1>9, <2>3 DEF FailPushLogFind
    <3>2. main'[t].stage = "failing" /\ main'[t].row = i
      BY <1>2, <3>1 DEF MainRow
    <3> QED
      BY <3>2 DEF Attended, MainAt
  <2> QED
    BY <2>2, <2>3
<1>10. ASSUME NEW u \in Tasks, FailPushLogUpdate(u) \/ FailPushLogFails(u)
       PROVE  Attended(i, t)'
  <2>1. push' = push /\ message' = message
    BY <1>10 DEF FailPushLogUpdate, FailPushLogFails
  <2>2. u # t
    <3>1. ASSUME FailPushLogUpdate(t) PROVE FALSE
      <4>1. main[t].row = i
        BY <1>1, <3>1 DEF FailPushLogUpdate, Attended
      <4>2. main[t].row \notin Unstranded'
        BY <3>1, RowEnds DEF FailPushLogUpdate
      <4> QED
        BY <4>1, <4>2
    <3>2. ASSUME FailPushLogFails(t) PROVE FALSE
      BY <1>1, <3>2 DEF FailPushLogFails, Unstranded
    <3> QED
      BY <1>10, <3>1, <3>2
  <2>3. main'[t] = main[t]
    BY <1>2, <1>10, <2>2 DEF FailPushLogUpdate, FailPushLogFails
  <2> QED
    BY <1>3, <2>1, <2>3
<1>11. ASSUME NEW u \in Tasks, SaveTask(u) \/ Ack(u)
       PROVE  Attended(i, t)'
  <2>1. u # t /\ push' = push
    BY <1>1, <1>11 DEF SaveTask, Ack, Attended
  <2>2. main'[t] = main[t] /\ message'[t] = message[t]
    BY <1>2, <1>11, <2>1 DEF SaveTask, Ack, Main
  <2> QED
    BY <1>3, <2>1, <2>2
<1>12. CASE Crash
  <2>1. /\ main'[t].stage = "idle"
        /\ message'[t] = IF message[t] = "held" THEN "ready" ELSE message[t]
    BY <1>12, CrashMoves
  <2>2. message'[t] # "acked"
    BY <1>1, <2>1 DEF Attended, TaskFits
  <2> QED
    BY <2>1, <2>2 DEF Attended, MainAt
<1>13. ASSUME NEW r \in 1..MaxRows, BecomesStale(r)
       PROVE  Attended(i, t)'
  BY <1>3, <1>13 DEF BecomesStale
<1>14. CASE UNCHANGED vars
  BY <1>3, <1>14 DEF vars
<1> QED
  BY <1>1, <1>4, <1>5, <1>6, <1>7, <1>8, <1>9, <1>10, <1>11, <1>12, <1>13, <1>14
     DEF Next, Thread, MainThread

\* All other steps keep the rows that are not stranded alone.
LEMMA OtherStepsKeep ==
    ASSUME Types, [Next]_vars, \A i \in Unstranded : Alone(i),
           ~ \E a \in Actors, u \in Tasks : AdoptRow(a, u) \/ CreateRow(a, u)
    PROVE  Kept
<1>1. ASSUME NEW t \in Tasks, FinishPushLog(t)
      PROVE  Kept
  <2>1. push["thread"][t].status \in {"success", "error"}
    BY <1>1 DEF FinishPushLog, At, Types, PushFits, Actors
  <2> QED
    BY <1>1, <2>1, RowEnds DEF FinishPushLog
<1>2. ASSUME NEW t \in Tasks, FailPushLogUpdate(t)
      PROVE  Kept
  BY <1>2, RowEnds DEF FailPushLogUpdate
<1>3. ASSUME NEW i \in 1..MaxRows, BecomesStale(i)
      PROVE  Kept
  BY <1>3, RowBecomesStale
<1>4. ASSUME NEW a \in Actors, NEW t \in Tasks,
             \/ HasRunningPush(t) \/ FindRunningTask(t) \/ AddWorkerTask(t) \/ SendFails(t)
             \/ FindExisting(a, t) \/ EnqueueDuePush(t) \/ BeginFails(a, t)
             \/ FinishFails(t) \/ Deliver(t) \/ Report(t) \/ ThreadDies(t)
             \/ FailPushLogFind(t) \/ FailPushLogFails(t) \/ SaveTask(t) \/ Ack(t)
             \/ \E status \in {"success", "error"} : Push(t, status)
      PROVE  Kept
  <2>1. log' = log /\ stranded \subseteq stranded'
    BY <1>4 DEF HasRunningPush, FindRunningTask, AddWorkerTask, SendFails, FindExisting,
       EnqueueDuePush, BeginFails, FinishFails, Deliver, Report, ThreadDies, FailPushLogFind,
       FailPushLogFails, SaveTask, Ack, Push
  <2> QED
    BY <2>1, QuietLog
<1>5. CASE Crash \/ UNCHANGED vars
  BY <1>5, QuietLog DEF Crash, vars
<1>6. "handler" \in Actors /\ "thread" \in Actors
  BY DEF Actors
<1> QED
  BY <1>1, <1>2, <1>3, <1>4, <1>5, <1>6 DEF Next, Thread, MainThread

LEMMA InitPushLogInv == Init => PushLogInv
<1> SUFFICES ASSUME Init PROVE PushLogInv
  OBVIOUS
<1>1. Unstranded = {}
  BY DEF Init, Unstranded, FreshRunning
<1> QED
  BY <1>1, InitTypes, InitTaskFits DEF PushLogInv

LEMMA NextPushLogInv == PushLogInv /\ [Next]_vars => PushLogInv'
<1> SUFFICES ASSUME PushLogInv, [Next]_vars PROVE PushLogInv'
  OBVIOUS
<1>1. /\ Types /\ \A t \in Tasks : TaskFits(t)
      /\ \A i \in Unstranded : Alone(i) /\ Attended(i, log[i].task)
  BY DEF PushLogInv
<1>2. Types' /\ \A t \in Tasks : TaskFits(t)'
  BY <1>1, NextTypes, NextTaskFits
<1>3. ASSUME NEW i \in Unstranded'
      PROVE  \E t \in Tasks : log'[i].task = t /\ Alone(i)' /\ Attended(i, t)'
  <2>1. CASE \E a \in Actors, u \in Tasks : AdoptRow(a, u) \/ CreateRow(a, u)
    BY <1>1, <2>1, BegunIsAttended
  <2>2. CASE ~ \E a \in Actors, u \in Tasks : AdoptRow(a, u) \/ CreateRow(a, u)
    <3>1. Kept
      BY <1>1, <2>2, OtherStepsKeep
    <3>2. i \in Unstranded /\ log'[i].task = log[i].task /\ Alone(i)'
      BY <3>1 DEF Kept
    <3>3. i \in DOMAIN log
      BY <3>2 DEF Unstranded, FreshRunning
    <3>4. log[i].task \in Tasks
      BY <1>1, <3>3, RowsOfLog DEF LogRow
    <3>5. \A t \in Tasks : log[i].task = t => Attended(i, t)'
      BY <1>1, <2>2, <3>2, KeptIsAttended
    <3> QED
      BY <3>2, <3>4, <3>5
  <2> QED
    BY <2>1, <2>2
<1>4. ASSUME NEW i \in Unstranded'
      PROVE  (Alone(i) /\ Attended(i, log[i].task))'
  BY <1>3 DEF Attended, MainAt, At
<1> QED
  BY <1>2, <1>4 DEF PushLogInv

\* A row that shows a push in progress names a task whose message is not acknowledged,
\* unless it was begun behind its task, begun beside another, or not failed because
\* the database failed.
THEOREM RunningRowsAreOwned == Spec => []RunningIsOwned
<1>1. PushLogInv => RunningIsOwned
  <2> SUFFICES ASSUME PushLogInv, NEW i \in FreshRunning, i \notin stranded
               PROVE  message[log[i].task] # "acked"
    BY DEF RunningIsOwned
  <2>1. Attended(i, log[i].task) /\ i \in DOMAIN log /\ Types
    BY DEF PushLogInv, Unstranded, FreshRunning
  <2>2. log[i].task \in Tasks
    BY <2>1, RowsOfLog DEF LogRow
  <2>3. TaskFits(log[i].task)
    BY <2>2 DEF PushLogInv
  <2> QED
    BY <2>1, <2>3 DEF Attended, TaskFits
<1> QED
  BY InitPushLogInv, NextPushLogInv, <1>1, PTL DEF Spec
============================================================================
