------------------------- MODULE WorkerQueueProofs -------------------------
(***************************************************************************)
(* Theorems about WorkerQueue, for every set of tasks and consumers and    *)
(* every number of faults; and about Exports, which runs the queue and     *)
(* adds nothing to it, so that what is proved of the queue holds there,    *)
(* and what a caller is told is true.                                      *)
(***************************************************************************)
EXTENDS Exports, TLAPS

Stages == {"reading", "counting", "listening", "saving", "acking", "stuck"}

Settled(t) == ~row[t].isProcessing /\ row[t].outcome # "none"

\* A task whose message is not published has no message and no run.
NothingBeforeSend ==
    \A t \in Tasks :
        request[t] \in {"idle", "created"} =>
            message[t] = "none" /\ \A p \in Consumers : run[p][t] = NoRun

\* A run that has finished has an outcome, a result comes from a thread that
\* returned it, and a run about to acknowledge has saved its outcome.
RunSound(r, t) ==
    /\ HasFinished(r) => r.outcome # "none"
    /\ r.outcome = "result" => t \in produced
    /\ r.stage = "acking" => Settled(t)

RunsSettle ==
    \A p \in Consumers, t \in Tasks : run[p][t] # NoRun => RunSound(run[p][t], t)

\* A process that has lost its connection holds no message; one that is gone
\* has no run.
GoneHoldsNothing ==
    \A p \in Consumers, t \in Tasks :
        /\ mode[p] # "up" => message[t] # p
        /\ mode[p] = "down" => run[p][t] = NoRun

\* A message that was never held has started no task; one that is back at the broker
\* was given back for a fault, and its task may be started once more.
StartsBounded ==
    \A t \in Tasks :
        /\ message[t] = "none" => starts[t] = 0
        /\ message[t] = "ready" => starts[t] <= faults
        /\ starts[t] <= 1 + faults

\* The inductive invariant.
QueueInv ==
    /\ TypeOK
    /\ NothingBeforeSend
    /\ RunsSettle
    /\ AckedIsSettled
    /\ ResultsAreReal
    /\ GoneHoldsNothing
    /\ RunsHoldMessages
----------------------------------------------------------------------------
(* How a step changes a run. *)

LEMMA RunUpdates ==
    ASSUME NEW r \in Run, NEW s \in Stages, NEW o \in Outcomes, NEW n \in Nat,
           NEW b \in BOOLEAN
    PROVE  /\ [r EXCEPT !.stage = s] \in Run
           /\ [r EXCEPT !.stage = s, !.seen = n] \in Run
           /\ [r EXCEPT !.stage = s, !.outcome = o] \in Run
           /\ [r EXCEPT !.tries = n, !.stage = s] \in Run
           /\ [r EXCEPT !.killing = b] \in Run
           /\ Finished(r, o) \in Run
<1>1. [r EXCEPT !.stage = s, !.outcome = o] \in Run
  BY DEF Run, Stages, Outcomes
<1>2. Finished(r, o) \in Run
  BY DEF Run, Stages, Outcomes, Finished
<1> QED
  BY <1>1, <1>2 DEF Run, Stages, Outcomes

\* Setting a run leaves the others alone.
LEMMA RunSet ==
    ASSUME TypeOK, NEW p \in Consumers, NEW t \in Tasks, NEW r \in Run \cup {NoRun},
           SetRun(p, t, r)
    PROVE  /\ run' \in [Consumers -> [Tasks -> Run \cup {NoRun}]]
           /\ run'[p][t] = r
           /\ \A q \in Consumers, u \in Tasks : q # p \/ u # t => run'[q][u] = run[q][u]
BY DEF TypeOK, SetRun

\* A step of a run leads to a sound run, and one that had finished keeps its outcome.
Advances(p, t) ==
    \E r \in Run :
        /\ SetRun(p, t, r)
        /\ RunSound(r, t)'
        /\ HasFinished(run[p][t]) => HasFinished(r) /\ r.outcome = run[p][t].outcome

\* Only the row of its task changes, to no less settled, with no outcome but the run's.
KeepsRows(p, t) ==
    \A u \in Tasks : /\ Settled(u) => Settled(u)'
                     /\ u # t => row'[u] = row[u]
                     /\ row'[u].outcome \in {row[u].outcome, run[p][u].outcome}

Moves(p, t) ==
    /\ Up(p) /\ run[p][t] # NoRun /\ run[p][t] \in Run
    /\ Advances(p, t)
    /\ request' = request /\ message' = message /\ mode' = mode
    /\ produced \subseteq produced'
    /\ KeepsRows(p, t)

LEMMA RunMoves ==
    ASSUME TypeOK, RunsSettle, NEW p \in Consumers, NEW t \in Tasks,
           \/ ReadAttempts(p, t) \/ WriteAttempts(p, t) \/ CountFails(p, t)
           \/ Yield(p, t) \/ Terminate(p, t) \/ SaveOutcome(p, t) \/ SaveFails(p, t)
           \/ (ThreadReports(p, t) \/ ThreadDies(p, t)) /\ Listening(p, t)
    PROVE  Moves(p, t)
<1> DEFINE old == run[p][t]
<1>1. old # NoRun /\ Up(p)
  BY DEF ReadAttempts, WriteAttempts, CountFails, Yield, Terminate, SaveOutcome, SaveFails,
         ThreadReports, ThreadDies, Listening
<1>2. /\ old \in Run /\ RunSound(old, t)
      /\ old.stage \in Stages /\ old.outcome \in Outcomes /\ old.tries \in Nat
      /\ row[t].attemptCount \in Nat
  BY <1>1 DEF TypeOK, RunsSettle, Run, Stages
<1>3. /\ \A s \in Stages, o \in Outcomes, n \in Nat, b \in BOOLEAN, r \in Run :
           /\ [r EXCEPT !.stage = s] \in Run
           /\ [r EXCEPT !.stage = s, !.seen = n] \in Run
           /\ [r EXCEPT !.tries = n, !.stage = s] \in Run
           /\ [r EXCEPT !.killing = b] \in Run
           /\ Finished(r, o) \in Run
  BY RunUpdates
<1>frame. /\ request' = request /\ message' = message /\ mode' = mode
      /\ produced \subseteq produced'
      /\ KeepsRows(p, t)
  <2>1. CASE row' = row
    BY <2>1 DEF ReadAttempts, WriteAttempts, CountFails, Yield, Terminate, SaveOutcome,
       SaveFails, ThreadReports, ThreadDies, KeepsRows, Settled
  <2>2. CASE (WriteAttempts(p, t) \/ CountFails(p, t)) /\ row' = Counted(p, t)
    BY <2>2 DEF WriteAttempts, CountFails, Counted, TypeOK, KeepsRows, Settled
  <2>3. CASE (SaveOutcome(p, t) \/ SaveFails(p, t)) /\ row' = Saved(p, t)
    BY <1>2, <2>3 DEF SaveOutcome, SaveFails, Saved, TypeOK, KeepsRows, Settled,
       RunSound, HasFinished
  <2> QED
    BY <2>1, <2>2, <2>3 DEF ReadAttempts, WriteAttempts, CountFails, Yield, Terminate,
       SaveOutcome, SaveFails, ThreadReports, ThreadDies
<1>4. ASSUME ReadAttempts(p, t) PROVE Moves(p, t)
  <2>1. PICK r \in Run :
          r = IF TooMany(row[t].attemptCount) THEN Finished(run[p][t], "error")
              ELSE [run[p][t] EXCEPT !.stage = "counting", !.seen = row[t].attemptCount]
    BY <1>2, <1>3 DEF Stages, Outcomes
  <2>2. SetRun(p, t, r)
    BY <1>4, <2>1 DEF ReadAttempts, OnWorkerFinished
  <2>3. RunSound(r, t)'
    BY <1>2, <1>4, <2>1 DEF ReadAttempts, RunSound, HasFinished, Finished, Settled, Run,
       Outcomes, Stages,
       TypeOK
  <2>4. HasFinished(old) => HasFinished(r) /\ r.outcome = old.outcome
    BY <1>2, <1>4, <2>1 DEF ReadAttempts, HasFinished, Finished, Run
  <2> QED
    BY <1>1, <1>2, <1>frame, <2>1, <2>2, <2>3, <2>4 DEF Moves, Advances
<1>5. ASSUME WriteAttempts(p, t) PROVE Moves(p, t)
  <2>1. PICK r \in Run : r = [run[p][t] EXCEPT !.stage = "listening"]
    BY <1>2, <1>3 DEF Stages, Outcomes
  <2>2. SetRun(p, t, r)
    BY <1>5, <2>1 DEF WriteAttempts
  <2>3. RunSound(r, t)'
    BY <1>2, <1>5, <2>1 DEF WriteAttempts, RunSound, HasFinished, Finished, Settled,
       Run, Outcomes, Stages,
       TypeOK
  <2>4. HasFinished(old) => HasFinished(r) /\ r.outcome = old.outcome
    BY <1>2, <1>5, <2>1 DEF WriteAttempts, HasFinished, Finished, Run
  <2> QED
    BY <1>1, <1>2, <1>frame, <2>1, <2>2, <2>3, <2>4 DEF Moves, Advances
<1>6. ASSUME CountFails(p, t) PROVE Moves(p, t)
  <2>1. PICK r \in Run : r = Finished(run[p][t], "error")
    BY <1>2, <1>3 DEF Stages, Outcomes
  <2>2. SetRun(p, t, r)
    BY <1>6, <2>1 DEF CountFails, OnWorkerFinished
  <2>3. RunSound(r, t)'
    BY <1>2, <1>6, <2>1 DEF CountFails, RunSound, HasFinished, Finished, Settled, Run,
       Outcomes, Stages,
       TypeOK
  <2>4. HasFinished(old) => HasFinished(r) /\ r.outcome = old.outcome
    BY <1>2, <1>6, <2>1 DEF CountFails, HasFinished, Finished, Run
  <2> QED
    BY <1>1, <1>2, <1>frame, <2>1, <2>2, <2>3, <2>4 DEF Moves, Advances
<1>7. ASSUME Yield(p, t) PROVE Moves(p, t)
  <2>1. PICK r \in Run : r = [run[p][t] EXCEPT !.killing = TRUE]
    BY <1>2, <1>3 DEF Stages, Outcomes
  <2>2. SetRun(p, t, r)
    BY <1>7, <2>1 DEF Yield
  <2>3. RunSound(r, t)'
    BY <1>2, <1>7, <2>1 DEF Yield, RunSound, HasFinished, Finished, Settled, Run,
       Outcomes, Stages,
       TypeOK
  <2>4. HasFinished(old) => HasFinished(r) /\ r.outcome = old.outcome
    BY <1>2, <1>7, <2>1 DEF Yield, HasFinished, Finished, Run
  <2> QED
    BY <1>1, <1>2, <1>frame, <2>1, <2>2, <2>3, <2>4 DEF Moves, Advances
<1>8. ASSUME Terminate(p, t) PROVE Moves(p, t)
  <2>0. "error" \in Outcomes /\ Finished(old, "error") \in Run
    BY <1>2, <1>3 DEF Outcomes
  <2>1. PICK r \in Run : r = [Finished(run[p][t], "error") EXCEPT !.killing = FALSE]
    <3>1. [Finished(old, "error") EXCEPT !.killing = FALSE] \in Run
      BY <2>0 DEF Run
    <3> QED
      BY <3>1
  <2>2. SetRun(p, t, r)
    BY <1>8, <2>1 DEF Terminate, KilledAs
  <2>3. /\ ~HasFinished(old) => r.stage = "saving" /\ r.outcome = "error"
        /\ HasFinished(old) => r.stage = old.stage /\ r.outcome = old.outcome
    BY <1>2, <2>1 DEF HasFinished, Finished, Run
  <2>5. RunSound(r, t)'
    BY <1>2, <1>8, <2>3 DEF Terminate, RunSound, HasFinished, Settled
  <2>4. HasFinished(old) => HasFinished(r) /\ r.outcome = old.outcome
    BY <2>3 DEF HasFinished
  <2> QED
    BY <1>1, <1>2, <1>frame, <2>1, <2>2, <2>4, <2>5 DEF Moves, Advances
<1>9. ASSUME SaveOutcome(p, t) PROVE Moves(p, t)
  <2>1. PICK r \in Run : r = [run[p][t] EXCEPT !.stage = "acking"]
    BY <1>2, <1>3 DEF Stages, Outcomes
  <2>2. SetRun(p, t, r)
    BY <1>9, <2>1 DEF SaveOutcome
  <2>3. RunSound(r, t)'
    BY <1>2, <1>9, <2>1 DEF SaveOutcome, Saved, RunSound, HasFinished, Finished, Settled, Run,
       Outcomes, Stages,
       TypeOK
  <2>4. HasFinished(old) => HasFinished(r) /\ r.outcome = old.outcome
    BY <1>2, <1>9, <2>1 DEF SaveOutcome, HasFinished, Finished, Run
  <2> QED
    BY <1>1, <1>2, <1>frame, <2>1, <2>2, <2>3, <2>4 DEF Moves, Advances
<1>10. ASSUME SaveFails(p, t) PROVE Moves(p, t)
  <2>1. PICK r \in Run : r = [run[p][t] EXCEPT !.tries = run[p][t].tries + 1,
                           !.stage = AfterFailure(run[p][t].tries + 1)]
    <3>1. old.tries + 1 \in Nat /\ AfterFailure(old.tries + 1) \in Stages
      BY <1>2 DEF Stages, AfterFailure
    <3> QED
      BY <1>2, <1>3, <3>1
  <2>2. SetRun(p, t, r)
    BY <1>10, <2>1 DEF SaveFails
  <2>3. RunSound(r, t)'
    BY <1>2, <1>10, <2>1 DEF SaveFails, RunSound, HasFinished, Finished, Settled, Run,
       Outcomes, Stages,
       TypeOK, AfterFailure
  <2>4. HasFinished(old) => HasFinished(r) /\ r.outcome = old.outcome
    BY <1>2, <1>10, <2>1 DEF SaveFails, HasFinished, Finished, Run, AfterFailure
  <2> QED
    BY <1>1, <1>2, <1>frame, <2>1, <2>2, <2>3, <2>4 DEF Moves, Advances
<1>11. ASSUME (ThreadReports(p, t) \/ ThreadDies(p, t)) /\ Listening(p, t)
      PROVE  Moves(p, t)
  <2>1. PICK o \in {"result", "error"} :
          /\ SetRun(p, t, Finished(old, o))
          /\ produced' = (IF o = "result" THEN produced \cup {t} ELSE produced)
          /\ row' = row
    BY <1>11 DEF ThreadReports, ThreadDies, OnWorkerFinished
  <2>2. PICK r \in Run : r = Finished(old, o)
    BY <1>2, <1>3 DEF Outcomes
  <2>3. ~HasFinished(old)
    BY <1>11 DEF Listening, HasFinished
  <2>4. RunSound(r, t)'
    BY <1>2, <2>1, <2>2, <2>3 DEF RunSound, HasFinished, Finished, Settled, Run
  <2> QED
    BY <1>1, <1>2, <1>frame, <2>1, <2>2, <2>3, <2>4 DEF Moves, Advances
<1> QED
  BY <1>4, <1>5, <1>6, <1>7, <1>8, <1>9, <1>10, <1>11

\* The ways a step can go, the threads and their counters left aside.
Quiet(p, t) == ThreadReports(p, t) /\ ~Listening(p, t)
Leaves(p) == Gone(p) /\ UNCHANGED <<request, row, produced>>

StepKind ==
    \/ \E t \in Tasks : CreateWorkerTask(t) \/ SendMessage(t) \/ SendFails(t)
    \/ \E p \in Consumers, t \in Tasks :
         Deliver(p, t) \/ Moves(p, t) \/ Quiet(p, t) \/ Ack(p, t)
    \/ \E p \in Consumers : Leaves(p) \/ ConnectionLost(p) \/ Restart(p)
    \/ UNCHANGED vars

LEMMA StepKinds ==
    ASSUME TypeOK, RunsSettle, [Next]_vars
    PROVE  StepKind
<1>1. ASSUME NEW p \in Consumers, NEW t \in Tasks, ThreadReports(p, t) \/ ThreadDies(p, t)
      PROVE  Moves(p, t) \/ Quiet(p, t) \/ Leaves(p)
  <2>1. CASE Listening(p, t)
    BY <1>1, <2>1, RunMoves
  <2>2. CASE ~Listening(p, t)
    BY <1>1, <2>2 DEF Quiet, Leaves, ThreadDies
  <2> QED
    BY <2>1, <2>2
<1>2. ASSUME NEW p \in Consumers, NEW t \in Tasks,
             \/ ReadAttempts(p, t) \/ WriteAttempts(p, t) \/ CountFails(p, t)
             \/ Yield(p, t) \/ Terminate(p, t) \/ SaveOutcome(p, t) \/ SaveFails(p, t)
      PROVE  Moves(p, t)
  BY <1>2, RunMoves
<1>3. ASSUME NEW p \in Consumers, Crash(p) \/ ExitOnClose(p) PROVE Leaves(p)
  BY <1>3 DEF Crash, ExitOnClose, Leaves
<1> QED
  BY <1>1, <1>2, <1>3 DEF Next, StepKind
----------------------------------------------------------------------------
(* The invariant is inductive. *)

\* What a step of a run leaves alone.
LEMMA MovesFrame ==
    ASSUME NEW p \in Consumers, NEW t \in Tasks, Moves(p, t)
    PROVE  /\ run[p][t] # NoRun /\ mode[p] # "down"
           /\ request' = request /\ message' = message /\ mode' = mode
           /\ produced \subseteq produced'
           /\ \A u \in Tasks : /\ Settled(u) => Settled(u)'
                               /\ u # t => row'[u] = row[u]
                               /\ row'[u].outcome \in {row[u].outcome, run[p][u].outcome}
<1>1. KeepsRows(p, t)
  BY DEF Moves
<1> QED
  BY <1>1 DEF Moves, KeepsRows, Up

\* A step that sets one run.
LEMMA OneRun ==
    ASSUME TypeOK, NEW p \in Consumers, NEW t \in Tasks,
           Moves(p, t) \/ Deliver(p, t) \/ Ack(p, t)
    PROVE  /\ \A q \in Consumers, u \in Tasks : q # p \/ u # t => run'[q][u] = run[q][u]
           /\ Moves(p, t) => run'[p][t] \in Run /\ RunSound(run[p][t], t)'
           /\ Deliver(p, t) => /\ run'[p][t] \in Run
                               /\ run'[p][t].stage = "reading"
                               /\ run'[p][t].outcome = "none"
           /\ Ack(p, t) => run'[p][t] = NoRun
<1>1. ASSUME Moves(p, t)
      PROVE  /\ \A q \in Consumers, u \in Tasks : q # p \/ u # t => run'[q][u] = run[q][u]
             /\ run'[p][t] \in Run /\ RunSound(run[p][t], t)'
  <2>1. PICK r \in Run : SetRun(p, t, r) /\ RunSound(r, t)'
    BY <1>1 DEF Moves, Advances
  <2>2. /\ run'[p][t] = r
        /\ \A q \in Consumers, u \in Tasks : q # p \/ u # t => run'[q][u] = run[q][u]
    BY <2>1, RunSet
  <2> QED
    BY <2>1, <2>2
<1>2. ASSUME Deliver(p, t)
      PROVE  /\ \A q \in Consumers, u \in Tasks : q # p \/ u # t => run'[q][u] = run[q][u]
             /\ run'[p][t] \in Run
             /\ run'[p][t].stage = "reading" /\ run'[p][t].outcome = "none"
  <2>1. PICK r \in Run : r = [stage |-> "reading", seen |-> 0, outcome |-> "none",
                              tries |-> 0, killing |-> FALSE]
    BY DEF Run, Outcomes
  <2> QED
    BY <1>2, <2>1, RunSet DEF Deliver
<1>3. ASSUME Ack(p, t)
      PROVE  /\ \A q \in Consumers, u \in Tasks : q # p \/ u # t => run'[q][u] = run[q][u]
             /\ run'[p][t] = NoRun
  BY <1>3, RunSet DEF Ack
<1> QED
  BY <1>1, <1>2, <1>3

\* Nothing is published or run before the web server publishes.
LEMMA SendStep ==
    ASSUME TypeOK, NothingBeforeSend, StepKind
    PROVE  NothingBeforeSend'
<1> SUFFICES ASSUME NEW u \in Tasks, request'[u] \in {"idle", "created"}
             PROVE  message'[u] = "none" /\ \A q \in Consumers : run'[q][u] = NoRun
  BY DEF NothingBeforeSend
<1>1. ASSUME request' = request
      PROVE  message[u] = "none" /\ \A q \in Consumers : run[q][u] = NoRun
  BY <1>1 DEF NothingBeforeSend
<1> DEFINE Goal == message'[u] = "none" /\ \A q \in Consumers : run'[q][u] = NoRun
<1>2. ASSUME NEW t \in Tasks, CreateWorkerTask(t) PROVE Goal
  <2>1. request[u] \in {"idle", "created"}
    BY <1>2 DEF CreateWorkerTask, TypeOK
  <2> QED
    BY <1>2, <2>1 DEF CreateWorkerTask, NothingBeforeSend
<1>3. ASSUME NEW t \in Tasks, SendMessage(t) \/ SendFails(t) PROVE Goal
  <2>1. u # t /\ request'[u] = request[u]
    BY <1>3 DEF SendMessage, SendFails, TypeOK
  <2>2. message'[u] = message[u] /\ run' = run
    BY <1>3, <2>1 DEF SendMessage, SendFails, TypeOK
  <2> QED
    BY <2>1, <2>2 DEF NothingBeforeSend
<1>4. ASSUME NEW p \in Consumers, NEW t \in Tasks, Deliver(p, t) PROVE Goal
  <2>1. message[t] = "ready" /\ request' = request
    BY <1>4 DEF Deliver
  <2>2. u # t
    BY <1>1, <2>1
  <2>3. message'[u] = message[u]
    BY <1>4, <2>2 DEF Deliver, TypeOK
  <2> QED
    BY <1>1, <1>4, <2>1, <2>2, <2>3, OneRun
<1>5. ASSUME NEW p \in Consumers, NEW t \in Tasks, Moves(p, t) PROVE Goal
  <2>1. request' = request /\ message' = message /\ run[p][t] # NoRun
    BY <1>5, MovesFrame
  <2>2. u # t
    BY <1>1, <2>1
  <2> QED
    BY <1>1, <1>5, <2>1, <2>2, OneRun
<1>6. ASSUME NEW p \in Consumers, NEW t \in Tasks, Quiet(p, t) PROVE Goal
  BY <1>1, <1>6 DEF Quiet, ThreadReports
<1>7. ASSUME NEW p \in Consumers, NEW t \in Tasks, Ack(p, t) PROVE Goal
  <2>1. request' = request /\ run[p][t] # NoRun
    BY <1>7 DEF Ack
  <2>2. u # t
    BY <1>1, <2>1
  <2>3. message'[u] = message[u]
    BY <1>7, <2>2 DEF Ack, Acked, TypeOK
  <2> QED
    BY <1>1, <1>7, <2>1, <2>2, <2>3, OneRun
<1>8. ASSUME NEW p \in Consumers, Leaves(p) PROVE Goal
  BY <1>1, <1>8, ConsumersAssumption DEF Leaves, Gone, RequeuedFrom, TypeOK
<1>9. ASSUME NEW p \in Consumers, ConnectionLost(p) \/ Restart(p) PROVE Goal
  BY <1>1, <1>9, ConsumersAssumption DEF ConnectionLost, RequeuedFrom, Restart
<1>10. CASE UNCHANGED vars
  BY <1>1, <1>10 DEF vars
<1> QED
  BY <1>2, <1>3, <1>4, <1>5, <1>6, <1>7, <1>8, <1>9, <1>10 DEF StepKind

\* A run reports, saves and acknowledges in that order.
LEMMA SettleStep ==
    ASSUME TypeOK, NothingBeforeSend, RunsSettle, StepKind
    PROVE  RunsSettle'
<1> SUFFICES ASSUME NEW q \in Consumers, NEW u \in Tasks, run'[q][u] # NoRun
             PROVE  RunSound(run[q][u], u)'
  BY DEF RunsSettle
<1> DEFINE Same == run'[q][u] = run[q][u] /\ produced \subseteq produced'
<1>1. ASSUME Same, Settled(u) => Settled(u)' PROVE RunSound(run[q][u], u)'
  BY <1>1 DEF RunsSettle, RunSound, HasFinished
<1>2. ASSUME row' = row PROVE Settled(u) => Settled(u)'
  BY <1>2 DEF Settled
<1>3. ASSUME NEW t \in Tasks, CreateWorkerTask(t) PROVE RunSound(run[q][u], u)'
  <2>1. Same /\ run[q][t] = NoRun
    BY <1>3 DEF CreateWorkerTask, NothingBeforeSend
  <2>2. u # t
    BY <2>1
  <2>3. row'[u] = row[u]
    BY <1>3, <2>2 DEF CreateWorkerTask, TypeOK
  <2> QED
    BY <1>1, <2>1, <2>3 DEF Settled
<1>4. ASSUME NEW t \in Tasks, SendMessage(t) \/ SendFails(t) PROVE RunSound(run[q][u], u)'
  BY <1>1, <1>2, <1>4 DEF SendMessage, SendFails
<1>5. ASSUME NEW p \in Consumers, NEW t \in Tasks, Deliver(p, t)
      PROVE  RunSound(run[q][u], u)'
  <2>1. CASE p = q /\ t = u
    BY <1>5, <2>1, OneRun DEF RunSound, HasFinished
  <2>2. CASE p # q \/ t # u
    <3>0. run'[q][u] = run[q][u]
      BY <1>5, <2>2, OneRun
    <3>1. Same /\ row' = row
      BY <1>5, <3>0 DEF Deliver
    <3> QED
      BY <1>1, <1>2, <3>1
  <2> QED
    BY <2>1, <2>2
<1>6. ASSUME NEW p \in Consumers, NEW t \in Tasks, Moves(p, t)
      PROVE  RunSound(run[q][u], u)'
  <2>1. CASE p = q /\ t = u
    BY <1>6, <2>1, OneRun
  <2>2. CASE p # q \/ t # u
    <3>1. Same /\ (Settled(u) => Settled(u)')
      BY <1>6, <2>2, OneRun, MovesFrame
    <3> QED
      BY <1>1, <3>1
  <2> QED
    BY <2>1, <2>2
<1>7. ASSUME NEW p \in Consumers, NEW t \in Tasks, Quiet(p, t)
      PROVE  RunSound(run[q][u], u)'
  <2>1. Same /\ row' = row
    BY <1>7 DEF Quiet, ThreadReports
  <2> QED
    BY <1>1, <1>2, <2>1
<1>8. ASSUME NEW p \in Consumers, NEW t \in Tasks, Ack(p, t)
      PROVE  RunSound(run[q][u], u)'
  <2>1. Same /\ row' = row
    BY <1>8, OneRun DEF Ack
  <2> QED
    BY <1>1, <1>2, <2>1
<1>9. ASSUME NEW p \in Consumers, Leaves(p) PROVE RunSound(run[q][u], u)'
  <2>1. Same /\ row' = row
    BY <1>9 DEF Leaves, Gone, TypeOK
  <2> QED
    BY <1>1, <1>2, <2>1
<1>10. ASSUME NEW p \in Consumers, ConnectionLost(p) \/ Restart(p)
       PROVE  RunSound(run[q][u], u)'
  BY <1>1, <1>2, <1>10 DEF ConnectionLost, Restart
<1>11. CASE UNCHANGED vars
  BY <1>1, <1>2, <1>11 DEF vars
<1> QED
  BY <1>3, <1>4, <1>5, <1>6, <1>7, <1>8, <1>9, <1>10, <1>11 DEF StepKind

\* Only a run that has saved acknowledges, and no step unsettles a row.
LEMMA AckStep ==
    ASSUME TypeOK, NothingBeforeSend, RunsSettle, AckedIsSettled, StepKind
    PROVE  AckedIsSettled'
<1>1. ASSUME NEW t \in Tasks, CreateWorkerTask(t) \/ SendMessage(t) \/ SendFails(t)
      PROVE  AckedIsSettled'
  BY <1>1, ConsumersAssumption DEF CreateWorkerTask, SendMessage, SendFails, TypeOK,
     AckedIsSettled, NothingBeforeSend, RunsSettle, RunSound, HasFinished, Settled
<1>2. ASSUME NEW p \in Consumers, NEW t \in Tasks, Deliver(p, t)
      PROVE  AckedIsSettled'
  BY <1>2, OneRun, NoRunAssumption, ConsumersAssumption DEF Deliver, HeldBy, TypeOK,
     AckedIsSettled, NothingBeforeSend, RunsSettle, RunSound, HasFinished, Settled
<1>3. ASSUME NEW p \in Consumers, NEW t \in Tasks, Moves(p, t)
      PROVE  AckedIsSettled'
  <2>1. \A u \in Tasks : message[u] = "acked" => Settled(u)
    BY DEF AckedIsSettled, Settled
  <2>2. \A u \in Tasks : message'[u] = "acked" => Settled(u)'
    BY <1>3, <2>1, MovesFrame
  <2> QED
    BY <2>2 DEF AckedIsSettled, Settled
<1>4. ASSUME NEW p \in Consumers, NEW t \in Tasks, Quiet(p, t)
      PROVE  AckedIsSettled'
  BY <1>4, ConsumersAssumption DEF Quiet, ThreadReports, TypeOK, AckedIsSettled,
     NothingBeforeSend, RunsSettle, RunSound, HasFinished, Settled
<1>5. ASSUME NEW p \in Consumers, NEW t \in Tasks, Ack(p, t)
      PROVE  AckedIsSettled'
  BY <1>5, OneRun, NoRunAssumption, ConsumersAssumption DEF Ack, Acked, TypeOK,
     AckedIsSettled, NothingBeforeSend, RunsSettle, RunSound, HasFinished, Settled
<1>6. ASSUME NEW p \in Consumers, Leaves(p)
      PROVE  AckedIsSettled'
  BY <1>6, ConsumersAssumption DEF Leaves, Gone, RequeuedFrom, TypeOK, AckedIsSettled,
     NothingBeforeSend, RunsSettle, RunSound, HasFinished, Settled
<1>7. ASSUME NEW p \in Consumers, ConnectionLost(p)
      PROVE  AckedIsSettled'
  BY <1>7, ConsumersAssumption DEF ConnectionLost, RequeuedFrom, AfterCut, TypeOK,
     AckedIsSettled, NothingBeforeSend, RunsSettle, RunSound, HasFinished, Settled
<1>8. ASSUME NEW p \in Consumers, Restart(p)
      PROVE  AckedIsSettled'
  BY <1>8, ConsumersAssumption DEF Restart, TypeOK, AckedIsSettled, NothingBeforeSend,
     RunsSettle, RunSound, HasFinished, Settled
<1>9. CASE UNCHANGED vars
  BY <1>9, ConsumersAssumption DEF vars, TypeOK, AckedIsSettled, NothingBeforeSend,
     RunsSettle, RunSound, HasFinished, Settled
<1> QED
  BY <1>1, <1>2, <1>3, <1>4, <1>5, <1>6, <1>7, <1>8, <1>9 DEF StepKind

\* A row gets a result from a run that has one.
LEMMA ResultStep ==
    ASSUME TypeOK, RunsSettle, ResultsAreReal, StepKind
    PROVE  ResultsAreReal'
<1>1. ASSUME NEW t \in Tasks, CreateWorkerTask(t) \/ SendMessage(t) \/ SendFails(t)
      PROVE  ResultsAreReal'
  <2>1. row' = row \/ row' = [row EXCEPT ![t].isProcessing = TRUE]
    BY <1>1 DEF CreateWorkerTask, SendMessage, SendFails
  <2>2. \A u \in Tasks : row'[u].outcome = row[u].outcome
    BY <2>1 DEF TypeOK
  <2> QED
    BY <1>1, <2>2 DEF CreateWorkerTask, SendMessage, SendFails, ResultsAreReal
<1>2. ASSUME NEW p \in Consumers, NEW t \in Tasks, Deliver(p, t)
      PROVE  ResultsAreReal'
  BY <1>2, OneRun, NoRunAssumption, ConsumersAssumption DEF Deliver, HeldBy, TypeOK,
     ResultsAreReal, RunsSettle, RunSound
<1>3. ASSUME NEW p \in Consumers, NEW t \in Tasks, Moves(p, t)
      PROVE  ResultsAreReal'
  <2>1. run[p][t] # NoRun /\ (run[p][t].outcome = "result" => t \in produced)
    BY <1>3 DEF Moves, RunsSettle, RunSound
  <2>2. \A u \in Tasks : row'[u].outcome = "result" => u \in produced
    BY <1>3, <2>1, MovesFrame DEF ResultsAreReal
  <2> QED
    BY <1>3, <2>2, MovesFrame DEF ResultsAreReal
<1>4. ASSUME NEW p \in Consumers, NEW t \in Tasks, Quiet(p, t)
      PROVE  ResultsAreReal'
  BY <1>4, ConsumersAssumption DEF Quiet, ThreadReports, TypeOK, ResultsAreReal,
     RunsSettle, RunSound
<1>5. ASSUME NEW p \in Consumers, NEW t \in Tasks, Ack(p, t)
      PROVE  ResultsAreReal'
  BY <1>5, OneRun, NoRunAssumption, ConsumersAssumption DEF Ack, Acked, TypeOK,
     ResultsAreReal, RunsSettle, RunSound
<1>6. ASSUME NEW p \in Consumers, Leaves(p)
      PROVE  ResultsAreReal'
  BY <1>6, ConsumersAssumption DEF Leaves, Gone, RequeuedFrom, TypeOK, ResultsAreReal,
     RunsSettle, RunSound
<1>7. ASSUME NEW p \in Consumers, ConnectionLost(p)
      PROVE  ResultsAreReal'
  BY <1>7, ConsumersAssumption DEF ConnectionLost, RequeuedFrom, AfterCut, TypeOK,
     ResultsAreReal, RunsSettle, RunSound
<1>8. ASSUME NEW p \in Consumers, Restart(p)
      PROVE  ResultsAreReal'
  BY <1>8, ConsumersAssumption DEF Restart, TypeOK, ResultsAreReal, RunsSettle, RunSound
<1>9. CASE UNCHANGED vars
  BY <1>9, ConsumersAssumption DEF vars, TypeOK, ResultsAreReal, RunsSettle, RunSound
<1> QED
  BY <1>1, <1>2, <1>3, <1>4, <1>5, <1>6, <1>7, <1>8, <1>9 DEF StepKind

\* Messages and runs of a connected process come and go together.
LEMMA HoldStep ==
    ASSUME TypeOK, NothingBeforeSend, GoneHoldsNothing, RunsHoldMessages, StepKind
    PROVE  GoneHoldsNothing' /\ RunsHoldMessages'
<1> DEFINE Held(q, u) == /\ mode[q] # "up" => message[u] # q
                         /\ mode[q] = "down" => run[q][u] = NoRun
                         /\ mode[q] = "up" => (run[q][u] # NoRun <=> message[u] = q)
<1> SUFFICES ASSUME NEW q \in Consumers, NEW u \in Tasks
             PROVE  Held(q, u)'
  BY DEF GoneHoldsNothing, RunsHoldMessages
<1>1. Held(q, u)
  BY DEF GoneHoldsNothing, RunsHoldMessages
<1>2. ASSUME NEW t \in Tasks, CreateWorkerTask(t) \/ SendMessage(t) \/ SendFails(t)
      PROVE  Held(q, u)'
  <2>1. run' = run /\ mode' = mode
    BY <1>2 DEF CreateWorkerTask, SendMessage, SendFails
  <2>2. message'[u] = message[u] \/ (message[u] = "none" /\ message'[u] = "ready")
    BY <1>2 DEF CreateWorkerTask, SendMessage, SendFails, TypeOK, NothingBeforeSend
  <2> QED
    BY <1>1, <2>1, <2>2, ConsumersAssumption
<1>3. ASSUME NEW p \in Consumers, NEW t \in Tasks, Deliver(p, t) PROVE Held(q, u)'
  <2>1. mode' = mode /\ mode[p] = "up" /\ message[t] = "ready"
    BY <1>3 DEF Deliver
  <2>2. message'[t] = p /\ (u # t => message'[u] = message[u])
    BY <1>3 DEF Deliver, HeldBy, TypeOK
  <2>3. CASE u = t /\ q = p
    BY <1>3, <2>1, <2>2, <2>3, OneRun, NoRunAssumption
  <2>4. CASE u = t /\ q # p
    <3>1. run'[q][u] = run[q][u]
      BY <1>3, <2>4, OneRun
    <3>2. message[u] # q /\ message'[u] # q
      BY <2>1, <2>2, <2>4, ConsumersAssumption
    <3> QED
      BY <1>1, <2>1, <3>1, <3>2
  <2>5. CASE u # t
    <3>1. run'[q][u] = run[q][u]
      BY <1>3, <2>5, OneRun
    <3> QED
      BY <1>1, <2>1, <2>2, <2>5, <3>1
  <2> QED
    BY <2>3, <2>4, <2>5
<1>4. ASSUME NEW p \in Consumers, NEW t \in Tasks, Moves(p, t) PROVE Held(q, u)'
  <2>1. message' = message /\ mode' = mode /\ run[p][t] # NoRun /\ mode[p] # "down"
    BY <1>4, MovesFrame
  <2>2. run'[q][u] = run[q][u] \/ (run[q][u] # NoRun /\ run'[q][u] # NoRun /\ q = p)
    BY <1>4, <2>1, OneRun, NoRunAssumption
  <2> QED
    BY <1>1, <2>1, <2>2
<1>5. ASSUME NEW p \in Consumers, NEW t \in Tasks, Quiet(p, t) PROVE Held(q, u)'
  <2>1. run' = run /\ message' = message /\ mode' = mode
    BY <1>5 DEF Quiet, ThreadReports
  <2> QED
    BY <1>1, <2>1
<1>6. ASSUME NEW p \in Consumers, NEW t \in Tasks, Ack(p, t) PROVE Held(q, u)'
  <2>1. mode' = mode /\ mode[p] # "down"
    BY <1>6 DEF Ack, Up
  <2>2. message' = Acked(p, t)
    BY <1>6 DEF Ack
  <2>3. CASE u = t /\ q = p
    <3>1. run'[q][u] = NoRun
      BY <1>6, <2>3, OneRun
    <3>2. message'[u] # q
      BY <2>2, <2>3, ConsumersAssumption DEF Acked, TypeOK
    <3> QED
      BY <2>1, <3>1, <3>2
  <2>4. CASE u # t \/ q # p
    <3>1. run'[q][u] = run[q][u]
      BY <1>6, <2>4, OneRun
    <3>2. message'[u] = q <=> message[u] = q
      BY <2>2, <2>4, ConsumersAssumption DEF Acked, TypeOK
    <3> QED
      BY <1>1, <2>1, <3>1, <3>2
  <2> QED
    BY <2>3, <2>4
<1>7. ASSUME NEW p \in Consumers, Leaves(p) PROVE Held(q, u)'
  <2>1. message'[u] = (IF message[u] = p THEN "ready" ELSE message[u])
    BY <1>7 DEF Leaves, Gone, RequeuedFrom
  <2>2. CASE q = p
    <3>1. mode'[q] = "down" /\ run'[q][u] = NoRun
      BY <1>7, <2>2 DEF Leaves, Gone, TypeOK
    <3> QED
      BY <2>1, <2>2, <3>1, ConsumersAssumption
  <2>3. CASE q # p
    <3>1. mode'[q] = mode[q] /\ run'[q] = run[q]
      BY <1>7, <2>3 DEF Leaves, Gone, TypeOK
    <3> QED
      BY <1>1, <2>1, <2>3, <3>1, ConsumersAssumption
  <2> QED
    BY <2>2, <2>3
<1>8. ASSUME NEW p \in Consumers, ConnectionLost(p) PROVE Held(q, u)'
  <2>1. run' = run /\ message'[u] = (IF message[u] = p THEN "ready" ELSE message[u])
    BY <1>8 DEF ConnectionLost, RequeuedFrom
  <2>2. mode'[q] = IF q = p THEN "cut" ELSE mode[q]
    BY <1>8 DEF ConnectionLost, AfterCut, TypeOK
  <2> QED
    BY <1>1, <2>1, <2>2, ConsumersAssumption
<1>9. ASSUME NEW p \in Consumers, Restart(p) PROVE Held(q, u)'
  <2>1. run' = run /\ message' = message /\ mode[p] = "down"
    BY <1>9 DEF Restart
  <2>2. mode'[q] = IF q = p THEN "up" ELSE mode[q]
    BY <1>9 DEF Restart, TypeOK
  <2> QED
    BY <1>1, <2>1, <2>2
<1>10. CASE UNCHANGED vars
  BY <1>1, <1>10 DEF vars
<1> QED
  BY <1>2, <1>3, <1>4, <1>5, <1>6, <1>7, <1>8, <1>9, <1>10 DEF StepKind

LEMMA ThreadSet ==
    ASSUME TypeOK, NEW p \in Consumers, NEW t \in Tasks, NEW v \in {"none", "working"},
           thread' = [thread EXCEPT ![p][t] = v]
    PROVE  thread' \in [Consumers -> [Tasks -> {"none", "working"}]]
BY DEF TypeOK

\* The rows of the table, and the two updates of a row.
Row == [isProcessing : BOOLEAN, attemptCount : Nat, outcome : Outcomes]

LEMMA RowCounted ==
    ASSUME row \in [Tasks -> Row], NEW t \in Tasks, NEW n \in Nat,
           row' = [row EXCEPT ![t].attemptCount = n]
    PROVE  row' \in [Tasks -> Row]
BY DEF Row

LEMMA RowSettled ==
    ASSUME row \in [Tasks -> Row], NEW t \in Tasks, NEW o \in Outcomes,
           row' = [row EXCEPT ![t].isProcessing = FALSE, ![t].outcome = o]
    PROVE  row' \in [Tasks -> Row]
<1>1. row[t] \in Row
  OBVIOUS
<1>2. [[row[t] EXCEPT !.isProcessing = FALSE] EXCEPT !.outcome = o] \in Row
  BY <1>1 DEF Row
<1>3. row' = [row EXCEPT ![t] = [[row[t] EXCEPT !.isProcessing = FALSE] EXCEPT !.outcome = o]]
  BY <1>1 DEF Row
<1> QED
  BY <1>2, <1>3

\* Every step keeps every variable of its type.
LEMMA TypeStep ==
    ASSUME TypeOK, RunsSettle, [Next]_vars
    PROVE  TypeOK'
<1> USE MaxFaultsAssumption
<1>1. ASSUME NEW p \in Consumers, NEW t \in Tasks, Moves(p, t)
      PROVE  /\ run' \in [Consumers -> [Tasks -> Run \cup {NoRun}]]
             /\ request' = request /\ message' = message /\ mode' = mode
  <2>1. PICK r \in Run : SetRun(p, t, r)
    BY <1>1 DEF Moves, Advances
  <2> QED
    BY <1>1, <2>1, RunSet, MovesFrame
<1>2. ASSUME NEW p \in Consumers, Gone(p), UNCHANGED <<request, row, starts, produced>>,
             faults' \in 0..MaxFaults
      PROVE  TypeOK'
  <2>1. message' \in [Tasks -> {"none", "ready", "acked"} \cup Consumers]
    BY <1>2 DEF TypeOK, Gone, RequeuedFrom
  <2>2. mode' \in [Consumers -> {"up", "cut", "down"}]
    BY <1>2 DEF TypeOK, Gone
  <2>3. run' \in [Consumers -> [Tasks -> Run \cup {NoRun}]]
    BY <1>2 DEF TypeOK, Gone
  <2>4. thread' \in [Consumers -> [Tasks -> {"none", "working"}]]
    BY <1>2 DEF TypeOK, Gone
  <2>5. request' = request /\ row' = row /\ starts' = starts /\ produced' = produced
    BY <1>2
  <2>6. faults' \in 0..MaxFaults
    BY <1>2
  <2> QED
    BY <2>1, <2>2, <2>3, <2>4, <2>5, <2>6 DEF TypeOK
<1>3. ASSUME NEW t \in Tasks, CreateWorkerTask(t) PROVE TypeOK'
  <2>1. row' \in [Tasks -> [isProcessing : BOOLEAN, attemptCount : Nat, outcome : Outcomes]]
    BY <1>3 DEF CreateWorkerTask, TypeOK
  <2>2. request' \in [Tasks -> {"idle", "created", "sent", "failed"}]
    BY <1>3 DEF CreateWorkerTask, TypeOK
  <2>3. UNCHANGED <<message, mode, run, thread, starts, produced, faults>>
    BY <1>3 DEF CreateWorkerTask
  <2> QED
    BY <2>1, <2>2, <2>3 DEF TypeOK
<1>4. ASSUME NEW t \in Tasks, SendMessage(t) \/ SendFails(t) PROVE TypeOK'
  <2>1. /\ \/ request' = [request EXCEPT ![t] = "sent"]
           \/ request' = [request EXCEPT ![t] = "failed"]
        /\ message' = message \/ message' = [message EXCEPT ![t] = "ready"]
        /\ faults' = faults \/ (faults < MaxFaults /\ faults' = faults + 1)
        /\ UNCHANGED <<row, mode, run, thread, starts, produced>>
    BY <1>4 DEF SendMessage, SendFails, Fault
  <2>2. request' \in [Tasks -> {"idle", "created", "sent", "failed"}]
    BY <2>1 DEF TypeOK
  <2>3. message' \in [Tasks -> {"none", "ready", "acked"} \cup Consumers]
    BY <2>1 DEF TypeOK
  <2>4. faults' \in 0..MaxFaults
    BY <2>1 DEF TypeOK
  <2> QED
    BY <2>1, <2>2, <2>3, <2>4 DEF TypeOK
<1>5. ASSUME NEW p \in Consumers, NEW t \in Tasks, Deliver(p, t) PROVE TypeOK'
  <2>1. run' \in [Consumers -> [Tasks -> Run \cup {NoRun}]]
    <3>1. [stage |-> "reading", seen |-> 0, outcome |-> "none", tries |-> 0,
           killing |-> FALSE] \in Run
      BY DEF Run, Outcomes
    <3> QED
      BY <1>5, <3>1, RunSet DEF Deliver
  <2>2. thread' \in [Consumers -> [Tasks -> {"none", "working"}]]
    BY <1>5, ThreadSet DEF Deliver
  <2>3. message' \in [Tasks -> {"none", "ready", "acked"} \cup Consumers]
    BY <1>5 DEF Deliver, HeldBy, TypeOK
  <2> QED
    BY <1>5, <2>1, <2>2, <2>3 DEF Deliver, TypeOK
<1>6. ASSUME NEW p \in Consumers, NEW t \in Tasks,
             \/ ReadAttempts(p, t) \/ Yield(p, t) \/ Terminate(p, t)
      PROVE  TypeOK'
  <2>1. Moves(p, t)
    BY <1>6, RunMoves
  <2>2. /\ row' = row /\ starts' = starts /\ produced' = produced /\ faults' = faults
        /\ thread' = thread \/ thread' = [thread EXCEPT ![p][t] = "none"]
    BY <1>6 DEF ReadAttempts, Yield, Terminate
  <2>3. thread' \in [Consumers -> [Tasks -> {"none", "working"}]]
    BY <2>2, ThreadSet DEF TypeOK
  <2> QED
    BY <1>1, <2>1, <2>2, <2>3 DEF TypeOK
<1>7. ASSUME NEW p \in Consumers, NEW t \in Tasks, WriteAttempts(p, t) \/ CountFails(p, t)
      PROVE  TypeOK'
  <2>1. Moves(p, t)
    BY <1>7, RunMoves
  <2>2. run[p][t].seen \in Nat
    BY <1>7 DEF WriteAttempts, CountFails, TypeOK, Run
  <2>3. row' \in [Tasks -> [isProcessing : BOOLEAN, attemptCount : Nat, outcome : Outcomes]]
    <3>1. row \in [Tasks -> Row]
      BY DEF TypeOK, Row
    <3>2. NewAttemptCount(run[p][t].seen) \in Nat
      BY <2>2 DEF NewAttemptCount
    <3>3. \/ row' = row
          \/ row' = [row EXCEPT ![t].attemptCount = NewAttemptCount(run[p][t].seen)]
      BY <1>7 DEF WriteAttempts, CountFails, Counted
    <3> QED
      BY <3>1, <3>2, <3>3, RowCounted DEF Row
  <2>4. faults' \in 0..MaxFaults /\ UNCHANGED <<thread, starts, produced>>
    BY <1>7 DEF WriteAttempts, CountFails, Fault, TypeOK
  <2> QED
    BY <1>1, <2>1, <2>3, <2>4 DEF TypeOK
<1>8. ASSUME NEW p \in Consumers, NEW t \in Tasks, SaveOutcome(p, t) \/ SaveFails(p, t)
      PROVE  TypeOK'
  <2>1. Moves(p, t)
    BY <1>8, RunMoves
  <2>2. run[p][t].outcome \in Outcomes
    BY <1>8 DEF SaveOutcome, SaveFails, TypeOK, Run
  <2>3. row' \in [Tasks -> [isProcessing : BOOLEAN, attemptCount : Nat, outcome : Outcomes]]
    <3>1. row \in [Tasks -> Row]
      BY DEF TypeOK, Row
    <3>2. \/ row' = row
          \/ row' = [row EXCEPT ![t].isProcessing = FALSE, ![t].outcome = run[p][t].outcome]
      BY <1>8 DEF SaveOutcome, SaveFails, Saved
    <3> QED
      BY <2>2, <3>1, <3>2, RowSettled DEF Row
  <2>4. faults' \in 0..MaxFaults /\ UNCHANGED <<thread, starts, produced>>
    BY <1>8 DEF SaveOutcome, SaveFails, Fault, TypeOK
  <2> QED
    BY <1>1, <2>1, <2>3, <2>4 DEF TypeOK
<1>9. ASSUME NEW p \in Consumers, NEW t \in Tasks, ThreadReports(p, t) PROVE TypeOK'
  <2>1. run' = run \/ Moves(p, t)
    BY <1>9, RunMoves DEF ThreadReports
  <2>2. /\ run' \in [Consumers -> [Tasks -> Run \cup {NoRun}]]
        /\ produced' \subseteq Tasks
        /\ thread' \in [Consumers -> [Tasks -> {"none", "working"}]]
    BY <1>1, <1>9, <2>1, ThreadSet DEF ThreadReports, TypeOK
  <2> QED
    BY <1>9, <2>2 DEF ThreadReports, TypeOK
<1>10. ASSUME NEW p \in Consumers, NEW t \in Tasks, ThreadDies(p, t) PROVE TypeOK'
  <2>1. faults' \in 0..MaxFaults /\ UNCHANGED <<request, row, starts, produced>>
    BY <1>10 DEF ThreadDies, Fault, TypeOK
  <2>2. CASE Listening(p, t)
    <3>1. Moves(p, t)
      BY <1>10, <2>2, RunMoves
    <3>2. thread' \in [Consumers -> [Tasks -> {"none", "working"}]]
      BY <1>10, <2>2, ThreadSet DEF ThreadDies
    <3> QED
      BY <1>1, <2>1, <3>1, <3>2 DEF TypeOK
  <2>3. CASE ~Listening(p, t)
    BY <1>2, <1>10, <2>1, <2>3 DEF ThreadDies
  <2> QED
    BY <2>2, <2>3
<1>11. ASSUME NEW p \in Consumers, NEW t \in Tasks, Ack(p, t) PROVE TypeOK'
  <2>1. run' \in [Consumers -> [Tasks -> Run \cup {NoRun}]]
    BY <1>11, RunSet DEF Ack
  <2> QED
    BY <1>11, <2>1 DEF Ack, Acked, TypeOK
<1>12. ASSUME NEW p \in Consumers, Crash(p) \/ ExitOnClose(p) PROVE TypeOK'
  <2>1. faults' \in 0..MaxFaults
    BY <1>12 DEF Crash, ExitOnClose, Fault, TypeOK
  <2> QED
    BY <1>2, <1>12, <2>1 DEF Crash, ExitOnClose
<1>13. ASSUME NEW p \in Consumers, ConnectionLost(p) PROVE TypeOK'
  BY <1>13 DEF ConnectionLost, Fault, RequeuedFrom, AfterCut, TypeOK
<1>14. ASSUME NEW p \in Consumers, Restart(p) PROVE TypeOK'
  BY <1>14 DEF Restart, TypeOK
<1>15. CASE UNCHANGED vars
  BY <1>15 DEF vars, TypeOK
<1> QED
  BY <1>3, <1>4, <1>5, <1>6, <1>7, <1>8, <1>9, <1>10, <1>11, <1>12, <1>13, <1>14, <1>15
     DEF Next

\* A message is given back only by a fault: a process that exits for its lost
\* connection holds none.
LEMMA StartsStep ==
    ASSUME TypeOK, NothingBeforeSend, GoneHoldsNothing, StartsBounded, [Next]_vars
    PROVE  StartsBounded'
<1> DEFINE Bounded(u) == /\ message[u] = "none" => starts[u] = 0
                         /\ message[u] = "ready" => starts[u] <= faults
                         /\ starts[u] <= 1 + faults
<1> SUFFICES ASSUME NEW u \in Tasks PROVE Bounded(u)'
  BY DEF StartsBounded
<1>1. /\ Bounded(u) /\ starts[u] \in Nat /\ faults \in Nat
  BY MaxFaultsAssumption DEF StartsBounded, TypeOK
<1>2. ASSUME message'[u] = message[u] \/ message'[u] = "acked",
             starts'[u] = starts[u], faults' = faults \/ faults' = faults + 1
      PROVE  Bounded(u)'
  BY <1>1, <1>2
<1>3. ASSUME message'[u] \in {message[u], "ready"}, starts'[u] = starts[u],
             faults' = faults + 1
      PROVE  Bounded(u)'
  BY <1>1, <1>3
<1>4. ASSUME NEW t \in Tasks, CreateWorkerTask(t) PROVE Bounded(u)'
  BY <1>2, <1>4 DEF CreateWorkerTask
<1>5. ASSUME NEW t \in Tasks, SendMessage(t) \/ SendFails(t) PROVE Bounded(u)'
  <2>1. /\ message[t] = "none" /\ starts' = starts
        /\ faults' = faults \/ faults' = faults + 1
        /\ message' = message \/ message' = [message EXCEPT ![t] = "ready"]
    BY <1>5 DEF SendMessage, SendFails, Fault, NothingBeforeSend
  <2>2. message'[u] = message[u] \/ (message[u] = "none" /\ message'[u] = "ready")
    BY <2>1 DEF TypeOK
  <2> QED
    BY <1>1, <2>1, <2>2
<1>6. ASSUME NEW p \in Consumers, NEW t \in Tasks, Deliver(p, t) PROVE Bounded(u)'
  <2>1. faults' = faults /\ message[t] = "ready"
    BY <1>6 DEF Deliver
  <2>2. CASE u = t
    <3>1. message'[u] = p /\ starts'[u] = starts[u] + 1
      BY <1>6, <2>2 DEF Deliver, HeldBy, TypeOK
    <3>2. p # "none" /\ p # "ready"
      BY ConsumersAssumption
    <3> QED
      BY <1>1, <2>1, <2>2, <3>1, <3>2
  <2>3. CASE u # t
    <3>1. message'[u] = message[u] /\ starts'[u] = starts[u]
      BY <1>6, <2>3 DEF Deliver, TypeOK
    <3> QED
      BY <1>2, <2>1, <3>1
  <2> QED
    BY <2>2, <2>3
<1>7. ASSUME NEW p \in Consumers, NEW t \in Tasks,
             \/ ReadAttempts(p, t) \/ WriteAttempts(p, t) \/ ThreadReports(p, t)
             \/ Yield(p, t) \/ Terminate(p, t) \/ SaveOutcome(p, t)
      PROVE  Bounded(u)'
  <2>1. message' = message /\ starts' = starts /\ faults' = faults
    BY <1>7 DEF ReadAttempts, WriteAttempts, ThreadReports, Yield, Terminate, SaveOutcome
  <2> QED
    BY <1>2, <2>1
<1>8. ASSUME NEW p \in Consumers, NEW t \in Tasks, CountFails(p, t) \/ SaveFails(p, t)
      PROVE  Bounded(u)'
  <2>1. message' = message /\ starts' = starts /\ faults' = faults + 1
    BY <1>8 DEF CountFails, SaveFails, Fault
  <2> QED
    BY <1>2, <2>1
<1>9. ASSUME NEW p \in Consumers, NEW t \in Tasks, ThreadDies(p, t) PROVE Bounded(u)'
  <2>1. /\ starts' = starts /\ faults' = faults + 1
        /\ message' = message \/ message' = RequeuedFrom(p)
    BY <1>9 DEF ThreadDies, Fault, Gone
  <2>2. message'[u] \in {message[u], "ready"}
    BY <2>1 DEF RequeuedFrom
  <2> QED
    BY <1>3, <2>1, <2>2
<1>10. ASSUME NEW p \in Consumers, NEW t \in Tasks, Ack(p, t) PROVE Bounded(u)'
  <2>1. starts' = starts /\ faults' = faults /\ message' = Acked(p, t)
    BY <1>10 DEF Ack
  <2>2. message'[u] = message[u] \/ message'[u] = "acked"
    BY <2>1 DEF Acked, TypeOK
  <2> QED
    BY <1>2, <2>1, <2>2
<1>11. ASSUME NEW p \in Consumers, Crash(p) \/ ConnectionLost(p) PROVE Bounded(u)'
  <2>1. starts' = starts /\ faults' = faults + 1 /\ message' = RequeuedFrom(p)
    BY <1>11 DEF Crash, ConnectionLost, Fault, Gone
  <2>2. message'[u] \in {message[u], "ready"}
    BY <2>1 DEF RequeuedFrom
  <2> QED
    BY <1>3, <2>1, <2>2
<1>12. ASSUME NEW p \in Consumers, ExitOnClose(p) PROVE Bounded(u)'
  <2>1. starts' = starts /\ faults' = faults /\ message' = RequeuedFrom(p)
    BY <1>12 DEF ExitOnClose, Gone
  <2>2. message[u] # p
    BY <1>12 DEF ExitOnClose, GoneHoldsNothing
  <2>3. message'[u] = message[u]
    BY <2>1, <2>2 DEF RequeuedFrom
  <2> QED
    BY <1>2, <2>1, <2>3
<1>13. ASSUME NEW p \in Consumers, Restart(p) PROVE Bounded(u)'
  BY <1>2, <1>13 DEF Restart
<1>14. CASE UNCHANGED vars
  BY <1>2, <1>14 DEF vars
<1> QED
  BY <1>4, <1>5, <1>6, <1>7, <1>8, <1>9, <1>10, <1>11, <1>12, <1>13, <1>14 DEF Next

LEMMA QueueInvInit == Init => QueueInv
<1> SUFFICES ASSUME Init PROVE QueueInv
  OBVIOUS
<1>1. TypeOK
  BY MaxFaultsAssumption DEF Init, TypeOK, Outcomes
<1>2. \A p \in Consumers, t \in Tasks : run[p][t] = NoRun
  BY DEF Init
<1>3. NothingBeforeSend /\ RunsSettle /\ GoneHoldsNothing
  BY <1>2, ConsumersAssumption DEF Init, NothingBeforeSend, RunsSettle, GoneHoldsNothing
<1>4. AckedIsSettled /\ ResultsAreReal
  BY DEF Init, AckedIsSettled, ResultsAreReal
<1>5. RunsHoldMessages
  BY <1>2, ConsumersAssumption DEF Init, RunsHoldMessages
<1> QED
  BY <1>1, <1>3, <1>4, <1>5 DEF QueueInv

LEMMA QueueInvStep == QueueInv /\ [Next]_vars => QueueInv'
<1> SUFFICES ASSUME QueueInv, [Next]_vars PROVE QueueInv'
  OBVIOUS
<1>1. StepKind
  BY StepKinds DEF QueueInv
<1> QED
  BY <1>1, TypeStep, SendStep, SettleStep, AckStep, ResultStep, HoldStep DEF QueueInv

LEMMA QueueInvHolds == Spec => []QueueInv
BY QueueInvInit, QueueInvStep, PTL DEF Spec
----------------------------------------------------------------------------
(* Theorems. *)

\* Every variable keeps its type, whatever consumers, tasks and faults there are.
THEOREM TypeCorrect == Spec => []TypeOK
BY QueueInvHolds, PTL DEF QueueInv

\* The consumer acknowledges a message only after it has written the outcome of
\* the task to its row, in every order of crashes, lost connections and failed
\* writes: channel.ack stands after the update (queue.ts:100-128).
THEOREM AcknowledgedIsSettled == Spec => []AckedIsSettled
BY QueueInvHolds, PTL DEF QueueInv

\* A row never shows a result its task has not returned, whichever of the thread,
\* the timer and the attempt count reports first.
THEOREM ResultsAreProduced == Spec => []ResultsAreReal
BY QueueInvHolds, PTL DEF QueueInv

\* A connected consumer works on exactly the messages it holds, for any number of
\* consumers: two of them never run onWorkerFinished for one task.
THEOREM ConnectedRunsHoldMessages == Spec => []RunsHoldMessages
BY QueueInvHolds, PTL DEF QueueInv

\* For every number of faults, a task is started at most once more than there were
\* faults: timers, reports and restarts of a consumer start none by themselves.
THEOREM StartsAreForFaults == Spec => []StartsNeedFaults
<1>1. Init => StartsBounded
  BY DEF Init, StartsBounded
<1>2. QueueInv /\ StartsBounded /\ [Next]_vars => StartsBounded'
  BY StartsStep DEF QueueInv
<1>3. StartsBounded => StartsNeedFaults
  BY DEF StartsBounded, StartsNeedFaults
<1> QED
  BY <1>1, <1>2, <1>3, QueueInvHolds, PTL DEF Spec

\* The row of an acknowledged message is written again only by a consumer that
\* has lost its connection and not yet noticed.
THEOREM AckedRowsAreFinal == Spec => SettledForGood
<1> DEFINE Final == \A t \in Tasks :
        (message[t] = "acked" /\ \A p \in Consumers : mode[p] # "cut") => row'[t] = row[t]
<1>1. QueueInv /\ [Next]_vars => [Final]_row
  <2> SUFFICES ASSUME QueueInv, [Next]_vars, NEW u \in Tasks, message[u] = "acked",
                      \A p \in Consumers : mode[p] # "cut"
               PROVE  row'[u] = row[u]
    OBVIOUS
  <2>1. StepKind
    BY StepKinds DEF QueueInv
  <2>2. ASSUME NEW t \in Tasks, CreateWorkerTask(t) \/ SendMessage(t) \/ SendFails(t)
        PROVE  row'[u] = row[u]
    BY <2>2 DEF CreateWorkerTask, SendMessage, SendFails, QueueInv, TypeOK,
       NothingBeforeSend
  <2>3. ASSUME NEW p \in Consumers, NEW t \in Tasks, Moves(p, t)
        PROVE  row'[u] = row[u]
    <3>1. run[p][t] # NoRun /\ mode[p] = "up"
      BY <2>3, MovesFrame DEF QueueInv, TypeOK
    <3>2. message[t] = p
      BY <3>1 DEF QueueInv, RunsHoldMessages
    <3>3. u # t
      BY <3>2, ConsumersAssumption
    <3> QED
      BY <2>3, <3>3, MovesFrame
  <2>4. ASSUME NEW p \in Consumers, NEW t \in Tasks,
               Deliver(p, t) \/ Quiet(p, t) \/ Ack(p, t)
        PROVE  row'[u] = row[u]
    BY <2>4 DEF Deliver, Quiet, ThreadReports, Ack
  <2>5. ASSUME NEW p \in Consumers, Leaves(p) \/ ConnectionLost(p) \/ Restart(p)
        PROVE  row'[u] = row[u]
    BY <2>5 DEF Leaves, ConnectionLost, Restart
  <2>6. CASE UNCHANGED vars
    BY <2>6 DEF vars
  <2> QED
    BY <2>1, <2>2, <2>3, <2>4, <2>5, <2>6 DEF StepKind
<1> QED
  BY <1>1, QueueInvHolds, PTL DEF Spec, SettledForGood

\* Once onWorkerFinished has been called for a run, neither the timer nor a late
\* report changes the outcome it saves (hasFinished, queue.ts:83-87).
THEOREM FirstReportDecides == Spec => FirstReportWins
<1> DEFINE Kept(p, t) ==
        (run[p][t] # NoRun /\ HasFinished(run[p][t]) /\ run'[p][t] # NoRun) =>
            run'[p][t].outcome = run[p][t].outcome \/ run'[p][t].stage = "reading"
<1> DEFINE AllKept == \A p \in Consumers, t \in Tasks : Kept(p, t)
<1>1. QueueInv /\ [Next]_vars => [AllKept]_run
  <2> SUFFICES ASSUME QueueInv, [Next]_vars, NEW q \in Consumers, NEW u \in Tasks
               PROVE  Kept(q, u)
    OBVIOUS
  <2>1. StepKind /\ TypeOK
    BY StepKinds DEF QueueInv
  <2>2. ASSUME run'[q][u] = run[q][u] PROVE Kept(q, u)
    BY <2>2
  <2>3. ASSUME NEW p \in Consumers, NEW t \in Tasks, Moves(p, t) PROVE Kept(q, u)
    <3>1. PICK r \in Run : /\ SetRun(p, t, r)
                           /\ HasFinished(run[p][t]) => r.outcome = run[p][t].outcome
      BY <2>3 DEF Moves, Advances
    <3>2. run'[p][t] = r /\ (p # q \/ t # u => run'[q][u] = run[q][u])
      BY <2>1, <3>1, RunSet
    <3> QED
      BY <2>2, <3>1, <3>2
  <2>4. ASSUME NEW p \in Consumers, NEW t \in Tasks, Deliver(p, t) \/ Ack(p, t)
        PROVE  Kept(q, u)
    BY <2>1, <2>2, <2>4, OneRun
  <2>5. ASSUME NEW p \in Consumers, Leaves(p) PROVE Kept(q, u)
    BY <2>1, <2>2, <2>5 DEF Leaves, Gone, TypeOK
  <2> QED
    BY <2>1, <2>2, <2>3, <2>4, <2>5 DEF StepKind, CreateWorkerTask, SendMessage, SendFails,
       Quiet, ThreadReports, ConnectionLost, Restart, vars
<1> QED
  BY <1>1, QueueInvHolds, PTL DEF Spec, FirstReportWins
----------------------------------------------------------------------------
(* Exports.                                                                   *)

CallStages == {"idle", "creating", "adding", "sending", "updating", "answered", "failed"}
ExportRow == [created : BOOLEAN, url : BOOLEAN, task : Tasks \cup {NoTask}]
Call == [stage : CallStages, export : Calls, task : Tasks \cup {NoTask}]

ExportTypes ==
    /\ exports \in [Calls -> ExportRow]
    /\ call \in [Calls -> Call]
    /\ input \in [Tasks -> Calls \cup {NoTask}]
    /\ uploaded \in [Consumers -> SUBSET Tasks]

SendingHasTask == \A c \in Calls : At(c, "sending") => call[c].task \in Tasks

\* A task that a row names, or that a call is about to write to one, has been sent.
NamedWereSent ==
    /\ \A e \in Calls : exports[e].task # NoTask => message[exports[e].task] # "none"
    /\ \A c \in Calls :
         call[c].stage \in {"updating", "answered"} /\ call[c].task # NoTask =>
             message[call[c].task] # "none"

\* A task that has been started was sent, and is one for some row.
Sent(t) == request[t] \in {"sent", "failed"}
StartedWereSent ==
    /\ \A t \in Tasks : request[t] # "idle" => input[t] \in Calls
    /\ \A p \in Consumers, t \in Tasks : thread[p][t] = "working" => Sent(t)
    /\ \A t \in produced : Sent(t)

\* The file of a task is on its row before its thread can return a result.
FilesAreStored ==
    /\ \A p \in Consumers, t \in Tasks :
         t \in uploaded[p] => thread[p][t] = "working" /\ exports[input[t]].url
    /\ \A t \in produced : exports[input[t]].url

\* The inductive invariant.
ExportsInv ==
    /\ QueueInv
    /\ ExportTypes
    /\ SendingHasTask
    /\ NamedWereSent
    /\ StartedWereSent
    /\ FilesAreStored
----------------------------------------------------------------------------
(* The steps of the queue. *)

\* Every step of the exports is a step of the queue or leaves it alone.
LEMMA QueueSteps ==
    ASSUME SendingHasTask, [ExportsNext]_allVars
    PROVE  [Next]_vars
<1>1. ASSUME NEW c \in Calls, \/ FindExport(c) \/ CreateExport(c) \/ UpdateExport(c)
                              \/ CallFails(c)
      PROVE  UNCHANGED vars
  BY <1>1 DEF FindExport, CreateExport, UpdateExport, CallFails
<1>2. ASSUME NEW c \in Calls, NEW t \in Tasks, AddWorkerTask(c, t) PROVE Next
  BY <1>2 DEF AddWorkerTask, Next
<1>3. ASSUME NEW c \in Calls, MessageSent(c) \/ MessageFails(c) PROVE Next
  <2>1. call[c].task \in Tasks
    BY <1>3 DEF MessageSent, MessageFails, SendingHasTask
  <2> QED
    BY <1>3, <2>1 DEF MessageSent, MessageFails, Next
<1>4. ASSUME NEW p \in Consumers, NEW t \in Tasks, AssignFile(p, t) PROVE UNCHANGED vars
  BY <1>4 DEF AssignFile
<1>5. CASE Worker
  BY <1>5 DEF Worker, ExportReports, Next
<1>6. CASE UNCHANGED allVars
  BY <1>6 DEF allVars
<1> QED
  BY <1>1, <1>2, <1>3, <1>4, <1>5, <1>6 DEF ExportsNext

\* What has been sent stays so, whoever has the message by now.
LEMMA SentStays ==
    ASSUME TypeOK, [Next]_vars, NEW t \in Tasks
    PROVE  /\ message[t] # "none" => message'[t] # "none"
           /\ Sent(t) => Sent(t)'
           /\ request[t] # "idle" => request'[t] # "idle"
<1>1. ASSUME NEW u \in Tasks, CreateWorkerTask(u) \/ SendMessage(u) \/ SendFails(u)
      PROVE  /\ message[t] # "none" => message'[t] # "none"
             /\ Sent(t) => Sent(t)'
             /\ request[t] # "idle" => request'[t] # "idle"
  BY <1>1 DEF CreateWorkerTask, SendMessage, SendFails, TypeOK, Sent
<1>2. ASSUME request' = request
      PROVE  /\ Sent(t) => Sent(t)'
             /\ request[t] # "idle" => request'[t] # "idle"
  BY <1>2 DEF Sent
<1>3. ASSUME NEW p \in Consumers, NEW u \in Tasks,
             \/ Deliver(p, u) \/ ReadAttempts(p, u) \/ WriteAttempts(p, u)
             \/ CountFails(p, u) \/ ThreadReports(p, u) \/ ThreadDies(p, u) \/ Yield(p, u)
             \/ Terminate(p, u) \/ SaveOutcome(p, u) \/ SaveFails(p, u) \/ Ack(p, u)
      PROVE  /\ request' = request
             /\ \/ message' = message \/ message' = [message EXCEPT ![u] = p]
                \/ message' = RequeuedFrom(p) \/ message' = Acked(p, u)
  BY <1>3 DEF Deliver, HeldBy, ReadAttempts, WriteAttempts, CountFails, ThreadReports,
     ThreadDies, Gone, Yield, Terminate, SaveOutcome, SaveFails, Ack
<1>4. ASSUME NEW p \in Consumers,
             Crash(p) \/ ConnectionLost(p) \/ ExitOnClose(p) \/ Restart(p)
      PROVE  /\ request' = request
             /\ message' = message \/ message' = RequeuedFrom(p)
  BY <1>4 DEF Crash, ConnectionLost, ExitOnClose, Restart, Gone
<1>5. ASSUME NEW p \in Consumers, NEW u \in Tasks,
             \/ message' = message \/ message' = [message EXCEPT ![u] = p]
             \/ message' = RequeuedFrom(p) \/ message' = Acked(p, u)
      PROVE  message[t] # "none" => message'[t] # "none"
  BY <1>5, ConsumersAssumption DEF TypeOK, RequeuedFrom, Acked
<1>6. CASE UNCHANGED vars
  BY <1>6 DEF vars, Sent
<1> QED
  BY <1>1, <1>2, <1>3, <1>4, <1>5, <1>6 DEF Next

\* What a step of the queue does to threads, results and requests.
LEMMA ThreadSteps ==
    ASSUME [Next]_vars
    PROVE  /\ \/ thread' = thread
              \/ \E p \in Consumers, t \in Tasks : Deliver(p, t)
              \/ \E p \in Consumers, t \in Tasks : thread' = [thread EXCEPT ![p][t] = "none"]
              \/ \E p \in Consumers :
                   thread' = [thread EXCEPT ![p] = [t \in Tasks |-> "none"]]
           /\ produced' = produced \/ \E p \in Consumers, t \in Tasks : ThreadReports(p, t)
<1> DEFINE Goal ==
        /\ \/ thread' = thread
           \/ \E p \in Consumers, t \in Tasks : Deliver(p, t)
           \/ \E p \in Consumers, t \in Tasks : thread' = [thread EXCEPT ![p][t] = "none"]
           \/ \E p \in Consumers :
                thread' = [thread EXCEPT ![p] = [t \in Tasks |-> "none"]]
        /\ produced' = produced \/ \E p \in Consumers, t \in Tasks : ThreadReports(p, t)
<1>1. ASSUME NEW t \in Tasks, CreateWorkerTask(t) \/ SendMessage(t) \/ SendFails(t)
      PROVE  Goal
  BY <1>1 DEF CreateWorkerTask, SendMessage, SendFails
<1>2. ASSUME NEW p \in Consumers, NEW t \in Tasks,
             \/ ReadAttempts(p, t) \/ WriteAttempts(p, t) \/ CountFails(p, t) \/ Yield(p, t)
             \/ SaveOutcome(p, t) \/ SaveFails(p, t) \/ Ack(p, t)
      PROVE  Goal
  <2>1. thread' = thread /\ produced' = produced
    BY <1>2 DEF ReadAttempts, WriteAttempts, CountFails, Yield, SaveOutcome, SaveFails, Ack
  <2> QED
    BY <2>1
<1>3. ASSUME NEW p \in Consumers, NEW t \in Tasks,
             Deliver(p, t) \/ ThreadReports(p, t) \/ Terminate(p, t)
      PROVE  Goal
  BY <1>3 DEF Deliver, ThreadReports, Terminate
<1>4. ASSUME NEW p \in Consumers, NEW t \in Tasks, ThreadDies(p, t) PROVE Goal
  BY <1>4 DEF ThreadDies, Gone
<1>5. ASSUME NEW p \in Consumers,
             Crash(p) \/ ConnectionLost(p) \/ ExitOnClose(p) \/ Restart(p)
      PROVE  Goal
  BY <1>5 DEF Crash, ConnectionLost, ExitOnClose, Restart, Gone
<1>6. CASE UNCHANGED vars
  BY <1>6 DEF vars
<1> QED
  BY <1>1, <1>2, <1>3, <1>4, <1>5, <1>6 DEF Next

\* A thread is started for a message that has been sent; what is produced was worked on.
LEMMA WorkIsSent ==
    ASSUME TypeOK, NothingBeforeSend, StartedWereSent, [Next]_vars
    PROVE  /\ \A p \in Consumers, t \in Tasks : thread'[p][t] = "working" => Sent(t)'
           /\ \A t \in produced' : Sent(t)'
<1>1. \A t \in Tasks : Sent(t) => Sent(t)'
  BY SentStays
<1>2. \A p \in Consumers, t \in Tasks : thread[p][t] = "working" => Sent(t)
  BY DEF StartedWereSent
<1>3. produced \subseteq Tasks /\ \A t \in produced : Sent(t)
  BY DEF StartedWereSent, TypeOK
<1>4. ASSUME NEW p \in Consumers, NEW t \in Tasks, thread'[p][t] = "working",
             thread[p][t] # "working"
      PROVE  message[t] = "ready"
  <2>0. thread \in [Consumers -> [Tasks -> {"none", "working"}]]
    BY DEF TypeOK
  <2>1. ASSUME NEW q \in Consumers, NEW u \in Tasks, Deliver(q, u)
        PROVE  message[t] = "ready"
    <3>1. message[u] = "ready" /\ thread' = [thread EXCEPT ![q][u] = "working"]
      BY <2>1 DEF Deliver
    <3>2. t = u
      BY <1>4, <2>0, <3>1
    <3> QED
      BY <3>1, <3>2
  <2>2. ASSUME NEW q \in Consumers, NEW u \in Tasks,
               thread' = [thread EXCEPT ![q][u] = "none"]
        PROVE  FALSE
    BY <1>4, <2>0, <2>2
  <2>3. ASSUME NEW q \in Consumers, thread' = [thread EXCEPT ![q] = [v \in Tasks |-> "none"]]
        PROVE  FALSE
    <3>1. thread'[p] = thread[p] \/ thread'[p] = [v \in Tasks |-> "none"]
      BY <2>0, <2>3
    <3> QED
      BY <1>4, <3>1
  <2>4. thread' # thread
    BY <1>4
  <2>5. PICK q \in Consumers, u \in Tasks : Deliver(q, u)
    BY ThreadSteps, <2>2, <2>3, <2>4
  <2> QED
    BY <2>1, <2>5
<1>5. \A t \in Tasks : message[t] = "ready" => Sent(t)
  BY DEF NothingBeforeSend, Sent, TypeOK
<1>6. ASSUME NEW t \in produced' PROVE t \in Tasks /\ Sent(t)
  <2>1. CASE t \in produced
    BY <1>3, <2>1
  <2>2. CASE t \notin produced
    <3>1. produced' # produced
      BY <1>6, <2>2
    <3>2. PICK p \in Consumers, u \in Tasks : ThreadReports(p, u)
      BY <3>1, ThreadSteps
    <3>3. t = u /\ thread[p][u] = "working"
      BY <1>6, <2>2, <3>2 DEF ThreadReports
    <3> QED
      BY <1>2, <3>3
  <2> QED
    BY <2>1, <2>2
<1> QED
  BY <1>1, <1>2, <1>4, <1>5, <1>6
----------------------------------------------------------------------------
(* The invariant is inductive. *)

\* The ways a call is written.
LEMMA CallUpdates ==
    ASSUME NEW r \in Call, NEW s \in CallStages, NEW t \in Tasks \cup {NoTask}, NEW e \in Calls
    PROVE  /\ [r EXCEPT !.stage = s] \in Call /\ [r EXCEPT !.stage = s].stage = s
           /\ [r EXCEPT !.stage = s, !.task = t] \in Call
           /\ [r EXCEPT !.stage = s, !.export = e] \in Call
           /\ [r EXCEPT !.stage = s, !.task = t].stage = s
           /\ [r EXCEPT !.stage = s, !.task = t].task = t
           /\ [r EXCEPT !.stage = s, !.export = e].stage = s
BY DEF Call

\* Rows, calls and files keep their types, and a call that is sending has its task.
LEMMA ExportTypesStep ==
    ASSUME TypeOK, ExportTypes, SendingHasTask, StartedWereSent, [ExportsNext]_allVars
    PROVE  ExportTypes' /\ SendingHasTask'
<1>0. /\ \A c \in Calls : call[c] \in Call
      /\ "answered" \in CallStages /\ "adding" \in CallStages /\ "sending" \in CallStages
  BY DEF ExportTypes, CallStages
<1>1. ASSUME NEW c \in Calls, NEW r \in Call, r.stage = "sending" => r.task \in Tasks,
             call' = [call EXCEPT ![c] = r]
      PROVE  call' \in [Calls -> Call] /\ SendingHasTask'
  BY <1>1 DEF ExportTypes, SendingHasTask, At
<1>2. ASSUME call' = call PROVE call' \in [Calls -> Call] /\ SendingHasTask'
  BY <1>2 DEF ExportTypes, SendingHasTask, At
<1>3. ASSUME NEW c \in Calls, NEW s \in CallStages \ {"sending"},
             call' = [call EXCEPT ![c].stage = s]
      PROVE  call' \in [Calls -> Call] /\ SendingHasTask'
  <2>1. [call[c] EXCEPT !.stage = s] \in Call /\ [call[c] EXCEPT !.stage = s].stage = s
    BY DEF ExportTypes, Call
  <2> QED
    BY <1>1, <1>3, <2>1
<1>4. ASSUME NEW c \in Calls, FindExport(c) PROVE ExportTypes' /\ SendingHasTask'
  <2>1. UNCHANGED <<exports, input, uploaded>>
    BY <1>4 DEF FindExport
  <2>2. CASE Go(c, "creating")
    BY <1>3, <2>1, <2>2 DEF Go, CallStages, ExportTypes
  <2>3. ASSUME NEW t \in Tasks \cup {NoTask}, Answer(c, t)
        PROVE  ExportTypes' /\ SendingHasTask'
    <3> DEFINE r == [call[c] EXCEPT !.stage = "answered", !.task = t]
    <3>0. PICK old \in Call : old = call[c]
      BY <1>0
    <3>1. r \in Call /\ r.stage = "answered"
      BY <3>0 DEF Call, CallStages
    <3>2. call' = [call EXCEPT ![c] = r]
      BY <2>3 DEF Answer
    <3> HIDE DEF r
    <3> QED
      BY <1>1, <2>1, <3>1, <3>2 DEF ExportTypes
  <2>4. ASSUME NEW e \in Calls,
               call' = [call EXCEPT ![c].stage = "adding", ![c].export = e]
        PROVE  ExportTypes' /\ SendingHasTask'
    <3> DEFINE r == [call[c] EXCEPT !.stage = "adding", !.export = e]
    <3>0. PICK old \in Call : old = call[c]
      BY <1>0
    <3>1. r \in Call /\ r.stage = "adding"
      BY <3>0 DEF Call, CallStages
    <3>2. call' = [call EXCEPT ![c] = r]
      BY <2>4
    <3> HIDE DEF r
    <3> QED
      BY <1>1, <2>1, <3>1, <3>2 DEF ExportTypes
  <2>5. \A e \in Calls : exports[e].task \in Tasks \cup {NoTask}
    BY DEF ExportTypes, ExportRow
  <2> QED
    BY <1>4, <2>2, <2>3, <2>4, <2>5 DEF FindExport
<1>5. ASSUME NEW c \in Calls, CreateExport(c) PROVE ExportTypes' /\ SendingHasTask'
  <2>1. exports' \in [Calls -> ExportRow]
    BY <1>5 DEF CreateExport, ExportTypes, ExportRow
  <2> QED
    BY <1>3, <1>5, <2>1 DEF CreateExport, Go, CallStages, ExportTypes
<1>6. ASSUME NEW c \in Calls, NEW t \in Tasks, AddWorkerTask(c, t)
      PROVE  ExportTypes' /\ SendingHasTask'
  <2> DEFINE r == [call[c] EXCEPT !.stage = "sending", !.task = t]
  <2>0. PICK old \in Call : old = call[c]
    BY <1>0
  <2>1. r \in Call /\ r.task = t
    BY <2>0 DEF Call, CallStages
  <2>2. call' = [call EXCEPT ![c] = r]
    BY <1>6 DEF AddWorkerTask
  <2>3. input' \in [Tasks -> Calls \cup {NoTask}]
    BY <1>6 DEF AddWorkerTask, ExportTypes, Call
  <2>4. exports' = exports /\ uploaded' = uploaded
    BY <1>6 DEF AddWorkerTask, NamedLater
  <2> HIDE DEF r
  <2> QED
    BY <1>1, <2>1, <2>2, <2>3, <2>4 DEF ExportTypes
<1>7. ASSUME NEW c \in Calls, MessageSent(c) \/ MessageFails(c)
      PROVE  ExportTypes' /\ SendingHasTask'
  BY <1>3, <1>7 DEF MessageSent, MessageFails, Go, CallStages, ExportTypes
<1>8. ASSUME NEW c \in Calls, UpdateExport(c) PROVE ExportTypes' /\ SendingHasTask'
  <2>1. call[c].export \in Calls /\ call[c].task \in Tasks \cup {NoTask}
    BY DEF ExportTypes, Call
  <2>2. exports' \in [Calls -> ExportRow]
    BY <1>8, <2>1 DEF UpdateExport, ExportTypes, ExportRow
  <2> QED
    BY <1>3, <1>8, <2>2 DEF UpdateExport, Go, CallStages, ExportTypes
<1>9. ASSUME NEW c \in Calls, CallFails(c) PROVE ExportTypes' /\ SendingHasTask'
  BY <1>3, <1>9 DEF CallFails, Go, CallStages, ExportTypes
<1>10. ASSUME NEW p \in Consumers, NEW t \in Tasks, AssignFile(p, t)
       PROVE  ExportTypes' /\ SendingHasTask'
  <2>1. input[t] \in Calls
    BY <1>10 DEF AssignFile, StartedWereSent, Sent
  <2>2. exports' \in [Calls -> ExportRow]
    BY <1>10, <2>1 DEF AssignFile, ExportTypes, ExportRow
  <2>3. uploaded' \in [Consumers -> SUBSET Tasks]
    BY <1>10 DEF AssignFile, ExportTypes
  <2> QED
    BY <1>2, <1>10, <2>2, <2>3 DEF AssignFile, ExportTypes
<1>11. CASE Worker
  <2>1. uploaded' \in [Consumers -> SUBSET Tasks]
    BY <1>11 DEF Worker, WithThread, ExportTypes
  <2> QED
    BY <1>2, <1>11, <2>1 DEF Worker, ExportTypes
<1>12. CASE UNCHANGED allVars
  BY <1>2, <1>12 DEF allVars, exportVars, ExportTypes
<1> QED
  BY <1>4, <1>5, <1>6, <1>7, <1>8, <1>9, <1>10, <1>11, <1>12 DEF ExportsNext

\* A call learns of a task from a row, and a row from a call that has sent it.
LEMMA NamedStep ==
    ASSUME TypeOK, ExportTypes, SendingHasTask, StartedWereSent, NamedWereSent,
           [ExportsNext]_allVars
    PROVE  NamedWereSent'
<1> DEFINE Out(t) == t \in Tasks /\ t # NoTask => message[t] # "none"
<1> DEFINE OutNext(t) == t \in Tasks /\ t # NoTask => message'[t] # "none"
<1> DEFINE RowsOut == \A e \in Calls : Out(exports[e].task)
<1> DEFINE CallsOut ==
        \A c \in Calls : call[c].stage \in {"updating", "answered"} => Out(call[c].task)
<1>1. ASSUME NEW t, Out(t) PROVE OutNext(t)
  BY <1>1, QueueSteps, SentStays
<1>2. RowsOut /\ CallsOut
  BY DEF NamedWereSent
<1>3. ASSUME RowsOut', CallsOut' PROVE NamedWereSent'
  <2>1. ExportTypes'
    BY ExportTypesStep
  <2>2. /\ \A e \in Calls : exports'[e].task \in Tasks \cup {NoTask}
        /\ \A c \in Calls : call'[c].task \in Tasks \cup {NoTask}
    BY <2>1 DEF ExportTypes, ExportRow, Call
  <2> QED
    BY <1>3, <2>2 DEF NamedWereSent
<1>4. /\ \A e \in Calls : exports[e].task \in Tasks \cup {NoTask}
      /\ \A c \in Calls : call[c].task \in Tasks \cup {NoTask} /\ call[c].export \in Calls
  BY DEF ExportTypes, ExportRow, Call
<1>5. ASSUME \A e \in Calls : exports'[e].task = exports[e].task PROVE RowsOut'
  BY <1>1, <1>2, <1>5
<1>6. ASSUME call' = call PROVE CallsOut'
  BY <1>1, <1>2, <1>6
<1>7. ASSUME NEW c \in Calls,
             \A d \in Calls : d # c => call'[d] = call[d],
             call'[c].stage \in {"updating", "answered"} => OutNext(call'[c].task)
      PROVE  CallsOut'
  BY <1>1, <1>2, <1>7
<1>8. ASSUME NEW c \in Calls, FindExport(c) PROVE NamedWereSent'
  <2>1. RowsOut'
    BY <1>5, <1>8 DEF FindExport
  <2>2. \A d \in Calls : d # c => call'[d] = call[d]
    BY <1>8 DEF FindExport, Go, Answer, ExportTypes
  <2>3. \/ call'[c].stage = "creating" \/ call'[c].stage = "adding"
        \/ call'[c].task = NoTask
        \/ \E e \in Calls : call'[c].task = exports[e].task
    BY <1>8 DEF FindExport, Go, Answer, ExportTypes, Call
  <2>4. call'[c].stage \in {"updating", "answered"} => OutNext(call'[c].task)
    <3>1. \A e \in Calls : OutNext(exports[e].task)
      BY <1>1, <1>2
    <3> QED
      BY <2>3, <3>1
  <2> QED
    BY <1>3, <1>7, <2>1, <2>2, <2>4
<1>9. ASSUME NEW c \in Calls, CreateExport(c) PROVE NamedWereSent'
  <2>1. \A e \in Calls : exports'[e].task = exports[e].task
    BY <1>9 DEF CreateExport, ExportTypes, ExportRow
  <2>2. /\ \A d \in Calls : d # c => call'[d] = call[d]
        /\ call'[c].stage = "adding"
    BY <1>9 DEF CreateExport, Go, ExportTypes, Call
  <2> QED
    BY <1>3, <1>5, <1>7, <2>1, <2>2
<1>10. ASSUME NEW c \in Calls, NEW t \in Tasks, AddWorkerTask(c, t) PROVE NamedWereSent'
  <2>1. /\ \A d \in Calls : d # c => call'[d] = call[d]
        /\ call'[c].stage = "sending"
    BY <1>10 DEF AddWorkerTask, ExportTypes, Call
  <2>2. exports' = exports
    BY <1>10 DEF AddWorkerTask, NamedLater
  <2> QED
    BY <1>3, <1>5, <1>7, <2>1, <2>2
<1>11. ASSUME NEW c \in Calls, MessageSent(c) PROVE NamedWereSent'
  <2>1. /\ \A d \in Calls : d # c => call'[d] = call[d]
        /\ call'[c].task = call[c].task
    BY <1>11 DEF MessageSent, Go, ExportTypes, Call
  <2>2. call[c].task \in Tasks
    BY <1>11 DEF MessageSent, SendingHasTask
  <2>3. message'[call[c].task] = "ready"
    BY <1>11, <2>2 DEF MessageSent, SendMessage, TypeOK
  <2>4. exports' = exports
    BY <1>11 DEF MessageSent
  <2>5. OutNext(call'[c].task)
    BY <2>1, <2>3
  <2> QED
    BY <1>3, <1>5, <1>7, <2>1, <2>4, <2>5
<1>12. ASSUME NEW c \in Calls, MessageFails(c) \/ CallFails(c) PROVE NamedWereSent'
  <2>1. /\ \A d \in Calls : d # c => call'[d] = call[d]
        /\ call'[c].stage = "failed" /\ exports' = exports
    BY <1>12 DEF MessageFails, CallFails, Go, ExportTypes, Call
  <2> QED
    BY <1>3, <1>5, <1>7, <2>1
<1>13. ASSUME NEW c \in Calls, UpdateExport(c) PROVE NamedWereSent'
  <2>1. /\ \A d \in Calls : d # c => call'[d] = call[d]
        /\ call'[c].task = call[c].task /\ call[c].stage = "updating"
    BY <1>13 DEF UpdateExport, At, Go, ExportTypes, Call
  <2>2. OutNext(call[c].task)
    BY <1>1, <1>2, <2>1
  <2>3. \A e \in Calls : exports'[e].task \in {exports[e].task, call[c].task}
    BY <1>4, <1>13 DEF UpdateExport, ExportTypes, ExportRow
  <2>4. \A e \in Calls : OutNext(exports'[e].task)
    BY <1>1, <1>2, <2>2, <2>3
  <2>5. OutNext(call'[c].task)
    BY <2>1, <2>2
  <2> QED
    BY <1>3, <1>7, <2>1, <2>4, <2>5
<1>14. ASSUME NEW p \in Consumers, NEW t \in Tasks, AssignFile(p, t) PROVE NamedWereSent'
  <2>1. \A e \in Calls : exports'[e].task = exports[e].task
    BY <1>14 DEF AssignFile, ExportTypes, ExportRow
  <2>2. call' = call
    BY <1>14 DEF AssignFile
  <2> QED
    BY <1>3, <1>5, <1>6, <2>1, <2>2
<1>15. CASE Worker
  <2>1. exports' = exports /\ call' = call
    BY <1>15 DEF Worker
  <2> QED
    BY <1>3, <1>5, <1>6, <2>1
<1>16. CASE UNCHANGED allVars
  <2>1. exports' = exports /\ call' = call
    BY <1>16 DEF allVars, exportVars
  <2> QED
    BY <1>3, <1>5, <1>6, <2>1
<1> QED
  BY <1>8, <1>9, <1>10, <1>11, <1>12, <1>13, <1>14, <1>15, <1>16 DEF ExportsNext

\* The worker's side makes and sends no task.
LEMMA WorkerKeepsRequests == Worker => request' = request
<1> SUFFICES ASSUME Worker PROVE request' = request
  OBVIOUS
<1>1. ASSUME NEW p \in Consumers, NEW t \in Tasks,
             \/ Deliver(p, t) \/ ReadAttempts(p, t) \/ WriteAttempts(p, t) \/ CountFails(p, t)
             \/ ExportReports(p, t) \/ ThreadDies(p, t)
      PROVE  request' = request
  BY <1>1 DEF Deliver, ReadAttempts, WriteAttempts, CountFails, ExportReports, ThreadReports,
     ThreadDies
<1>2. ASSUME NEW p \in Consumers, NEW t \in Tasks,
             \/ Yield(p, t) \/ Terminate(p, t) \/ SaveOutcome(p, t) \/ SaveFails(p, t)
             \/ Ack(p, t)
      PROVE  request' = request
  BY <1>2 DEF Yield, Terminate, SaveOutcome, SaveFails, Ack
<1>3. ASSUME NEW p \in Consumers,
             Crash(p) \/ ConnectionLost(p) \/ ExitOnClose(p) \/ Restart(p)
      PROVE  request' = request
  BY <1>3 DEF Crash, ConnectionLost, ExitOnClose, Restart
<1> QED
  BY <1>1, <1>2, <1>3 DEF Worker

\* A task is made for a row that stands, and only a message that was sent starts it.
LEMMA StartedStep ==
    ASSUME TypeOK, NothingBeforeSend, ExportTypes, SendingHasTask, StartedWereSent,
           [ExportsNext]_allVars
    PROVE  StartedWereSent'
<1>1. [Next]_vars
  BY QueueSteps
<1>2. ASSUME NEW t \in Tasks, request'[t] # "idle" PROVE input'[t] \in Calls
  <2>1. CASE input' = input /\ request[t] # "idle"
    BY <2>1 DEF StartedWereSent
  <2>2. CASE request[t] = "idle"
    <3>1. ASSUME NEW u \in Tasks, SendMessage(u) \/ SendFails(u) PROVE FALSE
      BY <1>2, <2>2, <3>1 DEF SendMessage, SendFails, TypeOK
    <3>2. request' # request
      BY <1>2, <2>2
    <3>3. ASSUME NEW c \in Calls, NEW v \in Tasks, AddWorkerTask(c, v)
          PROVE  input'[t] \in Calls
      <4>1. v = t
        BY <1>2, <2>2, <3>3 DEF AddWorkerTask, CreateWorkerTask, TypeOK
      <4> QED
        BY <3>3, <4>1 DEF AddWorkerTask, ExportTypes, Call
    <3>4. ASSUME NEW c \in Calls, MessageSent(c) \/ MessageFails(c) PROVE FALSE
      <4>1. call[c].task \in Tasks
        BY <3>4 DEF MessageSent, MessageFails, SendingHasTask
      <4> QED
        BY <3>1, <3>4, <4>1 DEF MessageSent, MessageFails
    <3>5. ASSUME Worker PROVE request' = request
      BY <3>5, WorkerKeepsRequests
    <3> QED
      BY <3>2, <3>3, <3>4, <3>5 DEF ExportsNext, FindExport, CreateExport, UpdateExport,
         CallFails, AssignFile, allVars, vars
  <2>3. CASE input' # input /\ request[t] # "idle"
    <3>1. PICK c \in Calls, u \in Tasks : AddWorkerTask(c, u)
      BY <2>3 DEF ExportsNext, FindExport, CreateExport, UpdateExport, MessageSent,
         MessageFails, CallFails, AssignFile, Worker, allVars, exportVars
    <3>2. u # t
      BY <2>3, <3>1 DEF AddWorkerTask, CreateWorkerTask
    <3>3. input'[t] = input[t]
      BY <3>1, <3>2 DEF AddWorkerTask, ExportTypes
    <3> QED
      BY <2>3, <3>3 DEF StartedWereSent
  <2> QED
    BY <2>1, <2>2, <2>3
<1> QED
  BY <1>1, <1>2, WorkIsSent DEF StartedWereSent

\* On the worker's side only a report produces a result.
LEMMA WorkerProduces ==
    Worker => produced' = produced \/ \E p \in Consumers, t \in Tasks : ExportReports(p, t)
<1> DEFINE Goal == produced' = produced \/ \E p \in Consumers, t \in Tasks : ExportReports(p, t)
<1> SUFFICES ASSUME Worker PROVE Goal
  OBVIOUS
<1>1. ASSUME NEW p \in Consumers, NEW t \in Tasks,
             \/ Deliver(p, t) \/ ReadAttempts(p, t) \/ WriteAttempts(p, t) \/ CountFails(p, t)
             \/ ThreadDies(p, t) \/ Yield(p, t)
      PROVE  produced' = produced
  BY <1>1 DEF Deliver, ReadAttempts, WriteAttempts, CountFails, ThreadDies, Yield
<1>2. ASSUME NEW p \in Consumers, NEW t \in Tasks,
             \/ Terminate(p, t) \/ SaveOutcome(p, t) \/ SaveFails(p, t) \/ Ack(p, t)
      PROVE  produced' = produced
  BY <1>2 DEF Terminate, SaveOutcome, SaveFails, Ack
<1>3. ASSUME NEW p \in Consumers,
             Crash(p) \/ ConnectionLost(p) \/ ExitOnClose(p) \/ Restart(p)
      PROVE  produced' = produced
  BY <1>3 DEF Crash, ConnectionLost, ExitOnClose, Restart
<1> QED
  BY <1>1, <1>2, <1>3 DEF Worker

\* A thread stores the file of its task before it returns a result, a file stays on
\* its row, and the row of a task that has been sent does not change.
LEMMA FilesStep ==
    ASSUME TypeOK, ExportTypes, SendingHasTask, StartedWereSent, FilesAreStored,
           [ExportsNext]_allVars
    PROVE  FilesAreStored'
<1> DEFINE Stored(t) == exports[input[t]].url
<1>1. ASSUME NEW e \in Calls, exports[e].url PROVE exports'[e].url
  <2>1. ASSUME NEW c \in Calls, CreateExport(c) \/ UpdateExport(c) PROVE exports'[e].url
    BY <1>1, <2>1 DEF CreateExport, UpdateExport, ExportTypes, ExportRow
  <2>2. ASSUME NEW p \in Consumers, NEW t \in Tasks, AssignFile(p, t) PROVE exports'[e].url
    BY <1>1, <2>2 DEF AssignFile, ExportTypes, ExportRow
  <2>3. ASSUME exports' = exports PROVE exports'[e].url
    BY <1>1, <2>3
  <2> QED
    BY <2>1, <2>2, <2>3 DEF ExportsNext, FindExport, AddWorkerTask, NamedLater, MessageSent,
       MessageFails, CallFails, Worker, allVars, exportVars
<1>2. ASSUME NEW t \in Tasks, Sent(t) PROVE input'[t] = input[t] /\ input[t] \in Calls
  <2>1. input[t] \in Calls
    BY <1>2 DEF StartedWereSent, Sent
  <2>2. ASSUME NEW c \in Calls, NEW u \in Tasks, AddWorkerTask(c, u)
        PROVE  input'[t] = input[t]
    <3>1. u # t
      BY <1>2, <2>2 DEF AddWorkerTask, CreateWorkerTask, Sent
    <3> QED
      BY <2>2, <3>1 DEF AddWorkerTask, ExportTypes
  <2> QED
    BY <2>1, <2>2 DEF ExportsNext, FindExport, CreateExport, UpdateExport, MessageSent,
       MessageFails, CallFails, AssignFile, Worker, allVars, exportVars
<1>3. ASSUME NEW t \in Tasks, Sent(t), Stored(t) PROVE Stored(t)'
  BY <1>1, <1>2, <1>3
<1>4. ASSUME NEW p \in Consumers, NEW t \in Tasks, t \in uploaded[p]
      PROVE  thread[p][t] = "working" /\ Stored(t)'
  <2>1. thread[p][t] = "working" /\ Stored(t)
    BY <1>4 DEF FilesAreStored
  <2>2. Sent(t)
    BY <2>1 DEF StartedWereSent
  <2> QED
    BY <1>3, <2>1, <2>2
<1>5. ASSUME NEW t \in produced PROVE Stored(t)'
  <2>1. t \in Tasks /\ Stored(t) /\ Sent(t)
    BY <1>5 DEF FilesAreStored, StartedWereSent, TypeOK
  <2> QED
    BY <1>3, <2>1
<1>6. ASSUME thread' = thread, uploaded' = uploaded, produced' = produced
      PROVE  FilesAreStored'
  BY <1>4, <1>5, <1>6 DEF FilesAreStored
<1>7. ASSUME NEW c \in Calls,
             FindExport(c) \/ CreateExport(c) \/ UpdateExport(c) \/ CallFails(c)
      PROVE  FilesAreStored'
  BY <1>6, <1>7 DEF FindExport, CreateExport, UpdateExport, CallFails, vars
<1>8. ASSUME NEW c \in Calls, MessageSent(c) \/ MessageFails(c) PROVE FilesAreStored'
  BY <1>6, <1>8 DEF MessageSent, MessageFails, SendMessage, SendFails
<1>9. ASSUME NEW c \in Calls, NEW t \in Tasks, AddWorkerTask(c, t) PROVE FilesAreStored'
  BY <1>6, <1>9 DEF AddWorkerTask, CreateWorkerTask
<1>10. ASSUME NEW p \in Consumers, NEW t \in Tasks, AssignFile(p, t) PROVE FilesAreStored'
  <2>1. thread[p][t] = "working" /\ thread' = thread /\ produced' = produced
    BY <1>10 DEF AssignFile, vars
  <2>2. Stored(t)'
    <3>1. Sent(t)
      BY <2>1 DEF StartedWereSent
    <3>2. input'[t] = input[t] /\ input[t] \in Calls
      BY <1>2, <3>1
    <3>3. exports'[input[t]].url
      BY <1>10, <3>2 DEF AssignFile, ExportTypes, ExportRow
    <3> QED
      BY <3>2, <3>3
  <2>3. \A q \in Consumers, u \in Tasks :
          u \in uploaded'[q] => u \in uploaded[q] \/ (q = p /\ u = t)
    BY <1>10 DEF AssignFile, ExportTypes
  <2> QED
    BY <1>4, <1>5, <2>1, <2>2, <2>3 DEF FilesAreStored
<1>11. CASE Worker
  <2>1. \A p \in Consumers, t \in Tasks :
          t \in uploaded'[p] => t \in uploaded[p] /\ thread'[p][t] = "working"
    BY <1>11 DEF Worker, WithThread
  <2>2. \A t \in produced' : Stored(t)'
    <3>1. CASE produced' = produced
      BY <1>5, <3>1
    <3>2. ASSUME NEW p \in Consumers, NEW t \in Tasks, ExportReports(p, t),
                 produced' # produced
          PROVE  \A u \in produced' : Stored(u)'
      <4>1. t \in uploaded[p] /\ produced' \subseteq produced \cup {t}
        BY <3>2 DEF ExportReports, ThreadReports, HasFile
      <4> QED
        BY <1>4, <1>5, <4>1
    <3> QED
      BY <1>11, <3>1, <3>2, WorkerProduces
  <2> QED
    BY <1>4, <2>1, <2>2 DEF FilesAreStored
<1>12. CASE UNCHANGED allVars
  BY <1>6, <1>12 DEF allVars, vars, exportVars
<1> QED
  BY <1>7, <1>8, <1>9, <1>10, <1>11, <1>12 DEF ExportsNext

LEMMA ExportsInvInit == ExportsInit => ExportsInv
<1> SUFFICES ASSUME ExportsInit PROVE ExportsInv
  OBVIOUS
<1>1. QueueInv
  BY QueueInvInit DEF ExportsInit
<1>2. ExportTypes
  BY DEF ExportsInit, ExportTypes, ExportRow, Call, CallStages
<1>3. SendingHasTask /\ NamedWereSent
  BY DEF ExportsInit, SendingHasTask, At, NamedWereSent
<1>4. StartedWereSent /\ FilesAreStored
  BY DEF ExportsInit, Init, StartedWereSent, FilesAreStored
<1> QED
  BY <1>1, <1>2, <1>3, <1>4 DEF ExportsInv

LEMMA ExportsInvStep == ExportsInv /\ [ExportsNext]_allVars => ExportsInv'
<1> SUFFICES ASSUME ExportsInv, [ExportsNext]_allVars PROVE ExportsInv'
  OBVIOUS
<1>1. QueueInv /\ TypeOK /\ NothingBeforeSend /\ [Next]_vars
  BY QueueSteps DEF ExportsInv, QueueInv
<1>2. QueueInv'
  BY <1>1, QueueInvStep
<1> QED
  BY <1>1, <1>2, ExportTypesStep, NamedStep, StartedStep, FilesStep DEF ExportsInv

LEMMA ExportsInvHolds == ExportsSpec => []ExportsInv
BY ExportsInvInit, ExportsInvStep, PTL DEF ExportsSpec
----------------------------------------------------------------------------
(* Theorems. *)

\* What the callers and the export task do is a use of the worker queue like any
\* other: whatever holds of every behaviour of WorkerQueue holds of the exports.
THEOREM ExportsUseTheQueue == ExportsSpec => Spec
<1>1. ExportsInit => Init
  BY DEF ExportsInit
<1>2. ExportsInv /\ [ExportsNext]_allVars => [Next]_vars
  BY QueueSteps DEF ExportsInv
<1> QED
  BY <1>1, <1>2, ExportsInvHolds, PTL DEF ExportsSpec, Spec

\* Every variable keeps its type, whatever calls, tasks and consumers there are.
THEOREM ExportsTypeCorrect == ExportsSpec => []ExportsTypeOK
<1>1. ExportsInv => ExportsTypeOK
  BY DEF ExportsInv, QueueInv, ExportTypes, ExportRow, Call, CallStages, ExportsTypeOK
<1> QED
  BY <1>1, ExportsInvHolds, PTL

\* For any number of callers: a task that one of them is told to poll has its
\* message with the broker, since the row is updated last (export/queries.ts:48-54).
THEOREM AnsweredTasksWereSent == ExportsSpec => []AnswersWereSent
<1>1. ExportsInv => AnswersWereSent
  BY DEF ExportsInv, NamedWereSent, AnswersWereSent, At
<1> QED
  BY <1>1, ExportsInvHolds, PTL

\* For any number of runs of a task on any consumers: a row with a result has a
\* file, since the URL is stored before the thread reports (export.ts:56-60).
THEOREM ResultsComeWithFiles == ExportsSpec => []ResultsHaveFiles
<1>1. ExportsInv => ResultsHaveFiles
  BY DEF ExportsInv, QueueInv, ResultsAreReal, FilesAreStored, ResultsHaveFiles
<1> QED
  BY <1>1, ExportsInvHolds, PTL

\* What a caller is told to wait for is settled when its message is acknowledged.
THEOREM PolledTasksSettle == ExportsSpec => []AckedIsSettled
BY ExportsUseTheQueue, AcknowledgedIsSettled
============================================================================
