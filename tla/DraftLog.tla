------------------------------ MODULE DraftLog ------------------------------
(***************************************************************************)
(* What the collaborative draft promises to its authors, with no key,      *)
(* transaction or message: one log of changes.  An author reads ever       *)
(* longer prefixes of it, and adds a change only to a log it has read to   *)
(* the end, made of steps that no change has yet.                          *)
(***************************************************************************)
EXTENDS Naturals, Sequences

CONSTANTS
    Authors,
    Steps,
    MaxSteps    \* steps one change can hold

VARIABLES
    log,    \* the changes, oldest first
    seen    \* how many of them each author has applied

logVars == <<log, seen>>

Logged(s) == \E i \in DOMAIN log : \E j \in DOMAIN log[i].steps : log[i].steps[j] = s

LogInit ==
    /\ log = <<>>
    /\ seen = [a \in Authors |-> 0]

\* The author reads on, to any point between where it is and the end.
Read(a) ==
    /\ \E n \in seen[a]..Len(log) : seen' = [seen EXCEPT ![a] = n]
    /\ UNCHANGED log

\* The author's change goes right after the last change it has seen.
Publish(a) ==
    /\ seen[a] = Len(log)
    /\ \E n \in 1..MaxSteps : \E steps \in [1..n -> {s \in Steps : ~Logged(s)}] :
         /\ \A i, j \in 1..n : steps[i] = steps[j] => i = j
         /\ log' = Append(log, [author |-> a, steps |-> steps])
    /\ UNCHANGED seen

LogNext == \E a \in Authors : Read(a) \/ Publish(a)

LogSpec == LogInit /\ [][LogNext]_logVars
=============================================================================
