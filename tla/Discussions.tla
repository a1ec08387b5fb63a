----------------------------- MODULE Discussions -----------------------------
(***************************************************************************)
(* Where a discussion is anchored in a live draft                          *)
(* (client/components/Editor/plugins/discussions).  Every session keeps    *)
(* the anchor beside its editor, maps it through every transaction, stores *)
(* it in Firebase under a history key, and catches up with what others     *)
(* have stored by mapping it through the changes since that key.           *)
(*                                                                         *)
(* A position is what it has been mapped through: how often each edit.  It *)
(* is right for a document if that is once for the edits of the document   *)
(* and never for others.  A rebase (undo own edit, apply a change, redo)   *)
(* nets to the change.  A change is one edit, and a session has one edit   *)
(* that is not confirmed at most.                                          *)
(***************************************************************************)
EXTENDS Integers, Sequences, FiniteSets, Functions

CONSTANTS
    Sessions,
    MaxEdits, \* bound: edits typed
    NoInfo    \* no discussion

ASSUME MaxEditsAssumption == MaxEdits \in Nat

Edits == 1..MaxEdits

VARIABLES
    changes, \* the draft's changes in Firebase: the change of key k is changes[k]
    stored,  \* the discussion in Firebase
    typed,   \* edits typed so far
    open,    \* sessions that have loaded the draft
    mostRecentRemoteKey, \* of a session, as document.ts keeps it
    stateKey,            \* ... as the collab plugin's state in the editor has it
    historyKey,          \* ... as the discussions plugin's history has it
    unconfirmed, \* the edit of a session that is not confirmed; 0 if none
    discussion,  \* of a session: its copy of the discussion
    callbacks,   \* discussions received that wait for their key (onReachesKey)
    fetching,    \* fast-forwarded discussions on their way
    heard        \* snapshots of the discussion that Firebase has handed a session

keys == <<mostRecentRemoteKey, stateKey, historyKey>>
received == <<callbacks, fetching, heard>>
vars == <<changes, stored, typed, open, keys, unconfirmed, discussion, received>>

Init ==
    /\ changes = <<>>
    /\ stored = NoInfo
    /\ typed = 0
    /\ open = {}
    /\ mostRecentRemoteKey = [s \in Sessions |-> 0]
    /\ stateKey = [s \in Sessions |-> 0]
    /\ historyKey = [s \in Sessions |-> 0]
    /\ unconfirmed = [s \in Sessions |-> 0]
    /\ discussion = [s \in Sessions |-> NoInfo]
    /\ callbacks = [s \in Sessions |-> {}]
    /\ fetching = [s \in Sessions |-> {}]
    /\ heard = [s \in Sessions |-> 0]

----------------------------------------------------------------------------
(* Positions. *)

\* The edits in the document of a key.
EditsUpTo(k) == {changes[i] : i \in 1..k}
PositionIn(edits) == [e \in Edits |-> IF e \in edits THEN 1 ELSE 0]

\* mapDiscussionThroughSteps; a slip: through the inverted steps.
Undone(position, edits) == [e \in Edits |-> IF e \in edits THEN position[e] - 1 ELSE position[e]]
Through(position, edits) == [e \in Edits |-> IF e \in edits THEN position[e] + 1 ELSE position[e]]

\* The document that session s shows.
Document(s) == EditsUpTo(mostRecentRemoteKey[s]) \cup ({unconfirmed[s]} \ {0})

\* A discussion: true records that no session has had it under a key while the
\* document it showed was another than that of the key.
Info(key, position, true) == [currentKey |-> key, position |-> position, true |-> true]

\* sendDiscussions: the transaction keeps what is stored under a later key.
SendAlways(info) == stored' = info
SendLater(info) ==
    stored' = IF stored = NoInfo \/ info.currentKey > stored.currentKey THEN info ELSE stored

\* filterDiscussionsUpdate: an update is taken if it is of the current key; the
\* copy of that key, if there is one, gives way to it.
AcceptsOlder(key, info) == info.currentKey <= key
Accepts(key, info) == info.currentKey = key

\* createFastForwarder: the changes from currentKey + 1 on, up to the key.
ChangesFrom(info, key) == {changes[i] : i \in (info.currentKey..key) \ {0}}
ChangesAfter(info, key) == {changes[i] : i \in info.currentKey + 1..key}
FastForwarded(info, key) ==
    Info(key, Through(info.position, ChangesAfter(info, key)), info.true)
FastForwards(infos, key) == {FastForwarded(i, key) : i \in {j \in infos : j.currentKey < key}}

----------------------------------------------------------------------------
(* handleTransaction: a transaction of session s that applies the edits to the *)
(* document, which then is doc, and after which Firebase's key is remoteKey.   *)
(* The plugin's apply hands over the state before the transaction, so that the *)
(* key found there is that of the transaction before.                          *)

NextKey(s) == IF stateKey[s] >= historyKey[s] THEN stateKey[s] ELSE historyKey[s]

\* The callbacks run before the copies are mapped, with the new key.
Ready(s, key) == IF key > historyKey[s] THEN {i \in callbacks[s] : i.currentKey <= key} ELSE {}
Taken(s, infos, key, doc) ==
    LET accepted == {i \in infos : Accepts(key, i)} IN
    IF accepted = {} THEN discussion[s]
    ELSE LET i == CHOOSE i \in accepted : TRUE
         IN [i EXCEPT !.true = @ /\ doc = EditsUpTo(key)]

\* getUpdatedDiscussionsForTransaction: a copy of the previous key is mapped, and
\* sent if the key has advanced.
Transaction(s, edits, doc, remoteKey) ==
    LET key   == NextKey(s)
        ready == Ready(s, key)
        copy  == Taken(s, ready, key, doc)
        isMapped == copy # NoInfo /\ copy.currentKey = historyKey[s]
        mapped == Info(key, Through(copy.position, edits), copy.true)
        sent  == [mapped EXCEPT !.true = @ /\ doc = EditsUpTo(key)]
    IN /\ mostRecentRemoteKey' = [mostRecentRemoteKey EXCEPT ![s] = remoteKey]
       /\ stateKey' = [stateKey EXCEPT ![s] = remoteKey]
       /\ historyKey' = [historyKey EXCEPT ![s] = key]
       /\ callbacks' = [callbacks EXCEPT ![s] = @ \ ready]
       /\ fetching' = [fetching EXCEPT ![s] = @ \cup FastForwards(ready, key)]
       /\ discussion' = [discussion EXCEPT ![s] = IF isMapped THEN mapped ELSE copy]
       /\ IF isMapped /\ key > copy.currentKey THEN SendLater(sent) ELSE UNCHANGED stored

\* A key is typed.
Type(s) ==
    /\ s \in open /\ unconfirmed[s] = 0 /\ typed < MaxEdits
    /\ typed' = typed + 1
    /\ unconfirmed' = [unconfirmed EXCEPT ![s] = typed + 1]
    /\ Transaction(s, {typed + 1}, Document(s) \cup {typed + 1}, mostRecentRemoteKey[s])
    /\ UNCHANGED <<changes, open, heard>>

\* The selection or a decoration changes.
Select(s) ==
    /\ s \in open
    /\ Transaction(s, {}, Document(s), mostRecentRemoteKey[s])
    /\ UNCHANGED <<changes, typed, open, unconfirmed, heard>>

\* processStoredKeyables: the next change; the session's own one applies nothing.
ReceiveChange(s) ==
    /\ s \in open /\ mostRecentRemoteKey[s] < Len(changes)
    /\ LET k == mostRecentRemoteKey[s] + 1
           own == changes[k] = unconfirmed[s]
       IN /\ unconfirmed' = [unconfirmed EXCEPT ![s] = IF own THEN 0 ELSE @]
          /\ Transaction(s, IF own THEN {} ELSE {changes[k]}, Document(s) \cup {changes[k]}, k)
    /\ UNCHANGED <<changes, typed, open, heard>>

----------------------------------------------------------------------------
(* Firebase. *)

\* sendCollabChanges commits the edit under the next key.
CommitChange(s) ==
    /\ unconfirmed[s] # 0 /\ unconfirmed[s] \notin Range(changes)
    /\ mostRecentRemoteKey[s] = Len(changes)
    /\ changes' = Append(changes, unconfirmed[s])
    /\ UNCHANGED <<stored, typed, open, keys, unconfirmed, discussion, received>>

\* loadDocument: its two transactions leave all keys at the latest one.
LoadDocument(s) ==
    /\ s \notin open /\ open' = open \cup {s}
    /\ mostRecentRemoteKey' = [mostRecentRemoteKey EXCEPT ![s] = Len(changes)]
    /\ stateKey' = [stateKey EXCEPT ![s] = Len(changes)]
    /\ historyKey' = [historyKey EXCEPT ![s] = Len(changes)]
    /\ UNCHANGED <<changes, stored, typed, unconfirmed, discussion, received>>

\* asynchronouslyUpdateDiscussions dispatches a transaction that the plugin does
\* not handle; with it the editor's state learns the key.
TakeUpdate(s, infos) ==
    /\ discussion' = [discussion EXCEPT ![s] = Taken(s, infos, historyKey[s], Document(s))]
    /\ stateKey' = [stateKey EXCEPT ![s] = mostRecentRemoteKey[s]]

AddDiscussion(s) ==
    /\ s \in open /\ stored = NoInfo
    /\ LET info == Info(historyKey[s], PositionIn(Document(s)), TRUE)
       IN /\ discussion' = [discussion EXCEPT ![s] = info]
          /\ stateKey' = [stateKey EXCEPT ![s] = mostRecentRemoteKey[s]]
          /\ SendLater([info EXCEPT !.true = Document(s) = EditsUpTo(historyKey[s])])
    /\ UNCHANGED <<changes, typed, open, mostRecentRemoteKey, historyKey, unconfirmed, received>>

\* The first value of the discussions, and then child_added.
ReceiveDiscussion(s) ==
    /\ s \in open /\ stored # NoInfo /\ heard[s] < 2
    /\ heard' = [heard EXCEPT ![s] = @ + 1]
    /\ IF historyKey[s] >= stored.currentKey
       THEN /\ TakeUpdate(s, {stored})
            /\ fetching' = [fetching EXCEPT ![s] = @ \cup FastForwards({stored}, historyKey[s])]
            /\ UNCHANGED callbacks
       ELSE /\ callbacks' = [callbacks EXCEPT ![s] = @ \cup {stored}]
            /\ UNCHANGED <<discussion, stateKey, fetching>>
    /\ UNCHANGED <<changes, stored, typed, open, mostRecentRemoteKey, historyKey, unconfirmed>>

\* A fast-forwarded discussion comes in; the document may have moved on by then.
FastForwardArrives(s, info) ==
    /\ info \in fetching[s]
    /\ fetching' = [fetching EXCEPT ![s] = @ \ {info}]
    /\ TakeUpdate(s, {info})
    /\ IF Accepts(historyKey[s], info)
          /\ (discussion[s] = NoInfo \/ discussion[s].currentKey < info.currentKey)
       THEN SendLater([info EXCEPT !.true = @ /\ Document(s) = EditsUpTo(historyKey[s])])
       ELSE UNCHANGED stored
    /\ UNCHANGED <<changes, typed, open, mostRecentRemoteKey, historyKey, unconfirmed,
                   callbacks, heard>>

----------------------------------------------------------------------------
Next ==
    \E s \in Sessions :
        \/ LoadDocument(s) \/ Type(s) \/ Select(s) \/ CommitChange(s) \/ ReceiveChange(s)
        \/ AddDiscussion(s) \/ ReceiveDiscussion(s)
        \/ \E info \in fetching[s] : FastForwardArrives(s, info)

Spec == Init /\ [][Next]_vars
----------------------------------------------------------------------------
(* Properties. *)

Infos == [currentKey : Nat, position : [Edits -> Nat], true : BOOLEAN]
ASSUME NoInfoAssumption == NoInfo \notin Infos

TypeOK ==
    /\ changes \in Seq(Edits) /\ typed \in 0..MaxEdits
    /\ stored \in Infos \cup {NoInfo}
    /\ open \subseteq Sessions
    /\ mostRecentRemoteKey \in [Sessions -> Nat]
    /\ stateKey \in [Sessions -> Nat] /\ historyKey \in [Sessions -> Nat]
    /\ unconfirmed \in [Sessions -> {0} \cup Edits]
    /\ discussion \in [Sessions -> Infos \cup {NoInfo}]
    /\ callbacks \in [Sessions -> SUBSET Infos] /\ fetching \in [Sessions -> SUBSET Infos]
    /\ heard \in [Sessions -> 0..2]

\* A session's copy is always of the session's key: one of another key would not
\* be mapped any more, whatever was typed.
CopiesAreCurrent ==
    \A s \in Sessions :
        discussion[s] # NoInfo => discussion[s].currentKey = historyKey[s]

Right(info) == info.position = PositionIn(EditsUpTo(info.currentKey))
CopiesRight ==
    \A s \in Sessions : discussion[s] # NoInfo => discussion[s].position = PositionIn(Document(s))
Quiet == \A s \in Sessions : unconfirmed[s] = 0

\* Positions are lost only where a copy is sent, taken over or added under a key
\* whose document is not the one on the screen.  Mapping, catching up, waiting for
\* a key and late answers keep every other position right.
TruePositionsHold ==
    /\ stored # NoInfo /\ stored.true => Right(stored)
    /\ \A s \in Sessions : discussion[s] # NoInfo /\ discussion[s].true =>
         discussion[s].position = PositionIn(Document(s))

\* What is stored for a discussion never falls back to an earlier key, whichever
\* session is late.
StoredKeyGrows ==
    [][stored # NoInfo => stored'.currentKey >= stored.currentKey]_stored

\* discussionsState.ts:121-128, historyState.ts:43-52: handleTransaction is given
\* the next state, so that a discussion is sent under the key of the document that
\* it has been mapped to.  If no session has an edit of its own to confirm, and
\* every screen shows the discussion in its place, what is stored stays right.
StoredStaysRight ==
    [][Quiet /\ Quiet' /\ CopiesRight /\ stored # NoInfo /\ Right(stored) => Right(stored)']_vars
============================================================================
