---------------------------- MODULE CollabDraft ----------------------------
(***************************************************************************)
(* The collaborative draft of a pub.  Editors (client sessions) exchange   *)
(* ProseMirror steps through a Firebase list of changes, one child per     *)
(* integer key; the server writes to the same list on behalf of a user     *)
(* (restoring a version, storing an abstract).                             *)
(*                                                                         *)
(* The editor is plugins/collaborative/document.ts, run on JavaScript's    *)
(* single thread: a handler runs to its end, so a session that is inside   *)
(* the loop of processStoredKeyables (processing[c]) takes no other step.  *)
(* A step is an opaque value and a document is the sequence of the steps   *)
(* that made it; rebasing keeps a step's identity, or drops the step.      *)
(***************************************************************************)
EXTENDS Integers, Sequences, FiniteSets

CONSTANTS
    Clients,    \* editor sessions; a reload is a session of its own
    Writers,    \* server requests that edit the draft
    Steps,      \* the steps that can be made; bounds the length of the list
    Stale,      \* sessions whose bundle is older than the schema
    Unreadable, \* steps such a session cannot parse
    SaveEvery,  \* saveEveryNSteps
    NoTx        \* no Firebase transaction in flight

ASSUME AuthorsAssumption == Clients \cap Writers = {}
ASSUME StaleAssumption == Stale \subseteq Clients /\ Unreadable \subseteq Steps
ASSUME SaveEveryAssumption == SaveEvery \in Nat \ {0}

VARIABLES
    changes,             \* Firebase: key -> change
    phase,               \* where a session is in its life
    mostRecentRemoteKey, \* last key a session has applied
    confirmed,           \* document of a session without its own unconfirmed steps
    unconfirmed,         \* prosemirror-collab: steps not yet seen in the list
    ongoingTransaction,  \* the session's flag of that name
    tx,                  \* its transaction, on the Firebase side
    pending,             \* pendingRemoteKeyables
    listenFrom,          \* next key child_added will deliver
    processing,          \* inside the loop of processStoredKeyables
    checkpoints,         \* storeCheckpoint calls made
    writer,              \* what a server request has read, and its outcome
    typed                \* steps made so far (each is made once)

sessionVars == <<phase, mostRecentRemoteKey, confirmed, unconfirmed,
                 ongoingTransaction, tx, pending, listenFrom, processing>>
vars == <<changes, phase, mostRecentRemoteKey, confirmed, unconfirmed,
          ongoingTransaction, tx, pending, listenFrom, processing,
          checkpoints, writer, typed>>

----------------------------------------------------------------------------
Keys == Nat
EmptyKey == -1                     \* the key of a draft with no change
Docs == Seq(Steps)

\* base is the document the author made the steps on; doc is the document the
\* change yields for a reader that applies the list from its start.
Change == [cId : Clients \cup Writers, steps : Docs, base : Docs, doc : Docs]
Keyable == [key : Keys, cId : Clients \cup Writers, steps : Docs]
Transaction == [status : {"sent", "committed", "aborted"},
                key : Keys, steps : Docs, base : Docs]

DocAt(k) == IF k = EmptyKey THEN <<>> ELSE changes[k].doc

\* Firebase runs the update function on the current child: a child means abort.
KeyTakenNever(k) == FALSE
KeyTaken(k) == k \in DOMAIN changes

\* Where the next change goes, for an author that has applied the list up to key.
NextKeyOfList(key) == Cardinality(DOMAIN changes)
NextKey(key) == key + 1

\* processStoredKeyables returns at once while a transaction is going on.
StartsProcessingNever(ongoing) == FALSE
StartsProcessing(ongoing) == ~ongoing

IsLatest(k) == /\ k \in DOMAIN changes \cup {EmptyKey}
               /\ \A j \in DOMAIN changes : j <= k

\* A change to the list.
Put(k, author, steps, base) ==
    changes' = [j \in DOMAIN changes \cup {k} |->
                  IF j = k THEN [cId |-> author, steps |-> steps, base |-> base,
                                 doc |-> DocAt(k - 1) \o steps]
                           ELSE changes[j]]

Readable(c, steps) ==
    c \in Stale => \A i \in DOMAIN steps : steps[i] \notin Unreadable

\* The ways a rebase can drop steps that no longer apply.
Rebased(steps) ==
    UNION { { [i \in 1..n |-> steps[pick[i]]] :
                pick \in { p \in [1..n -> 1..Len(steps)] :
                             \A i, j \in 1..n : i < j => p[i] < p[j] } } :
            n \in 0..Len(steps) }

----------------------------------------------------------------------------
Init ==
    /\ changes = [k \in {} |-> 0]
    /\ phase = [c \in Clients |-> "out"]
    /\ mostRecentRemoteKey = [c \in Clients |-> EmptyKey]
    /\ confirmed = [c \in Clients |-> <<>>]
    /\ unconfirmed = [c \in Clients |-> <<>>]
    /\ ongoingTransaction = [c \in Clients |-> FALSE]
    /\ tx = [c \in Clients |-> NoTx]
    /\ pending = [c \in Clients |-> <<>>]
    /\ listenFrom = [c \in Clients |-> 0]
    /\ processing = [c \in Clients |-> FALSE]
    /\ checkpoints = {}
    /\ writer = [w \in Writers |-> [status |-> "idle", key |-> EmptyKey]]
    /\ typed = {}

Running(c) == phase[c] \in {"live", "destroyed"}
Idle(c) == Running(c) /\ ~processing[c]

\* The server renders the page: initialDoc and initialDocKey.
OpenPage(c) ==
    /\ phase[c] = "out"
    /\ \E k \in DOMAIN changes \cup {EmptyKey} :
         /\ IsLatest(k)
         /\ mostRecentRemoteKey' = [mostRecentRemoteKey EXCEPT ![c] = k]
         /\ confirmed' = [confirmed EXCEPT ![c] = DocAt(k)]
    /\ phase' = [phase EXCEPT ![c] = "opened"]
    /\ UNCHANGED <<changes, unconfirmed, ongoingTransaction, tx, pending,
                   listenFrom, processing, checkpoints, writer, typed>>

\* loadDocument: everything past initialDocKey at once, then listen.  A change
\* that cannot be parsed rejects the promise: the editor stays read-only.
LoadDocument(c) ==
    /\ phase[c] = "opened"
    /\ \E k \in DOMAIN changes \cup {EmptyKey} :
         /\ IsLatest(k)
         /\ IF \A j \in DOMAIN changes : j > mostRecentRemoteKey[c]
                                           => Readable(c, changes[j].steps)
            THEN /\ mostRecentRemoteKey' = [mostRecentRemoteKey EXCEPT ![c] = k]
                 /\ confirmed' = [confirmed EXCEPT ![c] = DocAt(k)]
                 /\ listenFrom' = [listenFrom EXCEPT ![c] = k + 1]
                 /\ phase' = [phase EXCEPT ![c] = "live"]
            ELSE /\ phase' = [phase EXCEPT ![c] = "loadFailed"]
                 /\ UNCHANGED <<mostRecentRemoteKey, confirmed, listenFrom>>
    /\ UNCHANGED <<changes, unconfirmed, ongoingTransaction, tx, pending,
                   processing, checkpoints, writer, typed>>

\* sendCollabChanges(newState), where the session has applied key, its document
\* without local steps is base, and sendable are its unconfirmed steps.
SendCollabChanges(c, key, base, sendable) ==
    IF ongoingTransaction[c] \/ sendable = <<>>
    THEN UNCHANGED <<ongoingTransaction, tx>>
    ELSE /\ ongoingTransaction' = [ongoingTransaction EXCEPT ![c] = TRUE]
         /\ tx' = [tx EXCEPT ![c] = [status |-> "sent", key |-> NextKey(key),
                                     steps |-> sendable, base |-> base]]

\* The user edits: the dispatched transaction changes the document.
Edit(c) ==
    /\ phase[c] = "live" /\ ~processing[c]
    /\ \E s \in Steps \ typed :
         /\ Readable(c, <<s>>)
         /\ typed' = typed \cup {s}
         /\ unconfirmed' = [unconfirmed EXCEPT ![c] = Append(@, s)]
         /\ SendCollabChanges(c, mostRecentRemoteKey[c], confirmed[c],
                              Append(unconfirmed[c], s))
    /\ UNCHANGED <<changes, phase, mostRecentRemoteKey, confirmed, pending,
                   listenFrom, processing, checkpoints, writer>>

----------------------------------------------------------------------------
(* Firebase's side of a transaction. *)

\* The update function runs against the current child: it aborts when there is one.
TxReachesFirebase(c) ==
    /\ tx[c] # NoTx /\ tx[c].status = "sent"
    /\ LET t == tx[c] IN
         IF KeyTaken(t.key)
         THEN /\ tx' = [tx EXCEPT ![c].status = "aborted"]
              /\ UNCHANGED changes
         ELSE /\ tx' = [tx EXCEPT ![c].status = "committed"]
              /\ Put(t.key, c, t.steps, t.base)
    /\ UNCHANGED <<phase, mostRecentRemoteKey, confirmed, unconfirmed,
                   ongoingTransaction, pending, listenFrom, processing,
                   checkpoints, writer, typed>>

\* The connection drops before the answer; the SDK sends the transaction again.
TxAnswerLost(c) ==
    /\ Running(c)
    /\ tx[c] # NoTx /\ tx[c].status # "sent"
    /\ tx' = [tx EXCEPT ![c].status = "sent"]
    /\ UNCHANGED <<changes, phase, mostRecentRemoteKey, confirmed, unconfirmed,
                   ongoingTransaction, pending, listenFrom, processing,
                   checkpoints, writer, typed>>

\* storeCheckpoint(pubId, newState.doc, snapshot.key), newState being the state
\* the transaction was sent from.
CheckpointAtKeyBefore(c) == [historyKey |-> tx[c].key - 1, doc |-> tx[c].base \o tx[c].steps]
CheckpointFromView(c) == [historyKey |-> tx[c].key, doc |-> confirmed[c] \o unconfirmed[c]]
CheckpointSent(c) == [historyKey |-> tx[c].key, doc |-> tx[c].base \o tx[c].steps]

\* .then: the flag is cleared, a checkpoint may be stored (the document is the
\* one captured when the transaction was sent), and processStoredKeyables starts.
TxResolves(c) ==
    /\ Idle(c)
    /\ tx[c] # NoTx /\ tx[c].status # "sent"
    /\ checkpoints' = IF tx[c].status = "committed" /\ tx[c].key % SaveEvery = 0
                      THEN checkpoints \cup {CheckpointSent(c)}
                      ELSE checkpoints
    /\ ongoingTransaction' = [ongoingTransaction EXCEPT ![c] = FALSE]
    /\ tx' = [tx EXCEPT ![c] = NoTx]
    /\ processing' = [processing EXCEPT ![c] = StartsProcessing(FALSE)]
    /\ UNCHANGED <<changes, phase, mostRecentRemoteKey, confirmed, unconfirmed,
                   pending, listenFrom, writer, typed>>

\* .catch: the error is reported and nothing else changes; the flag stays set.
TxRejects(c) ==
    /\ Idle(c)
    /\ tx[c] # NoTx /\ tx[c].status = "sent"
    /\ tx' = [tx EXCEPT ![c] = NoTx]
    /\ UNCHANGED <<changes, phase, mostRecentRemoteKey, confirmed, unconfirmed,
                   ongoingTransaction, pending, listenFrom, processing,
                   checkpoints, writer, typed>>

----------------------------------------------------------------------------
(* Receiving. *)

\* receiveCollabChanges, from child_added.
ReceiveCollabChanges(c) ==
    /\ phase[c] = "live" /\ ~processing[c]
    /\ listenFrom[c] \in DOMAIN changes
    /\ LET k == listenFrom[c] IN
         pending' = [pending EXCEPT ![c] =
                       Append(@, [key |-> k, cId |-> changes[k].cId,
                                  steps |-> changes[k].steps])]
    /\ listenFrom' = [listenFrom EXCEPT ![c] = @ + 1]
    /\ processing' = [processing EXCEPT ![c] = StartsProcessing(ongoingTransaction[c])]
    /\ UNCHANGED <<changes, phase, mostRecentRemoteKey, confirmed, unconfirmed,
                   ongoingTransaction, tx, checkpoints, writer, typed>>

\* receiveTransaction compares client ids.
IsOwn(c, keyable) == keyable.cId = c

\* The number of local steps an own change confirms.
AllConfirmed(c, keyable) == Len(unconfirmed[c])
OwnConfirmed(c, keyable) ==
    IF Len(keyable.steps) < Len(unconfirmed[c]) THEN Len(keyable.steps)
                                                ELSE Len(unconfirmed[c])

\* mostRecentRemoteKey while the keyable at the head of pending is applied.
LastPendingKey(c, keyable) == pending[c][Len(pending[c])].key
AppliedKey(c, keyable) == keyable.key

\* receiveTransaction on a change of this session: as many of its unconfirmed
\* steps become confirmed as the change has; the document does not change, so
\* the dispatch sends nothing.
ConfirmOwn(c, keyable) ==
    LET n == OwnConfirmed(c, keyable) IN
    /\ IsOwn(c, keyable)
    /\ confirmed' = [confirmed EXCEPT ![c] = @ \o SubSeq(unconfirmed[c], 1, n)]
    /\ unconfirmed' = [unconfirmed EXCEPT ![c] = SubSeq(@, n + 1, Len(@))]
    /\ UNCHANGED <<ongoingTransaction, tx>>

\* receiveTransaction on another author's change: local steps are rebased over
\* it, and the dispatch may start a transaction in the middle of the loop.
ApplyForeign(c, keyable) ==
    /\ ~IsOwn(c, keyable)
    /\ confirmed' = [confirmed EXCEPT ![c] = @ \o keyable.steps]
    /\ \E rebased \in Rebased(unconfirmed[c]) :
         /\ unconfirmed' = [unconfirmed EXCEPT ![c] = rebased]
         /\ SendCollabChanges(c, AppliedKey(c, keyable),
                              confirmed[c] \o keyable.steps, rebased)

\* One iteration of the loop.
ProcessKeyable(c) ==
    /\ processing[c] /\ pending[c] # <<>>
    /\ LET keyable == Head(pending[c]) IN
         /\ Readable(c, keyable.steps)
         /\ mostRecentRemoteKey' = [mostRecentRemoteKey EXCEPT ![c] = AppliedKey(c, keyable)]
         /\ ConfirmOwn(c, keyable) \/ ApplyForeign(c, keyable)
    /\ pending' = [pending EXCEPT ![c] = Tail(@)]
    /\ UNCHANGED <<changes, phase, listenFrom, processing, checkpoints, writer, typed>>

\* An iteration that throws: the error is caught, by the loop or, once the key has
\* moved, by dispatchTransaction, and the change is passed over.
SkipKeyable(c) ==
    /\ processing[c] /\ pending[c] # <<>>
    /\ LET keyable == Head(pending[c]) IN
         /\ ~Readable(c, keyable.steps)
         /\ \/ UNCHANGED mostRecentRemoteKey
            \/ mostRecentRemoteKey' = [mostRecentRemoteKey EXCEPT ![c] = keyable.key]
    /\ pending' = [pending EXCEPT ![c] = Tail(@)]
    /\ UNCHANGED <<changes, phase, confirmed, unconfirmed, ongoingTransaction, tx,
                   listenFrom, processing, checkpoints, writer, typed>>

FinishWithoutSending(c) ==
    /\ processing[c] /\ pending[c] = <<>>
    /\ processing' = [processing EXCEPT ![c] = FALSE]
    /\ UNCHANGED <<changes, phase, mostRecentRemoteKey, confirmed, unconfirmed,
                   ongoingTransaction, tx, pending, listenFrom, checkpoints,
                   writer, typed>>

\* After the loop: whatever is still unconfirmed is sent.
FinishProcessing(c) ==
    /\ processing[c] /\ pending[c] = <<>>
    /\ processing' = [processing EXCEPT ![c] = FALSE]
    /\ SendCollabChanges(c, mostRecentRemoteKey[c], confirmed[c], unconfirmed[c])
    /\ UNCHANGED <<changes, phase, mostRecentRemoteKey, confirmed, unconfirmed,
                   pending, listenFrom, checkpoints, writer, typed>>

----------------------------------------------------------------------------
(* The end of a session. *)

\* The editor unmounts inside a page that lives on: its listeners go, its
\* promises do not.  One that is still loading has nothing to send.
Destroy(c) ==
    /\ phase[c] \in {"opened", "live"} /\ ~processing[c]
    /\ phase' = [phase EXCEPT ![c] = "destroyed"]
    /\ pending' = [pending EXCEPT ![c] = <<>>]
    /\ UNCHANGED <<changes, mostRecentRemoteKey, confirmed, unconfirmed,
                   ongoingTransaction, tx, listenFrom, processing, checkpoints,
                   writer, typed>>

\* The page goes away.  A transaction already sent may still reach Firebase.
Exit(c) ==
    /\ phase[c] \in {"opened", "live", "destroyed"} /\ ~processing[c]
    /\ phase' = [phase EXCEPT ![c] = "gone"]
    /\ UNCHANGED <<changes, mostRecentRemoteKey, confirmed, unconfirmed,
                   ongoingTransaction, tx, pending, listenFrom, processing,
                   checkpoints, writer, typed>>

----------------------------------------------------------------------------
(* A server request: editFirebaseDraftByRef reads the draft, writeChange     *)
(* appends at the next key or bails.                                         *)

FetchDoc(w) ==
    /\ writer[w].status = "idle"
    /\ \E k \in DOMAIN changes \cup {EmptyKey} :
         /\ IsLatest(k)
         /\ writer' = [writer EXCEPT ![w] = [status |-> "fetched", key |-> k]]
    /\ UNCHANGED <<changes, sessionVars, checkpoints, typed>>

WriteChange(w) ==
    /\ writer[w].status = "fetched"
    /\ LET k == NextKey(writer[w].key) IN
         IF KeyTaken(k)
         THEN /\ writer' = [writer EXCEPT ![w].status = "bailed"]
              /\ UNCHANGED <<changes, typed>>
         ELSE /\ writer' = [writer EXCEPT ![w].status = "committed"]
              /\ \E s \in Steps \ typed :
                   /\ typed' = typed \cup {s}
                   /\ Put(k, w, <<s>>, DocAt(k - 1))
    /\ UNCHANGED <<sessionVars, checkpoints>>

----------------------------------------------------------------------------
Receiving(c) == ProcessKeyable(c) \/ SkipKeyable(c) \/ FinishProcessing(c)

Next ==
    \/ \E c \in Clients :
         \/ OpenPage(c) \/ LoadDocument(c) \/ Edit(c)
         \/ TxReachesFirebase(c) \/ TxAnswerLost(c) \/ TxResolves(c) \/ TxRejects(c)
         \/ ReceiveCollabChanges(c)
         \/ ProcessKeyable(c) \/ SkipKeyable(c) \/ FinishProcessing(c)
         \/ Destroy(c) \/ Exit(c)
    \/ \E w \in Writers : FetchDoc(w) \/ WriteChange(w)

Spec == Init /\ [][Next]_vars

\* Fairness: the event loop runs a handler it has started, and a connection that
\* may drop any number of times is eventually up long enough for an answer and
\* for an event to arrive.  Nobody has to edit, leave, or fail.
Fairness ==
    \A c \in Clients :
        /\ WF_vars(Receiving(c))
        /\ WF_vars(Running(c) /\ TxReachesFirebase(c))
        /\ SF_vars(TxResolves(c))
        /\ SF_vars(ReceiveCollabChanges(c))

FairSpec == Spec /\ Fairness
----------------------------------------------------------------------------
(* Properties. *)

TypeOK ==
    /\ DOMAIN changes \subseteq Keys
    /\ \A k \in DOMAIN changes : changes[k] \in Change
    /\ phase \in [Clients -> {"out", "opened", "live", "loadFailed",
                              "destroyed", "gone"}]
    /\ mostRecentRemoteKey \in [Clients -> Keys \cup {EmptyKey}]
    /\ confirmed \in [Clients -> Docs]
    /\ unconfirmed \in [Clients -> Docs]
    /\ ongoingTransaction \in [Clients -> BOOLEAN]
    /\ tx \in [Clients -> Transaction \cup {NoTx}]
    /\ pending \in [Clients -> Seq(Keyable)]
    /\ listenFrom \in [Clients -> Keys]
    /\ processing \in [Clients -> BOOLEAN]
    /\ checkpoints \subseteq [historyKey : Keys, doc : Docs]
    /\ writer \in [Writers -> [status : {"idle", "fetched", "bailed", "committed"},
                               key : Keys \cup {EmptyKey}]]
    /\ typed \subseteq Steps

\* The keys of the list have no gap, whatever sends, aborts and repeats happen:
\* getFirebaseDoc and every listener count on it.
KeysContiguous == \A k \in DOMAIN changes : k # 0 => k - 1 \in DOMAIN changes

\* The list holds a change that the author cannot parse.  The code passes it over
\* and goes on without it (document.ts:146-149): what follows excepts such an author.
Outdated(a) == \E k \in DOMAIN changes : ~Readable(a, changes[k].steps)

\* The steps of every change were made on exactly the document the list yields
\* before it: what makes them apply for every reader.
BasedOnPredecessor ==
    \A k \in DOMAIN changes :
        ~Outdated(changes[k].cId) => changes[k].base = DocAt(k - 1)

\* A session's confirmed document is the list up to mostRecentRemoteKey, although
\* its own changes are confirmed by count and never compared.
SessionInSync ==
    \A c \in Clients : ~Outdated(c) => confirmed[c] = DocAt(mostRecentRemoteKey[c])

\* A checkpoint holds the document of its historyKey, although the document is
\* captured before the transaction is sent and the key is known only after.
CheckpointsFaithful ==
    \A p \in checkpoints :
        /\ p.historyKey \in DOMAIN changes
        /\ ~Outdated(changes[p.historyKey].cId) => p.doc = DocAt(p.historyKey)

Distinct(seq) == \A i, j \in DOMAIN seq : i # j => seq[i] # seq[j]

\* No retry, lost answer or resend puts a step into the list twice, and a session
\* shows each step once: none is both confirmed and still waiting to be sent.
EachStepOnce ==
    /\ \A k \in DOMAIN changes : Distinct(changes[k].doc)
    /\ \A c \in Clients : Distinct(confirmed[c] \o unconfirmed[c])

\* A change, once in the list, is there for good and is never altered.
ListImmutable ==
    [][\A k \in DOMAIN changes : k \in DOMAIN changes' /\ changes'[k] = changes[k]]_changes

\* A session whose transaction was rejected sends and receives nothing more.
Failed(c) == ongoingTransaction[c] /\ tx[c] = NoTx

Waiting(c, s) == \E i \in DOMAIN unconfirmed[c] : unconfirmed[c][i] = s

\* Every edit of an up-to-date session that stays is eventually confirmed, or
\* rebased away.
EditsGetThrough ==
    \A c \in Clients \ Stale, s \in Steps :
        Waiting(c, s) ~> (~Waiting(c, s) \/ phase[c] # "live" \/ Failed(c))

\* Every up-to-date session that stays eventually applies every change.
SessionsCatchUp ==
    \A c \in Clients \ Stale, k \in 0..Cardinality(Steps) - 1 :
        (k \in DOMAIN changes /\ phase[c] = "live")
            ~> (mostRecentRemoteKey[c] >= k \/ phase[c] # "live" \/ Failed(c))

----------------------------------------------------------------------------
(* The draft implements DraftLog. *)

Log == INSTANCE DraftLog WITH
    Authors <- Clients \cup Writers,
    MaxSteps <- Cardinality(Steps),
    log <- [i \in 1..Cardinality(DOMAIN changes) |->
              [author |-> changes[i - 1].cId, steps |-> changes[i - 1].steps]],
    seen <- [a \in Clients \cup Writers |->
               IF a \in Clients THEN mostRecentRemoteKey[a] + 1 ELSE writer[a].key + 1]

\* The optimistic protocol of keys, aborts and resends, is an atomic append by an
\* author that has read the whole list.
ImplementsDraftLog == Log!LogSpec
============================================================================
