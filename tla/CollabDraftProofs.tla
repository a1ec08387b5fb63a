------------------------- MODULE CollabDraftProofs -------------------------
(***************************************************************************)
(* Theorems about CollabDraft, for every set of sessions, requests and     *)
(* steps: its safety invariants first, then that no step is in the list    *)
(* twice, and that CollabDraft implements DraftLog.                        *)
(***************************************************************************)
EXTENDS CollabDraft, SequenceTheorems, FiniteSetTheorems, TLAPS

Prefix(s, t) == Len(s) <= Len(t) /\ s = SubSeq(t, 1, Len(s))

Reached == DOMAIN changes \cup {EmptyKey}

\* The document of a change is its steps on the document before it.
ListChained == \A k \in DOMAIN changes : changes[k].doc = DocAt(k - 1) \o changes[k].steps

KeysReached ==
    /\ \A c \in Clients : mostRecentRemoteKey[c] \in Reached
    /\ \A w \in Writers : writer[w].key \in Reached

\* A session that has not loaded its document has nothing to send.
QuietBeforeLoad ==
    \A c \in Clients :
        /\ phase[c] \in {"out", "opened", "loadFailed"} =>
             tx[c] = NoTx /\ ~processing[c] /\ pending[c] = <<>>
        /\ processing[c] => Running(c)
        /\ phase[c] = "destroyed" => pending[c] = <<>>

\* What is pending is a stretch of the list, right after what has been applied.
Stored(p, k) ==
    p.key = k /\ k \in DOMAIN changes /\ p.cId = changes[k].cId /\ p.steps = changes[k].steps

PendingOK(c) ==
    phase[c] = "live" =>
        LET first == listenFrom[c] - Len(pending[c]) IN
        /\ \A i \in 1..Len(pending[c]) : Stored(pending[c][i], first + i - 1)
        /\ first > mostRecentRemoteKey[c]
        /\ ~Outdated(c) => first = mostRecentRemoteKey[c] + 1
        /\ \A j \in Nat : mostRecentRemoteKey[c] < j /\ j < listenFrom[c] => j \in DOMAIN changes

PendingIsList == \A c \in Clients : PendingOK(c)

\* A change of its own that a session has yet to apply is the next one, and
\* holds the first of its unconfirmed steps.
OwnIsNext ==
    \A c \in Clients, k \in DOMAIN changes :
        changes[k].cId = c /\ k > mostRecentRemoteKey[c] =>
            k = mostRecentRemoteKey[c] + 1 /\ Prefix(changes[k].steps, unconfirmed[c])

\* A transaction was made on the document before its key; if that key is free,
\* nothing the session has not applied stands before it.
TxOK(c) ==
    tx[c] # NoTx =>
        LET t == tx[c] IN
        /\ t.key - 1 \in Reached /\ t.key - 1 <= mostRecentRemoteKey[c]
        /\ ~Outdated(c) => t.base = DocAt(t.key - 1)
        /\ t.key \notin DOMAIN changes =>
             t.key = mostRecentRemoteKey[c] + 1 /\ Prefix(t.steps, unconfirmed[c])
        /\ t.status = "committed" =>
             /\ t.key \in DOMAIN changes /\ changes[t.key].steps = t.steps
             /\ changes[t.key].cId = c

TxSound == \A c \in Clients : TxOK(c)

\* The inductive invariant.
DraftInv ==
    /\ TypeOK
    /\ KeysContiguous
    /\ BasedOnPredecessor
    /\ SessionInSync
    /\ ListChained
    /\ KeysReached
    /\ QuietBeforeLoad
    /\ PendingIsList
    /\ OwnIsNext
    /\ TxSound
    /\ CheckpointsFaithful
----------------------------------------------------------------------------
(* Types. *)

LEMMA DocAtType ==
    ASSUME TypeOK, NEW k \in Reached
    PROVE  DocAt(k) \in Docs
BY EmptySeq DEF TypeOK, DocAt, Reached, Change, Docs

LEMMA RebasedType ==
    ASSUME NEW u \in Docs, NEW r \in Rebased(u)
    PROVE  r \in Docs
BY DEF Rebased, Docs

LEMMA PutType ==
    ASSUME TypeOK, NEW k \in Keys, k - 1 \in Reached,
           NEW a \in Clients \cup Writers, NEW steps \in Docs, NEW base \in Docs,
           Put(k, a, steps, base)
    PROVE  /\ DOMAIN changes' \subseteq Keys
           /\ \A j \in DOMAIN changes' : changes'[j] \in Change
<1>1. DocAt(k - 1) \o steps \in Docs
  BY DocAtType, ConcatProperties DEF Docs
<1> QED
  BY <1>1 DEF TypeOK, Put, Change

LEMMA SendType ==
    ASSUME TypeOK, NEW c \in Clients, NEW key \in Keys \cup {EmptyKey},
           NEW base \in Docs, NEW sendable \in Docs,
           SendCollabChanges(c, key, base, sendable)
    PROVE  /\ ongoingTransaction' \in [Clients -> BOOLEAN]
           /\ tx' \in [Clients -> Transaction \cup {NoTx}]
<1>1. NextKey(key) \in Keys
  BY DEF NextKey, Keys, EmptyKey
<1>2. CASE ongoingTransaction[c] \/ sendable = <<>>
  BY <1>2 DEF SendCollabChanges, TypeOK
<1>3. CASE ~(ongoingTransaction[c] \/ sendable = <<>>)
  <2>1. [status |-> "sent", key |-> NextKey(key), steps |-> sendable, base |-> base]
          \in Transaction
    BY <1>1 DEF Transaction
  <2> QED
    BY <1>3, <2>1 DEF SendCollabChanges, TypeOK
<1> QED
  BY <1>2, <1>3

\* Every step keeps every variable of its type.
LEMMA TypeStep ==
    ASSUME TypeOK, KeysReached, TxSound, [Next]_vars
    PROVE  TypeOK'
<1>1. ASSUME NEW c \in Clients, OpenPage(c) PROVE TypeOK'
  <2>1. PICK k \in Reached :
          /\ mostRecentRemoteKey' = [mostRecentRemoteKey EXCEPT ![c] = k]
          /\ confirmed' = [confirmed EXCEPT ![c] = DocAt(k)]
    BY <1>1 DEF OpenPage, Reached
  <2>2. DocAt(k) \in Docs
    BY DocAtType
  <2> QED
    BY <1>1, <2>1, <2>2 DEF OpenPage, TypeOK, Reached
<1>2. ASSUME NEW c \in Clients, LoadDocument(c) PROVE TypeOK'
  <2>1. CASE phase' = [phase EXCEPT ![c] = "loadFailed"]
             /\ UNCHANGED <<mostRecentRemoteKey, confirmed, listenFrom>>
    BY <1>2, <2>1 DEF LoadDocument, TypeOK
  <2>2. ASSUME NEW k \in Reached,
               mostRecentRemoteKey' = [mostRecentRemoteKey EXCEPT ![c] = k],
               confirmed' = [confirmed EXCEPT ![c] = DocAt(k)],
               listenFrom' = [listenFrom EXCEPT ![c] = k + 1],
               phase' = [phase EXCEPT ![c] = "live"]
        PROVE  TypeOK'
    <3>1. DocAt(k) \in Docs /\ k + 1 \in Keys /\ k \in Keys \cup {EmptyKey}
      BY DocAtType DEF TypeOK, Reached, Keys, EmptyKey
    <3> QED
      BY <1>2, <2>2, <3>1 DEF LoadDocument, TypeOK
  <2> QED
    BY <1>2, <2>1, <2>2 DEF LoadDocument, Reached
<1>3. ASSUME NEW c \in Clients, Edit(c) PROVE TypeOK'
  <2>1. PICK s \in Steps :
          /\ typed' = typed \cup {s}
          /\ unconfirmed' = [unconfirmed EXCEPT ![c] = Append(@, s)]
          /\ SendCollabChanges(c, mostRecentRemoteKey[c], confirmed[c],
                               Append(unconfirmed[c], s))
    BY <1>3 DEF Edit
  <2>2. Append(unconfirmed[c], s) \in Docs
    BY DEF TypeOK, Docs
  <2>3. /\ ongoingTransaction' \in [Clients -> BOOLEAN]
        /\ tx' \in [Clients -> Transaction \cup {NoTx}]
    BY <2>1, <2>2, SendType DEF TypeOK
  <2> QED
    BY <1>3, <2>1, <2>2, <2>3 DEF Edit, TypeOK
<1>4. ASSUME NEW c \in Clients, TxReachesFirebase(c) PROVE TypeOK'
  <2>1. tx[c] \in Transaction /\ tx[c].key - 1 \in Reached
    BY <1>4 DEF TxReachesFirebase, TypeOK, TxSound, TxOK
  <2>2. tx' \in [Clients -> Transaction \cup {NoTx}]
    <3>1. /\ [tx[c] EXCEPT !.status = "aborted"] \in Transaction
          /\ [tx[c] EXCEPT !.status = "committed"] \in Transaction
      BY <2>1 DEF Transaction
    <3>2. \/ tx' = [tx EXCEPT ![c] = [tx[c] EXCEPT !.status = "aborted"]]
          \/ tx' = [tx EXCEPT ![c] = [tx[c] EXCEPT !.status = "committed"]]
      BY <1>4 DEF TxReachesFirebase
    <3> QED
      BY <3>1, <3>2 DEF TypeOK
  <2>3. CASE UNCHANGED changes
    BY <1>4, <2>2, <2>3 DEF TxReachesFirebase, TypeOK
  <2>4. CASE Put(tx[c].key, c, tx[c].steps, tx[c].base)
    <3>1. /\ DOMAIN changes' \subseteq Keys
          /\ \A j \in DOMAIN changes' : changes'[j] \in Change
      BY <2>1, <2>4, PutType DEF Transaction
    <3> QED
      BY <1>4, <2>2, <3>1 DEF TxReachesFirebase, TypeOK
  <2> QED
    BY <1>4, <2>3, <2>4 DEF TxReachesFirebase
<1>5. ASSUME NEW c \in Clients, TxAnswerLost(c) PROVE TypeOK'
  <2>1. [tx[c] EXCEPT !.status = "sent"] \in Transaction
    BY <1>5 DEF TxAnswerLost, TypeOK, Transaction
  <2>2. tx' = [tx EXCEPT ![c] = [tx[c] EXCEPT !.status = "sent"]]
    BY <1>5 DEF TxAnswerLost
  <2> QED
    BY <1>5, <2>1, <2>2 DEF TxAnswerLost, TypeOK
<1>6. ASSUME NEW c \in Clients, TxResolves(c) PROVE TypeOK'
  <2>1. tx[c] \in Transaction
    BY <1>6 DEF TxResolves, TypeOK
  <2>2. tx[c].base \o tx[c].steps \in Docs
    BY <2>1, ConcatProperties DEF Transaction, Docs
  <2>3. CheckpointSent(c) \in [historyKey : Keys, doc : Docs]
    BY <2>1, <2>2 DEF CheckpointSent, Transaction
  <2>4. checkpoints' \subseteq [historyKey : Keys, doc : Docs]
    BY <1>6, <2>3 DEF TxResolves, TypeOK
  <2> QED
    BY <1>6, <2>4 DEF TxResolves, TypeOK, StartsProcessing
<1>7. ASSUME NEW c \in Clients, TxRejects(c) PROVE TypeOK'
  BY <1>7 DEF TxRejects, TypeOK
<1>8. ASSUME NEW c \in Clients, ReceiveCollabChanges(c) PROVE TypeOK'
  <2> DEFINE p == [key |-> listenFrom[c], cId |-> changes[listenFrom[c]].cId,
                   steps |-> changes[listenFrom[c]].steps]
  <2>1. p \in Keyable
    BY <1>8 DEF ReceiveCollabChanges, TypeOK, Change, Keyable
  <2>2. pending' = [pending EXCEPT ![c] = Append(@, p)]
    BY <1>8 DEF ReceiveCollabChanges
  <2>3. pending' \in [Clients -> Seq(Keyable)]
    BY <2>1, <2>2 DEF TypeOK
  <2>4. StartsProcessing(ongoingTransaction[c]) \in BOOLEAN
    BY DEF StartsProcessing
  <2>5. processing' \in [Clients -> BOOLEAN] /\ listenFrom' \in [Clients -> Keys]
    BY <1>8, <2>4 DEF ReceiveCollabChanges, TypeOK, Keys
  <2> QED
    BY <1>8, <2>3, <2>5 DEF ReceiveCollabChanges, TypeOK
<1>9. ASSUME NEW c \in Clients, ProcessKeyable(c) PROVE TypeOK'
  <2> DEFINE p == Head(pending[c])
  <2>1. p \in Keyable /\ Tail(pending[c]) \in Seq(Keyable)
    BY <1>9, HeadTailProperties DEF ProcessKeyable, TypeOK
  <2>2. p.key \in Keys /\ p.steps \in Docs
    BY <2>1 DEF Keyable
  <2>3. mostRecentRemoteKey' \in [Clients -> Keys \cup {EmptyKey}]
    BY <1>9, <2>2 DEF ProcessKeyable, AppliedKey, TypeOK
  <2>4. /\ confirmed' \in [Clients -> Docs]
        /\ unconfirmed' \in [Clients -> Docs]
        /\ ongoingTransaction' \in [Clients -> BOOLEAN]
        /\ tx' \in [Clients -> Transaction \cup {NoTx}]
    <3>1. CASE ConfirmOwn(c, p)
      <4> DEFINE n == OwnConfirmed(c, p)
      <4>1. unconfirmed[c] \in Seq(Steps) /\ confirmed[c] \in Seq(Steps)
        BY DEF TypeOK, Docs
      <4>2. n \in 0..Len(unconfirmed[c])
        BY <2>2, <4>1, LenProperties DEF OwnConfirmed, Docs
      <4>3. /\ SubSeq(unconfirmed[c], 1, n) \in Docs
            /\ SubSeq(unconfirmed[c], n + 1, Len(unconfirmed[c])) \in Docs
        BY <4>1, <4>2, LenProperties, SubSeqProperties DEF Docs
      <4>4. confirmed[c] \o SubSeq(unconfirmed[c], 1, n) \in Docs
        BY <4>1, <4>3, ConcatProperties DEF Docs
      <4> QED
        BY <3>1, <4>3, <4>4 DEF ConfirmOwn, TypeOK
    <3>2. CASE ApplyForeign(c, p)
      <4>1. PICK rebased \in Rebased(unconfirmed[c]) :
              /\ unconfirmed' = [unconfirmed EXCEPT ![c] = rebased]
              /\ SendCollabChanges(c, AppliedKey(c, p), confirmed[c] \o p.steps, rebased)
        BY <3>2 DEF ApplyForeign
      <4>2. rebased \in Docs /\ confirmed[c] \o p.steps \in Docs
        BY <2>2, RebasedType, ConcatProperties DEF TypeOK, Docs
      <4>3. /\ ongoingTransaction' \in [Clients -> BOOLEAN]
            /\ tx' \in [Clients -> Transaction \cup {NoTx}]
        BY <2>2, <4>1, <4>2, SendType DEF AppliedKey
      <4> QED
        BY <3>2, <4>1, <4>2, <4>3 DEF ApplyForeign, TypeOK
    <3> QED
      BY <1>9, <3>1, <3>2 DEF ProcessKeyable
  <2> QED
    BY <1>9, <2>1, <2>3, <2>4 DEF ProcessKeyable, TypeOK
<1>10. ASSUME NEW c \in Clients, SkipKeyable(c) PROVE TypeOK'
  <2>1. Tail(pending[c]) \in Seq(Keyable) /\ Head(pending[c]).key \in Keys
    <3>1. pending[c] \in Seq(Keyable) /\ pending[c] # <<>>
      BY <1>10 DEF SkipKeyable, TypeOK
    <3>2. Tail(pending[c]) \in Seq(Keyable) /\ Head(pending[c]) \in Keyable
      BY <3>1, HeadTailProperties
    <3> QED
      BY <3>2 DEF Keyable
  <2>2. mostRecentRemoteKey' \in [Clients -> Keys \cup {EmptyKey}]
    BY <1>10, <2>1 DEF SkipKeyable, TypeOK
  <2> QED
    BY <1>10, <2>1, <2>2 DEF SkipKeyable, TypeOK
<1>11. ASSUME NEW c \in Clients, FinishProcessing(c) PROVE TypeOK'
  <2>1. /\ ongoingTransaction' \in [Clients -> BOOLEAN]
        /\ tx' \in [Clients -> Transaction \cup {NoTx}]
    BY <1>11, SendType DEF FinishProcessing, TypeOK
  <2> QED
    BY <1>11, <2>1 DEF FinishProcessing, TypeOK
<1>12. ASSUME NEW c \in Clients, Destroy(c) PROVE TypeOK'
  BY <1>12, EmptySeq DEF Destroy, TypeOK
<1>13. ASSUME NEW c \in Clients, Exit(c) PROVE TypeOK'
  BY <1>13 DEF Exit, TypeOK
<1>14. ASSUME NEW w \in Writers, FetchDoc(w) PROVE TypeOK'
  BY <1>14 DEF FetchDoc, TypeOK, sessionVars
<1>15. ASSUME NEW w \in Writers, WriteChange(w) PROVE TypeOK'
  <2> DEFINE k == NextKey(writer[w].key)
  <2>1. writer[w].key \in Reached /\ k \in Keys /\ k - 1 \in Reached /\ k - 1 = writer[w].key
    <3>1. writer[w].key \in Reached /\ Reached \subseteq Keys \cup {EmptyKey}
      BY DEF KeysReached, Reached, TypeOK
    <3>2. writer[w].key \in Keys \cup {EmptyKey}
      BY <3>1
    <3>3. k \in Keys /\ k - 1 = writer[w].key
      BY <3>2 DEF NextKey, Keys, EmptyKey
    <3> QED
      BY <3>1, <3>3
  <2>2. writer' \in [Writers -> [status : {"idle", "fetched", "bailed", "committed"},
                                 key : Keys \cup {EmptyKey}]]
    <3>1. \E st \in {"bailed", "committed"} :
            writer' = [writer EXCEPT ![w] = [writer[w] EXCEPT !.status = st]]
      BY <1>15 DEF WriteChange
    <3> QED
      BY <3>1 DEF TypeOK
  <2>3. CASE UNCHANGED <<changes, typed>>
    BY <1>15, <2>2, <2>3 DEF WriteChange, TypeOK, sessionVars
  <2>4. ASSUME NEW s \in Steps, typed' = typed \cup {s}, Put(k, w, <<s>>, DocAt(k - 1))
        PROVE  TypeOK'
    <3>1. <<s>> \in Docs /\ DocAt(k - 1) \in Docs
      BY <2>1, DocAtType DEF Docs
    <3>2. /\ DOMAIN changes' \subseteq Keys
          /\ \A j \in DOMAIN changes' : changes'[j] \in Change
      BY <2>1, <2>4, <3>1, PutType
    <3> QED
      BY <1>15, <2>2, <2>4, <3>2 DEF WriteChange, TypeOK, sessionVars
  <2> QED
    BY <1>15, <2>3, <2>4 DEF WriteChange
<1>16. CASE UNCHANGED vars
  BY <1>16 DEF vars, TypeOK
<1> QED
  BY <1>1, <1>2, <1>3, <1>4, <1>5, <1>6, <1>7, <1>8, <1>9, <1>10, <1>11, <1>12,
     <1>13, <1>14, <1>15, <1>16 DEF Next

----------------------------------------------------------------------------
(* The inductive step. *)

\* What a new change leaves as it was, and what it adds.
LEMMA PutKeeps ==
    ASSUME TypeOK, NEW k \in Keys, k \notin DOMAIN changes, k - 1 \in Reached,
           NEW a, NEW steps, NEW base, Put(k, a, steps, base)
    PROVE  /\ DOMAIN changes' = DOMAIN changes \cup {k}
           /\ \A j \in DOMAIN changes : changes'[j] = changes[j]
           /\ Reached \subseteq Reached'
           /\ \A j \in Reached : DocAt(j)' = DocAt(j)
           /\ changes'[k].cId = a /\ changes'[k].steps = steps
           /\ changes'[k].base = base /\ changes'[k].doc = DocAt(k - 1) \o steps
           /\ \A d : Outdated(d) => Outdated(d)'
<1>1. /\ DOMAIN changes' = DOMAIN changes \cup {k}
      /\ \A j \in DOMAIN changes : changes'[j] = changes[j]
      /\ changes'[k].cId = a /\ changes'[k].steps = steps
      /\ changes'[k].base = base /\ changes'[k].doc = DocAt(k - 1) \o steps
  BY DEF Put
<1>2. Reached \subseteq Reached' /\ \A j \in Reached : DocAt(j)' = DocAt(j)
  BY <1>1 DEF Reached, DocAt
<1>3. \A d : Outdated(d) => Outdated(d)'
  BY <1>1 DEF Outdated
<1> QED
  BY <1>1, <1>2, <1>3

\* The list and what is known of it, after an append at a free key on the
\* document before it.
LEMMA ListStep ==
    ASSUME DraftInv, NEW k \in Keys, k \notin DOMAIN changes, k - 1 \in Reached,
           NEW a \in Clients \cup Writers, NEW steps, NEW base,
           ~Outdated(a) => base = DocAt(k - 1),
           Put(k, a, steps, base)
    PROVE  KeysContiguous' /\ BasedOnPredecessor' /\ ListChained'
<1>1. /\ DOMAIN changes' = DOMAIN changes \cup {k}
      /\ \A j \in DOMAIN changes : changes'[j] = changes[j]
      /\ \A j \in Reached : DocAt(j)' = DocAt(j)
      /\ changes'[k].cId = a /\ changes'[k].steps = steps
      /\ changes'[k].base = base /\ changes'[k].doc = DocAt(k - 1) \o steps
      /\ \A d : Outdated(d) => Outdated(d)'
  BY PutKeeps DEF DraftInv
<1>2. KeysContiguous'
  <2>1. k # 0 => k - 1 \in DOMAIN changes
    BY DEF Reached, EmptyKey, Keys
  <2> QED
    BY <1>1, <2>1 DEF KeysContiguous, DraftInv
<1>3. \A j \in DOMAIN changes' : j - 1 \in Reached
  <2>1. \A j \in DOMAIN changes : j - 1 \in Reached
    BY DEF DraftInv, TypeOK, KeysContiguous, Reached, Keys, EmptyKey
  <2> QED
    BY <1>1, <2>1
<1>4. BasedOnPredecessor'
  BY <1>1, <1>3 DEF BasedOnPredecessor, DraftInv
<1>5. ListChained'
  BY <1>1, <1>3 DEF ListChained, DraftInv
<1> QED
  BY <1>2, <1>4, <1>5

\* Sessions that do nothing lose nothing by another author's append.
LEMMA OthersStep ==
    ASSUME DraftInv, NEW k \in Keys, k \notin DOMAIN changes, k - 1 \in Reached,
           NEW a \in Clients \cup Writers, NEW steps, NEW base,
           Put(k, a, steps, base),
           UNCHANGED <<phase, mostRecentRemoteKey, confirmed, unconfirmed, pending,
                       listenFrom, processing>>
    PROVE  /\ SessionInSync' /\ PendingIsList'
           /\ \A c \in Clients \ {a}, j \in DOMAIN changes' :
                changes'[j].cId = c /\ j > mostRecentRemoteKey[c] =>
                    j = mostRecentRemoteKey[c] + 1 /\ Prefix(changes'[j].steps, unconfirmed[c])
<1>1. /\ DOMAIN changes' = DOMAIN changes \cup {k}
      /\ \A j \in DOMAIN changes : changes'[j] = changes[j]
      /\ Reached \subseteq Reached'
      /\ \A j \in Reached : DocAt(j)' = DocAt(j)
      /\ changes'[k].cId = a
      /\ \A d : Outdated(d) => Outdated(d)'
  BY PutKeeps DEF DraftInv
<1>2. SessionInSync'
  BY <1>1 DEF SessionInSync, DraftInv, KeysReached
<1>3. PendingIsList'
  BY <1>1 DEF PendingIsList, PendingOK, Stored, DraftInv
<1>4. \A c \in Clients \ {a}, j \in DOMAIN changes' :
        changes'[j].cId = c /\ j > mostRecentRemoteKey[c] =>
            j = mostRecentRemoteKey[c] + 1 /\ Prefix(changes'[j].steps, unconfirmed[c])
  BY <1>1 DEF OwnIsNext, DraftInv
<1> QED
  BY <1>2, <1>3, <1>4

\* A session's own commit.
LEMMA CommitStep ==
    ASSUME DraftInv, NEW c \in Clients, TxReachesFirebase(c)
    PROVE  DraftInv'
<1> DEFINE t == tx[c]
<1>1. TypeOK'
  BY TypeStep DEF DraftInv, Next
<1>2. t \in Transaction /\ t.key - 1 \in Reached /\ t.key \in Keys
  BY DEF TxReachesFirebase, DraftInv, TypeOK, TxSound, TxOK, Transaction
<1>3. CASE /\ t.key \in DOMAIN changes /\ UNCHANGED changes
           /\ tx' = [tx EXCEPT ![c] = [t EXCEPT !.status = "aborted"]]
  <2>1. \A d \in Clients : tx'[d] # NoTx =>
          /\ tx[d] # NoTx /\ tx'[d].key = tx[d].key
          /\ tx'[d].steps = tx[d].steps /\ tx'[d].base = tx[d].base
          /\ tx'[d].status = "committed" => tx[d].status = "committed"
    BY <1>2, <1>3 DEF TxReachesFirebase, DraftInv, TypeOK, Transaction
  <2>2. TxSound'
    BY <1>3, <2>1 DEF TxReachesFirebase, TxSound, TxOK, DraftInv, Reached, DocAt, Outdated
  <2>3. QuietBeforeLoad'
    BY <1>3 DEF TxReachesFirebase, QuietBeforeLoad, DraftInv, Running, TypeOK
  <2>4. KeysContiguous' /\ BasedOnPredecessor' /\ ListChained' /\ SessionInSync'
    BY <1>3 DEF Outdated, TxReachesFirebase, DraftInv, KeysContiguous, BasedOnPredecessor,
                ListChained, SessionInSync, DocAt
  <2>5. KeysReached' /\ PendingIsList' /\ OwnIsNext'
    <3>1. KeysReached'
      BY <1>3 DEF TxReachesFirebase, DraftInv, KeysReached, Reached
    <3>2. PendingIsList'
      BY <1>3 DEF TxReachesFirebase, DraftInv, PendingIsList, PendingOK, Stored, Outdated
    <3>3. OwnIsNext'
      BY <1>3 DEF TxReachesFirebase, DraftInv, OwnIsNext, Prefix
    <3> QED
      BY <3>1, <3>2, <3>3
  <2>6. CheckpointsFaithful'
    BY <1>3 DEF TxReachesFirebase, DraftInv, CheckpointsFaithful, DocAt, Outdated
  <2> QED
    BY <1>1, <2>2, <2>3, <2>4, <2>5, <2>6 DEF DraftInv
<1>4. CASE /\ t.key \notin DOMAIN changes /\ Put(t.key, c, t.steps, t.base)
           /\ tx' = [tx EXCEPT ![c] = [t EXCEPT !.status = "committed"]]
  <2>1. /\ DOMAIN changes' = DOMAIN changes \cup {t.key}
        /\ \A j \in DOMAIN changes : changes'[j] = changes[j]
        /\ Reached \subseteq Reached'
        /\ \A j \in Reached : DocAt(j)' = DocAt(j)
        /\ changes'[t.key].cId = c /\ changes'[t.key].steps = t.steps
        /\ \A d : Outdated(d) => Outdated(d)'
    <3>1. TypeOK
      BY DEF DraftInv
    <3>2. t.key \in Keys /\ t.key - 1 \in Reached
      BY <1>2
    <3>3. t.key \notin DOMAIN changes /\ Put(t.key, c, t.steps, t.base)
      BY <1>4
    <3>4. PICK k, steps, base :
            k = t.key /\ steps = t.steps /\ base = t.base
      BY <3>2
    <3>5. k \in Keys /\ k \notin DOMAIN changes /\ k - 1 \in Reached /\ Put(k, c, steps, base)
      BY <3>2, <3>3, <3>4
    <3>6. /\ DOMAIN changes' = DOMAIN changes \cup {k}
          /\ \A j \in DOMAIN changes : changes'[j] = changes[j]
          /\ Reached \subseteq Reached'
          /\ \A j \in Reached : DocAt(j)' = DocAt(j)
          /\ changes'[k].cId = c /\ changes'[k].steps = steps
          /\ \A d : Outdated(d) => Outdated(d)'
      BY <3>1, <3>5, PutKeeps
    <3> QED
      BY <3>4, <3>6
  <2>2. /\ ~Outdated(c) => t.base = DocAt(t.key - 1)
        /\ t.key = mostRecentRemoteKey[c] + 1 /\ Prefix(t.steps, unconfirmed[c])
    BY <1>4 DEF TxReachesFirebase, TxSound, TxOK, DraftInv
  <2>3. KeysContiguous' /\ BasedOnPredecessor' /\ ListChained'
    BY <1>2, <1>4, <2>2, ListStep
  <2>4. /\ SessionInSync' /\ PendingIsList'
        /\ \A d \in Clients \ {c}, j \in DOMAIN changes' :
             changes'[j].cId = d /\ j > mostRecentRemoteKey[d] =>
                 j = mostRecentRemoteKey[d] + 1 /\ Prefix(changes'[j].steps, unconfirmed[d])
    BY <1>2, <1>4, OthersStep DEF TxReachesFirebase
  <2>5. OwnIsNext'
    <3>1. ASSUME NEW j \in DOMAIN changes', changes'[j].cId = c, j > mostRecentRemoteKey[c]
          PROVE  j = mostRecentRemoteKey[c] + 1 /\ Prefix(changes'[j].steps, unconfirmed[c])
      <4>1. CASE j = t.key
        BY <2>1, <2>2, <4>1
      <4>2. CASE j \in DOMAIN changes
        BY <1>4, <2>1, <2>2, <3>1, <4>2 DEF OwnIsNext, DraftInv
      <4> QED
        BY <2>1, <4>1, <4>2
    <3> QED
      BY <2>4, <3>1 DEF OwnIsNext, TxReachesFirebase, Prefix
  <2>6. TxSound'
    <3>1. \A d \in Clients : tx'[d] # NoTx =>
            /\ tx[d] # NoTx /\ tx'[d].key = tx[d].key
            /\ tx'[d].steps = tx[d].steps /\ tx'[d].base = tx[d].base
            /\ tx'[d].status = "committed" => d = c \/ tx[d].status = "committed"
      BY <1>2, <1>4 DEF TxReachesFirebase, DraftInv, TypeOK, Transaction
    <3> QED
      BY <1>4, <2>1, <2>2, <3>1 DEF TxReachesFirebase, TxSound, TxOK, DraftInv, Prefix
  <2>7. KeysReached' /\ QuietBeforeLoad'
    BY <1>4, <2>1 DEF TxReachesFirebase, KeysReached, QuietBeforeLoad, DraftInv, Running, TypeOK
  <2>8. CheckpointsFaithful'
    BY <2>1 DEF TxReachesFirebase, CheckpointsFaithful, DraftInv, Reached
  <2> QED
    BY <1>1, <2>3, <2>4, <2>5, <2>6, <2>7, <2>8 DEF DraftInv
<1> QED
  BY <1>3, <1>4 DEF TxReachesFirebase, KeyTaken

\* The conjuncts that only speak of the list hold as long as it does not change.
LEMMA SameList ==
    ASSUME DraftInv, UNCHANGED changes
    PROVE  /\ KeysContiguous' /\ BasedOnPredecessor' /\ ListChained'
           /\ Reached' = Reached /\ (\A a : Outdated(a)' <=> Outdated(a))
           /\ \A j : DocAt(j)' = DocAt(j)
BY DEF DraftInv, KeysContiguous, BasedOnPredecessor, ListChained, Reached, DocAt, Outdated

\* A session whose part of the state, and whose list, stays as it was.
LEMMA TxSame ==
    ASSUME DraftInv, NEW c \in Clients, UNCHANGED changes, tx'[c] = tx[c],
           mostRecentRemoteKey'[c] = mostRecentRemoteKey[c],
           unconfirmed'[c] = unconfirmed[c]
    PROVE  TxOK(c)'
BY DEF DraftInv, TxSound, TxOK, Reached, DocAt, Outdated

\* A server request's commit, or its bail.
LEMMA WriteStep ==
    ASSUME DraftInv, NEW w \in Writers, WriteChange(w)
    PROVE  DraftInv'
<1> DEFINE k == NextKey(writer[w].key)
<1>1. TypeOK'
  BY TypeStep DEF DraftInv, Next
<1>2. writer[w].key \in Reached /\ k \in Keys /\ k - 1 = writer[w].key
  <2>1. writer[w].key \in Reached /\ Reached \subseteq Keys \cup {EmptyKey}
    BY DEF KeysReached, Reached, TypeOK, DraftInv
  <2>2. writer[w].key \in Keys \cup {EmptyKey}
    BY <2>1
  <2> QED
    BY <2>1, <2>2 DEF NextKey, Keys, EmptyKey
<1>3. \A v \in Writers : writer'[v].key = writer[v].key
  BY DEF WriteChange, DraftInv, TypeOK
<1>4. w \notin Clients
  BY AuthorsAssumption
<1>5. CASE UNCHANGED changes
  <2>1. UNCHANGED <<changes, phase, mostRecentRemoteKey, confirmed, unconfirmed, tx,
                    pending, listenFrom, processing, checkpoints>>
    BY <1>5 DEF WriteChange, sessionVars
  <2>2. /\ KeysContiguous' /\ BasedOnPredecessor' /\ ListChained'
        /\ Reached' = Reached /\ (\A a : Outdated(a)' <=> Outdated(a))
        /\ \A j : DocAt(j)' = DocAt(j)
    BY <2>1, SameList
  <2>3. KeysReached'
    BY <1>3, <2>1, <2>2 DEF DraftInv, KeysReached
  <2>4. SessionInSync' /\ OwnIsNext' /\ QuietBeforeLoad' /\ PendingIsList'
        /\ CheckpointsFaithful'
    BY <2>1, <2>2 DEF DraftInv, SessionInSync, OwnIsNext, QuietBeforeLoad, PendingIsList,
                      PendingOK, Stored, Running, CheckpointsFaithful
  <2>5. TxSound'
    BY <2>1, TxSame DEF TxSound
  <2> QED
    BY <1>1, <2>2, <2>3, <2>4, <2>5 DEF DraftInv
<1>6. ASSUME NEW s \in Steps, k \notin DOMAIN changes, Put(k, w, <<s>>, DocAt(k - 1))
      PROVE  DraftInv'
  <2>1. /\ DOMAIN changes' = DOMAIN changes \cup {k}
        /\ \A j \in DOMAIN changes : changes'[j] = changes[j]
        /\ Reached \subseteq Reached'
        /\ \A j \in Reached : DocAt(j)' = DocAt(j)
        /\ \A d : Outdated(d) => Outdated(d)'
    <3>1. TypeOK
      BY DEF DraftInv
    <3> QED
      BY <1>2, <1>6, <3>1, PutKeeps
  <2>2. KeysContiguous' /\ BasedOnPredecessor' /\ ListChained'
    BY <1>2, <1>6, ListStep
  <2>3. UNCHANGED <<phase, mostRecentRemoteKey, confirmed, unconfirmed, pending,
                    listenFrom, processing, tx, checkpoints>>
    BY DEF WriteChange, sessionVars
  <2>4. /\ SessionInSync' /\ PendingIsList'
        /\ \A d \in Clients \ {w}, j \in DOMAIN changes' :
             changes'[j].cId = d /\ j > mostRecentRemoteKey[d] =>
                 j = mostRecentRemoteKey[d] + 1 /\ Prefix(changes'[j].steps, unconfirmed[d])
    BY <1>2, <1>6, <2>3, OthersStep
  <2>5. OwnIsNext'
    BY <1>4, <2>3, <2>4 DEF OwnIsNext, Prefix
  <2>6. TxSound'
    BY <2>1, <2>3 DEF TxSound, TxOK, DraftInv, Prefix
  <2>7. KeysReached' /\ QuietBeforeLoad'
    BY <1>3, <2>1, <2>3 DEF KeysReached, QuietBeforeLoad, DraftInv, Running
  <2>8. CheckpointsFaithful'
    BY <2>1, <2>3 DEF CheckpointsFaithful, DraftInv, Reached
  <2> QED
    BY <1>1, <2>2, <2>4, <2>5, <2>6, <2>7, <2>8 DEF DraftInv
<1> QED
  BY <1>5, <1>6 DEF WriteChange, KeyTaken

\* Loading: a session that reads the list to its end has nothing of its own in it.
LEMMA LoadStep ==
    ASSUME DraftInv, NEW c \in Clients, OpenPage(c) \/ LoadDocument(c)
    PROVE  DraftInv'
<1>1. TypeOK'
  BY TypeStep DEF DraftInv, Next
<1>2. UNCHANGED <<changes, unconfirmed, ongoingTransaction, tx, pending, processing,
                  checkpoints, writer>>
  BY DEF OpenPage, LoadDocument
<1>3. KeysContiguous' /\ BasedOnPredecessor' /\ ListChained'
      /\ Reached' = Reached /\ (\A a : Outdated(a)' <=> Outdated(a))
      /\ \A j : DocAt(j)' = DocAt(j)
  BY <1>2, SameList
<1>4. phase[c] \in {"out", "opened"} /\ phase'[c] \in {"opened", "live", "loadFailed"}
      /\ \A d \in Clients \ {c} : phase'[d] = phase[d]
  BY DEF OpenPage, LoadDocument, DraftInv, TypeOK
<1>5. tx[c] = NoTx /\ ~processing[c] /\ pending[c] = <<>>
  BY <1>4 DEF DraftInv, QuietBeforeLoad
<1>6. QuietBeforeLoad'
  BY <1>2, <1>4, <1>5 DEF DraftInv, QuietBeforeLoad, Running
<1>7. CheckpointsFaithful'
  BY <1>2, <1>3 DEF DraftInv, CheckpointsFaithful
<1>8. CASE UNCHANGED <<mostRecentRemoteKey, confirmed, listenFrom>>
           /\ phase' = [phase EXCEPT ![c] = "loadFailed"]
  <2>1. SessionInSync' /\ KeysReached' /\ PendingIsList' /\ OwnIsNext' /\ TxSound'
    BY <1>2, <1>3, <1>4, <1>8
    DEF DraftInv, SessionInSync, KeysReached, PendingIsList, PendingOK, Stored, OwnIsNext, TxSound, TxOK, Prefix
  <2> QED
    BY <1>1, <1>3, <1>6, <1>7, <2>1 DEF DraftInv
<1>9. ASSUME NEW k \in Reached, IsLatest(k),
             mostRecentRemoteKey' = [mostRecentRemoteKey EXCEPT ![c] = k],
             confirmed' = [confirmed EXCEPT ![c] = DocAt(k)],
             \/ phase'[c] = "opened" /\ listenFrom' = listenFrom
             \/ /\ phase'[c] = "live"
                /\ listenFrom' = [listenFrom EXCEPT ![c] = k + 1]
      PROVE  DraftInv'
  <2>1. SessionInSync' /\ KeysReached'
    BY <1>2, <1>3, <1>9 DEF DraftInv, SessionInSync, KeysReached, TypeOK
  <2>2. PendingIsList'
    <3>1. k \in Int
      BY DEF Reached, DraftInv, TypeOK, Keys, EmptyKey
    <3> QED
      BY <1>2, <1>3, <1>4, <1>5, <1>9, <3>1 DEF DraftInv, PendingIsList, PendingOK, Stored, TypeOK
  <2>3. OwnIsNext'
    <3>1. k \in Int /\ \A j \in DOMAIN changes : j \in Int /\ ~(j > k)
      BY <1>9 DEF Reached, IsLatest, DraftInv, TypeOK, Keys, EmptyKey
    <3>2. \A d \in Clients : mostRecentRemoteKey'[d] =
            IF d = c THEN k ELSE mostRecentRemoteKey[d]
      BY <1>9 DEF DraftInv, TypeOK
    <3> QED
      BY <1>2, <3>1, <3>2 DEF DraftInv, OwnIsNext, Prefix
  <2>4. TxSound'
    BY <1>2, <1>3, <1>5, <1>9 DEF DraftInv, TxSound, TxOK, TypeOK, Prefix
  <2> QED
    BY <1>1, <1>3, <1>6, <1>7, <2>1, <2>2, <2>3, <2>4 DEF DraftInv
<1> QED
  BY <1>8, <1>9 DEF OpenPage, LoadDocument, DraftInv, TypeOK, Reached

LEMMA PrefixSelf ==
    ASSUME NEW u \in Docs PROVE Prefix(u, u)
BY SubSeqFull, LenProperties DEF Prefix, Docs

LEMMA PrefixAppend ==
    ASSUME NEW u \in Docs, NEW v \in Docs, NEW s \in Steps, Prefix(v, u)
    PROVE  Prefix(v, Append(u, s))
<1>1. Len(u) \in Nat /\ Len(v) \in Nat /\ Len(v) <= Len(u)
      /\ Append(u, s) \in Seq(Steps) /\ Len(Append(u, s)) = Len(u) + 1
  BY LenProperties DEF Prefix, Docs
<1>2. \A i \in 1..Len(v) : v[i] = u[i]
  <2>1. \A i \in 1..Len(u) : u[i] \in Steps
    BY ElementOfSeq DEF Docs
  <2>2. \A i \in 1..Len(v) : u[i] \in Steps
    BY <1>1, <2>1
  <2> QED
    BY <1>1, <2>2, SubSeqProperties DEF Prefix
<1>3. \A i \in 1..Len(v) : Append(u, s)[i] = u[i] /\ Append(u, s)[i] \in Steps
  BY <1>1, ElementOfSeq DEF Docs
<1>4. /\ SubSeq(Append(u, s), 1, Len(v)) \in Seq(Steps)
      /\ Len(SubSeq(Append(u, s), 1, Len(v))) = Len(v)
      /\ \A i \in 1..Len(v) : SubSeq(Append(u, s), 1, Len(v))[i] = Append(u, s)[i]
  BY <1>1, <1>3, SubSeqProperties
<1>5. SubSeq(Append(u, s), 1, Len(v)) = v
  BY <1>1, <1>2, <1>3, <1>4, SeqEqual DEF Docs
<1> QED
  BY <1>1, <1>5 DEF Prefix

\* What sendCollabChanges does to the transactions.
LEMMA SendStep ==
    ASSUME DraftInv, NEW c \in Clients, NEW key \in Reached, NEW base, NEW sendable,
           SendCollabChanges(c, key, base, sendable)
    PROVE  /\ \A d \in Clients \ {c} : tx'[d] = tx[d]
           /\ tx'[c] = tx[c] \/ /\ tx'[c].key - 1 = key /\ tx'[c].key = key + 1
                                /\ tx'[c].steps = sendable /\ tx'[c].base = base
                                /\ tx'[c].status = "sent"
<1>1. key \in Int
  BY DEF Reached, DraftInv, TypeOK, Keys, EmptyKey
<1> QED
  <2>1. CASE UNCHANGED <<ongoingTransaction, tx>>
    BY <2>1
  <2>2. CASE tx' = [tx EXCEPT ![c] = [status |-> "sent", key |-> key + 1,
                                      steps |-> sendable, base |-> base]]
    <3>1. DOMAIN tx = Clients
      BY DEF DraftInv, TypeOK
    <3>2. /\ \A d \in Clients \ {c} : tx'[d] = tx[d]
          /\ tx'[c] = [status |-> "sent", key |-> key + 1,
                       steps |-> sendable, base |-> base]
      BY <2>2, <3>1
    <3>3. /\ tx'[c].key = key + 1 /\ tx'[c].steps = sendable
          /\ tx'[c].base = base /\ tx'[c].status = "sent"
      BY <3>2
    <3>4. tx'[c].key - 1 = key
      BY <1>1, <3>3
    <3>5. \A d \in Clients \ {c} : tx'[d] = tx[d]
      BY <3>2
    <3> QED
      BY <3>3, <3>4, <3>5
  <2> QED
    BY <2>1, <2>2 DEF SendCollabChanges, NextKey

\* A transaction that has just been sent.
LEMMA TxSent ==
    ASSUME DraftInv, NEW c \in Clients, UNCHANGED changes, unconfirmed'[c] \in Docs,
           mostRecentRemoteKey'[c] \in Reached,
           tx'[c].key - 1 = mostRecentRemoteKey'[c],
           tx'[c].key = mostRecentRemoteKey'[c] + 1,
           tx'[c].steps = unconfirmed'[c], tx'[c].status = "sent",
           ~Outdated(c) => tx'[c].base = DocAt(mostRecentRemoteKey'[c])
    PROVE  TxOK(c)'
<1>1. Prefix(tx'[c].steps, unconfirmed'[c])
  BY PrefixSelf
<1>2. mostRecentRemoteKey'[c] \in Int
  BY DEF Reached, DraftInv, TypeOK, Keys, EmptyKey
<1> QED
  BY <1>1, <1>2 DEF TxOK, Reached, DocAt, Outdated

LEMMA EditStep ==
    ASSUME DraftInv, NEW c \in Clients, Edit(c)
    PROVE  DraftInv'
<1>1. TypeOK'
  BY TypeStep DEF DraftInv, Next
<1>2. PICK s \in Steps :
        /\ unconfirmed' = [unconfirmed EXCEPT ![c] = Append(@, s)]
        /\ SendCollabChanges(c, mostRecentRemoteKey[c], confirmed[c],
                             Append(unconfirmed[c], s))
  BY DEF Edit
<1>3. UNCHANGED <<changes, phase, mostRecentRemoteKey, confirmed, pending,
                  listenFrom, processing, checkpoints, writer>>
  BY DEF Edit
<1>4. KeysContiguous' /\ BasedOnPredecessor' /\ ListChained'
      /\ Reached' = Reached /\ (\A a : Outdated(a)' <=> Outdated(a))
      /\ \A j : DocAt(j)' = DocAt(j)
  BY <1>3, SameList
<1>5. mostRecentRemoteKey[c] \in Reached /\ mostRecentRemoteKey[c] \in Int
      /\ unconfirmed[c] \in Docs
  BY DEF DraftInv, KeysReached, TypeOK, Keys, EmptyKey
<1>6. /\ \A d \in Clients \ {c} : tx'[d] = tx[d]
      /\ tx'[c] = tx[c] \/ /\ tx'[c].key - 1 = mostRecentRemoteKey[c]
                           /\ tx'[c].key = mostRecentRemoteKey[c] + 1
                           /\ tx'[c].steps = Append(unconfirmed[c], s)
                           /\ tx'[c].base = confirmed[c] /\ tx'[c].status = "sent"
  BY <1>2, <1>5, SendStep
<1>7. /\ unconfirmed'[c] = Append(unconfirmed[c], s)
      /\ \A d \in Clients \ {c} : unconfirmed'[d] = unconfirmed[d]
  BY <1>2 DEF DraftInv, TypeOK
<1>8. OwnIsNext'
  <2>1. \A k \in DOMAIN changes : changes[k].steps \in Docs
    BY DEF DraftInv, TypeOK, Change
  <2>2. \A k \in DOMAIN changes : Prefix(changes[k].steps, unconfirmed[c])
          => Prefix(changes[k].steps, unconfirmed'[c])
    BY <1>5, <1>7, <2>1, PrefixAppend
  <2> SUFFICES ASSUME NEW d \in Clients, NEW k \in DOMAIN changes,
                      changes[k].cId = d, k > mostRecentRemoteKey[d]
               PROVE  /\ k = mostRecentRemoteKey[d] + 1
                      /\ Prefix(changes[k].steps, unconfirmed'[d])
    BY <1>3 DEF OwnIsNext, Prefix
  <2>3. k = mostRecentRemoteKey[d] + 1 /\ Prefix(changes[k].steps, unconfirmed[d])
    BY DEF DraftInv, OwnIsNext
  <2> QED
    BY <1>7, <2>2, <2>3
<1>9. TxSound'
  <2>1. \A d \in Clients \ {c} : TxOK(d)'
    BY <1>3, <1>6, <1>7, TxSame
  <2>2. ASSUME tx'[c] = tx[c] PROVE TxOK(c)'
    <3>1. tx[c] # NoTx => tx[c].steps \in Docs
      BY DEF DraftInv, TypeOK, Transaction
    <3>2. tx[c] # NoTx /\ Prefix(tx[c].steps, unconfirmed[c])
            => Prefix(tx[c].steps, unconfirmed'[c])
      BY <1>5, <1>7, <3>1, PrefixAppend
    <3> QED
      BY <1>3, <1>4, <2>2, <3>2 DEF TxSound, TxOK, DraftInv
  <2>3. ASSUME tx'[c] # tx[c] PROVE TxOK(c)'
    <3>1. ~Outdated(c) => confirmed[c] = DocAt(mostRecentRemoteKey[c])
      BY DEF DraftInv, SessionInSync
    <3>2. unconfirmed'[c] \in Docs
      BY <1>1 DEF TypeOK
    <3> QED
      BY <1>3, <1>5, <1>6, <1>7, <2>3, <3>1, <3>2, TxSent
  <2> QED
    BY <2>1, <2>2, <2>3 DEF TxSound
<1>10. SessionInSync' /\ KeysReached' /\ PendingIsList'
  BY <1>3, <1>4 DEF DraftInv, SessionInSync, KeysReached, PendingIsList, PendingOK, Stored
<1>11. QuietBeforeLoad'
  <2>1. phase[c] = "live"
    BY DEF Edit
  <2> QED
    BY <1>3, <1>6, <2>1 DEF DraftInv, QuietBeforeLoad, Running
<1>12. CheckpointsFaithful'
  BY <1>3, <1>4 DEF DraftInv, CheckpointsFaithful
<1> QED
  BY <1>1, <1>4, <1>8, <1>9, <1>10, <1>11, <1>12 DEF DraftInv

\* An answer, a rejection, a lost answer: the session forgets a transaction or
\* keeps it, and a checkpoint may be stored.
LEMMA AnswerStep ==
    ASSUME DraftInv, NEW c \in Clients,
           TxAnswerLost(c) \/ TxResolves(c) \/ TxRejects(c)
    PROVE  DraftInv'
<1>1. TypeOK'
  BY TypeStep DEF DraftInv, Next
<1>2. UNCHANGED <<changes, phase, mostRecentRemoteKey, confirmed, unconfirmed,
                  pending, listenFrom, writer>>
  BY DEF TxAnswerLost, TxResolves, TxRejects
<1>3. KeysContiguous' /\ BasedOnPredecessor' /\ ListChained'
      /\ Reached' = Reached /\ (\A a : Outdated(a)' <=> Outdated(a))
      /\ \A j : DocAt(j)' = DocAt(j)
  BY <1>2, SameList
<1>4. SessionInSync' /\ KeysReached' /\ PendingIsList' /\ OwnIsNext'
  BY <1>2, <1>3 DEF DraftInv, SessionInSync, KeysReached, PendingIsList, PendingOK, Stored, OwnIsNext
<1>5. tx[c] # NoTx /\ tx[c] \in Transaction /\ Running(c)
  BY DEF TxAnswerLost, TxResolves, TxRejects, Idle, DraftInv, TypeOK
<1>6. /\ \A d \in Clients \ {c} : tx'[d] = tx[d]
      /\ tx'[c] = NoTx \/ tx'[c] = [tx[c] EXCEPT !.status = "sent"]
  BY DEF TxAnswerLost, TxResolves, TxRejects, DraftInv, TypeOK
<1>7. TxSound'
  <2>1. \A d \in Clients \ {c} : TxOK(d)'
    BY <1>2, <1>6, TxSame
  <2>2. TxOK(c)'
    <3>1. tx'[c] # NoTx => /\ tx'[c].key = tx[c].key /\ tx'[c].steps = tx[c].steps
                           /\ tx'[c].base = tx[c].base /\ tx'[c].status = "sent"
      BY <1>5, <1>6 DEF Transaction
    <3> QED
      BY <1>2, <1>3, <1>5, <3>1 DEF TxSound, TxOK, DraftInv
  <2> QED
    BY <2>1, <2>2 DEF TxSound
<1>8. QuietBeforeLoad'
  <2>1. \A d \in Clients \ {c} : processing'[d] = processing[d]
    BY DEF TxAnswerLost, TxResolves, TxRejects, DraftInv, TypeOK
  <2>2. phase[c] \in {"live", "destroyed"}
    BY <1>5 DEF Running
  <2> QED
    BY <1>2, <1>6, <2>1, <2>2 DEF DraftInv, QuietBeforeLoad, Running
<1>9. CheckpointsFaithful'
  <2>1. CASE checkpoints' = checkpoints
    BY <1>2, <1>3, <2>1 DEF DraftInv, CheckpointsFaithful
  <2>2. CASE tx[c].status = "committed" /\ checkpoints' = checkpoints \cup {CheckpointSent(c)}
    <3>1. /\ tx[c].key \in DOMAIN changes /\ changes[tx[c].key].steps = tx[c].steps
          /\ changes[tx[c].key].cId = c /\ tx[c].key \in Keys
          /\ ~Outdated(c) => tx[c].base = DocAt(tx[c].key - 1)
      BY <1>5, <2>2 DEF TxSound, TxOK, DraftInv, Transaction
    <3>2. ~Outdated(c) => DocAt(tx[c].key) = tx[c].base \o tx[c].steps
      <4>1. DocAt(tx[c].key) = changes[tx[c].key].doc
        BY <3>1 DEF DocAt, Keys, EmptyKey
      <4>2. changes[tx[c].key].doc = DocAt(tx[c].key - 1) \o changes[tx[c].key].steps
        BY <3>1 DEF DraftInv, ListChained
      <4> QED
        BY <3>1, <4>1, <4>2
    <3>3. \A p \in checkpoints' :
            /\ p.historyKey \in DOMAIN changes
            /\ ~Outdated(changes[p.historyKey].cId) => p.doc = DocAt(p.historyKey)
      <4>1. CheckpointSent(c).historyKey = tx[c].key
            /\ CheckpointSent(c).doc = tx[c].base \o tx[c].steps
        BY DEF CheckpointSent
      <4>2. \A p \in checkpoints :
              /\ p.historyKey \in DOMAIN changes
              /\ ~Outdated(changes[p.historyKey].cId) => p.doc = DocAt(p.historyKey)
        BY DEF CheckpointsFaithful, DraftInv
      <4> QED
        BY <2>2, <3>1, <3>2, <4>1, <4>2
    <3> QED
      BY <1>2, <1>3, <3>3 DEF CheckpointsFaithful
  <2> QED
    BY <2>1, <2>2 DEF TxAnswerLost, TxResolves, TxRejects
<1> QED
  BY <1>1, <1>3, <1>4, <1>7, <1>8, <1>9 DEF DraftInv

\* Leaving: listeners and queue go, or everything stops.
LEMMA LeaveStep ==
    ASSUME DraftInv, NEW c \in Clients, Destroy(c) \/ Exit(c)
    PROVE  DraftInv'
<1>1. TypeOK'
  BY TypeStep DEF DraftInv, Next
<1>2. UNCHANGED <<changes, mostRecentRemoteKey, confirmed, unconfirmed, tx,
                  listenFrom, processing, checkpoints, writer>>
  BY DEF Destroy, Exit
<1>3. KeysContiguous' /\ BasedOnPredecessor' /\ ListChained'
      /\ Reached' = Reached /\ (\A a : Outdated(a)' <=> Outdated(a))
      /\ \A j : DocAt(j)' = DocAt(j)
  BY <1>2, SameList
<1>4. SessionInSync' /\ KeysReached' /\ OwnIsNext'
      /\ CheckpointsFaithful'
  BY <1>2, <1>3 DEF DraftInv, SessionInSync, KeysReached, OwnIsNext, CheckpointsFaithful
<1>5. TxSound'
  BY <1>2, TxSame DEF TxSound
<1>6. /\ ~processing[c]
      /\ \/ phase'[c] = "destroyed" /\ pending'[c] = <<>>
         \/ phase'[c] = "gone"
      /\ \A d \in Clients \ {c} : phase'[d] = phase[d] /\ pending'[d] = pending[d]
  BY DEF Destroy, Exit, DraftInv, TypeOK
<1>7. QuietBeforeLoad' /\ PendingIsList'
  BY <1>2, <1>3, <1>6 DEF DraftInv, QuietBeforeLoad, PendingIsList, PendingOK, Stored, Running
<1> QED
  BY <1>1, <1>3, <1>4, <1>5, <1>7 DEF DraftInv

\* A server request reads the list to its end.
LEMMA FetchStep ==
    ASSUME DraftInv, NEW w \in Writers, FetchDoc(w)
    PROVE  DraftInv'
<1>1. TypeOK'
  BY TypeStep DEF DraftInv, Next
<1>2. UNCHANGED <<changes, phase, mostRecentRemoteKey, confirmed, unconfirmed, tx,
                  pending, listenFrom, processing, checkpoints>>
  BY DEF FetchDoc, sessionVars
<1>3. KeysContiguous' /\ BasedOnPredecessor' /\ ListChained'
      /\ Reached' = Reached /\ (\A a : Outdated(a)' <=> Outdated(a))
      /\ \A j : DocAt(j)' = DocAt(j)
  BY <1>2, SameList
<1>4. KeysReached'
  BY <1>2, <1>3 DEF FetchDoc, DraftInv, KeysReached, Reached, TypeOK
<1>5. SessionInSync' /\ OwnIsNext' /\ QuietBeforeLoad' /\ PendingIsList'
      /\ CheckpointsFaithful'
  BY <1>2, <1>3 DEF DraftInv, SessionInSync, OwnIsNext, QuietBeforeLoad, PendingIsList, PendingOK, Stored,
                    Running, CheckpointsFaithful
<1>6. TxSound'
  BY <1>2, TxSame DEF TxSound
<1> QED
  BY <1>1, <1>3, <1>4, <1>5, <1>6 DEF DraftInv

\* A change arrives and is stored.
LEMMA ReceiveStep ==
    ASSUME DraftInv, NEW c \in Clients, ReceiveCollabChanges(c)
    PROVE  DraftInv'
<1> DEFINE k == listenFrom[c]
<1>1. TypeOK'
  BY TypeStep DEF DraftInv, Next
<1>2. UNCHANGED <<changes, phase, mostRecentRemoteKey, confirmed, unconfirmed, tx,
                  checkpoints, writer>>
  BY DEF ReceiveCollabChanges
<1>3. KeysContiguous' /\ BasedOnPredecessor' /\ ListChained'
      /\ Reached' = Reached /\ (\A a : Outdated(a)' <=> Outdated(a))
      /\ \A j : DocAt(j)' = DocAt(j)
  BY <1>2, SameList
<1>4. SessionInSync' /\ KeysReached' /\ OwnIsNext'
      /\ CheckpointsFaithful'
  BY <1>2, <1>3 DEF DraftInv, SessionInSync, KeysReached, OwnIsNext, CheckpointsFaithful
<1>5. TxSound'
  BY <1>2, TxSame DEF TxSound
<1>6. phase[c] = "live" /\ k \in DOMAIN changes /\ k \in Nat
      /\ pending[c] \in Seq(Keyable) /\ Len(pending[c]) \in Nat
  BY LenProperties DEF ReceiveCollabChanges, DraftInv, TypeOK, Keys
<1>7. QuietBeforeLoad'
  <2>1. \A d \in Clients \ {c} : processing'[d] = processing[d] /\ pending'[d] = pending[d]
    BY DEF ReceiveCollabChanges, DraftInv, TypeOK
  <2> QED
    BY <1>2, <1>6, <2>1 DEF DraftInv, QuietBeforeLoad, Running
<1>8. PendingIsList'
  <2>1. PICK new \in Keyable :
          /\ new = [key |-> k, cId |-> changes[k].cId, steps |-> changes[k].steps]
          /\ pending' = [pending EXCEPT ![c] = Append(pending[c], new)]
          /\ listenFrom' = [listenFrom EXCEPT ![c] = k + 1]
    <3>1. [key |-> k, cId |-> changes[k].cId, steps |-> changes[k].steps] \in Keyable
      BY <1>6 DEF DraftInv, TypeOK, Change, Keyable, Keys
    <3> QED
      BY <3>1 DEF ReceiveCollabChanges
  <2>2. ASSUME NEW d \in Clients \ {c} PROVE PendingOK(d)'
    <3>1. pending'[d] = pending[d] /\ listenFrom'[d] = listenFrom[d]
      BY <2>1 DEF DraftInv, TypeOK
    <3> QED
      BY <1>2, <3>1 DEF DraftInv, PendingIsList, PendingOK, Stored, Outdated
  <2>3. PICK n \in Nat : n = Len(pending[c])
    BY <1>6
  <2>4. PICK r \in Int : r = mostRecentRemoteKey[c]
    <3>1. mostRecentRemoteKey[c] \in Int
      BY DEF DraftInv, TypeOK, Keys, EmptyKey
    <3> QED
      BY <3>1
  <2>5. /\ \A i \in 1..n : Stored(pending[c][i], k - n + i - 1)
        /\ k - n > r
        /\ ~Outdated(c) => k - n = r + 1
        /\ \A j \in Nat : r < j /\ j < k => j \in DOMAIN changes
    BY <1>6, <2>3, <2>4 DEF DraftInv, PendingIsList, PendingOK
  <2>6. PICK q : q = Append(pending[c], new) /\ pending'[c] = q /\ listenFrom'[c] = k + 1
    BY <2>1 DEF DraftInv, TypeOK
  <2>7. Len(q) = n + 1 /\ q[n + 1] = new /\ \A i \in 1..n : q[i] = pending[c][i]
    BY <1>6, <2>3, <2>6
  <2>8. Stored(new, k)
    BY <1>6, <2>1 DEF Stored
  <2>9. ASSUME NEW i \in 1..(n + 1) PROVE Stored(q[i], k - n + i - 1)
    <3>1. CASE i \in 1..n
      BY <2>5, <2>7, <3>1
    <3>2. CASE i = n + 1
      <4>1. k - n + i - 1 = k
        BY <1>6, <3>2
      <4> QED
        BY <2>7, <2>8, <3>2, <4>1
    <3> QED
      BY <3>1, <3>2
  <2>10. \A j \in Nat : r < j /\ j < k + 1 => j \in DOMAIN changes
    BY <1>6, <2>5
  <2>11. k + 1 - (n + 1) = k - n
    BY <1>6
  <2>12. \A i \in 1..(n + 1) : Stored(q[i], k + 1 - (n + 1) + i - 1)
    BY <2>9, <2>11
  <2>13. PendingOK(c)'
    <3>1. PICK m \in Nat : m = k
      BY <1>6
    <3>2. \A i \in 1..(n + 1) : Stored(q[i], m + 1 - (n + 1) + i - 1)
      BY <2>12, <3>1
    <3>3. \A i \in 1..(n + 1) : Stored(q[i], m + 1 - (n + 1) + i - 1)'
      BY <1>2, <3>2 DEF Stored
    <3>4. m + 1 - (n + 1) > r /\ (~Outdated(c) => m + 1 - (n + 1) = r + 1)
      BY <2>5, <2>11, <3>1
    <3>5. \A j \in Nat : r < j /\ j < m + 1 => j \in DOMAIN changes
      BY <2>10, <3>1
    <3>6. listenFrom'[c] = m + 1
      BY <2>6, <3>1
    <3> HIDE DEF k
    <3>7. mostRecentRemoteKey'[c] = r /\ pending'[c] = q /\ Len(q) = n + 1
      BY <1>2, <2>4, <2>6, <2>7
    <3>8. \A j \in Nat : r < j /\ j < m + 1 => j \in DOMAIN changes'
      BY <1>2, <3>5
    <3>9. Outdated(c)' <=> Outdated(c)
      BY <1>2 DEF Outdated
    <3> QED
      BY <3>3, <3>4, <3>6, <3>7, <3>8, <3>9 DEF PendingOK
  <2> QED
    BY <2>2, <2>13 DEF PendingIsList
<1> QED
  BY <1>1, <1>3, <1>4, <1>5, <1>7, <1>8 DEF DraftInv

\* The end of processStoredKeyables.
LEMMA FinishStep ==
    ASSUME DraftInv, NEW c \in Clients, FinishProcessing(c)
    PROVE  DraftInv'
<1>1. TypeOK'
  BY TypeStep DEF DraftInv, Next
<1>2. UNCHANGED <<changes, phase, mostRecentRemoteKey, confirmed, unconfirmed,
                  pending, listenFrom, checkpoints, writer>>
  BY DEF FinishProcessing
<1>3. KeysContiguous' /\ BasedOnPredecessor' /\ ListChained'
      /\ Reached' = Reached /\ (\A a : Outdated(a)' <=> Outdated(a))
      /\ \A j : DocAt(j)' = DocAt(j)
  BY <1>2, SameList
<1>4. SessionInSync' /\ KeysReached' /\ OwnIsNext' /\ PendingIsList'
      /\ CheckpointsFaithful'
  BY <1>2, <1>3
  DEF DraftInv, SessionInSync, KeysReached, OwnIsNext, PendingIsList, PendingOK, Stored, CheckpointsFaithful
<1>5. mostRecentRemoteKey[c] \in Reached /\ unconfirmed[c] \in Docs
      /\ (~Outdated(c) => confirmed[c] = DocAt(mostRecentRemoteKey[c]))
  BY DEF DraftInv, KeysReached, TypeOK, SessionInSync
<1>6. /\ \A d \in Clients \ {c} : tx'[d] = tx[d]
      /\ tx'[c] = tx[c] \/ /\ tx'[c].key - 1 = mostRecentRemoteKey[c]
                           /\ tx'[c].key = mostRecentRemoteKey[c] + 1
                           /\ tx'[c].steps = unconfirmed[c]
                           /\ tx'[c].base = confirmed[c] /\ tx'[c].status = "sent"
  BY <1>5, SendStep DEF FinishProcessing
<1>7. TxSound'
  <2>1. \A d \in Clients \ {c} : TxOK(d)'
    BY <1>2, <1>6, TxSame
  <2>2. ASSUME tx'[c] = tx[c] PROVE TxOK(c)'
    BY <1>2, <2>2, TxSame
  <2>3. ASSUME tx'[c] # tx[c] PROVE TxOK(c)'
    BY <1>2, <1>5, <1>6, <2>3, TxSent
  <2> QED
    BY <2>1, <2>2, <2>3 DEF TxSound
<1>8. QuietBeforeLoad'
  <2>1. processing[c] /\ \A d \in Clients : processing'[d] => processing[d]
    BY DEF FinishProcessing, DraftInv, TypeOK
  <2> QED
    BY <1>2, <1>6, <2>1 DEF DraftInv, QuietBeforeLoad, Running
<1> QED
  BY <1>1, <1>3, <1>4, <1>7, <1>8 DEF DraftInv

\* The head of what is pending, in a session that processes it, is in the list.
LEMMA HeadStored ==
    ASSUME DraftInv, NEW c \in Clients, processing[c], pending[c] # <<>>
    PROVE  \E K \in DOMAIN changes :
             /\ phase[c] = "live" /\ Stored(Head(pending[c]), K)
             /\ K = listenFrom[c] - Len(pending[c]) /\ K > mostRecentRemoteKey[c]
             /\ ~Outdated(c) => K = mostRecentRemoteKey[c] + 1
             /\ mostRecentRemoteKey[c] + 1 \in DOMAIN changes
<1>1. phase[c] = "live"
  BY DEF DraftInv, QuietBeforeLoad, Running
<1>2. PICK q \in Seq(Keyable) : q = pending[c]
  BY DEF DraftInv, TypeOK
<1>3. PICK n \in Nat : n = Len(q) /\ n > 0 /\ Head(q) = q[1]
  BY <1>2, EmptySeq, LenProperties, HeadTailProperties
<1>4. PICK r \in Int : r = mostRecentRemoteKey[c] /\ r >= -1
  <2>1. mostRecentRemoteKey[c] \in Int /\ mostRecentRemoteKey[c] >= -1
    BY DEF DraftInv, TypeOK, Keys, EmptyKey
  <2> QED
    BY <2>1
<1>5. PICK m \in Nat : m = listenFrom[c]
  <2>1. listenFrom[c] \in Nat
    BY DEF DraftInv, TypeOK, Keys
  <2> QED
    BY <2>1
<1>6. /\ \A i \in 1..n : Stored(q[i], m - n + i - 1)
      /\ m - n > r /\ (~Outdated(c) => m - n = r + 1)
      /\ \A j \in Nat : r < j /\ j < m => j \in DOMAIN changes
  BY <1>1, <1>2, <1>3, <1>4, <1>5 DEF DraftInv, PendingIsList, PendingOK
<1>7. Stored(q[1], m - n)
  <2>1. Stored(q[1], m - n + 1 - 1) /\ m - n + 1 - 1 = m - n
    BY <1>3, <1>6
  <2> QED
    BY <2>1
<1>8. m - n \in DOMAIN changes
  BY <1>7 DEF Stored
<1>9. r + 1 \in DOMAIN changes
  BY <1>3, <1>4, <1>6
<1> QED
  BY <1>1, <1>2, <1>3, <1>4, <1>5, <1>6, <1>7, <1>8, <1>9

\* What stays pending when its head is taken.
LEMMA PopStep ==
    ASSUME DraftInv, NEW c \in Clients, processing[c], pending[c] # <<>>,
           UNCHANGED <<changes, phase, listenFrom>>,
           pending' = [pending EXCEPT ![c] = Tail(@)],
           \A d \in Clients \ {c} : mostRecentRemoteKey'[d] = mostRecentRemoteKey[d],
           \/ mostRecentRemoteKey'[c] = listenFrom[c] - Len(pending[c])
           \/ Outdated(c) /\ mostRecentRemoteKey'[c] = mostRecentRemoteKey[c]
    PROVE  PendingIsList'
<1>1. ASSUME NEW d \in Clients \ {c} PROVE PendingOK(d)'
  <2>1. pending'[d] = pending[d] /\ listenFrom'[d] = listenFrom[d]
    BY DEF DraftInv, TypeOK
  <2> QED
    BY <2>1 DEF DraftInv, PendingIsList, PendingOK, Stored, Outdated
<1>2. PendingOK(c)'
  <2>1. phase[c] = "live"
    BY DEF DraftInv, QuietBeforeLoad, Running
  <2>2. PICK q \in Seq(Keyable) : q = pending[c]
    BY DEF DraftInv, TypeOK
  <2>3. PICK n \in Nat : n = Len(q) /\ n > 0
    BY <2>2, EmptySeq, LenProperties
  <2>4. PICK t \in Seq(Keyable) : t = Tail(q) /\ Len(t) = n - 1
                                  /\ \A i \in 1..(n - 1) : t[i] = q[i + 1]
    <3>1. q # <<>>
      BY <2>2
    <3>2. /\ Tail(q) \in Seq(Keyable) /\ Len(Tail(q)) = n - 1
          /\ \A i \in 1..(n - 1) : Tail(q)[i] = q[i + 1]
      BY <2>3, <3>1, HeadTailProperties
    <3> QED
      BY <3>2
  <2>5. pending'[c] = t
    BY <2>2, <2>4 DEF DraftInv, TypeOK
  <2>6. PICK r \in Int : r = mostRecentRemoteKey[c]
    <3>1. mostRecentRemoteKey[c] \in Int
      BY DEF DraftInv, TypeOK, Keys, EmptyKey
    <3> QED
      BY <3>1
  <2>7. PICK m \in Nat : m = listenFrom[c]
    <3>1. listenFrom[c] \in Nat
      BY DEF DraftInv, TypeOK, Keys
    <3> QED
      BY <3>1
  <2>8. /\ \A i \in 1..n : Stored(q[i], m - n + i - 1)
        /\ m - n > r
        /\ \A j \in Nat : r < j /\ j < m => j \in DOMAIN changes
    BY <2>1, <2>2, <2>3, <2>6, <2>7 DEF DraftInv, PendingIsList, PendingOK
  <2>9. PICK s \in Int : s = mostRecentRemoteKey'[c] /\ (s = m - n \/ (Outdated(c) /\ s = r))
    <3>1. mostRecentRemoteKey'[c] \in {m - n, r}
      BY <2>2, <2>3, <2>6, <2>7
    <3> QED
      BY <2>2, <2>3, <2>6, <2>7, <3>1
  <2>10. ASSUME NEW i \in 1..(n - 1) PROVE Stored(t[i], m - (n - 1) + i - 1)
    <3>1. i + 1 \in 1..n /\ m - n + (i + 1) - 1 = m - (n - 1) + i - 1 /\ t[i] = q[i + 1]
      BY <2>3, <2>4
    <3>2. Stored(q[i + 1], m - n + (i + 1) - 1)
      BY <2>8, <3>1
    <3> QED
      BY <3>1, <3>2
  <2>11. \A i \in 1..(n - 1) : Stored(t[i], m - (n - 1) + i - 1)'
    BY <2>10 DEF Stored
  <2>12. m - (n - 1) > s /\ (~Outdated(c) => m - (n - 1) = s + 1)
    BY <2>3, <2>8, <2>9
  <2>13. \A j \in Nat : s < j /\ j < m => j \in DOMAIN changes'
    BY <2>3, <2>8, <2>9
  <2>14. listenFrom'[c] = m
    BY <2>7
  <2>15. Outdated(c)' <=> Outdated(c)
    BY DEF Outdated
  <2> QED
    BY <2>4, <2>5, <2>9, <2>11, <2>12, <2>13, <2>14, <2>15 DEF PendingOK
<1> QED
  BY <1>1, <1>2 DEF PendingIsList

\* A change that cannot be read is passed over.
LEMMA SkipStep ==
    ASSUME DraftInv, NEW c \in Clients, SkipKeyable(c)
    PROVE  DraftInv'
<1>1. TypeOK'
  BY TypeStep DEF DraftInv, Next
<1>2. UNCHANGED <<changes, phase, confirmed, unconfirmed, tx, listenFrom, processing,
                  checkpoints, writer>>
      /\ processing[c] /\ pending[c] # <<>>
      /\ pending' = [pending EXCEPT ![c] = Tail(@)]
  BY DEF SkipKeyable
<1>3. KeysContiguous' /\ BasedOnPredecessor' /\ ListChained'
      /\ Reached' = Reached /\ (\A a : Outdated(a)' <=> Outdated(a))
      /\ \A j : DocAt(j)' = DocAt(j)
  BY <1>2, SameList
<1>4. PICK K \in DOMAIN changes :
        /\ phase[c] = "live" /\ Stored(Head(pending[c]), K)
        /\ K = listenFrom[c] - Len(pending[c]) /\ K > mostRecentRemoteKey[c]
        /\ mostRecentRemoteKey[c] + 1 \in DOMAIN changes
  BY <1>2, HeadStored
<1>5. Head(pending[c]).key = K
  BY <1>4 DEF Stored
<1>6. Outdated(c)
  <2>1. Head(pending[c]).steps = changes[K].steps
    BY <1>4 DEF Stored
  <2>2. ~Readable(c, Head(pending[c]).steps)
    BY DEF SkipKeyable
  <2> QED
    BY <2>1, <2>2 DEF Outdated
<1>7. /\ mostRecentRemoteKey'[c] \in {mostRecentRemoteKey[c], K}
      /\ \A d \in Clients \ {c} : mostRecentRemoteKey'[d] = mostRecentRemoteKey[d]
  BY <1>5 DEF SkipKeyable, DraftInv, TypeOK
<1>8. K \in Nat /\ K \in Reached /\ mostRecentRemoteKey[c] \in Int
      /\ \A k \in DOMAIN changes : k \in Nat
  BY DEF DraftInv, TypeOK, Keys, Reached, EmptyKey
<1>9. mostRecentRemoteKey'[c] \in Int /\ mostRecentRemoteKey[c] <= mostRecentRemoteKey'[c]
  BY <1>4, <1>7, <1>8
<1>10. KeysReached'
  BY <1>2, <1>3, <1>7, <1>8 DEF DraftInv, KeysReached
<1>11. SessionInSync'
  BY <1>2, <1>3, <1>6, <1>7 DEF DraftInv, SessionInSync
<1>12. OwnIsNext'
  <2>1. ASSUME NEW k \in DOMAIN changes, changes[k].cId = c, k > mostRecentRemoteKey'[c]
        PROVE  /\ k = mostRecentRemoteKey'[c] + 1
               /\ Prefix(changes[k].steps, unconfirmed[c])
    <3>1. k > mostRecentRemoteKey[c]
      BY <1>8, <1>9, <2>1
    <3>2. k = mostRecentRemoteKey[c] + 1 /\ Prefix(changes[k].steps, unconfirmed[c])
      BY <2>1, <3>1 DEF DraftInv, OwnIsNext
    <3>3. mostRecentRemoteKey'[c] = mostRecentRemoteKey[c]
      BY <1>8, <1>9, <2>1, <3>2
    <3> QED
      BY <3>2, <3>3
  <2> QED
    BY <1>2, <1>7, <2>1 DEF DraftInv, OwnIsNext
<1>13. TxSound'
  <2>1. \A d \in Clients \ {c} : TxOK(d)'
    BY <1>2, <1>7, TxSame
  <2>2. ASSUME mostRecentRemoteKey'[c] = mostRecentRemoteKey[c] PROVE TxOK(c)'
    BY <1>2, <2>2, TxSame
  <2>3. ASSUME mostRecentRemoteKey'[c] = K PROVE TxOK(c)'
    <3> SUFFICES ASSUME tx[c] # NoTx PROVE TxOK(c)'
      BY <1>2 DEF TxOK
    <3>1. PICK t \in Transaction : t = tx[c]
      BY DEF DraftInv, TypeOK
    <3>2. /\ t.key - 1 \in Reached /\ t.key - 1 <= mostRecentRemoteKey[c]
          /\ t.key \notin DOMAIN changes => t.key = mostRecentRemoteKey[c] + 1
          /\ t.status = "committed" =>
               /\ t.key \in DOMAIN changes /\ changes[t.key].steps = t.steps
               /\ changes[t.key].cId = c
      BY <3>1 DEF DraftInv, TxSound, TxOK
    <3>3. t.key \in DOMAIN changes
      BY <1>4, <3>2
    <3>4. t.key - 1 <= K
      BY <1>4, <1>8, <3>1, <3>2 DEF Transaction, Keys
    <3> QED
      BY <1>2, <1>3, <1>6, <2>3, <3>1, <3>2, <3>3, <3>4 DEF TxOK
  <2> QED
    BY <1>7, <2>1, <2>2, <2>3 DEF TxSound
<1>14. PendingIsList'
  BY <1>2, <1>4, <1>6, <1>7, PopStep
<1>15. QuietBeforeLoad'
  <2>1. \A d \in Clients \ {c} : pending'[d] = pending[d]
    BY <1>2 DEF DraftInv, TypeOK
  <2> QED
    BY <1>2, <1>4, <2>1 DEF DraftInv, QuietBeforeLoad, Running
<1>16. CheckpointsFaithful'
  BY <1>2, <1>3 DEF DraftInv, CheckpointsFaithful
<1> QED
  BY <1>1, <1>3, <1>10, <1>11, <1>12, <1>13, <1>14, <1>15, <1>16 DEF DraftInv

\* Own changes are confirmed by count: the count is right, and so are the steps.
LEMMA OwnSteps ==
    ASSUME NEW u \in Docs, NEW v \in Docs, Prefix(v, u)
    PROVE  LET n == IF Len(v) < Len(u) THEN Len(v) ELSE Len(u)
           IN  SubSeq(u, 1, n) = v
<1>1. Len(u) \in Nat /\ Len(v) \in Nat
  BY LenProperties DEF Docs
<1> QED
  BY <1>1 DEF Prefix

\* A session applies a change.
LEMMA ProcessStep ==
    ASSUME DraftInv, NEW c \in Clients, ProcessKeyable(c)
    PROVE  DraftInv'
<1>1. TypeOK'
  BY TypeStep DEF DraftInv, Next
<1>2. UNCHANGED <<changes, phase, listenFrom, processing, checkpoints, writer>>
      /\ processing[c] /\ pending[c] # <<>>
      /\ pending' = [pending EXCEPT ![c] = Tail(@)]
  BY DEF ProcessKeyable
<1>3. KeysContiguous' /\ BasedOnPredecessor' /\ ListChained'
      /\ Reached' = Reached /\ (\A a : Outdated(a)' <=> Outdated(a))
      /\ \A j : DocAt(j)' = DocAt(j)
  BY <1>2, SameList
<1>4. PICK K \in DOMAIN changes :
        /\ phase[c] = "live" /\ Stored(Head(pending[c]), K)
        /\ K = listenFrom[c] - Len(pending[c]) /\ K > mostRecentRemoteKey[c]
        /\ ~Outdated(c) => K = mostRecentRemoteKey[c] + 1
        /\ mostRecentRemoteKey[c] + 1 \in DOMAIN changes
  BY <1>2, HeadStored
<1>5. PICK e : e = Head(pending[c])
  OBVIOUS
<1>6. e.key = K /\ e.cId = changes[K].cId /\ e.steps = changes[K].steps
  BY <1>4, <1>5 DEF Stored
<1>7. /\ mostRecentRemoteKey' = [mostRecentRemoteKey EXCEPT ![c] = K]
      /\ ConfirmOwn(c, e) \/ ApplyForeign(c, e)
  BY <1>5, <1>6 DEF ProcessKeyable, AppliedKey
<1>8. /\ mostRecentRemoteKey'[c] = K
      /\ \A d \in Clients \ {c} : mostRecentRemoteKey'[d] = mostRecentRemoteKey[d]
  BY <1>7 DEF DraftInv, TypeOK
<1>9. K \in Nat /\ K \in Reached /\ changes[K].steps \in Docs /\ unconfirmed[c] \in Docs
  BY DEF DraftInv, TypeOK, Keys, Reached, Change
<1>10. mostRecentRemoteKey[c] \in Int /\ mostRecentRemoteKey[c] + 1 <= K
  <2>1. mostRecentRemoteKey[c] \in Int
    BY DEF DraftInv, TypeOK, Keys, EmptyKey
  <2> QED
    BY <1>4, <1>9, <2>1
<1>11. KeysReached'
  BY <1>2, <1>3, <1>8, <1>9 DEF DraftInv, KeysReached
<1>12. PendingIsList'
  BY <1>2, <1>4, <1>8, PopStep
<1>13. \A d \in Clients \ {c} :
         confirmed'[d] = confirmed[d] /\ unconfirmed'[d] = unconfirmed[d] /\ tx'[d] = tx[d]
  <2>1. CASE ConfirmOwn(c, e)
    BY <2>1 DEF ConfirmOwn, DraftInv, TypeOK
  <2>2. CASE ApplyForeign(c, e)
    BY <2>2 DEF ApplyForeign, SendCollabChanges, DraftInv, TypeOK
  <2> QED
    BY <1>7, <2>1, <2>2
<1>14. ~Outdated(c) => confirmed'[c] = DocAt(K)
  <2> SUFFICES ASSUME ~Outdated(c) PROVE confirmed'[c] = DocAt(K)
    OBVIOUS
  <2>1. confirmed[c] = DocAt(K - 1)
    BY <1>4, <1>10 DEF DraftInv, SessionInSync
  <2>2. DocAt(K) = DocAt(K - 1) \o changes[K].steps
    <3>1. DocAt(K) = changes[K].doc
      BY <1>9 DEF DocAt, EmptyKey
    <3> QED
      BY <3>1 DEF DraftInv, ListChained
  <2>3. CASE ConfirmOwn(c, e)
    <3>1. changes[K].cId = c /\ K > mostRecentRemoteKey[c]
      BY <1>4, <1>6, <2>3 DEF ConfirmOwn, IsOwn
    <3>2. Prefix(changes[K].steps, unconfirmed[c])
      BY <3>1 DEF DraftInv, OwnIsNext
    <3>3. confirmed'[c] = confirmed[c] \o SubSeq(unconfirmed[c], 1, OwnConfirmed(c, e))
      BY <2>3 DEF ConfirmOwn, DraftInv, TypeOK
    <3>4. SubSeq(unconfirmed[c], 1, OwnConfirmed(c, e)) = changes[K].steps
      BY <1>6, <1>9, <3>2, OwnSteps DEF OwnConfirmed
    <3> QED
      BY <2>1, <2>2, <3>3, <3>4
  <2>4. CASE ApplyForeign(c, e)
    <3>1. confirmed'[c] = confirmed[c] \o changes[K].steps
      BY <1>6, <2>4 DEF ApplyForeign, DraftInv, TypeOK
    <3> QED
      BY <2>1, <2>2, <3>1
  <2> QED
    BY <1>7, <2>3, <2>4
<1>15. SessionInSync'
  <2>1. \A d \in Clients \ {c} : ~Outdated(d) =>
          confirmed'[d] = DocAt(mostRecentRemoteKey'[d])
    BY <1>8, <1>13 DEF DraftInv, SessionInSync
  <2>2. \A d \in Clients : ~Outdated(d) => confirmed'[d] = DocAt(mostRecentRemoteKey'[d])
    BY <1>8, <1>14, <2>1
  <2> QED
    BY <1>2, <1>3, <2>2 DEF SessionInSync
<1>16. OwnIsNext'
  <2>1. \A k \in DOMAIN changes : changes[k].cId = c /\ k > K => FALSE
    <3> SUFFICES ASSUME NEW k \in DOMAIN changes, changes[k].cId = c, k > K PROVE FALSE
      OBVIOUS
    <3>1. k \in Nat
      BY DEF DraftInv, TypeOK, Keys
    <3>2. k > mostRecentRemoteKey[c]
      BY <1>9, <1>10, <3>1
    <3>3. k = mostRecentRemoteKey[c] + 1
      BY <3>2 DEF DraftInv, OwnIsNext
    <3> QED
      BY <1>9, <1>10, <3>1, <3>3
  <2> QED
    BY <1>2, <1>8, <1>13, <2>1 DEF DraftInv, OwnIsNext
<1>17. ASSUME tx'[c] = tx[c] PROVE TxOK(c)'
  <2> SUFFICES ASSUME tx[c] # NoTx PROVE TxOK(c)'
    BY <1>17 DEF TxOK
  <2>1. PICK t \in Transaction : t = tx[c]
    BY DEF DraftInv, TypeOK
  <2>2. /\ t.key - 1 \in Reached /\ t.key - 1 <= mostRecentRemoteKey[c]
        /\ ~Outdated(c) => t.base = DocAt(t.key - 1)
        /\ t.key \notin DOMAIN changes => t.key = mostRecentRemoteKey[c] + 1
        /\ t.status = "committed" =>
             /\ t.key \in DOMAIN changes /\ changes[t.key].steps = t.steps
             /\ changes[t.key].cId = c
    BY <2>1 DEF DraftInv, TxSound, TxOK
  <2>3. t.key \in DOMAIN changes
    BY <1>4, <2>2
  <2>4. t.key - 1 <= K
    BY <1>9, <1>10, <2>1, <2>2 DEF Transaction, Keys
  <2> QED
    BY <1>2, <1>8, <1>17, <2>1, <2>2, <2>3, <2>4 DEF TxOK, Reached, DocAt, Outdated
<1>18. ASSUME tx'[c] # tx[c] PROVE TxOK(c)'
  <2>1. ApplyForeign(c, e)
    BY <1>7, <1>18 DEF ConfirmOwn
  <2>2. PICK rebased \in Rebased(unconfirmed[c]) :
          /\ unconfirmed' = [unconfirmed EXCEPT ![c] = rebased]
          /\ SendCollabChanges(c, K, confirmed[c] \o e.steps, rebased)
    BY <1>6, <2>1 DEF ApplyForeign, AppliedKey
  <2>3. unconfirmed'[c] = rebased /\ rebased \in Docs
    BY <1>9, <2>2, RebasedType DEF DraftInv, TypeOK
  <2>4. confirmed'[c] = confirmed[c] \o e.steps
    BY <2>1 DEF ApplyForeign, DraftInv, TypeOK
  <2>5. /\ tx'[c].key - 1 = K /\ tx'[c].key = K + 1 /\ tx'[c].steps = rebased
        /\ tx'[c].base = confirmed'[c] /\ tx'[c].status = "sent"
    <3>1. tx'[c].key - 1 = K /\ tx'[c].key = K + 1 /\ tx'[c].steps = rebased
      BY <1>9, <1>18, <2>2, SendStep
    <3>2. tx'[c].base = confirmed[c] \o e.steps /\ tx'[c].status = "sent"
      BY <1>9, <1>18, <2>2, SendStep
    <3> QED
      BY <2>4, <3>1, <3>2
  <2> QED
    BY <1>2, <1>8, <1>9, <1>14, <2>3, <2>5, TxSent
<1>19. TxSound'
  <2>1. \A d \in Clients \ {c} : TxOK(d)'
    BY <1>2, <1>8, <1>13, TxSame
  <2> QED
    BY <1>17, <1>18, <2>1 DEF TxSound
<1>20. QuietBeforeLoad'
  <2>1. \A d \in Clients \ {c} : pending'[d] = pending[d]
    BY <1>2 DEF DraftInv, TypeOK
  <2> QED
    BY <1>2, <1>4, <1>13, <2>1 DEF DraftInv, QuietBeforeLoad, Running
<1>21. CheckpointsFaithful'
  BY <1>2, <1>3 DEF DraftInv, CheckpointsFaithful
<1> QED
  BY <1>1, <1>3, <1>11, <1>12, <1>15, <1>16, <1>19, <1>20, <1>21 DEF DraftInv
----------------------------------------------------------------------------
(* The theorems. *)

LEMMA DraftInvInit == Init => DraftInv
<1> SUFFICES ASSUME Init PROVE DraftInv
  OBVIOUS
<1>1. DOMAIN changes = {}
  BY DEF Init
<1>2. <<>> \in Docs /\ <<>> \in Seq(Keyable) /\ Len(<<>>) = 0
  BY EmptySeq DEF Docs
<1>3. TypeOK
  BY <1>1, <1>2 DEF Init, TypeOK, Keys, EmptyKey
<1>4. KeysContiguous /\ BasedOnPredecessor /\ ListChained /\ OwnIsNext
  BY <1>1 DEF KeysContiguous, BasedOnPredecessor, ListChained, OwnIsNext
<1>5. SessionInSync /\ KeysReached /\ QuietBeforeLoad /\ PendingIsList /\ TxSound
  BY DEF Init, SessionInSync, KeysReached, QuietBeforeLoad, PendingIsList, PendingOK,
         TxSound, TxOK, Reached, DocAt, Running
<1>6. CheckpointsFaithful
  BY DEF Init, CheckpointsFaithful
<1> QED
  BY <1>3, <1>4, <1>5, <1>6 DEF DraftInv

LEMMA DraftInvStep == DraftInv /\ [Next]_vars => DraftInv'
<1> SUFFICES ASSUME DraftInv, [Next]_vars PROVE DraftInv'
  OBVIOUS
<1>1. CASE UNCHANGED vars
  <2>1. /\ UNCHANGED <<changes, phase, mostRecentRemoteKey, confirmed, unconfirmed>>
        /\ UNCHANGED <<ongoingTransaction, tx, pending, listenFrom, processing>>
        /\ UNCHANGED <<checkpoints, writer, typed>>
    BY <1>1 DEF vars
  <2>2. TypeOK'
    BY <2>1 DEF DraftInv, TypeOK
  <2>3. /\ KeysContiguous' /\ BasedOnPredecessor' /\ SessionInSync' /\ ListChained'
        /\ KeysReached' /\ QuietBeforeLoad'
    BY <2>1 DEF Outdated, DraftInv, KeysContiguous, BasedOnPredecessor, SessionInSync, ListChained,
       KeysReached, QuietBeforeLoad, Reached, DocAt, Running
  <2>4. PendingIsList' /\ OwnIsNext'
    BY <2>1 DEF DraftInv, PendingIsList, PendingOK, Stored, Outdated, OwnIsNext
  <2>5. TxSound'
    BY <2>1 DEF DraftInv, TxSound, TxOK, Reached, DocAt, Outdated
  <2>6. CheckpointsFaithful'
    BY <2>1 DEF DraftInv, CheckpointsFaithful, DocAt, Outdated
  <2> QED
    BY <2>2, <2>3, <2>4, <2>5, <2>6 DEF DraftInv
<1>2. ASSUME NEW c \in Clients,
             OpenPage(c) \/ LoadDocument(c) \/ Edit(c)
             \/ TxReachesFirebase(c) \/ TxAnswerLost(c) \/ TxResolves(c) \/ TxRejects(c)
             \/ ReceiveCollabChanges(c)
             \/ ProcessKeyable(c) \/ SkipKeyable(c) \/ FinishProcessing(c)
             \/ Destroy(c) \/ Exit(c)
      PROVE  DraftInv'
  BY <1>2, LoadStep, EditStep, CommitStep, AnswerStep, ReceiveStep, ProcessStep, SkipStep,
     FinishStep, LeaveStep
<1>3. ASSUME NEW w \in Writers, FetchDoc(w) \/ WriteChange(w) PROVE DraftInv'
  BY <1>3, FetchStep, WriteStep
<1> QED
  BY <1>1, <1>2, <1>3 DEF Next

\* Every reachable state satisfies the inductive invariant.
THEOREM DraftInvariant == Spec => []DraftInv
<1> QED
  BY DraftInvInit, DraftInvStep, PTL DEF Spec

\* Every variable keeps its type, in every interleaving of any number of
\* sessions and server requests.
THEOREM TypeCorrect == Spec => []TypeOK
<1>1. DraftInv => TypeOK
  BY DEF DraftInv
<1> QED
  BY <1>1, DraftInvariant, PTL

\* The list of changes has no gap, although several sessions and requests choose
\* the next key from what they last read, and aborts and resends happen.
THEOREM ListHasNoGap == Spec => []KeysContiguous
<1>1. DraftInv => KeysContiguous
  BY DEF DraftInv
<1> QED
  BY <1>1, DraftInvariant, PTL

\* Every change a current bundle writes was made on the document before it.
THEOREM ChangesApply == Spec => []BasedOnPredecessor
<1>1. DraftInv => BasedOnPredecessor
  BY DEF DraftInv
<1> QED
  BY <1>1, DraftInvariant, PTL

\* Every session that can read all steps holds, apart from its own unconfirmed
\* steps, the document of the list up to mostRecentRemoteKey.
THEOREM SessionsAgree == Spec => []SessionInSync
<1>1. DraftInv => SessionInSync
  BY DEF DraftInv
<1> QED
  BY <1>1, DraftInvariant, PTL

\* A checkpoint holds the document of its key, unless the session that stored it
\* had a change to pass over.
THEOREM CheckpointsHold == Spec => []CheckpointsFaithful
<1>1. DraftInv => CheckpointsFaithful
  BY DEF DraftInv
<1> QED
  BY <1>1, DraftInvariant, PTL

\* A change, once in the list, is never altered or removed.
THEOREM ListIsImmutable == Spec => ListImmutable
<1>1. ASSUME [Next]_vars
      PROVE  [\A k \in DOMAIN changes : k \in DOMAIN changes' /\ changes'[k] = changes[k]]_changes
  <2>1. CASE UNCHANGED changes
    BY <2>1
  <2>2. ASSUME NEW c \in Clients, TxReachesFirebase(c), changes' # changes
        PROVE  \A k \in DOMAIN changes : k \in DOMAIN changes' /\ changes'[k] = changes[k]
    BY <2>2 DEF TxReachesFirebase, KeyTaken, Put
  <2>3. ASSUME NEW w \in Writers, WriteChange(w), changes' # changes
        PROVE  \A k \in DOMAIN changes : k \in DOMAIN changes' /\ changes'[k] = changes[k]
    BY <2>3 DEF WriteChange, KeyTaken, Put
  <2>4. changes' = changes \/ (\E c \in Clients : TxReachesFirebase(c))
                           \/ (\E w \in Writers : WriteChange(w))
    BY <1>1 DEF Next, vars, OpenPage, LoadDocument, Edit, TxAnswerLost, TxResolves, TxRejects,
       ReceiveCollabChanges, ProcessKeyable, SkipKeyable, FinishProcessing, Destroy, Exit,
       FetchDoc
  <2> QED
    BY <2>1, <2>2, <2>3, <2>4
<1> QED
  BY <1>1, PTL DEF Spec, ListImmutable
----------------------------------------------------------------------------
(* No step is in the list twice, and every step of the protocol is a step of  *)
(* the log or leaves it as it is.                                             *)

Elements(seq) == {seq[i] : i \in DOMAIN seq}

\* The steps of a document are in the list, up to a key.
InList(list, doc, key) ==
    \A s \in Elements(doc) : \E j \in DOMAIN list : j <= key /\ s \in Elements(list[j].steps)

\* Every step is in one change at most, and the documents repeat none.
ChangeOnce(k) ==
    /\ Distinct(changes[k].steps) /\ Elements(changes[k].steps) \subseteq typed
    /\ changes[k].cId \in Stale => Elements(changes[k].steps) \cap Unreadable = {}
    /\ Distinct(changes[k].doc) /\ InList(changes, changes[k].doc, k)

ListOnce ==
    /\ \A k \in DOMAIN changes : ChangeOnce(k)
    /\ \A j, k \in DOMAIN changes :
         j # k => Elements(changes[j].steps) \cap Elements(changes[k].steps) = {}

\* A session's own steps are in the list only where the session has yet to see them.
LocalOnce(c) ==
    /\ Distinct(unconfirmed[c]) /\ Elements(unconfirmed[c]) \subseteq typed
    /\ c \in Stale => Elements(unconfirmed[c]) \cap Unreadable = {}
    /\ \A k \in DOMAIN changes : Elements(unconfirmed[c]) \cap Elements(changes[k].steps) # {} =>
         changes[k].cId = c /\ k > mostRecentRemoteKey[c]

ConfirmedOnce(c) ==
    Distinct(confirmed[c]) /\ InList(changes, confirmed[c], mostRecentRemoteKey[c])

\* A session does not pass over a change of its own.
OwnNotSkipped(c) ==
    phase[c] = "live" =>
        \A k \in DOMAIN changes : changes[k].cId = c /\ k > mostRecentRemoteKey[c] =>
            k >= listenFrom[c] - Len(pending[c])

SessionsOnce ==
    /\ \A c \in Clients : LocalOnce(c)
    /\ \A c \in Clients : ConfirmedOnce(c)
    /\ \A c \in Clients : OwnNotSkipped(c)
    /\ \A c \in Clients : tx[c] # NoTx => tx[c].steps # <<>>
    /\ \A c \in Clients :
         phase[c] \in {"out", "opened", "loadFailed"} => unconfirmed[c] = <<>>
    /\ \A c, d \in Clients :
         c # d => Elements(unconfirmed[c]) \cap Elements(unconfirmed[d]) = {}

\* The keys of the list are those below its length.
ListFinite == \E n \in Nat : DOMAIN changes = 0..n - 1

\* The inductive invariant, beside DraftInv.
OnceInv == ListOnce /\ SessionsOnce /\ ListFinite
----------------------------------------------------------------------------
(* Sequences of steps. *)

LEMMA ElementsType ==
    ASSUME NEW u \in Docs
    PROVE  /\ Len(u) \in Nat /\ DOMAIN u = 1..Len(u)
           /\ \A i \in 1..Len(u) : u[i] \in Steps
           /\ Elements(u) \subseteq Steps
           /\ Elements(u) = {u[i] : i \in 1..Len(u)}
BY DEF Docs, Elements

LEMMA ElementsAppend ==
    ASSUME NEW u \in Docs, NEW s \in Steps
    PROVE  /\ Elements(Append(u, s)) = Elements(u) \cup {s}
           /\ Distinct(u) /\ s \notin Elements(u) => Distinct(Append(u, s))
<1>1. /\ u \in Seq(Steps) /\ Len(u) \in Nat /\ DOMAIN u = 1..Len(u)
      /\ DOMAIN Append(u, s) = 1..Len(u) + 1
      /\ Append(u, s)[Len(u) + 1] = s
      /\ \A i \in 1..Len(u) : Append(u, s)[i] = u[i]
  BY DEF Docs
<1>2. PICK v : v = Append(u, s)
  OBVIOUS
<1>3. \A i \in 1..Len(u) + 1 : i \in 1..Len(u) \/ i = Len(u) + 1
  BY <1>1
<1>4. \A i \in 1..Len(u) : i \in 1..Len(u) + 1
  BY <1>1
<1>5. Len(u) + 1 \in 1..Len(u) + 1
  BY <1>1
<1>6. Elements(v) = Elements(u) \cup {s}
  BY <1>1, <1>2, <1>3, <1>4, <1>5 DEF Elements
<1>7. ASSUME Distinct(u), s \notin Elements(u) PROVE Distinct(v)
  BY <1>1, <1>2, <1>3, <1>7 DEF Distinct, Elements
<1> QED
  BY <1>2, <1>6, <1>7

LEMMA ElementsConcat ==
    ASSUME NEW u \in Docs, NEW v \in Docs
    PROVE  /\ Elements(u \o v) = Elements(u) \cup Elements(v)
           /\ Distinct(u) /\ Distinct(v) /\ Elements(u) \cap Elements(v) = {}
                => Distinct(u \o v)
<1> DEFINE m == Len(u)
           n == Len(v)
<1>1. /\ u \in Seq(Steps) /\ v \in Seq(Steps) /\ m \in Nat /\ n \in Nat
      /\ DOMAIN u = 1..m /\ DOMAIN v = 1..n
  BY DEF Docs
<1>2. PICK w : w = u \o v
  OBVIOUS
<1>3. /\ DOMAIN w = 1..m + n
      /\ \A i \in 1..m : w[i] = u[i]
      /\ \A i \in 1..m + n : i > m => w[i] = v[i - m]
  BY <1>1, <1>2
<1>4. /\ \A i \in 1..m + n : i \in 1..m \/ (i > m /\ i - m \in 1..n)
      /\ \A i \in 1..m : i \in 1..m + n
      /\ \A i \in 1..n : i + m \in 1..m + n /\ i + m > m /\ (i + m) - m = i
  BY <1>1
<1> HIDE DEF m, n
<1>5. Elements(w) = Elements(u) \cup Elements(v)
  <2>1. ASSUME NEW i \in 1..m + n PROVE w[i] \in Elements(u) \cup Elements(v)
    BY <1>1, <1>3, <1>4 DEF Elements
  <2>2. ASSUME NEW i \in 1..m PROVE u[i] \in Elements(w)
    BY <1>3, <1>4 DEF Elements
  <2>3. ASSUME NEW i \in 1..n PROVE v[i] \in Elements(w)
    <3>1. w[i + m] = v[i] /\ i + m \in DOMAIN w
      BY <1>3, <1>4
    <3> QED
      BY <3>1 DEF Elements
  <2>4. Elements(w) \subseteq Elements(u) \cup Elements(v)
    BY <1>3, <2>1 DEF Elements
  <2>5. Elements(u) \subseteq Elements(w)
    BY <1>1, <2>2 DEF Elements
  <2>6. Elements(v) \subseteq Elements(w)
    BY <1>1, <2>3 DEF Elements
  <2> QED
    BY <2>4, <2>5, <2>6
<1>6. ASSUME Distinct(u), Distinct(v), Elements(u) \cap Elements(v) = {} PROVE Distinct(w)
  <2> SUFFICES ASSUME NEW i \in 1..m + n, NEW j \in 1..m + n, i # j PROVE w[i] # w[j]
    BY <1>3 DEF Distinct
  <2>1. CASE i \in 1..m /\ j \in 1..m
    BY <1>1, <1>3, <1>6, <2>1 DEF Distinct
  <2>2. CASE i > m /\ j > m
    <3>1. PICK a \in 1..n, b \in 1..n : a = i - m /\ b = j - m /\ a # b
      BY <1>1, <1>4, <2>2
    <3>2. w[i] = v[a] /\ w[j] = v[b]
      BY <1>3, <2>2, <3>1
    <3> QED
      BY <1>1, <1>6, <3>1, <3>2 DEF Distinct
  <2>3. CASE i \in 1..m /\ j > m
    <3>1. PICK a \in 1..n : w[j] = v[a]
      BY <1>1, <1>3, <1>4, <2>3
    <3>2. w[i] \in Elements(u) /\ w[j] \in Elements(v)
      BY <1>1, <1>3, <2>3, <3>1 DEF Elements
    <3> QED
      BY <1>6, <3>2
  <2>4. CASE i > m /\ j \in 1..m
    <3>1. PICK a \in 1..n : w[i] = v[a]
      BY <1>1, <1>3, <1>4, <2>4
    <3>2. w[j] \in Elements(u) /\ w[i] \in Elements(v)
      BY <1>1, <1>3, <2>4, <3>1 DEF Elements
    <3> QED
      BY <1>6, <3>2
  <2> QED
    BY <1>4, <2>1, <2>2, <2>3, <2>4
<1> QED
  BY <1>2, <1>5, <1>6

LEMMA ElementsPrefix ==
    ASSUME NEW u \in Docs, NEW v \in Docs, Prefix(v, u)
    PROVE  /\ Elements(v) \subseteq Elements(u)
           /\ Distinct(u) => Distinct(v)
<1>1. /\ Len(u) \in Nat /\ Len(v) \in Nat /\ Len(v) <= Len(u)
      /\ DOMAIN u = 1..Len(u) /\ DOMAIN v = 1..Len(v)
      /\ v = SubSeq(u, 1, Len(v)) /\ u \in Seq(Steps)
  BY DEF Prefix, Docs
<1>2. \A i \in 1..Len(v) : v[i] = u[i] /\ i \in 1..Len(u)
  BY <1>1
<1> QED
  BY <1>1, <1>2 DEF Elements, Distinct

\* What is left of the local steps when the first of them are confirmed.
Rest(u, v) == SubSeq(u, Len(v) + 1, Len(u))

LEMMA ElementsRest ==
    ASSUME NEW u \in Docs, NEW v \in Docs, Prefix(v, u)
    PROVE  /\ Rest(u, v) \in Docs /\ Elements(Rest(u, v)) \subseteq Elements(u)
           /\ Distinct(u) =>
                Distinct(Rest(u, v)) /\ Elements(Rest(u, v)) \cap Elements(v) = {}
<1>0. Rest(u, v) \in Docs
  BY DEF Rest, Prefix, Docs
<1>1. /\ Len(u) \in Nat /\ Len(v) \in Nat /\ Len(v) <= Len(u)
      /\ DOMAIN u = 1..Len(u) /\ DOMAIN v = 1..Len(v)
      /\ v = SubSeq(u, 1, Len(v)) /\ u \in Seq(Steps)
  BY DEF Prefix, Docs
<1>2. \A i \in 1..Len(v) : v[i] = u[i] /\ i \in 1..Len(u)
  BY <1>1
<1>3. PICK n \in Nat, m \in Nat : n = Len(v) /\ m = Len(u) /\ n <= m
  BY <1>1
<1>4. PICK r \in Docs : r = Rest(u, v) /\ r = SubSeq(u, n + 1, m)
  BY <1>0, <1>3 DEF Rest
<1>5. \A i \in 1..m : u[i] \in Steps
  BY <1>1, <1>3
<1>6. /\ Len(SubSeq(u, n + 1, m)) = m - n
      /\ \A i \in 1..m - n : SubSeq(u, n + 1, m)[i] = u[n + i]
  <2>1. n + 1 \in Int /\ m \in Int /\ \A i \in n + 1..m : u[i] \in Steps
    BY <1>5
  <2>2. /\ Len(SubSeq(u, n + 1, m)) = IF n + 1 <= m THEN m - (n + 1) + 1 ELSE 0
        /\ \A i \in 1..m - (n + 1) + 1 : SubSeq(u, n + 1, m)[i] = u[(n + 1) + i - 1]
    BY ONLY <2>1, SubSeqProperties
  <2> QED
    BY <1>3, <2>2
<1>7. /\ DOMAIN r = 1..m - n
      /\ \A i \in 1..m - n : r[i] = u[n + i] /\ n + i \in 1..m
  <2>1. DOMAIN r = 1..Len(r) /\ Len(r) \in Nat
    BY DEF Docs
  <2> QED
    BY <1>3, <1>4, <1>6, <2>1
<1>8. Elements(r) \subseteq Elements(u)
  BY <1>1, <1>3, <1>7 DEF Elements
<1>9. ASSUME Distinct(u)
      PROVE  Distinct(r) /\ Elements(r) \cap Elements(v) = {}
  <2>1. ASSUME NEW i \in 1..m - n, NEW j \in 1..m - n, i # j PROVE r[i] # r[j]
    <3>1. PICK a \in 1..m, b \in 1..m : a = n + i /\ b = n + j /\ a # b
      BY <1>7, <2>1
    <3>2. r[i] = u[a] /\ r[j] = u[b]
      BY <1>7, <3>1
    <3> QED
      BY <1>1, <1>3, <1>9, <3>1, <3>2 DEF Distinct
  <2>2. ASSUME NEW i \in 1..m - n, NEW j \in 1..n PROVE r[i] # v[j]
    <3>1. PICK a \in 1..m, b \in 1..m : a = n + i /\ b = j /\ a # b
      BY <1>3, <1>7
    <3>2. r[i] = u[a] /\ v[j] = u[b]
      BY <1>2, <1>3, <1>7, <3>1
    <3> QED
      BY <1>1, <1>3, <1>9, <3>1, <3>2 DEF Distinct
  <2>3. Distinct(r)
    BY <1>7, <2>1 DEF Distinct
  <2>4. Elements(r) \cap Elements(v) = {}
    <3>1. Elements(r) = {r[i] : i \in 1..m - n} /\ Elements(v) = {v[j] : j \in 1..n}
      BY <1>1, <1>3, <1>7 DEF Elements
    <3> QED
      BY <2>2, <3>1
  <2> QED
    BY <2>3, <2>4
<1> QED
  BY <1>0, <1>4, <1>8, <1>9

LEMMA ElementsRebased ==
    ASSUME NEW u \in Docs, NEW r \in Rebased(u)
    PROVE  /\ r \in Docs /\ Elements(r) \subseteq Elements(u)
           /\ Distinct(u) => Distinct(r)
<1>1. Len(u) \in Nat /\ DOMAIN u = 1..Len(u)
  BY DEF Docs
<1> DEFINE picks(n) == { p \in [1..n -> 1..Len(u)] : \A i, j \in 1..n : i < j => p[i] < p[j] }
<1>0. PICK n \in 0..Len(u) : r \in { [i \in 1..n |-> u[pick[i]]] : pick \in picks(n) }
  BY Zenon DEF Rebased
<1>2. PICK pick \in picks(n) : r = [i \in 1..n |-> u[pick[i]]]
  BY <1>0
<1>3. DOMAIN r = 1..n /\ \A i \in 1..n : r[i] = u[pick[i]] /\ pick[i] \in 1..Len(u)
  BY <1>0, <1>2
<1>4. \A i, j \in 1..n : i # j => pick[i] # pick[j]
  BY <1>0, <1>1, <1>2
<1>5. r \in Docs
  BY RebasedType
<1>6. Elements(r) \subseteq Elements(u)
  BY <1>1, <1>3 DEF Elements
<1>7. Distinct(u) => Distinct(r)
  BY <1>1, <1>3, <1>4 DEF Distinct
<1> QED
  BY <1>5, <1>6, <1>7

\* A finite set of steps bounds the length of a sequence without repetition.
LEMMA DistinctLength ==
    ASSUME IsFiniteSet(Steps), NEW u \in Docs, Distinct(u)
    PROVE  Len(u) <= Cardinality(Steps)
<1>1. Len(u) \in Nat /\ DOMAIN u = 1..Len(u) /\ u \in [1..Len(u) -> Steps]
  BY DEF Docs
<1>2. u \in Injection(1..Len(u), Steps)
  BY <1>1 DEF Distinct, Injection, IsInjective
<1>3. Cardinality(1..Len(u)) = Len(u)
  BY <1>1, FS_Interval
<1> QED
  BY <1>2, <1>3, FS_Injection
----------------------------------------------------------------------------
(* The invariant is inductive: the list. *)

\* What is in the list stays there.
LEMMA InListKept ==
    ASSUME NEW K, NEW doc, NEW key, InList(changes, doc, key),
           K = DOMAIN changes, K \subseteq DOMAIN changes',
           \A j \in K : changes'[j] = changes[j]
    PROVE  InList(changes', doc, key)
BY DEF InList

\* ... and is in any longer part of it.
LEMMA InListLonger ==
    ASSUME TypeOK, NEW doc, NEW key \in Int, NEW later \in Int, key <= later,
           InList(changes, doc, key)
    PROVE  InList(changes, doc, later)
<1>1. \A j \in DOMAIN changes : j \in Int
  BY DEF TypeOK, Keys
<1>2. \A j \in DOMAIN changes : j <= key => j <= later
  BY <1>1
<1> QED
  BY <1>2 DEF InList

LEMMA NothingElements == Elements(<<>>) = {} /\ Distinct(<<>>) /\ <<>> \in Docs
BY DEF Elements, Distinct, Docs

\* The document of a key repeats no step, and has them from the list up to the key.
LEMMA DocOnce ==
    ASSUME TypeOK, ListOnce, NEW k \in Reached
    PROVE  DocAt(k) \in Docs /\ Distinct(DocAt(k)) /\ InList(changes, DocAt(k), k)
<1>1. DocAt(k) \in Docs
  BY DocAtType
<1>2. CASE k = EmptyKey
  BY <1>1, <1>2, NothingElements DEF DocAt, InList
<1>3. CASE k # EmptyKey
  BY <1>1, <1>3 DEF DocAt, Reached, ListOnce, ChangeOnce
<1> QED
  BY <1>2, <1>3

\* A change goes to the end of the list.
LEMMA NextIsLast ==
    ASSUME TypeOK, ListFinite, NEW k \in Keys, k \notin DOMAIN changes, k - 1 \in Reached
    PROVE  DOMAIN changes = 0..k - 1
<1>1. PICK n \in Nat : DOMAIN changes = 0..n - 1
  BY DEF ListFinite
<1>2. k \in Nat
  BY DEF Keys
<1>3. k = n
  BY <1>1, <1>2 DEF Reached, EmptyKey
<1> QED
  BY <1>1, <1>3

LEMMA GrowStep ==
    ASSUME TypeOK, ListOnce, ListFinite,
           NEW k \in Keys, k \notin DOMAIN changes, k - 1 \in Reached,
           NEW a \in Clients \cup Writers, NEW steps \in Docs, NEW base \in Docs,
           Put(k, a, steps, base), typed \subseteq typed',
           Distinct(steps), Elements(steps) \subseteq typed',
           a \in Stale => Elements(steps) \cap Unreadable = {},
           \A j \in DOMAIN changes : Elements(changes[j].steps) \cap Elements(steps) = {}
    PROVE  /\ ListOnce' /\ ListFinite'
           /\ \A doc, key : InList(changes, doc, key) => InList(changes', doc, key)
<1>1. /\ DOMAIN changes' = DOMAIN changes \cup {k}
      /\ \A j \in DOMAIN changes : changes'[j] = changes[j]
      /\ changes'[k].cId = a /\ changes'[k].steps = steps
      /\ changes'[k].doc = DocAt(k - 1) \o steps
  BY PutKeeps
<1>2. k \in Nat /\ \A j \in DOMAIN changes : j \in Nat
  BY DEF TypeOK, Keys
<1>3. ListFinite'
  <2>1. DOMAIN changes = 0..k - 1
    BY NextIsLast
  <2>2. DOMAIN changes' = 0..(k + 1) - 1 /\ k + 1 \in Nat
    BY <1>1, <1>2, <2>1
  <2> QED
    BY <2>2 DEF ListFinite
<1>4. \A doc, key : InList(changes, doc, key) => InList(changes', doc, key)
  BY <1>1 DEF InList
<1>5. /\ DocAt(k - 1) \in Docs /\ Distinct(DocAt(k - 1))
      /\ InList(changes, DocAt(k - 1), k - 1)
  BY DocOnce
<1>6. PICK before \in Docs : before = DocAt(k - 1)
  BY <1>5
<1>7. PICK after : after = before \o steps
  OBVIOUS
<1>8. Elements(before) \cap Elements(steps) = {}
  BY <1>5, <1>6 DEF InList
<1>9. Distinct(after) /\ Elements(after) = Elements(before) \cup Elements(steps)
  BY <1>5, <1>6, <1>7, <1>8, ElementsConcat
<1>10. InList(changes', after, k)
  <2>1. \A s \in Elements(before) :
          \E j \in DOMAIN changes' : j <= k /\ s \in Elements(changes'[j].steps)
    <3>1. \A j \in DOMAIN changes : j <= k - 1 => j <= k
      BY <1>2
    <3> QED
      BY <1>1, <1>5, <1>6, <3>1 DEF InList
  <2>2. \A s \in Elements(steps) :
          \E j \in DOMAIN changes' : j <= k /\ s \in Elements(changes'[j].steps)
    <3>1. k \in DOMAIN changes' /\ k <= k
      BY <1>1, <1>2
    <3> QED
      BY <1>1, <3>1
  <2> QED
    BY <1>9, <2>1, <2>2 DEF InList
<1>11. ASSUME NEW j \in DOMAIN changes PROVE ChangeOnce(j)'
  BY <1>1, <1>4 DEF ListOnce, ChangeOnce
<1>12. ChangeOnce(k)'
  BY <1>1, <1>6, <1>7, <1>9, <1>10 DEF ChangeOnce
<1>13. \A i, j \in DOMAIN changes' :
         i # j => Elements(changes'[i].steps) \cap Elements(changes'[j].steps) = {}
  BY <1>1 DEF ListOnce
<1> QED
  BY <1>1, <1>3, <1>4, <1>11, <1>12, <1>13 DEF ListOnce

----------------------------------------------------------------------------
(* The invariant is inductive: the sessions. *)

\* A session that stays as it was, while the list does.
LEMMA SameSession ==
    ASSUME OnceInv, NEW d \in Clients, UNCHANGED changes, typed \subseteq typed',
           unconfirmed'[d] = unconfirmed[d], confirmed'[d] = confirmed[d],
           mostRecentRemoteKey'[d] = mostRecentRemoteKey[d]
    PROVE  LocalOnce(d)' /\ ConfirmedOnce(d)'
BY DEF OnceInv, SessionsOnce, LocalOnce, ConfirmedOnce

\* A step of one session keeps the invariant, if it keeps its part of it and has no
\* step that another session had.
LEMMA SessionStep ==
    ASSUME OnceInv, NEW c \in Clients, UNCHANGED changes, typed \subseteq typed',
           \A d \in Clients \ {c} :
             /\ unconfirmed'[d] = unconfirmed[d] /\ confirmed'[d] = confirmed[d]
             /\ mostRecentRemoteKey'[d] = mostRecentRemoteKey[d]
             /\ phase'[d] = phase[d] /\ listenFrom'[d] = listenFrom[d]
             /\ pending'[d] = pending[d] /\ tx'[d] = tx[d],
           LocalOnce(c)', ConfirmedOnce(c)', OwnNotSkipped(c)',
           tx'[c] # NoTx => tx'[c].steps # <<>>,
           phase'[c] \in {"out", "opened", "loadFailed"} => unconfirmed'[c] = <<>>,
           Elements(unconfirmed'[c]) \cap typed \subseteq Elements(unconfirmed[c])
    PROVE  OnceInv'
<1>1. ListOnce' /\ ListFinite'
  BY DEF OnceInv, ListOnce, ChangeOnce, ListFinite
<1>2. \A d \in Clients : LocalOnce(d)' /\ ConfirmedOnce(d)'
  BY SameSession
<1>3. \A d \in Clients : OwnNotSkipped(d)'
  BY DEF OnceInv, SessionsOnce, OwnNotSkipped
<1>4. \A d \in Clients : tx'[d] # NoTx => tx'[d].steps # <<>>
  BY DEF OnceInv, SessionsOnce
<1>5. \A d \in Clients :
        phase'[d] \in {"out", "opened", "loadFailed"} => unconfirmed'[d] = <<>>
  BY DEF OnceInv, SessionsOnce
<1>6. \A d \in Clients : Elements(unconfirmed[d]) \subseteq typed
  BY DEF OnceInv, SessionsOnce, LocalOnce
<1>7. \A d, e \in Clients :
        d # e => Elements(unconfirmed'[d]) \cap Elements(unconfirmed'[e]) = {}
  <2> SUFFICES ASSUME NEW d \in Clients, NEW e \in Clients, d # e
               PROVE  Elements(unconfirmed'[d]) \cap Elements(unconfirmed'[e]) = {}
    OBVIOUS
  <2>1. Elements(unconfirmed[d]) \cap Elements(unconfirmed[e]) = {}
    BY DEF OnceInv, SessionsOnce
  <2> QED
    BY <1>6, <2>1
<1> QED
  BY <1>1, <1>2, <1>3, <1>4, <1>5, <1>7 DEF OnceInv, SessionsOnce
\* A page is opened, or its draft loaded, without local steps.
LEMMA LoadOnce ==
    ASSUME DraftInv, OnceInv, NEW c \in Clients, OpenPage(c) \/ LoadDocument(c)
    PROVE  OnceInv'
<1>1. /\ TypeOK /\ ListOnce /\ unconfirmed[c] = <<>> /\ tx[c] = NoTx
      /\ phase[c] \in {"out", "opened"}
      /\ UNCHANGED <<changes, unconfirmed, tx, pending, typed>>
  BY DEF DraftInv, QuietBeforeLoad, OnceInv, SessionsOnce, OpenPage, LoadDocument
<1>2. PICK k \in Reached :
        \/ /\ mostRecentRemoteKey' = [mostRecentRemoteKey EXCEPT ![c] = k]
           /\ confirmed' = [confirmed EXCEPT ![c] = DocAt(k)]
           /\ \A j \in DOMAIN changes : j <= k
        \/ UNCHANGED <<mostRecentRemoteKey, confirmed>> /\ phase'[c] # "live"
  BY <1>1 DEF OpenPage, LoadDocument, IsLatest, Reached, TypeOK
<1>3. \A d \in Clients \ {c} :
        /\ unconfirmed'[d] = unconfirmed[d] /\ confirmed'[d] = confirmed[d]
        /\ mostRecentRemoteKey'[d] = mostRecentRemoteKey[d]
        /\ phase'[d] = phase[d] /\ listenFrom'[d] = listenFrom[d]
        /\ pending'[d] = pending[d] /\ tx'[d] = tx[d]
  BY <1>1 DEF OpenPage, LoadDocument, TypeOK
<1>4. LocalOnce(c)'
  BY <1>1, NothingElements DEF LocalOnce
<1>5. ConfirmedOnce(c)' /\ OwnNotSkipped(c)'
  <2>1. CASE /\ mostRecentRemoteKey' = [mostRecentRemoteKey EXCEPT ![c] = k]
             /\ confirmed' = [confirmed EXCEPT ![c] = DocAt(k)]
             /\ \A j \in DOMAIN changes : j <= k
    <3>1. mostRecentRemoteKey'[c] = k /\ confirmed'[c] = DocAt(k)
      BY <1>1, <2>1 DEF TypeOK
    <3>2. Distinct(DocAt(k)) /\ InList(changes, DocAt(k), k)
      BY <1>1, DocOnce
    <3>3. \A j \in DOMAIN changes : j \in Nat
      BY <1>1 DEF TypeOK, Keys
    <3>4. k \in Int
      BY <1>1 DEF TypeOK, Keys, Reached, EmptyKey
    <3>5. OwnNotSkipped(c)'
      BY <1>1, <2>1, <3>1, <3>3, <3>4 DEF OwnNotSkipped
    <3> QED
      BY <1>1, <3>1, <3>2, <3>5 DEF ConfirmedOnce
  <2>2. CASE UNCHANGED <<mostRecentRemoteKey, confirmed>> /\ phase'[c] # "live"
    BY <1>1, <2>2 DEF ConfirmedOnce, OwnNotSkipped, OnceInv, SessionsOnce
  <2> QED
    BY <1>2, <2>1, <2>2
<1> QED
  BY <1>1, <1>3, <1>4, <1>5, SessionStep

\* An edit makes a new step.
LEMMA EditOnce ==
    ASSUME DraftInv, OnceInv, NEW c \in Clients, Edit(c)
    PROVE  OnceInv'
<1>1. /\ TypeOK /\ phase[c] = "live" /\ unconfirmed[c] \in Docs
      /\ UNCHANGED <<changes, phase, mostRecentRemoteKey, confirmed, pending, listenFrom>>
  BY DEF DraftInv, Edit, TypeOK
<1>2. PICK s \in Steps \ typed :
        /\ Readable(c, <<s>>) /\ typed' = typed \cup {s}
        /\ unconfirmed' = [unconfirmed EXCEPT ![c] = Append(@, s)]
        /\ SendCollabChanges(c, mostRecentRemoteKey[c], confirmed[c],
                             Append(unconfirmed[c], s))
  BY DEF Edit
<1>3. unconfirmed'[c] = Append(unconfirmed[c], s)
  BY <1>1, <1>2 DEF TypeOK
<1>4. /\ LocalOnce(c) /\ ConfirmedOnce(c) /\ OwnNotSkipped(c)
      /\ tx[c] # NoTx => tx[c].steps # <<>>
  BY DEF OnceInv, SessionsOnce
<1>5. PICK old \in Docs : old = unconfirmed[c]
  BY <1>1
<1>6. /\ Elements(Append(old, s)) = Elements(old) \cup {s}
      /\ Distinct(Append(old, s))
  BY <1>2, <1>4, <1>5, ElementsAppend DEF LocalOnce
<1>7. \A k \in DOMAIN changes : s \notin Elements(changes[k].steps)
  BY <1>2 DEF OnceInv, ListOnce, ChangeOnce
<1>8. c \in Stale => s \notin Unreadable
  BY <1>2 DEF Readable
<1>9. LocalOnce(c)'
  <2>1. Elements(unconfirmed'[c]) = Elements(unconfirmed[c]) \cup {s}
    BY <1>3, <1>5, <1>6
  <2>2. Distinct(unconfirmed'[c])
    BY <1>3, <1>5, <1>6
  <2> QED
    BY <1>1, <1>2, <1>4, <1>7, <1>8, <2>1, <2>2 DEF LocalOnce
<1>10. ConfirmedOnce(c)' /\ OwnNotSkipped(c)'
  BY <1>1, <1>4 DEF ConfirmedOnce, OwnNotSkipped
<1>11. \A d \in Clients \ {c} :
         /\ unconfirmed'[d] = unconfirmed[d] /\ confirmed'[d] = confirmed[d]
         /\ mostRecentRemoteKey'[d] = mostRecentRemoteKey[d]
         /\ phase'[d] = phase[d] /\ listenFrom'[d] = listenFrom[d]
         /\ pending'[d] = pending[d] /\ tx'[d] = tx[d]
  BY <1>1, <1>2 DEF SendCollabChanges, TypeOK
<1>12. tx'[c] # NoTx => tx'[c].steps # <<>>
  BY <1>1, <1>2, <1>4 DEF SendCollabChanges, TypeOK
<1>13. Elements(unconfirmed'[c]) \cap typed \subseteq Elements(unconfirmed[c])
  BY <1>2, <1>3, <1>5, <1>6
<1>14. typed \subseteq typed'
  BY <1>2
<1> QED
  BY <1>1, <1>9, <1>10, <1>11, <1>12, <1>13, <1>14, SessionStep

\* A step that leaves the list and what is confirmed and unconfirmed alone.
LEMMA QuietOnce ==
    ASSUME DraftInv, OnceInv, NEW c \in Clients,
           UNCHANGED <<changes, mostRecentRemoteKey, confirmed, unconfirmed, typed>>,
           \A d \in Clients \ {c} :
             /\ phase'[d] = phase[d] /\ listenFrom'[d] = listenFrom[d]
             /\ pending'[d] = pending[d] /\ tx'[d] = tx[d],
           OwnNotSkipped(c)', tx'[c] # NoTx => tx'[c].steps # <<>>,
           phase'[c] \in {"out", "opened", "loadFailed"} => phase'[c] = phase[c]
    PROVE  OnceInv'
<1>1. LocalOnce(c)' /\ ConfirmedOnce(c)'
  BY SameSession
<1>2. phase'[c] \in {"out", "opened", "loadFailed"} => unconfirmed'[c] = <<>>
  BY DEF OnceInv, SessionsOnce
<1> QED
  BY <1>1, <1>2, SessionStep

LEMMA AnswerOnce ==
    ASSUME DraftInv, OnceInv, NEW c \in Clients,
           TxAnswerLost(c) \/ TxResolves(c) \/ TxRejects(c) \/ FinishProcessing(c)
           \/ Destroy(c) \/ Exit(c)
    PROVE  OnceInv'
<1>1. TypeOK /\ OwnNotSkipped(c) /\ (tx[c] # NoTx => tx[c].steps # <<>>)
  BY DEF DraftInv, OnceInv, SessionsOnce
<1>2. /\ UNCHANGED <<changes, mostRecentRemoteKey, confirmed, unconfirmed, typed, listenFrom>>
      /\ \A d \in Clients \ {c} :
           /\ phase'[d] = phase[d] /\ listenFrom'[d] = listenFrom[d]
           /\ pending'[d] = pending[d] /\ tx'[d] = tx[d]
      /\ phase'[c] # phase[c] => phase'[c] \in {"destroyed", "gone"}
      /\ phase'[c] = "live" => pending'[c] = pending[c] /\ phase[c] = "live"
  BY <1>1 DEF TypeOK, TxAnswerLost, TxResolves, TxRejects, FinishProcessing, Destroy, Exit,
     SendCollabChanges
<1>3. OwnNotSkipped(c)'
  BY <1>1, <1>2 DEF OwnNotSkipped
<1>4. tx'[c] # NoTx => tx'[c].steps # <<>>
  <2>1. CASE TxAnswerLost(c)
    <3>1. tx[c] \in Transaction /\ tx[c] # NoTx
      BY <1>1, <2>1 DEF TypeOK, TxAnswerLost
    <3>2. tx'[c] = [tx[c] EXCEPT !.status = "sent"]
      BY <1>1, <2>1 DEF TypeOK, TxAnswerLost
    <3>3. tx'[c].steps = tx[c].steps
      BY <3>1, <3>2 DEF Transaction
    <3> QED
      BY <1>1, <3>1, <3>3
  <2>2. CASE TxResolves(c) \/ TxRejects(c)
    BY <1>1, <2>2 DEF TypeOK, TxResolves, TxRejects
  <2>3. CASE FinishProcessing(c)
    BY <1>1, <2>3 DEF TypeOK, FinishProcessing, SendCollabChanges
  <2>4. CASE Destroy(c) \/ Exit(c)
    BY <1>1, <2>4 DEF Destroy, Exit
  <2> QED
    BY <2>1, <2>2, <2>3, <2>4
<1> QED
  BY <1>2, <1>3, <1>4, QuietOnce

\* A change received waits behind those received before.
LEMMA ReceiveOnce ==
    ASSUME DraftInv, OnceInv, NEW c \in Clients, ReceiveCollabChanges(c)
    PROVE  OnceInv'
<1>1. /\ TypeOK /\ OwnNotSkipped(c) /\ (tx[c] # NoTx => tx[c].steps # <<>>)
      /\ pending[c] \in Seq(Keyable) /\ listenFrom[c] \in Nat
  BY DEF DraftInv, OnceInv, SessionsOnce, TypeOK, Keys
<1>2. UNCHANGED <<changes, phase, mostRecentRemoteKey, confirmed, unconfirmed, tx, typed>>
  BY DEF ReceiveCollabChanges
<1>3. PICK e : pending' = [pending EXCEPT ![c] = Append(@, e)]
  BY DEF ReceiveCollabChanges
<1>4. Len(pending'[c]) = Len(pending[c]) + 1 /\ Len(pending[c]) \in Nat
  BY <1>1, <1>3 DEF TypeOK
<1>5. listenFrom'[c] = listenFrom[c] + 1
  BY <1>1 DEF ReceiveCollabChanges, TypeOK
<1>6. listenFrom'[c] - Len(pending'[c]) = listenFrom[c] - Len(pending[c])
  BY <1>1, <1>4, <1>5
<1>7. OwnNotSkipped(c)'
  BY <1>1, <1>2, <1>6 DEF OwnNotSkipped
<1>8. \A d \in Clients \ {c} :
        /\ phase'[d] = phase[d] /\ listenFrom'[d] = listenFrom[d]
        /\ pending'[d] = pending[d] /\ tx'[d] = tx[d]
  BY <1>1, <1>2, <1>3 DEF ReceiveCollabChanges, TypeOK
<1> QED
  BY <1>1, <1>2, <1>7, <1>8, QuietOnce

\* A change that is passed over is not the session's own: it could read that.
LEMMA SkipOnce ==
    ASSUME DraftInv, OnceInv, NEW c \in Clients, SkipKeyable(c)
    PROVE  OnceInv'
<1>1. /\ TypeOK /\ OwnNotSkipped(c) /\ (tx[c] # NoTx => tx[c].steps # <<>>)
      /\ pending[c] \in Seq(Keyable) /\ listenFrom[c] \in Nat
  BY DEF DraftInv, OnceInv, SessionsOnce, TypeOK, Keys
<1>2. /\ processing[c] /\ pending[c] # <<>>
      /\ ~Readable(c, Head(pending[c]).steps)
      /\ pending' = [pending EXCEPT ![c] = Tail(@)]
      /\ UNCHANGED <<changes, phase, confirmed, unconfirmed, tx, listenFrom, typed>>
  BY DEF SkipKeyable
<1>3. PICK K \in DOMAIN changes :
        /\ Stored(Head(pending[c]), K) /\ K = listenFrom[c] - Len(pending[c])
        /\ K > mostRecentRemoteKey[c]
  BY <1>2, HeadStored
<1>4. ~Readable(c, changes[K].steps) /\ Head(pending[c]).key = K
  BY <1>2, <1>3 DEF Stored
<1>5. changes[K].cId # c
  BY <1>4 DEF Readable, Elements, OnceInv, ListOnce, ChangeOnce
<1>6. Len(pending'[c]) = Len(pending[c]) - 1 /\ Len(pending[c]) \in Nat
  BY <1>1, <1>2 DEF TypeOK
<1>7. /\ \A k \in DOMAIN changes : k \in Nat
      /\ mostRecentRemoteKey[c] \in Int
  BY <1>1 DEF TypeOK, Keys, EmptyKey
<1>8. /\ mostRecentRemoteKey'[c] \in {mostRecentRemoteKey[c], K}
      /\ \A d \in Clients \ {c} : mostRecentRemoteKey'[d] = mostRecentRemoteKey[d]
  BY <1>1, <1>4 DEF SkipKeyable, TypeOK
<1>9. mostRecentRemoteKey'[c] \in Int /\ mostRecentRemoteKey[c] <= mostRecentRemoteKey'[c]
  BY <1>3, <1>7, <1>8
<1>10. ASSUME phase[c] = "live", NEW k \in DOMAIN changes, changes[k].cId = c,
              k > mostRecentRemoteKey[c]
       PROVE  k > K
  <2>1. k >= K /\ k # K
    BY <1>1, <1>3, <1>5, <1>10 DEF OwnNotSkipped
  <2> QED
    BY <1>7, <2>1
<1>11. OwnNotSkipped(c)'
  <2> SUFFICES ASSUME phase[c] = "live", NEW k \in DOMAIN changes, changes[k].cId = c,
                      k > mostRecentRemoteKey'[c]
               PROVE  k >= listenFrom[c] - Len(pending'[c])
    BY <1>2 DEF OwnNotSkipped
  <2>1. k > K
    <3>1. PICK r \in Int, s \in Int :
            r = mostRecentRemoteKey[c] /\ s = mostRecentRemoteKey'[c] /\ r <= s
      BY <1>7, <1>9
    <3>2. k > s /\ k \in Int
      BY <1>7, <3>1
    <3>3. k > r
      BY <3>1, <3>2
    <3> QED
      BY <1>10, <3>1, <3>3
  <2>2. listenFrom[c] - Len(pending'[c]) = K + 1
    BY <1>1, <1>3, <1>6, <1>7
  <2> QED
    BY <1>7, <2>1, <2>2
<1>12. ConfirmedOnce(c)'
  <2>1. /\ Distinct(confirmed[c]) /\ InList(changes, confirmed[c], mostRecentRemoteKey[c])
    BY DEF OnceInv, SessionsOnce, ConfirmedOnce
  <2>2. PICK doc \in Docs, r \in Int, s \in Int :
          doc = confirmed[c] /\ r = mostRecentRemoteKey[c] /\ s = mostRecentRemoteKey'[c]
    BY <1>1, <1>7, <1>9 DEF TypeOK
  <2>3. InList(changes, doc, s)
    BY <1>1, <1>9, <2>1, <2>2, InListLonger
  <2> QED
    BY <1>2, <2>1, <2>2, <2>3 DEF ConfirmedOnce, InList
<1>13. LocalOnce(c)'
  <2>1. phase[c] = "live"
    BY <1>2 DEF DraftInv, QuietBeforeLoad, Running
  <2>2. LocalOnce(c)
    BY DEF OnceInv, SessionsOnce
  <2>3. ASSUME NEW k \in DOMAIN changes,
               Elements(unconfirmed[c]) \cap Elements(changes[k].steps) # {}
        PROVE  changes[k].cId = c /\ k > mostRecentRemoteKey'[c]
    <3>1. changes[k].cId = c /\ k > mostRecentRemoteKey[c]
      BY <2>2, <2>3 DEF LocalOnce
    <3>2. k > K
      BY <1>10, <2>1, <3>1
    <3> QED
      BY <1>8, <3>1, <3>2
  <2> QED
    BY <1>2, <2>2, <2>3 DEF LocalOnce
<1>14. \A d \in Clients \ {c} :
         /\ unconfirmed'[d] = unconfirmed[d] /\ confirmed'[d] = confirmed[d]
         /\ mostRecentRemoteKey'[d] = mostRecentRemoteKey[d]
         /\ phase'[d] = phase[d] /\ listenFrom'[d] = listenFrom[d]
         /\ pending'[d] = pending[d] /\ tx'[d] = tx[d]
  BY <1>1, <1>2, <1>8 DEF TypeOK
<1>15. phase'[c] \in {"out", "opened", "loadFailed"} => unconfirmed'[c] = <<>>
  BY <1>2 DEF OnceInv, SessionsOnce
<1>16. Elements(unconfirmed'[c]) \cap typed \subseteq Elements(unconfirmed[c])
  BY <1>2
<1> QED
  BY <1>1, <1>2, <1>11, <1>12, <1>13, <1>14, <1>15, <1>16, SessionStep

\* A change applied extends what is confirmed, by steps that were not there.
LEMMA ProcessConfirmed ==
    ASSUME DraftInv, OnceInv, NEW c \in Clients, NEW K \in DOMAIN changes,
           K > mostRecentRemoteKey[c], UNCHANGED changes,
           mostRecentRemoteKey'[c] = K, confirmed'[c] = confirmed[c] \o changes[K].steps
    PROVE  ConfirmedOnce(c)'
<1>1. /\ TypeOK /\ K \in Nat /\ mostRecentRemoteKey[c] \in Int
      /\ confirmed[c] \in Docs /\ changes[K].steps \in Docs
  BY DEF DraftInv, TypeOK, Keys, EmptyKey, Change
<1>2. /\ Distinct(confirmed[c]) /\ InList(changes, confirmed[c], mostRecentRemoteKey[c])
      /\ Distinct(changes[K].steps)
  BY DEF OnceInv, SessionsOnce, ConfirmedOnce, ListOnce, ChangeOnce
<1>3. InList(changes, confirmed[c], K)
  <2>1. PICK doc \in Docs, key \in Int : doc = confirmed[c] /\ key = mostRecentRemoteKey[c]
    BY <1>1
  <2>2. InList(changes, doc, K)
    BY <1>1, <1>2, <2>1, InListLonger
  <2> QED
    BY <2>1, <2>2
<1>4. Elements(confirmed[c]) \cap Elements(changes[K].steps) = {}
  <2> SUFFICES ASSUME NEW s \in Elements(confirmed[c]), s \in Elements(changes[K].steps)
               PROVE  FALSE
    OBVIOUS
  <2>1. PICK j \in DOMAIN changes :
          j <= mostRecentRemoteKey[c] /\ s \in Elements(changes[j].steps)
    BY <1>2 DEF InList
  <2>2. j # K
    BY <1>1, <2>1
  <2> QED
    BY <2>1, <2>2 DEF OnceInv, ListOnce
<1>5. PICK u \in Docs, v \in Docs : u = confirmed[c] /\ v = changes[K].steps
  BY <1>1
<1>6. /\ Elements(u \o v) = Elements(u) \cup Elements(v)
      /\ Distinct(u \o v)
  BY <1>2, <1>4, <1>5, ElementsConcat
<1>7. InList(changes, u \o v, K)
  BY <1>1, <1>3, <1>5, <1>6 DEF InList
<1> QED
  BY <1>5, <1>6, <1>7 DEF ConfirmedOnce

\* A change applied, the session's own or another's.
LEMMA ProcessOnce ==
    ASSUME DraftInv, OnceInv, NEW c \in Clients, ProcessKeyable(c)
    PROVE  OnceInv'
<1>1. /\ TypeOK /\ LocalOnce(c) /\ OwnNotSkipped(c) /\ (tx[c] # NoTx => tx[c].steps # <<>>)
      /\ pending[c] \in Seq(Keyable) /\ listenFrom[c] \in Nat
  BY DEF DraftInv, OnceInv, SessionsOnce, TypeOK, Keys
<1>2. /\ UNCHANGED <<changes, phase, listenFrom, typed>>
      /\ processing[c] /\ pending[c] # <<>>
      /\ pending' = [pending EXCEPT ![c] = Tail(@)]
  BY DEF ProcessKeyable
<1>3. PICK K \in DOMAIN changes :
        /\ phase[c] = "live" /\ Stored(Head(pending[c]), K)
        /\ K = listenFrom[c] - Len(pending[c]) /\ K > mostRecentRemoteKey[c]
        /\ ~Outdated(c) => K = mostRecentRemoteKey[c] + 1
        /\ mostRecentRemoteKey[c] + 1 \in DOMAIN changes
  BY <1>2, HeadStored
<1>4. PICK e : e = Head(pending[c])
  OBVIOUS
<1>5. e.key = K /\ e.cId = changes[K].cId /\ e.steps = changes[K].steps
  BY <1>3, <1>4 DEF Stored
<1>6. /\ mostRecentRemoteKey' = [mostRecentRemoteKey EXCEPT ![c] = K]
      /\ ConfirmOwn(c, e) \/ ApplyForeign(c, e)
  BY <1>4, <1>5 DEF ProcessKeyable, AppliedKey
<1>7. /\ mostRecentRemoteKey'[c] = K
      /\ \A d \in Clients \ {c} : mostRecentRemoteKey'[d] = mostRecentRemoteKey[d]
  BY <1>1, <1>6 DEF TypeOK
<1>8. K \in Nat /\ changes[K].steps \in Docs /\ unconfirmed[c] \in Docs
      /\ mostRecentRemoteKey[c] \in Int /\ \A k \in DOMAIN changes : k \in Nat
  BY <1>1 DEF TypeOK, Keys, Change, EmptyKey
<1>9. \A d \in Clients \ {c} :
        /\ unconfirmed'[d] = unconfirmed[d] /\ confirmed'[d] = confirmed[d]
        /\ mostRecentRemoteKey'[d] = mostRecentRemoteKey[d]
        /\ phase'[d] = phase[d] /\ listenFrom'[d] = listenFrom[d]
        /\ pending'[d] = pending[d] /\ tx'[d] = tx[d]
  <2>1. CASE ConfirmOwn(c, e)
    BY <1>1, <1>2, <1>7, <2>1 DEF ConfirmOwn, TypeOK
  <2>2. CASE ApplyForeign(c, e)
    BY <1>1, <1>2, <1>7, <2>2 DEF ApplyForeign, SendCollabChanges, TypeOK
  <2> QED
    BY <1>6, <2>1, <2>2
<1>10. \A k \in DOMAIN changes : changes[k].cId = c /\ k > mostRecentRemoteKey[c] =>
         k = mostRecentRemoteKey[c] + 1 /\ k >= K /\ Prefix(changes[k].steps, unconfirmed[c])
  BY <1>1, <1>3 DEF DraftInv, OwnIsNext, OwnNotSkipped
<1>11. \A k \in DOMAIN changes : changes[k].cId = c /\ k > K => FALSE
  BY <1>3, <1>8, <1>10
<1>12. OwnNotSkipped(c)'
  BY <1>2, <1>7, <1>11 DEF OwnNotSkipped
<1>13. /\ confirmed'[c] = confirmed[c] \o changes[K].steps
       /\ unconfirmed'[c] \in Docs /\ Distinct(unconfirmed'[c])
       /\ Elements(unconfirmed'[c]) \subseteq Elements(unconfirmed[c])
       /\ Elements(unconfirmed'[c]) \cap Elements(changes[K].steps) = {}
       /\ tx'[c] # NoTx => tx'[c].steps # <<>>
  <2>1. CASE ConfirmOwn(c, e)
    <3>1. changes[K].cId = c
      BY <1>5, <2>1 DEF ConfirmOwn, IsOwn
    <3>2. Prefix(changes[K].steps, unconfirmed[c])
      BY <1>3, <1>10, <3>1
    <3>3. PICK u \in Docs, v \in Docs : u = unconfirmed[c] /\ v = changes[K].steps
      BY <1>8
    <3>4. Prefix(v, u) /\ Len(v) \in Nat /\ Len(u) \in Nat /\ Len(v) <= Len(u)
      BY <3>2, <3>3 DEF Prefix, Docs
    <3>5. OwnConfirmed(c, e) = Len(v)
      BY <1>5, <3>3, <3>4 DEF OwnConfirmed
    <3>6. /\ confirmed'[c] = confirmed[c] \o SubSeq(u, 1, Len(v))
          /\ unconfirmed'[c] = Rest(u, v)
          /\ tx'[c] = tx[c]
      BY <1>1, <2>1, <3>3, <3>5 DEF ConfirmOwn, TypeOK, Rest
    <3>7. SubSeq(u, 1, Len(v)) = v
      BY <3>4 DEF Prefix
    <3>8. Distinct(u)
      BY <1>1, <3>3 DEF LocalOnce
    <3>9. /\ Rest(u, v) \in Docs /\ Elements(Rest(u, v)) \subseteq Elements(u)
          /\ Distinct(Rest(u, v)) /\ Elements(Rest(u, v)) \cap Elements(v) = {}
      BY <3>4, <3>8, ElementsRest
    <3> QED
      BY <1>1, <3>3, <3>6, <3>7, <3>9
  <2>2. CASE ApplyForeign(c, e)
    <3>1. changes[K].cId # c
      BY <1>5, <2>2 DEF ApplyForeign, IsOwn
    <3>2. PICK r \in Rebased(unconfirmed[c]) :
            /\ unconfirmed' = [unconfirmed EXCEPT ![c] = r]
            /\ SendCollabChanges(c, AppliedKey(c, e), confirmed[c] \o e.steps, r)
      BY <2>2 DEF ApplyForeign
    <3>3. unconfirmed'[c] = r /\ confirmed'[c] = confirmed[c] \o changes[K].steps
      BY <1>1, <1>5, <2>2, <3>2 DEF ApplyForeign, TypeOK
    <3>4. PICK u \in Docs : u = unconfirmed[c]
      BY <1>8
    <3>5. r \in Docs /\ Elements(r) \subseteq Elements(u) /\ Distinct(r)
      BY <1>1, <3>2, <3>4, ElementsRebased DEF LocalOnce
    <3>6. Elements(u) \cap Elements(changes[K].steps) = {}
      BY <1>1, <3>1, <3>4 DEF LocalOnce
    <3>7. tx'[c] # NoTx => tx'[c].steps # <<>>
      BY <1>1, <3>2 DEF SendCollabChanges, TypeOK
    <3> QED
      BY <3>3, <3>4, <3>5, <3>6, <3>7
  <2> QED
    BY <1>6, <2>1, <2>2
<1>14. ConfirmedOnce(c)'
  BY <1>2, <1>3, <1>7, <1>13, ProcessConfirmed
<1>15. LocalOnce(c)'
  <2>1. ASSUME NEW k \in DOMAIN changes,
               Elements(unconfirmed'[c]) \cap Elements(changes[k].steps) # {}
        PROVE  changes[k].cId = c /\ k > K
    <3>1. k # K /\ Elements(unconfirmed[c]) \cap Elements(changes[k].steps) # {}
      BY <1>13, <2>1
    <3>2. changes[k].cId = c /\ k > mostRecentRemoteKey[c]
      BY <1>1, <3>1 DEF LocalOnce
    <3>3. k >= K
      BY <1>10, <3>2
    <3> QED
      BY <1>8, <3>1, <3>2, <3>3
  <2> QED
    BY <1>1, <1>2, <1>7, <1>13, <2>1 DEF LocalOnce
<1>16. phase'[c] \in {"out", "opened", "loadFailed"} => unconfirmed'[c] = <<>>
  BY <1>2, <1>3
<1>17. Elements(unconfirmed'[c]) \cap typed \subseteq Elements(unconfirmed[c])
  BY <1>13
<1> QED
  BY <1>2, <1>9, <1>12, <1>13, <1>14, <1>15, <1>16, <1>17, SessionStep

\* A change comes to the list, and the sessions stay as they are.
LEMMA GrowOnce ==
    ASSUME DraftInv, OnceInv,
           NEW k \in Keys, k \notin DOMAIN changes, k - 1 \in Reached,
           NEW a \in Clients \cup Writers, NEW steps \in Docs, NEW base \in Docs,
           Put(k, a, steps, base), typed \subseteq typed',
           Distinct(steps), Elements(steps) \subseteq typed',
           a \in Stale => Elements(steps) \cap Unreadable = {},
           \A j \in DOMAIN changes : Elements(changes[j].steps) \cap Elements(steps) = {},
           UNCHANGED <<phase, mostRecentRemoteKey, confirmed, unconfirmed, pending, listenFrom>>,
           \A d \in Clients : tx'[d] # NoTx => tx'[d].steps # <<>>,
           \A d \in Clients : Elements(unconfirmed[d]) \cap Elements(steps) # {} =>
             a = d /\ k > mostRecentRemoteKey[d],
           \A d \in Clients : a = d /\ phase[d] = "live" => k >= listenFrom[d] - Len(pending[d])
    PROVE  OnceInv'
<1>1. TypeOK /\ ListOnce /\ ListFinite
  BY DEF DraftInv, OnceInv
<1>2. /\ ListOnce' /\ ListFinite'
      /\ \A doc, key : InList(changes, doc, key) => InList(changes', doc, key)
  BY <1>1, GrowStep
<1>3. /\ DOMAIN changes' = DOMAIN changes \cup {k}
      /\ \A j \in DOMAIN changes : changes'[j] = changes[j]
      /\ changes'[k].cId = a /\ changes'[k].steps = steps
  BY ONLY <1>1, k \in Keys, k \notin DOMAIN changes, k - 1 \in Reached,
     Put(k, a, steps, base), PutKeeps
<1>4. ASSUME NEW d \in Clients PROVE LocalOnce(d)'
  <2>1. LocalOnce(d)
    BY DEF OnceInv, SessionsOnce
  <2>2. ASSUME NEW j \in DOMAIN changes',
               Elements(unconfirmed[d]) \cap Elements(changes'[j].steps) # {}
        PROVE  changes'[j].cId = d /\ j > mostRecentRemoteKey[d]
    <3>1. CASE j = k
      BY <1>3, <2>2, <3>1
    <3>2. CASE j \in DOMAIN changes
      BY <1>3, <2>1, <2>2, <3>2 DEF LocalOnce
    <3> QED
      BY <1>3, <3>1, <3>2
  <2> QED
    BY <2>1, <2>2 DEF LocalOnce
<1>5. ASSUME NEW d \in Clients PROVE ConfirmedOnce(d)'
  BY <1>2 DEF OnceInv, SessionsOnce, ConfirmedOnce
<1>6. ASSUME NEW d \in Clients PROVE OwnNotSkipped(d)'
  BY <1>3 DEF OnceInv, SessionsOnce, OwnNotSkipped
<1>7. \A d \in Clients :
        phase'[d] \in {"out", "opened", "loadFailed"} => unconfirmed'[d] = <<>>
  BY DEF OnceInv, SessionsOnce
<1>8. \A d, e \in Clients :
        d # e => Elements(unconfirmed'[d]) \cap Elements(unconfirmed'[e]) = {}
  BY DEF OnceInv, SessionsOnce
<1> QED
  BY <1>2, <1>4, <1>5, <1>6, <1>7, <1>8 DEF OnceInv, SessionsOnce

\* A transaction reaches Firebase.  If it finds its key free, its steps are the
\* first of the session's own, which no change of the list has.
LEMMA CommitOnce ==
    ASSUME DraftInv, OnceInv, NEW c \in Clients, TxReachesFirebase(c)
    PROVE  OnceInv'
<1>1. /\ TypeOK /\ LocalOnce(c) /\ OwnNotSkipped(c) /\ tx[c].steps # <<>>
      /\ TxOK(c) /\ PendingOK(c)
      /\ tx[c] # NoTx /\ tx[c].status = "sent"
      /\ UNCHANGED <<phase, mostRecentRemoteKey, confirmed, unconfirmed, pending,
                     listenFrom, typed>>
  BY DEF DraftInv, OnceInv, SessionsOnce, TxReachesFirebase, TxSound, PendingIsList
<1>2. tx[c] \in Transaction
  BY <1>1 DEF TypeOK
<1>3. PICK k \in Keys, steps \in Docs, base \in Docs :
        k = tx[c].key /\ steps = tx[c].steps /\ base = tx[c].base
  BY <1>2 DEF Transaction
<1>4. k - 1 \in Reached
  BY <1>1, <1>3 DEF TxOK
<1>5. tx' = [tx EXCEPT ![c].status = "aborted"] \/ tx' = [tx EXCEPT ![c].status = "committed"]
  BY DEF TxReachesFirebase
<1>6. \A d \in Clients \ {c} : tx'[d] = tx[d]
  BY <1>1, <1>5 DEF TypeOK
<1>7. tx'[c].steps = tx[c].steps
  <2>1. PICK old \in Transaction : old = tx[c]
    BY <1>2
  <2>2. tx'[c] = [old EXCEPT !.status = "aborted"] \/ tx'[c] = [old EXCEPT !.status = "committed"]
    BY <1>1, <1>5, <2>1 DEF TypeOK
  <2> QED
    BY <2>1, <2>2 DEF Transaction
<1>8. \A d \in Clients : tx'[d] # NoTx => tx'[d].steps # <<>>
  BY <1>1, <1>6, <1>7 DEF OnceInv, SessionsOnce
<1>9. CASE UNCHANGED changes
  <2>1. OwnNotSkipped(c)'
    BY <1>1, <1>9 DEF OwnNotSkipped
  <2> QED
    BY <1>1, <1>6, <1>8, <1>9, <2>1, QuietOnce
<1>10. CASE k \notin DOMAIN changes /\ Put(k, c, steps, base)
  <2>1. k = mostRecentRemoteKey[c] + 1 /\ Prefix(steps, unconfirmed[c])
    BY <1>1, <1>3, <1>10 DEF TxOK
  <2>2. k \in Nat /\ mostRecentRemoteKey[c] \in Int /\ \A j \in DOMAIN changes : j \in Nat
    BY <1>1 DEF TypeOK, Keys, EmptyKey
  <2>3. PICK u \in Docs : u = unconfirmed[c]
    BY <1>1 DEF TypeOK
  <2>4. Elements(steps) \subseteq Elements(u) /\ Distinct(steps)
    BY <1>1, <2>1, <2>3, ElementsPrefix DEF LocalOnce
  <2>5. Elements(steps) \subseteq typed' /\ (c \in Stale => Elements(steps) \cap Unreadable = {})
    BY <1>1, <2>3, <2>4 DEF LocalOnce
  <2>6. \A j \in DOMAIN changes : Elements(changes[j].steps) \cap Elements(steps) = {}
    <3> SUFFICES ASSUME NEW j \in DOMAIN changes,
                        Elements(changes[j].steps) \cap Elements(steps) # {}
                 PROVE  FALSE
      OBVIOUS
    <3>1. changes[j].cId = c /\ j > mostRecentRemoteKey[c]
      BY <1>1, <2>3, <2>4 DEF LocalOnce
    <3>2. j = k
      BY <2>1, <3>1 DEF DraftInv, OwnIsNext
    <3> QED
      BY <1>10, <3>2
  <2>7. ASSUME NEW d \in Clients, Elements(unconfirmed[d]) \cap Elements(steps) # {}
        PROVE  c = d /\ k > mostRecentRemoteKey[d]
    <3>1. c = d
      BY <2>3, <2>4, <2>7 DEF OnceInv, SessionsOnce
    <3> QED
      BY <2>1, <2>2, <3>1
  <2>8. phase[c] = "live" => k >= listenFrom[c] - Len(pending[c])
    <3> SUFFICES ASSUME phase[c] = "live" PROVE k >= listenFrom[c] - Len(pending[c])
      OBVIOUS
    <3>1. listenFrom[c] \in Nat /\ Len(pending[c]) \in Nat
      BY <1>1 DEF TypeOK, Keys
    <3>2. ~(mostRecentRemoteKey[c] < k /\ k < listenFrom[c])
      BY <1>1, <1>10, <2>2 DEF PendingOK
    <3> QED
      BY <2>1, <2>2, <3>1, <3>2
  <2>9. typed \subseteq typed'
    BY <1>1
  <2> QED
    BY <1>1, <1>4, <1>8, <1>10, <2>4, <2>5, <2>6, <2>7, <2>8, <2>9, GrowOnce
<1> QED
  BY <1>3, <1>9, <1>10 DEF TxReachesFirebase, KeyTaken

\* A server request puts a step of its own into the list.
LEMMA WriteOnce ==
    ASSUME DraftInv, OnceInv, NEW w \in Writers, WriteChange(w)
    PROVE  OnceInv'
<1>1. /\ TypeOK /\ writer[w].key \in Reached /\ w \notin Clients /\ w \notin Stale
      /\ UNCHANGED <<phase, mostRecentRemoteKey, confirmed, unconfirmed, pending,
                     listenFrom, tx>>
  BY AuthorsAssumption, StaleAssumption
  DEF DraftInv, KeysReached, WriteChange, sessionVars
<1>2. PICK k \in Keys : k = NextKey(writer[w].key) /\ k - 1 = writer[w].key
  <2>1. writer[w].key \in Keys \cup {EmptyKey}
    BY <1>1 DEF TypeOK, Reached
  <2> QED
    BY <2>1 DEF NextKey, Keys, EmptyKey
<1>3. CASE UNCHANGED <<changes, typed>>
  BY <1>1, <1>3 DEF OnceInv, ListOnce, ChangeOnce, SessionsOnce, LocalOnce, ConfirmedOnce,
     OwnNotSkipped, ListFinite
<1>4. ASSUME NEW s \in Steps \ typed, k \notin DOMAIN changes, typed' = typed \cup {s},
             Put(k, w, <<s>>, DocAt(k - 1))
      PROVE  OnceInv'
  <2>1. PICK steps \in Docs, base \in Docs : steps = <<s>> /\ base = DocAt(k - 1)
    <3>1. DocAt(k - 1) \in Docs /\ <<s>> \in Docs
      BY <1>1, <1>2, DocAtType DEF Docs
    <3> QED
      BY <3>1
  <2>2. Elements(steps) = {s} /\ Distinct(steps)
    BY <2>1 DEF Elements, Distinct
  <2>3. \A j \in DOMAIN changes : Elements(changes[j].steps) \cap Elements(steps) = {}
    BY <2>2 DEF OnceInv, ListOnce, ChangeOnce
  <2>4. \A d \in Clients : Elements(unconfirmed[d]) \cap Elements(steps) = {}
    BY <2>2 DEF OnceInv, SessionsOnce, LocalOnce
  <2>5. \A d \in Clients : tx'[d] # NoTx => tx'[d].steps # <<>>
    BY <1>1 DEF OnceInv, SessionsOnce
  <2>6. k - 1 \in Reached /\ Put(k, w, steps, base)
    BY <1>1, <1>2, <1>4, <2>1
  <2>7. typed \subseteq typed' /\ Elements(steps) \subseteq typed'
    BY <1>4, <2>2
  <2> QED
    BY <1>1, <1>4, <2>2, <2>3, <2>4, <2>5, <2>6, <2>7, GrowOnce
<1> QED
  BY <1>2, <1>3, <1>4 DEF WriteChange, KeyTaken

\* Nothing the invariant speaks of changes.
LEMMA StutterOnce ==
    ASSUME OnceInv,
           UNCHANGED <<changes, phase, mostRecentRemoteKey, confirmed, unconfirmed,
                       tx, pending, listenFrom, typed>>
    PROVE  OnceInv'
BY DEF OnceInv, ListOnce, ChangeOnce, SessionsOnce, LocalOnce, ConfirmedOnce, OwnNotSkipped,
   ListFinite

LEMMA OnceInvInit == Init => OnceInv
<1> SUFFICES ASSUME Init PROVE OnceInv
  OBVIOUS
<1>1. DOMAIN changes = {} /\ DOMAIN changes = 0..0 - 1
  BY DEF Init
<1>2. ListOnce /\ ListFinite
  BY <1>1 DEF ListOnce, ListFinite
<1>3. \A c \in Clients :
        /\ unconfirmed[c] = <<>> /\ confirmed[c] = <<>> /\ tx[c] = NoTx /\ phase[c] = "out"
  BY DEF Init
<1>4. SessionsOnce
  BY <1>1, <1>3, NothingElements
  DEF SessionsOnce, LocalOnce, ConfirmedOnce, OwnNotSkipped, InList
<1> QED
  BY <1>2, <1>4 DEF OnceInv

LEMMA OnceInvStep == DraftInv /\ OnceInv /\ [Next]_vars => OnceInv'
<1> SUFFICES ASSUME DraftInv, OnceInv, [Next]_vars PROVE OnceInv'
  OBVIOUS
<1>1. ASSUME NEW c \in Clients, OpenPage(c) \/ LoadDocument(c) PROVE OnceInv'
  BY <1>1, LoadOnce
<1>2. ASSUME NEW c \in Clients, Edit(c) PROVE OnceInv'
  BY <1>2, EditOnce
<1>3. ASSUME NEW c \in Clients, TxReachesFirebase(c) PROVE OnceInv'
  BY <1>3, CommitOnce
<1>4. ASSUME NEW c \in Clients,
             TxAnswerLost(c) \/ TxResolves(c) \/ TxRejects(c) \/ FinishProcessing(c)
             \/ Destroy(c) \/ Exit(c)
      PROVE  OnceInv'
  BY <1>4, AnswerOnce
<1>5. ASSUME NEW c \in Clients, ReceiveCollabChanges(c) PROVE OnceInv'
  BY <1>5, ReceiveOnce
<1>6. ASSUME NEW c \in Clients, ProcessKeyable(c) PROVE OnceInv'
  BY <1>6, ProcessOnce
<1>7. ASSUME NEW c \in Clients, SkipKeyable(c) PROVE OnceInv'
  BY <1>7, SkipOnce
<1>8. ASSUME NEW w \in Writers, FetchDoc(w) PROVE OnceInv'
  BY <1>8, StutterOnce DEF FetchDoc, sessionVars
<1>9. ASSUME NEW w \in Writers, WriteChange(w) PROVE OnceInv'
  BY <1>9, WriteOnce
<1>10. CASE UNCHANGED vars
  BY <1>10, StutterOnce DEF vars
<1> QED
  BY <1>1, <1>2, <1>3, <1>4, <1>5, <1>6, <1>7, <1>8, <1>9, <1>10 DEF Next

\* Every step made is in one place only: one change of the list, or the local steps
\* of one session that is still to see it there.
THEOREM OnceInvariant == Spec => [](DraftInv /\ OnceInv)
<1>1. Init => DraftInv /\ OnceInv
  BY DraftInvInit, OnceInvInit
<1>2. DraftInv /\ OnceInv /\ [Next]_vars => (DraftInv /\ OnceInv)'
  BY DraftInvStep, OnceInvStep
<1> QED
  BY <1>1, <1>2, PTL DEF Spec

\* EachStepOnce: no lost answer, resend or rebase puts a step into the list twice
\* (document.ts, sendCollabChanges and its transaction), and no session shows one twice,
\* in the middle of processStoredKeyables either.
THEOREM StepsAreOnce == Spec => []EachStepOnce
<1>1. DraftInv /\ OnceInv => EachStepOnce
  <2> SUFFICES ASSUME DraftInv, OnceInv PROVE EachStepOnce
    OBVIOUS
  <2>1. \A k \in DOMAIN changes : Distinct(changes[k].doc)
    BY DEF OnceInv, ListOnce, ChangeOnce
  <2>2. ASSUME NEW c \in Clients PROVE Distinct(confirmed[c] \o unconfirmed[c])
    <3>1. LocalOnce(c) /\ ConfirmedOnce(c)
      BY DEF OnceInv, SessionsOnce
    <3>2. PICK u \in Docs, v \in Docs : u = confirmed[c] /\ v = unconfirmed[c]
      BY DEF DraftInv, TypeOK
    <3>3. Distinct(u) /\ Distinct(v)
      BY <3>1, <3>2 DEF LocalOnce, ConfirmedOnce
    <3>4. Elements(u) \cap Elements(v) = {}
      <4> SUFFICES ASSUME NEW s \in Elements(u), s \in Elements(v) PROVE FALSE
        OBVIOUS
      <4>1. PICK j \in DOMAIN changes :
              j <= mostRecentRemoteKey[c] /\ s \in Elements(changes[j].steps)
        BY <3>1, <3>2 DEF ConfirmedOnce, InList
      <4>2. j > mostRecentRemoteKey[c]
        BY <3>1, <3>2, <4>1 DEF LocalOnce
      <4>3. j \in Int /\ mostRecentRemoteKey[c] \in Int
        BY DEF DraftInv, TypeOK, Keys, EmptyKey
      <4> QED
        BY <4>1, <4>2, <4>3
    <3> QED
      BY <3>2, <3>3, <3>4, ElementsConcat
  <2> QED
    BY <2>1, <2>2 DEF EachStepOnce
<1> QED
  BY <1>1, OnceInvariant, PTL
----------------------------------------------------------------------------
(* The refinement. *)

\* What the list is, and what an author has read of it, to DraftLog.
Authors == Clients \cup Writers
Entry == [author : Authors, steps : Docs]
LogOf(list) ==
    [i \in 1..Cardinality(DOMAIN list) |->
        [author |-> list[i - 1].cId, steps |-> list[i - 1].steps]]
SeenOf == [a \in Authors |->
             IF a \in Clients THEN mostRecentRemoteKey[a] + 1 ELSE writer[a].key + 1]

LEMMA LogIsSequence ==
    ASSUME NEW n \in Nat, NEW list, DOMAIN list = 0..n - 1,
           \A k \in 0..n - 1 : list[k] \in Change
    PROVE  /\ LogOf(list) \in Seq(Entry) /\ Len(LogOf(list)) = n
           /\ DOMAIN LogOf(list) = 1..n
           /\ \A i \in 1..n : /\ i - 1 \in DOMAIN list
                              /\ LogOf(list)[i].author = list[i - 1].cId
                              /\ LogOf(list)[i].steps = list[i - 1].steps
<1>1. Cardinality(DOMAIN list) = n
  <2>1. Cardinality(0..n - 1) = IF 0 > n - 1 THEN 0 ELSE (n - 1) - 0 + 1
    BY FS_Interval
  <2> QED
    BY <2>1
<1>2. \A i \in 1..n : i - 1 \in DOMAIN list
  OBVIOUS
<1>3. PICK l : l = LogOf(list)
  OBVIOUS
<1>4. DOMAIN l = 1..n /\ \A i \in 1..n :
        l[i] = [author |-> list[i - 1].cId, steps |-> list[i - 1].steps]
  BY <1>1, <1>3 DEF LogOf
<1>5. \A i \in 1..n : l[i] \in Entry
  BY <1>2, <1>4 DEF Entry, Change, Authors
<1>6. l \in [1..n -> Entry]
  <2>1. l = [i \in 1..n |-> l[i]]
    BY <1>1, <1>3 DEF LogOf
  <2> QED
    BY <1>5, <2>1
<1>7. l \in Seq(Entry)
  BY <1>6, SeqDef
<1>8. Len(l) = n
  BY <1>4, <1>7, LenProperties
<1> QED
  BY <1>2, <1>3, <1>4, <1>7, <1>8

\* A change at the end of the list is an entry at the end of the log.
LEMMA LogGrows ==
    ASSUME NEW n \in Nat, NEW list, NEW longer,
           DOMAIN list = 0..n - 1, DOMAIN longer = 0..n,
           \A k \in 0..n : longer[k] \in Change,
           \A k \in 0..n - 1 : longer[k] = list[k]
    PROVE  LogOf(longer) =
             Append(LogOf(list), [author |-> longer[n].cId, steps |-> longer[n].steps])
<1>1. \A k \in 0..n - 1 : list[k] \in Change
  OBVIOUS
<1>2. /\ LogOf(list) \in Seq(Entry) /\ Len(LogOf(list)) = n
      /\ \A i \in 1..n : LogOf(list)[i].author = list[i - 1].cId
                         /\ LogOf(list)[i].steps = list[i - 1].steps
  BY <1>1, LogIsSequence
<1>3. PICK m \in Nat : m = n + 1
  OBVIOUS
<1>4. DOMAIN longer = 0..m - 1 /\ \A k \in 0..m - 1 : longer[k] \in Change
  BY <1>3
<1>5. /\ LogOf(longer) \in Seq(Entry) /\ Len(LogOf(longer)) = m
      /\ \A i \in 1..m : LogOf(longer)[i].author = longer[i - 1].cId
                         /\ LogOf(longer)[i].steps = longer[i - 1].steps
  BY <1>4, LogIsSequence
<1>6. PICK l \in Seq(Entry), ll \in Seq(Entry) : l = LogOf(list) /\ ll = LogOf(longer)
  BY <1>2, <1>5
<1>7. PICK e \in Entry : e = [author |-> longer[n].cId, steps |-> longer[n].steps]
  <2>1. longer[n] \in Change
    OBVIOUS
  <2> QED
    BY <2>1 DEF Entry, Change, Authors
<1>8. /\ Append(l, e) \in Seq(Entry) /\ Len(Append(l, e)) = n + 1
      /\ \A i \in 1..n : Append(l, e)[i] = l[i]
      /\ Append(l, e)[n + 1] = e
  BY <1>2, <1>6, AppendProperties
<1>9. \A i \in 1..m : ll[i] \in Entry
  BY <1>5, <1>6
<1>10. \A i \in 1..n : l[i] \in Entry
  BY <1>2, <1>6
<1>0. \A x, y \in Entry : x.author = y.author /\ x.steps = y.steps => x = y
  BY DEF Entry
<1>11. ASSUME NEW i \in 1..n PROVE ll[i] = l[i]
  <2>1. i \in 1..m /\ i - 1 \in 0..n - 1
    BY <1>3
  <2>2. ll[i].author = l[i].author /\ ll[i].steps = l[i].steps
    BY <1>2, <1>5, <1>6, <2>1
  <2>3. ll[i] \in Entry /\ l[i] \in Entry
    BY <1>9, <1>10, <2>1
  <2> QED
    BY <1>0, <2>2, <2>3
<1>12. ll[n + 1] = e
  <2>1. n + 1 \in 1..m /\ (n + 1) - 1 = n
    BY <1>3
  <2>2. ll[n + 1].author = e.author /\ ll[n + 1].steps = e.steps
    BY <1>5, <1>6, <1>7, <2>1
  <2>3. ll[n + 1] \in Entry
    BY <1>9, <2>1
  <2> QED
    BY <1>0, <2>2, <2>3
<1>13. PICK w \in Seq(Entry) : w = Append(l, e)
  BY <1>8
<1>14. Len(ll) = Len(w) /\ \A i \in 1..Len(ll) : ll[i] = w[i]
  <2>1. \A i \in 1..n + 1 : i \in 1..n \/ i = n + 1
    OBVIOUS
  <2> QED
    BY <1>3, <1>5, <1>6, <1>8, <1>11, <1>12, <1>13, <2>1
<1>15. ll = w
  BY <1>14, SeqEqual
<1> QED
  BY <1>6, <1>7, <1>13, <1>15

LEMMA ListLog ==
    ASSUME TypeOK, NEW n \in Nat, DOMAIN changes = 0..n - 1
    PROVE  /\ Len(LogOf(changes)) = n /\ DOMAIN LogOf(changes) = 1..n
           /\ \A i \in 1..n : i - 1 \in DOMAIN changes
                              /\ LogOf(changes)[i].steps = changes[i - 1].steps
<1>1. PICK list : list = changes
  OBVIOUS
<1>2. DOMAIN list = 0..n - 1 /\ \A k \in 0..n - 1 : list[k] \in Change
  BY <1>1 DEF TypeOK
<1>3. /\ Len(LogOf(list)) = n /\ DOMAIN LogOf(list) = 1..n
      /\ \A i \in 1..n : i - 1 \in DOMAIN list /\ LogOf(list)[i].steps = list[i - 1].steps
  BY <1>2, LogIsSequence
<1> QED
  BY <1>1, <1>3

\* What an author has read, by what it last applied.
LEMMA SeenSame ==
    ASSUME UNCHANGED mostRecentRemoteKey, \A w \in Writers : writer'[w].key = writer[w].key
    PROVE  UNCHANGED SeenOf
BY DEF SeenOf, Authors

LEMMA SeenByClient ==
    ASSUME TypeOK, NEW c \in Clients, NEW k,
           mostRecentRemoteKey' = [mostRecentRemoteKey EXCEPT ![c] = k], UNCHANGED writer
    PROVE  SeenOf' = [SeenOf EXCEPT ![c] = k + 1] /\ SeenOf[c] = mostRecentRemoteKey[c] + 1
<1>1. \A d \in Clients : mostRecentRemoteKey'[d] = IF d = c THEN k ELSE mostRecentRemoteKey[d]
  BY DEF TypeOK
<1>2. SeenOf[c] = mostRecentRemoteKey[c] + 1 /\ c \in Authors
  BY DEF SeenOf, Authors
<1>3. SeenOf'[c] = k + 1
  BY <1>1 DEF SeenOf, Authors
<1>4. ASSUME NEW a \in Authors, a # c PROVE SeenOf'[a] = SeenOf[a]
  <2>1. CASE a \in Clients
    BY <1>1, <1>4, <2>1 DEF SeenOf, Authors
  <2>2. CASE a \notin Clients
    BY <2>2 DEF SeenOf, Authors
  <2> QED
    BY <2>1, <2>2
<1>5. SeenOf = [a \in Authors |-> SeenOf[a]] /\ SeenOf' = [a \in Authors |-> SeenOf'[a]]
  BY DEF SeenOf
<1> QED
  BY <1>2, <1>3, <1>4, <1>5

LEMMA SeenByWriter ==
    ASSUME TypeOK, NEW w \in Writers, NEW k, UNCHANGED mostRecentRemoteKey,
           \A v \in Writers : writer'[v].key = IF v = w THEN k ELSE writer[v].key
    PROVE  SeenOf' = [SeenOf EXCEPT ![w] = k + 1] /\ SeenOf[w] = writer[w].key + 1
<1>1. w \notin Clients
  BY AuthorsAssumption
<1>2. SeenOf[w] = writer[w].key + 1 /\ w \in Authors
  BY <1>1 DEF SeenOf, Authors
<1>3. SeenOf'[w] = k + 1
  BY <1>1 DEF SeenOf, Authors
<1>4. ASSUME NEW a \in Authors, a # w PROVE SeenOf'[a] = SeenOf[a]
  <2>1. CASE a \in Clients
    BY <2>1 DEF SeenOf, Authors
  <2>2. CASE a \notin Clients
    BY <1>4, <2>2 DEF SeenOf, Authors
  <2> QED
    BY <2>1, <2>2
<1>5. SeenOf = [a \in Authors |-> SeenOf[a]] /\ SeenOf' = [a \in Authors |-> SeenOf'[a]]
  BY DEF SeenOf
<1> QED
  BY <1>2, <1>3, <1>4, <1>5

\* Reading on, to a key of the list.
LEMMA ReadOn ==
    ASSUME TypeOK, ListFinite, NEW a \in Authors, NEW k \in Reached, UNCHANGED changes,
           SeenOf[a] \in Int, SeenOf[a] <= k + 1, SeenOf' = [SeenOf EXCEPT ![a] = k + 1]
    PROVE  Log!Read(a)
<1>1. PICK n \in Nat : DOMAIN changes = 0..n - 1
  BY DEF ListFinite
<1>2. Len(LogOf(changes)) = n
  BY <1>1, ListLog
<1>3. k \in Int /\ k + 1 <= n
  BY <1>1 DEF Reached, EmptyKey
<1>4. k + 1 \in SeenOf[a]..Len(LogOf(changes))
  BY <1>2, <1>3
<1>5. UNCHANGED LogOf(changes)
  OBVIOUS
<1>6. \E m \in SeenOf[a]..Len(LogOf(changes)) : SeenOf' = [SeenOf EXCEPT ![a] = m]
  BY <1>4
<1> QED
  BY <1>5, <1>6, Zenon DEF Log!Read, LogOf, SeenOf, Authors

\* Adding a change, by an author that has read the list to its end.
LEMMA PublishOn ==
    ASSUME IsFiniteSet(Steps), TypeOK, ListFinite, ListOnce',
           NEW a \in Authors, NEW k \in Keys, k \notin DOMAIN changes, k - 1 \in Reached,
           NEW steps \in Docs, NEW base \in Docs, Put(k, a, steps, base), steps # <<>>,
           SeenOf[a] = k, UNCHANGED SeenOf
    PROVE  Log!Publish(a)
<1>1. k \in Nat /\ DOMAIN changes = 0..k - 1
  BY NextIsLast DEF Keys
<1>2. /\ DOMAIN changes' = DOMAIN changes \cup {k}
      /\ \A j \in DOMAIN changes : changes'[j] = changes[j]
      /\ changes'[k].cId = a /\ changes'[k].steps = steps
  <2>1. /\ TypeOK /\ k \in Keys /\ k \notin DOMAIN changes /\ k - 1 \in Reached
        /\ Put(k, a, steps, base)
    OBVIOUS
  <2> QED
    BY ONLY <2>1, PutKeeps
<1>3. \A j \in DOMAIN changes' : changes'[j] \in Change
  BY PutType DEF Authors
<1>4. PICK list, longer : list = changes /\ longer = changes'
  OBVIOUS
<1>5. /\ DOMAIN list = 0..k - 1 /\ DOMAIN longer = 0..k
      /\ \A j \in 0..k : longer[j] \in Change
      /\ \A j \in 0..k - 1 : longer[j] = list[j]
      /\ longer[k].cId = a /\ longer[k].steps = steps
  <2>1. DOMAIN longer = 0..k
    BY <1>1, <1>2, <1>4
  <2> QED
    BY <1>1, <1>2, <1>3, <1>4, <2>1
<1>6. LogOf(longer) = Append(LogOf(list), [author |-> a, steps |-> steps])
  <2>1. LogOf(longer) =
          Append(LogOf(list), [author |-> longer[k].cId, steps |-> longer[k].steps])
    BY <1>1, <1>5, LogGrows
  <2> QED
    BY <1>5, <2>1
<1>7. LogOf(changes)' = Append(LogOf(changes), [author |-> a, steps |-> steps])
  BY <1>4, <1>6
<1>8. /\ Len(LogOf(changes)) = k /\ DOMAIN LogOf(changes) = 1..k
      /\ \A i \in 1..k : i - 1 \in DOMAIN changes
                         /\ LogOf(changes)[i].steps = changes[i - 1].steps
  BY <1>1, ListLog
<1>9. /\ Distinct(steps)
      /\ \A j \in DOMAIN changes : Elements(changes[j].steps) \cap Elements(steps) = {}
  BY <1>2 DEF ListOnce, ChangeOnce
<1>10. Len(steps) \in 1..Cardinality(Steps)
  <2>1. Len(steps) \in Nat /\ Len(steps) # 0
    BY DEF Docs
  <2>2. Len(steps) <= Cardinality(Steps) /\ Cardinality(Steps) \in Nat
    BY <1>9, DistinctLength, FS_CardinalityType
  <2> QED
    BY <2>1, <2>2
<1>11. PICK n \in 1..Cardinality(Steps) : n = Len(steps)
  BY <1>10
<1>12. steps \in [1..n -> Steps] /\ DOMAIN steps = 1..n
  BY <1>11 DEF Docs
<1>13. ASSUME NEW j \in 1..n PROVE ~Log!Logged(steps[j])
  <2>1. steps[j] \in Elements(steps)
    BY <1>12 DEF Elements
  <2>2. ASSUME NEW i \in DOMAIN LogOf(changes),
               NEW l \in DOMAIN LogOf(changes)[i].steps
        PROVE  LogOf(changes)[i].steps[l] # steps[j]
    <3>1. i - 1 \in DOMAIN changes /\ LogOf(changes)[i].steps = changes[i - 1].steps
      BY <1>8, <2>2
    <3>2. LogOf(changes)[i].steps[l] \in Elements(changes[i - 1].steps)
      BY <2>2, <3>1 DEF Elements
    <3> QED
      BY <1>9, <2>1, <3>1, <3>2
  <2> QED
    BY <2>2, Zenon DEF Log!Logged, LogOf
<1>14. steps \in [1..n -> {s \in Steps : ~Log!Logged(s)}]
  BY <1>12, <1>13
<1>15. \A i, j \in 1..n : steps[i] = steps[j] => i = j
  BY <1>9, <1>12 DEF Distinct
<1>16. SeenOf[a] = Len(LogOf(changes))
  BY <1>8
<1> QED
  BY <1>7, <1>14, <1>15, <1>16, Zenon DEF Log!Publish, LogOf, SeenOf, Authors

LEMMA LogInit == Init => Log!LogInit
<1> SUFFICES ASSUME Init PROVE Log!LogInit
  OBVIOUS
<1>1. DOMAIN changes = {}
  BY DEF Init
<1>2. Cardinality(DOMAIN changes) = 0
  BY <1>1, FS_EmptySet
<1>3. LogOf(changes) = <<>>
  BY <1>2 DEF LogOf
<1>4. SeenOf = [a \in Authors |-> 0]
  BY DEF Init, SeenOf, Authors, EmptyKey
<1> QED
  BY <1>3, <1>4, Zenon DEF Log!LogInit, LogOf, SeenOf, Authors

\* A step that adds nothing to the list and lets nobody read on.
LEMMA LogStutter ==
    ASSUME UNCHANGED <<changes, mostRecentRemoteKey>>,
           \A w \in Writers : writer'[w].key = writer[w].key
    PROVE  UNCHANGED Log!logVars
<1>1. UNCHANGED LogOf(changes) /\ UNCHANGED SeenOf
  BY SeenSame
<1> QED
  BY <1>1, Zenon DEF Log!logVars, LogOf, SeenOf, Authors

\* Opening, loading, applying a change and passing it over are reading on.
LEMMA ClientReads ==
    ASSUME DraftInv, OnceInv, NEW c \in Clients,
           OpenPage(c) \/ LoadDocument(c) \/ ProcessKeyable(c) \/ SkipKeyable(c)
    PROVE  Log!Read(c) \/ UNCHANGED Log!logVars
<1>1. TypeOK /\ ListFinite /\ mostRecentRemoteKey[c] \in Reached /\ c \in Authors
  BY DEF DraftInv, KeysReached, OnceInv, Authors
<1>2. \A k \in Reached : k \in Int /\ (k = EmptyKey \/ k \in DOMAIN changes) /\ k >= EmptyKey
  BY <1>1 DEF TypeOK, Keys, Reached, EmptyKey
<1>3. UNCHANGED <<changes, writer>>
  BY DEF OpenPage, LoadDocument, ProcessKeyable, SkipKeyable
<1>4. CASE UNCHANGED mostRecentRemoteKey
  BY <1>3, <1>4, LogStutter
<1>5. ASSUME NEW k \in Reached, mostRecentRemoteKey[c] <= k,
             mostRecentRemoteKey' = [mostRecentRemoteKey EXCEPT ![c] = k]
      PROVE  Log!Read(c)
  <2>1. SeenOf' = [SeenOf EXCEPT ![c] = k + 1] /\ SeenOf[c] = mostRecentRemoteKey[c] + 1
    BY <1>1, <1>3, <1>5, SeenByClient
  <2>2. SeenOf[c] \in Int /\ SeenOf[c] <= k + 1
    BY <1>1, <1>2, <1>5, <2>1
  <2> QED
    BY <1>1, <1>3, <2>1, <2>2, ReadOn
<1>6. CASE OpenPage(c) \/ LoadDocument(c)
  <2>1. UNCHANGED mostRecentRemoteKey \/
        \E k \in Reached :
          /\ mostRecentRemoteKey' = [mostRecentRemoteKey EXCEPT ![c] = k]
          /\ \A j \in DOMAIN changes : j <= k
    BY <1>6 DEF OpenPage, LoadDocument, IsLatest, Reached
  <2>2. ASSUME NEW k \in Reached,
               mostRecentRemoteKey' = [mostRecentRemoteKey EXCEPT ![c] = k],
               \A j \in DOMAIN changes : j <= k
        PROVE  Log!Read(c)
    BY <1>1, <1>2, <1>5, <2>2
  <2> QED
    BY <1>4, <2>1, <2>2
<1>7. CASE ProcessKeyable(c) \/ (SkipKeyable(c) /\ mostRecentRemoteKey' # mostRecentRemoteKey)
  <2>1. processing[c] /\ pending[c] # <<>>
    BY <1>7 DEF ProcessKeyable, SkipKeyable
  <2>2. PICK K \in DOMAIN changes :
          Stored(Head(pending[c]), K) /\ K > mostRecentRemoteKey[c]
    BY <2>1, HeadStored
  <2>3. mostRecentRemoteKey' = [mostRecentRemoteKey EXCEPT ![c] = K]
    BY <1>7, <2>2 DEF ProcessKeyable, SkipKeyable, AppliedKey, Stored
  <2>4. K \in Reached /\ mostRecentRemoteKey[c] <= K
    BY <1>1, <1>2, <2>2 DEF Reached
  <2> QED
    BY <1>5, <2>3, <2>4
<1> QED
  BY <1>4, <1>6, <1>7

LEMMA WriterReads ==
    ASSUME DraftInv, OnceInv, NEW w \in Writers, FetchDoc(w)
    PROVE  Log!Read(w)
<1>1. TypeOK /\ ListFinite /\ writer[w].key \in Reached /\ w \in Authors
  BY DEF DraftInv, KeysReached, OnceInv, Authors
<1>2. \A k \in Reached : k \in Int /\ (k = EmptyKey \/ k \in DOMAIN changes) /\ k >= EmptyKey
  BY <1>1 DEF TypeOK, Keys, Reached, EmptyKey
<1>3. PICK k \in Reached :
        /\ writer' = [writer EXCEPT ![w] = [status |-> "fetched", key |-> k]]
        /\ \A j \in DOMAIN changes : j <= k
  BY DEF FetchDoc, IsLatest, Reached
<1>4. UNCHANGED <<changes, mostRecentRemoteKey>>
  BY DEF FetchDoc, sessionVars
<1>5. \A v \in Writers : writer'[v].key = IF v = w THEN k ELSE writer[v].key
  BY <1>1, <1>3 DEF TypeOK
<1>6. SeenOf' = [SeenOf EXCEPT ![w] = k + 1] /\ SeenOf[w] = writer[w].key + 1
  BY <1>1, <1>4, <1>5, SeenByWriter
<1>7. SeenOf[w] \in Int /\ SeenOf[w] <= k + 1
  BY <1>1, <1>2, <1>3, <1>6
<1> QED
  BY <1>1, <1>4, <1>6, <1>7, ReadOn

\* A transaction that finds its key free publishes; one that does not, changes nothing.
LEMMA ClientPublishes ==
    ASSUME IsFiniteSet(Steps), DraftInv, OnceInv, ListOnce', NEW c \in Clients,
           TxReachesFirebase(c)
    PROVE  Log!Publish(c) \/ UNCHANGED Log!logVars
<1>1. /\ TypeOK /\ ListFinite /\ tx[c].steps # <<>> /\ TxOK(c)
      /\ tx[c] # NoTx /\ c \in Authors
      /\ UNCHANGED <<mostRecentRemoteKey, writer>>
  BY DEF DraftInv, OnceInv, SessionsOnce, TxReachesFirebase, TxSound, Authors
<1>2. PICK k \in Keys, steps \in Docs, base \in Docs :
        k = tx[c].key /\ steps = tx[c].steps /\ base = tx[c].base
  <2>1. tx[c] \in Transaction
    BY <1>1 DEF TypeOK
  <2> QED
    BY <2>1 DEF Transaction
<1>3. k - 1 \in Reached
  BY <1>1, <1>2 DEF TxOK
<1>4. CASE UNCHANGED changes
  BY <1>1, <1>4, LogStutter
<1>5. CASE k \notin DOMAIN changes /\ Put(k, c, steps, base)
  <2>1. k = mostRecentRemoteKey[c] + 1
    BY <1>1, <1>2, <1>5 DEF TxOK
  <2>2. SeenOf[c] = k /\ UNCHANGED SeenOf
    BY <1>1, <2>1, SeenSame DEF SeenOf
  <2>3. steps # <<>>
    BY <1>1, <1>2
  <2> QED
    BY <1>1, <1>3, <1>5, <2>2, <2>3, PublishOn
<1> QED
  BY <1>2, <1>4, <1>5 DEF TxReachesFirebase, KeyTaken

LEMMA WriterPublishes ==
    ASSUME IsFiniteSet(Steps), DraftInv, OnceInv, ListOnce', NEW w \in Writers,
           WriteChange(w)
    PROVE  Log!Publish(w) \/ UNCHANGED Log!logVars
<1>1. /\ TypeOK /\ ListFinite /\ writer[w].key \in Reached /\ w \in Authors /\ w \notin Clients
      /\ UNCHANGED mostRecentRemoteKey
  BY AuthorsAssumption DEF DraftInv, KeysReached, OnceInv, Authors, WriteChange, sessionVars
<1>2. \A v \in Writers : writer'[v].key = writer[v].key
  BY DEF WriteChange, DraftInv, TypeOK
<1>3. PICK k \in Keys : k = NextKey(writer[w].key) /\ k - 1 = writer[w].key /\ k = writer[w].key + 1
  <2>1. writer[w].key \in Keys \cup {EmptyKey}
    BY <1>1 DEF TypeOK, Reached
  <2> QED
    BY <2>1 DEF NextKey, Keys, EmptyKey
<1>4. CASE UNCHANGED changes
  BY <1>1, <1>2, <1>4, LogStutter
<1>5. ASSUME NEW s \in Steps, k \notin DOMAIN changes, Put(k, w, <<s>>, DocAt(k - 1))
      PROVE  Log!Publish(w)
  <2>1. PICK steps \in Docs, base \in Docs : steps = <<s>> /\ base = DocAt(k - 1)
    <3>1. DocAt(k - 1) \in Docs /\ <<s>> \in Docs
      BY <1>1, <1>3, DocAtType DEF Docs
    <3> QED
      BY <3>1
  <2>2. SeenOf[w] = k /\ UNCHANGED SeenOf
    BY <1>1, <1>2, <1>3, SeenSame DEF SeenOf
  <2>3. k - 1 \in Reached /\ Put(k, w, steps, base) /\ steps # <<>>
    BY <1>1, <1>3, <1>5, <2>1
  <2> QED
    BY <1>1, <1>5, <2>2, <2>3, PublishOn
<1> QED
  BY <1>3, <1>4, <1>5 DEF WriteChange, KeyTaken

LEMMA LogStep ==
    ASSUME IsFiniteSet(Steps), DraftInv, OnceInv, ListOnce', [Next]_vars
    PROVE  [Log!LogNext]_(Log!logVars)
<1>1. ASSUME NEW c \in Clients, OpenPage(c) \/ LoadDocument(c) \/ ProcessKeyable(c)
             \/ SkipKeyable(c)
      PROVE  Log!Read(c) \/ UNCHANGED Log!logVars
  BY <1>1, ClientReads
<1>2. ASSUME NEW c \in Clients, TxReachesFirebase(c)
      PROVE  Log!Publish(c) \/ UNCHANGED Log!logVars
  BY <1>2, ClientPublishes
<1>3. ASSUME NEW c \in Clients,
             Edit(c) \/ TxAnswerLost(c) \/ TxResolves(c) \/ TxRejects(c)
             \/ ReceiveCollabChanges(c) \/ FinishProcessing(c) \/ Destroy(c) \/ Exit(c)
      PROVE  UNCHANGED Log!logVars
  <2>1. UNCHANGED <<changes, mostRecentRemoteKey, writer>>
    BY <1>3 DEF Edit, TxAnswerLost, TxResolves, TxRejects, ReceiveCollabChanges,
       FinishProcessing, Destroy, Exit
  <2> QED
    BY <2>1, LogStutter
<1>4. ASSUME NEW w \in Writers, FetchDoc(w) PROVE Log!Read(w)
  BY <1>4, WriterReads
<1>5. ASSUME NEW w \in Writers, WriteChange(w) PROVE Log!Publish(w) \/ UNCHANGED Log!logVars
  BY <1>5, WriterPublishes
<1>6. CASE UNCHANGED vars
  BY <1>6, LogStutter DEF vars
<1> QED
  BY <1>1, <1>2, <1>3, <1>4, <1>5, <1>6 DEF Next, Log!LogNext

\* ImplementsDraftLog: the protocol of optimistic keys, aborted transactions and
\* resends is an atomic append by an author that has read the whole list.
THEOREM DraftImplementsLog == IsFiniteSet(Steps) => (Spec => ImplementsDraftLog)
<1> SUFFICES ASSUME IsFiniteSet(Steps) PROVE Spec => ImplementsDraftLog
  OBVIOUS
<1>1. Init => Log!LogInit
  BY LogInit
<1>2. DraftInv /\ OnceInv /\ (DraftInv /\ OnceInv)' /\ [Next]_vars => [Log!LogNext]_(Log!logVars)
  BY LogStep DEF OnceInv
<1> QED
  BY <1>1, <1>2, OnceInvariant, PTL DEF Spec, ImplementsDraftLog, Log!LogSpec
============================================================================
