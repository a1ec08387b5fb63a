---------------------------- MODULE DraftStorage ----------------------------
(***************************************************************************)
(* Where the content of a draft lives.  The list of changes is in Firebase *)
(* (CollabDraft says how it grows); Postgres holds checkpoint rows, each a *)
(* document and its key, that clients post as they edit.  tools/           *)
(* coldStorage.ts, run weekly, moves an inactive draft to its row and      *)
(* wipes Firebase; from then on the changes before the row's key exist     *)
(* nowhere, and step maps kept in the row stand for them when a release    *)
(* maps the discussion anchors of the release before it.                   *)
(*                                                                         *)
(* One change is one edit, numbered in the order of the commits.  A        *)
(* document is the sequence of its edits.  A position (a discussion anchor)*)
(* is represented by the document in which it is right: mapping it through *)
(* an edit appends that edit.  Positions of discussions kept in Firebase   *)
(* next to the changes are not part of this module.                        *)
(***************************************************************************)
EXTENDS Integers, Sequences, FiniteSets

CONSTANTS
    Pages,      \* browser sessions on the draft
    Posts,      \* POST /api/draftCheckpoint requests under way at a time
    Requests,   \* requests for a version: the history view, a release
    MaxEdits, MaxFreezes, MaxReleases,  \* bounds on the run
    SaveEvery   \* saveEveryNSteps

ASSUME BoundsAssumption == {MaxEdits, MaxFreezes, MaxReleases} \subseteq Nat
ASSUME SaveEveryAssumption == SaveEvery \in Nat \ {0}

VARIABLES
    changes,    \* Firebase: key -> edit
    rows,       \* Postgres: the DraftCheckpoint rows of the draft
    history,    \* the edits in the order Firebase accepted them
    latestKeyAtRecent, \* Draft.latestKeyAt is within the threshold of cold storage
    page, post, request,
    releases,   \* the Release rows, in the order they were created
    anchors,    \* DiscussionAnchor rows of the one discussion
    freezer,    \* the progress of freezeDraft
    frozenTo,   \* the last key that has been wiped from Firebase
    unmapped,   \* history: the wiped keys up to which a failed gathering left no step maps
    harm        \* history: what has gone wrong between cold storage and the others

vars == <<changes, rows, history, latestKeyAtRecent, page, post, request,
          releases, anchors, freezer, frozenTo, unmapped, harm>>
----------------------------------------------------------------------------
EmptyKey == -1
Latest == MaxEdits                 \* the bound Infinity: no key is as large
Edits == 1..MaxEdits
Docs == Seq(Edits)
NoRow == [historyKey |-> EmptyKey, doc |-> <<>>, stepMaps |-> <<>>, stepMapToKey |-> EmptyKey]

\* The document after the change at key k (what a reader of version k is due).
HistoryAt(k) == SubSeq(history, 1, k + 1)

Largest(S, default) == IF S = {} THEN default ELSE CHOOSE k \in S : \A j \in S : j <= k
KeysIn(from, to) == {k \in DOMAIN changes : from <= k /\ k <= to}

\* getStepsInChangeRange and the range queries: whatever exists, in key order.
StepsInRange(from, to) ==
    LET keys == KeysIn(from, to)
    IN [i \in 1..Cardinality(keys) |->
          changes[CHOOSE k \in keys : Cardinality({j \in keys : j <= k}) = i]]

\* getFirebaseDoc.  Firebase holds no checkpoint: clients write them to Postgres.
FirebaseDoc(version) == [doc |-> StepsInRange(0, version),
                         key |-> Largest(KeysIn(0, version), EmptyKey)]

\* applyFirebaseChangesOnDoc
OnCheckpoint(row, version) ==
    [doc |-> row.doc \o StepsInRange(row.historyKey + 1, version),
     key |-> Largest(KeysIn(row.historyKey + 1, version), row.historyKey)]

\* getPubDraftDoc, once it has read the row: the row is of use from its key on.
RowServesAny(row, version) == row # NoRow
RowServes(row, version) == row # NoRow /\ version >= row.historyKey
DraftDoc(row, version) == IF RowServes(row, version) THEN OnCheckpoint(row, version)
                                                     ELSE FirebaseDoc(version)

\* getDraftCheckpoint: findOne without an order returns any row there is.
RowRead == IF rows = <<>> THEN {NoRow} ELSE {rows[i] : i \in DOMAIN rows}

LatestRelease == Largest({releases[i].historyKey : i \in DOMAIN releases}, EmptyKey)

NoPage == [status |-> "closed", row |-> NoRow, key |-> EmptyKey, doc |-> <<>>]
NoPost == [status |-> "idle", historyKey |-> EmptyKey, doc |-> <<>>, found |-> 0,
           foundKey |-> EmptyKey]
NoRequest == [status |-> "idle", release |-> FALSE, version |-> EmptyKey,
              previous |-> EmptyKey, row |-> NoRow, doc |-> <<>>]
NoFreeze == [status |-> "idle", row |-> NoRow, key |-> EmptyKey, doc |-> <<>>,
             stepMaps |-> <<>>, stepMapToKey |-> EmptyKey, failed |-> FALSE, runs |-> 0]

Init ==
    /\ changes = [k \in {} |-> 0]
    /\ rows = <<>>
    /\ history = <<>>
    /\ latestKeyAtRecent = FALSE
    /\ page = [c \in Pages |-> NoPage]
    /\ post = [p \in Posts |-> NoPost]
    /\ request = [r \in Requests |-> NoRequest]
    /\ releases = <<>>
    /\ anchors = {}
    /\ freezer = NoFreeze
    /\ frozenTo = EmptyKey
    /\ unmapped = {}
    /\ harm = {}

Freezing == freezer.status # "idle"

\* The key that a freeze has put in the row as well, or last wiped Firebase up to.
FrozenKey == IF freezer.status = "stored" THEN freezer.key ELSE frozenTo
----------------------------------------------------------------------------
(* A page: the server reads the row, then the changes; then it is live. *)

ReadRow(c) ==
    /\ page[c].status = "closed"
    /\ \E row \in RowRead :
         page' = [page EXCEPT ![c] = [NoPage EXCEPT !.status = "loading", !.row = row]]
    /\ UNCHANGED <<changes, rows, history, latestKeyAtRecent, post, request,
                   releases, anchors, freezer, frozenTo, unmapped, harm>>

\* getPubFirebaseDraft notes the time of the latest change: of the newest child of
\* Firebase, or of the row when Firebase is empty.  Time is not counted: any change
\* may be within the threshold.
Dated(row) == DOMAIN changes # {} \/ row.doc # <<>>

OpenPage(c) ==
    /\ page[c].status = "loading"
    /\ LET row == page[c].row
           loaded == DraftDoc(row, Latest)
       IN /\ page' = [page EXCEPT ![c] = [NoPage EXCEPT !.status = "open",
                                            !.key = loaded.key, !.doc = loaded.doc]]
          /\ IF Dated(row) THEN latestKeyAtRecent' \in BOOLEAN
                           ELSE UNCHANGED latestKeyAtRecent
    /\ UNCHANGED <<changes, rows, history, post, request, releases, anchors,
                   freezer, frozenTo, unmapped, harm>>

Receive(c) ==
    /\ page[c].status = "open"
    /\ page[c].key + 1 \in DOMAIN changes
    /\ page' = [page EXCEPT ![c].key = @ + 1,
                            ![c].doc = Append(@, changes[page[c].key + 1])]
    /\ UNCHANGED <<changes, rows, history, latestKeyAtRecent, post, request,
                   releases, anchors, freezer, frozenTo, unmapped, harm>>

\* An edit goes to the key after the page's, when Firebase has no child there.
\* Every saveEveryNSteps-th key the page posts a checkpoint, which may get lost.
Edit(c) ==
    /\ page[c].status = "open"
    /\ Len(history) < MaxEdits
    /\ LET k == page[c].key + 1
           e == Len(history) + 1
           doc == Append(page[c].doc, e)
       IN /\ k \notin DOMAIN changes
          /\ changes' = [j \in DOMAIN changes \cup {k} |-> IF j = k THEN e ELSE changes[j]]
          /\ history' = Append(history, e)
          /\ page' = [page EXCEPT ![c].key = k, ![c].doc = doc]
          /\ \/ UNCHANGED post
             \/ /\ k % SaveEvery = 0
                /\ \E p \in Posts :
                     /\ post[p].status = "idle"
                     /\ post' = [post EXCEPT ![p] = [NoPost EXCEPT !.status = "sent",
                                                       !.historyKey = k, !.doc = doc]]
    /\ UNCHANGED <<rows, latestKeyAtRecent, request, releases, anchors, freezer, frozenTo,
                   unmapped, harm>>

ClosePage(c) ==
    /\ page[c].status = "open"
    /\ page' = [page EXCEPT ![c] = NoPage]
    /\ UNCHANGED <<changes, rows, history, latestKeyAtRecent, post, request,
                   releases, anchors, freezer, frozenTo, unmapped, harm>>

\* The threshold of cold storage goes by.
DaysPass ==
    /\ latestKeyAtRecent
    /\ latestKeyAtRecent' = FALSE
    /\ UNCHANGED <<changes, rows, history, page, post, request, releases, anchors,
                   freezer, frozenTo, unmapped, harm>>
----------------------------------------------------------------------------
(* upsertDraftCheckpoint, for a client: find, then update or create. *)

FindRow(p) ==
    /\ post[p].status = "sent"
    /\ \E i \in IF rows = <<>> THEN {0} ELSE DOMAIN rows :
         post' = [post EXCEPT ![p].status = "found", ![p].found = i,
                    ![p].foundKey = IF i = 0 THEN EmptyKey ELSE rows[i].historyKey]
    /\ UNCHANGED <<changes, rows, history, latestKeyAtRecent, page, request,
                   releases, anchors, freezer, frozenTo, unmapped, harm>>

\* The key is compared with that of the instance found, and the update is by id: it
\* is made whatever the row has become.  Fields of cold storage are left alone.
WithDocOnly(row, historyKey, doc) == [row EXCEPT !.doc = doc]
WithCheckpoint(row, historyKey, doc) == [row EXCEPT !.historyKey = historyKey, !.doc = doc]

CreateRow(p) ==
    /\ post[p].status = "found" /\ post[p].found = 0
    /\ rows' = Append(rows, [NoRow EXCEPT !.historyKey = post[p].historyKey,
                                          !.doc = post[p].doc])
    /\ harm' = IF rows # <<>> /\ frozenTo # EmptyKey THEN harm \cup {"twoRows"} ELSE harm
    /\ post' = [post EXCEPT ![p] = NoPost]
    /\ UNCHANGED <<changes, history, latestKeyAtRecent, page, request, releases,
                   anchors, freezer, frozenTo, unmapped>>

UpdateRow(p) ==
    /\ post[p].status = "found" /\ post[p].found # 0
    /\ IF post[p].historyKey > post[p].foundKey
       THEN /\ rows' = [rows EXCEPT ![post[p].found] =
                           WithCheckpoint(@, post[p].historyKey, post[p].doc)]
            /\ harm' = IF post[p].historyKey < FrozenKey THEN harm \cup {"rowSetBack"}
                                                         ELSE harm
       ELSE UNCHANGED <<rows, harm>>
    /\ post' = [post EXCEPT ![p] = NoPost]
    /\ UNCHANGED <<changes, history, latestKeyAtRecent, page, request, releases,
                   anchors, freezer, frozenTo, unmapped>>
----------------------------------------------------------------------------
(* A version is asked for: by the history view, or by createRelease at the    *)
(* latest key its page knows.                                                 *)

AskForVersion(r) ==
    /\ request[r].status = "idle"
    /\ \E c \in Pages, version \in 0..MaxEdits - 1, release \in BOOLEAN, row \in RowRead :
         /\ page[c].status = "open" /\ version <= page[c].key
         /\ release => /\ version = page[c].key /\ version # LatestRelease
                       /\ Len(releases) < MaxReleases
         /\ request' = [request EXCEPT ![r] =
                          [NoRequest EXCEPT !.status = "asked", !.release = release,
                             !.version = version, !.previous = LatestRelease, !.row = row]]
    /\ UNCHANGED <<changes, rows, history, latestKeyAtRecent, page, post,
                   releases, anchors, freezer, frozenTo, unmapped, harm>>

ReadVersion(r) ==
    /\ request[r].status = "asked"
    /\ request' = [request EXCEPT ![r].status = "read",
                     ![r].doc = DraftDoc(request[r].row, request[r].version).doc]
    /\ UNCHANGED <<changes, rows, history, latestKeyAtRecent, page, post,
                   releases, anchors, freezer, frozenTo, unmapped, harm>>

FinishView(r) ==
    /\ request[r].status = "read" /\ ~request[r].release
    /\ request' = [request EXCEPT ![r] = NoRequest]
    /\ UNCHANGED <<changes, rows, history, latestKeyAtRecent, page, post,
                   releases, anchors, freezer, frozenTo, unmapped, harm>>

\* createDiscussionAnchorsForRelease: the anchors of the previous release mapped
\* to this one, through the steps Firebase has, or else through the step maps of
\* the row composed with the changes after them.
MapsForReleaseFromPrevious(row, previous, version) == {StepsInRange(previous, version)}
MapsForRelease(row, previous, version) ==
    LET steps == StepsInRange(previous + 1, version) IN
    IF steps # <<>> THEN {steps}
    ELSE IF row.stepMaps = <<>> THEN {}
    ELSE {row.stepMaps \o StepsInRange(row.stepMapToKey + 1, version)}

MappedAnchors(row, previous, version) ==
    {[historyKey |-> version, at |-> a.at \o maps] :
        a \in {x \in anchors : previous # EmptyKey /\ x.historyKey = previous},
        maps \in MapsForRelease(row, previous, version)}

\* The transaction of createRelease.
CreateRelease(r) ==
    /\ request[r].status = "read" /\ request[r].release
    /\ LET v == request[r].version
           previous == request[r].previous
           passed == IF freezer.status = "gathered" THEN freezer.key ELSE FrozenKey
       IN /\ releases' = Append(releases, [historyKey |-> v, doc |-> request[r].doc])
          /\ \E row \in RowRead :
               anchors' = anchors \cup MappedAnchors(row, previous, v)
          /\ harm' = IF v < passed THEN harm \cup {"lateRelease"} ELSE harm
    /\ request' = [request EXCEPT ![r] = NoRequest]
    /\ UNCHANGED <<changes, rows, history, latestKeyAtRecent, page, post,
                   freezer, frozenTo, unmapped>>

\* A reader of a release starts the discussion: its anchor is a position in the
\* document of that release.
CreateDiscussion ==
    /\ anchors = {}
    /\ \E i \in DOMAIN releases :
         anchors' = {[historyKey |-> releases[i].historyKey, at |-> releases[i].doc]}
    /\ UNCHANGED <<changes, rows, history, latestKeyAtRecent, page, post,
                   request, releases, freezer, frozenTo, unmapped, harm>>
----------------------------------------------------------------------------
(* freezeDraft *)

\* The selection of main: stale by latestKeyAt, and with data in Firebase.
SelectDraft ==
    /\ freezer.status = "idle" /\ freezer.runs < MaxFreezes
    /\ ~latestKeyAtRecent /\ DOMAIN changes # {}
    /\ freezer' = [NoFreeze EXCEPT !.status = "selected", !.runs = freezer.runs]
    /\ UNCHANGED <<changes, rows, history, latestKeyAtRecent, page, post,
                   request, releases, anchors, frozenTo, unmapped, harm>>

\* getPubDraftDoc, in its two reads.
ReadRowToFreeze ==
    /\ freezer.status = "selected"
    /\ \E row \in RowRead :
         freezer' = [freezer EXCEPT !.status = "rowRead", !.row = row]
    /\ UNCHANGED <<changes, rows, history, latestKeyAtRecent, page, post,
                   request, releases, anchors, frozenTo, unmapped, harm>>

BuildDoc ==
    /\ freezer.status = "rowRead"
    /\ LET current == DraftDoc(freezer.row, Latest)
       IN freezer' = [freezer EXCEPT !.status = "built", !.key = current.key,
                                     !.doc = current.doc]
    /\ UNCHANGED <<changes, rows, history, latestKeyAtRecent, page, post,
                   request, releases, anchors, frozenTo, unmapped, harm>>

\* The step maps from the latest release: what an earlier freeze stored, then the
\* steps after it.  None when there is no release or nothing since.
StepMapsRefetched(row, key) == row.stepMaps \o StepsInRange(LatestRelease + 1, key)
StepMapsFor(row, key) ==
    LET start == IF row.stepMapToKey # EmptyKey THEN row.stepMapToKey + 1
                                                ELSE LatestRelease + 1
    IN row.stepMaps \o StepsInRange(start, key)

GatherStepMaps ==
    /\ freezer.status = "built"
    /\ IF LatestRelease # EmptyKey /\ LatestRelease < freezer.key
       THEN \/ \E row \in RowRead :
                 freezer' = [freezer EXCEPT !.status = "gathered",
                               !.stepMapToKey = freezer.key,
                               !.stepMaps = StepMapsFor(row, freezer.key)]
            \* The changes cannot be fetched or parsed: it goes on without step maps.
            \/ freezer' = [freezer EXCEPT !.status = "gathered", !.failed = TRUE]
       ELSE freezer' = [freezer EXCEPT !.status = "gathered"]
    /\ UNCHANGED <<changes, rows, history, latestKeyAtRecent, page, post,
                   request, releases, anchors, frozenTo, unmapped, harm>>

\* The wiped key at which the step maps end for good when a gathering has failed.
Unmapped(k) == IF freezer.failed /\ k # EmptyKey THEN {k} ELSE {}

\* The transaction: any row is updated in full, or the first one created.
StoreFrozen ==
    /\ freezer.status = "gathered"
    /\ LET new == [historyKey |-> freezer.key, doc |-> freezer.doc,
                   stepMaps |-> freezer.stepMaps, stepMapToKey |-> freezer.stepMapToKey]
       IN IF rows = <<>> THEN rows' = <<new>>
          ELSE \E i \in DOMAIN rows : rows' = [rows EXCEPT ![i] = new]
    /\ latestKeyAtRecent' \in BOOLEAN
    /\ freezer' = [freezer EXCEPT !.status = "stored", !.runs = @ + 1]
    /\ unmapped' = unmapped \cup Unmapped(frozenTo)
    /\ UNCHANGED <<changes, history, page, post, request, releases, anchors,
                   frozenTo, harm>>

\* What the others make of it when the changes up to a key are gone: edits made after
\* the document was read, copies from before that key, a row that was not updated.
Overtaken(k) == \/ \E c \in Pages : page[c].status = "open" /\ page[c].key < k
                \/ \E c \in Pages : page[c].status = "loading" /\ page[c].row.historyKey < k
                \/ \E r \in Requests :
                     request[r].status = "asked" /\ request[r].row.historyKey < k
Harm(k, wiped) == (IF \E j \in wiped : j > freezer.key THEN {"unreadEdits"} ELSE {})
                  \cup (IF Overtaken(k) THEN {"overtaken"} ELSE {})
                  \cup (IF Len(rows) > 1 THEN {"twoRows"} ELSE {})

\* deleteFirebasePath, after the transaction: one request; or, when that is refused
\* as too big, batches of the keys in ascending order and then the request again.
WipesWhenGathered(status) == status \in {"gathered", "stored"}
WipesAt(status) == status = "stored"

WipeBatch ==
    /\ WipesAt(freezer.status)
    /\ \E k \in DOMAIN changes :
         /\ changes' = [j \in {i \in DOMAIN changes : i > k} |-> changes[j]]
         /\ frozenTo' = k
         /\ unmapped' = unmapped \cup Unmapped(k)
         /\ harm' = harm \cup Harm(k, {i \in DOMAIN changes : i <= k})
    /\ UNCHANGED <<rows, history, latestKeyAtRecent, page, post, request,
                   releases, anchors, freezer>>

WipeFirebase ==
    /\ WipesAt(freezer.status)
    /\ changes' = [k \in {} |-> 0]
    /\ frozenTo' = freezer.key
    /\ unmapped' = unmapped \cup Unmapped(freezer.key)
    /\ harm' = harm \cup Harm(freezer.key, DOMAIN changes)
    /\ freezer' = [NoFreeze EXCEPT !.runs = freezer.runs]
    /\ UNCHANGED <<rows, history, latestKeyAtRecent, page, post, request,
                   releases, anchors>>

\* A step throws, or the process dies; a later run starts over.
FreezeFails ==
    /\ Freezing
    /\ freezer' = [NoFreeze EXCEPT !.runs = freezer.runs]
    /\ UNCHANGED <<changes, rows, history, latestKeyAtRecent, page, post,
                   request, releases, anchors, frozenTo, unmapped, harm>>
----------------------------------------------------------------------------
Next ==
    \/ \E c \in Pages : ReadRow(c) \/ OpenPage(c) \/ Receive(c) \/ Edit(c) \/ ClosePage(c)
    \/ \E p \in Posts : FindRow(p) \/ CreateRow(p) \/ UpdateRow(p)
    \/ \E r \in Requests :
         AskForVersion(r) \/ ReadVersion(r) \/ FinishView(r) \/ CreateRelease(r)
    \/ CreateDiscussion \/ DaysPass
    \/ SelectDraft \/ ReadRowToFreeze \/ BuildDoc \/ GatherStepMaps \/ StoreFrozen
    \/ WipeBatch \/ WipeFirebase \/ FreezeFails

Spec == Init /\ [][Next]_vars
----------------------------------------------------------------------------
(* Properties. *)

Keys == 0..MaxEdits - 1
Row == [historyKey : Keys, doc : Docs, stepMaps : Docs, stepMapToKey : Keys \cup {EmptyKey}]

TypeOK ==
    /\ DOMAIN changes \subseteq Keys /\ \A k \in DOMAIN changes : changes[k] \in Edits
    /\ rows \in Seq(Row)
    /\ history \in Docs /\ latestKeyAtRecent \in BOOLEAN
    /\ page \in [Pages -> [status : {"closed", "loading", "open"}, row : Row \cup {NoRow},
                            key : Keys \cup {EmptyKey}, doc : Docs]]
    /\ post \in [Posts -> [status : {"idle", "sent", "found"},
                            historyKey : Keys \cup {EmptyKey}, doc : Docs, found : Nat,
                            foundKey : Keys \cup {EmptyKey}]]
    /\ request \in [Requests -> [status : {"idle", "asked", "read"}, release : BOOLEAN,
                                  version : Keys \cup {EmptyKey},
                                  previous : Keys \cup {EmptyKey},
                                  row : Row \cup {NoRow}, doc : Docs]]
    /\ releases \in Seq([historyKey : Keys, doc : Docs])
    /\ anchors \subseteq [historyKey : Keys, at : Docs]
    /\ freezer \in [status : {"idle", "selected", "rowRead", "built", "gathered", "stored"},
                     row : Row \cup {NoRow}, key : Keys \cup {EmptyKey}, doc : Docs,
                     stepMaps : Docs, stepMapToKey : Keys \cup {EmptyKey}, failed : BOOLEAN,
                     runs : 0..MaxFreezes]
    /\ frozenTo \in Keys \cup {EmptyKey} /\ unmapped \subseteq Keys
    /\ harm \subseteq {"unreadEdits", "overtaken", "rowSetBack", "twoRows", "lateRelease"}

\* What the code does not withstand, each noted when it happens and counted once a key
\* has been wiped: a wipe takes edits made since the document was read, or leaves a
\* page, a load or a request behind, or one of two rows; a post that has found the row
\* before sets it back; a release is made of a key that a freeze has passed.
Harmless == harm = {} \/ frozenTo = EmptyKey

\* Whatever row it reads, whatever was wiped and wherever a freeze was cut short,
\* a page that loads now gets every edit Firebase ever accepted, in order.
NothingLost == Harmless => \A row \in RowRead : DraftDoc(row, Latest).doc = history

\* A live page shows the document of the key it will write after, and a row holds
\* that of its historyKey, although the row's key and document come from a client
\* or from the freezer, and are written after a read.
DocumentsFaithful ==
    Harmless =>
        /\ \A c \in Pages : page[c].status = "open" => page[c].doc = HistoryAt(page[c].key)
        /\ \A i \in DOMAIN rows : rows[i].doc = HistoryAt(rows[i].historyKey)

\* The step maps of a row are those of the edits after some release up to
\* stepMapToKey, each once, although they are put together over several freezes.
\* A gathering that fails leaves a gap that is never filled: they start after it.
StepMapsContiguous ==
    Harmless =>
        \A i \in DOMAIN rows : rows[i].stepMapToKey # EmptyKey =>
            \E j \in {releases[n].historyKey : n \in DOMAIN releases} \cup unmapped :
                rows[i].stepMaps = SubSeq(history, j + 2, rows[i].stepMapToKey + 1)

\* A version from the row's key on is read as it was; any version is, as long as
\* nothing has been frozen.
ReachableVersionsFaithful ==
    Harmless =>
        \A r \in Requests :
            /\ request[r].status = "read"
            /\ frozenTo = EmptyKey \/ request[r].version >= request[r].row.historyKey
            => request[r].doc = HistoryAt(request[r].version)

ReleasesInOrder ==
    \A i, j \in DOMAIN releases : i < j => releases[i].historyKey <= releases[j].historyKey

\* release/queries.ts:126: the anchors of a release are those of the release before
\* it mapped through every step between the two, stored step maps included.
AnchorsHold == \A a \in anchors : a.at = HistoryAt(a.historyKey)

\* The same for a draft of which nothing has been wiped, if no release is of an older
\* key than one made before it: not even a freeze cut short after it stored its step
\* maps misleads the next release.
UnfrozenAnchorsHold == frozenTo = EmptyKey /\ ReleasesInOrder => AnchorsHold
============================================================================
