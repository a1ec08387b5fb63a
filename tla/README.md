# A verification project for PubPub

PubPub is a collaborative publishing platform: an Express server over Postgres
(`server/`), a React client (`client/`), background workers fed by RabbitMQ
(`workers/`), and a real-time editor whose documents live in Firebase until
they are moved to Postgres. These TLA+ modules model the parts of it where
processes interleave, fail and repeat; TLC checks them on small instances, and
TLAPS proves the main results for every value of the constants.

## 1. The system

### Components, their state and how they interact

| component | state | operations | talks to |
|---|---|---|---|
| Collaborative draft (`client/components/Editor/plugins/collaborative`) | per session: last key applied, confirmed document, unconfirmed steps, one transaction flag, stored changes | load, edit, send (conditional write of key + 1), receive, rebase, skip, destroy | Firebase list `changes`; posts checkpoints |
| Server edits (`editFirebaseDraftByRef`; restore, abstract) | document and key read | read, conditional write or bail | the same list |
| Live discussions (`plugins/discussions`) | a position and its key per discussion, in Firebase and in each session; three keys per session | map through a transaction, store, receive, wait for a key, fast-forward | Firebase, the draft's changes |
| Draft storage (`server/draftCheckpoint`, `server/utils/firebaseAdmin.ts`) | `DraftCheckpoint` rows | upsert by clients, read of a document at a version | Postgres, Firebase |
| Cold storage (`tools/coldStorage.ts`, weekly by `tools/cron.ts`) | none of its own | select stale drafts, build document, store it, wipe Firebase | rows, `Draft.latestKeyAt`, Firebase |
| Releases and anchors (`server/release`, `server/discussionAnchor`) | `Release`, `DiscussionAnchor` rows | create a release, map the anchors of the one before | draft storage, step maps in the row |
| Worker queue (`workers/queue.ts`, `server/utils/workers.ts`) | `WorkerTask` row, message, run and thread | enqueue, deliver, count attempt, report, time out, save, acknowledge | RabbitMQ, Postgres |
| Exports (`server/export`, `workers/tasks/export`) | `Export` row: file URL, task id | find or start, store the URL | worker queue |
| Underlay push log (`server/underlayPushLog`) | `UnderlayPushLog` rows | begin, adopt, finish, fail | worker queue, web server and worker thread |
| Underlay synchronisation (`server/underlay`, `workers/tasks/pushToUnderlay.ts`) | `UnderlayPushEntry` rows, `lastManifestHash`; per push: pubs read, manifest, uploads in flight, session | hydrate, map or reuse, upload, checkpoint, diff, commit, poll, record | worker queue, Underlay server |
| DOIs and deposits (`server/doi`, `workers/tasks/redepositDois.ts`) | deposit records and their backups, results of a task | check, send in two phases, persist, read the submission log, stop | worker queue, Crossref |
| Cache purges (`utils/caching`) | per key: timer, resolver; a throttle | debounce, throttle, purge, resolve | CDN |
| Deferred tasks (`server/utils/deferred.ts`) | a count and a waiting promise | defer, finish | cache purges, mails |
| Submissions, reviews | status rows | update status, append abstract, mail | draft, deferred tasks |
| Ranks, facets | pure | find a rank; cascade props | - |

`PROJECT.json` lists all components, with those left out and why.

### What is hard

* The editor is an optimistic protocol: keys, aborts, resends and rebases, with
  own changes confirmed by count. A transaction can be committed and its answer
  lost; a page can die with one in flight; a bundle can be older than a change.
* A discussion's position is kept by every session, mapped through what each of
  them sees when it sees it, and stored by all of them under keys that lag
  behind the document.
* A draft is in two stores. Checkpoints are found and updated in separate
  queries, cold storage reads, stores and wipes without a lock, and may stop
  anywhere. What the wiped changes were must survive in a document and a list
  of step maps that several freezes add to.
* A task's message may be delivered again while the first consumer still works;
  its outcome is settled by whichever comes first of a result, an error, a
  dying thread, a timer, the attempt count. What a task keeps beside the queue
  (a file, a row of a log, a stop request) has to agree with that outcome.
* A push to Underlay reuses what earlier pushes have mapped, sends only the
  difference to a head that others move, uploads ahead of its commit, and may be
  killed, given up or repeated at any point while the server goes on committing.
* Purges are timers, resolvers and requests in flight of one process, which
  must neither forget a change nor leave a promise behind.

### What makes each component correct

* Draft: the list has no gap, is append-only, holds each step once, and every
  change was made on what precedes it; sessions agree with it; a checkpoint
  holds the document of its key; every edit gets through.
* Discussions: a copy keeps up with its session, what is stored never falls
  back to an earlier key, a position is right in the document of its key.
* Storage: no edit is ever lost to a reader, a row holds the document of its
  key, step maps neither repeat nor skip, a version is read as it was, an
  anchor is mapped through all steps between two releases.
* Queue: acknowledged means settled, a result means the task ran, one connected
  consumer per task, a settled row stays so, a task is started again only for
  a fault, every message is settled.
* Exports: a result has a file, nobody waits for a task that was never sent.
* Push log: a row that says running has someone to finish it.
* Underlay: a reused entry is what its pub maps to, its file has landed, a version
  is the manifest of its push, and what is reported as done is there.
* Redeposit: no record changes its DOI, its type, or a journal or issue that was known,
  unless an editor changes the item after its check, a stop is
  heeded across restarts, success is what Crossref said.
* Purges: every change is followed by a purge, no request is forgotten.

## 2. Modules

| module | models |
|---|---|
| `DraftLog` | abstract: an append-only log of changes; an author that has seen the whole log appends atomically |
| `CollabDraft` | the editor's protocol over Firebase, sessions and server writers; implements `DraftLog` |
| `Discussions` | the anchors of a discussion in the sessions of a live draft and in Firebase |
| `DraftStorage` | rows, loads, version reads, releases and anchors, cold storage |
| `WorkerQueue` | web server, broker, consumers, worker threads |
| `Exports` | callers and the export task; extends `WorkerQueue` |
| `PushLog` | the rows of the push log, over a queue of its own scale |
| `Redeposit` | the redeposit task, Crossref's queue, editors and the admin |
| `UnderlayPush` | the push task, its cache and uploads, the client, the Underlay server |
| `CachePurge` | deferred tasks, debouncer, throttle and purges |
| `CollabDraftProofs`, `DiscussionsProofs`, `DraftStorageProofs`, `WorkerQueueProofs`, `PushLogProofs`, `RedepositProofs`, `UnderlayPushProofs`, `CachePurgeProofs` | inductive invariants and theorems |
| `MC...` | instances for TLC: symmetry sets, parameters that are functions |

### CollabDraft

One action per handler of `plugins/collaborative/document.ts`. JavaScript runs a
handler to its end, so the loop of `processStoredKeyables` - which may itself
dispatch and start a transaction - is a sequence of `ProcessKeyable` steps
during which the session does nothing else (`processing`). Firebase's side of a
transaction is a separate step (`TxReachesFirebase`), as is the answer
(`TxResolves`), its loss (`TxAnswerLost`), and a rejection (`TxRejects`).
A step is an opaque value; a document is the sequence of the steps that made
it; a rebase keeps an arbitrary subsequence of the local steps, in order.
`changes[k].base` and `.doc` are history: what the author had, and what readers
get. `Stale` sessions cannot parse `Unreadable` steps: they reject a load, and
pass over such a change when it arrives later, before or after the key has moved
(document.ts:146-149, useEditorView.ts:61-66): they go on without it and send steps
made on what they show, so that `BasedOnPredecessor`, `SessionInSync` and
`CheckpointsFaithful` except an `Outdated` author. `confirmed` and `unconfirmed` are
prosemirror-collab's, modelled from how the plugin calls it.

Left out: the legacy `merges`, checkpoints inside Firebase (no longer written),
cursors, and status messages.

### Discussions

The keys of a session are the three the code has: `mostRecentRemoteKey` of
`document.ts`, the one the collab plugin's state shows (`stateKey`), and the one
in the discussions plugin's history (`historyKey`). `apply` of the plugin hands
over the state before the transaction, so that `NextKey` reads the second for
the first: the key lags one transaction behind (section 5). `Transaction` is
`handleTransaction` and `updateState`: the callbacks of `onReachesKey`, the
mapping, the conditional store. A position is what it has been mapped through -
how often each edit - and is right for a document if that is once for its edits
and never for others. `true` is history: no session has had the position under a
key while showing another document than that of the key.

A change has one edit and a session one unconfirmed edit at a time; `CollabDraft`
has the general protocol, and the change list grows here by the atomic append it
implements. Left out: reanchoring by hand, removal, decorations, thaw.

### DraftStorage

A change is one edit, numbered in commit order; the conditional write is one
step here, because `CollabDraft` shows that it acts as one. Every read that the
code makes before an await is a step of its own: the row then the changes of a
load, the find then the update of an upsert (`foundKey` is the key of the instance
found), the freezer's row, document, step maps, transaction and wipe, with
`FreezeFails` at each point. `findOne` without an order may return any row. A
position is represented by the document in which it is right, so that mapping it
through an edit appends that edit, and a stored step map is that edit. When the
changes cannot be fetched or parsed `GatherStepMaps` goes on without step maps
(`failed`, coldStorage.ts:418-420). `WipeBatch` and `WipeFirebase` are
`deleteFirebasePath`: one request, or batches in ascending order of which any number
is done. `latestKeyAtRecent` abstracts the dates: `DaysPass` makes everything older
than the threshold.

Nothing keeps the actors apart. What the code does not withstand is noted when it
happens, in `harm`: a wipe takes edits made since the document was read
(`unreadEdits`), leaves a page, a load or a request behind (`overtaken`) or comes
over two rows (`twoRows`, also a first row created twice); a post that found an
older row sets a frozen one back (`rowSetBack`); a release is made of a key that a
freeze has passed (`lateRelease`). The properties hold until one of these has
happened and a key has been wiped (`Harmless`). `unmapped` has the wiped keys up to
which a failed gathering left no step maps.

Left out: discussions frozen next to the changes, the dry run and `--draftId`,
legacy Firebase checkpoints, the restore's own write.

### WorkerQueue

A task has a row, at most one message, and per consumer a run and a thread. A
run's `stage` is where `processTask` stands: reading and counting the attempt,
listening, saving, acking, or stuck after the last failed save. The thread works
beside it from the moment of delivery and may report before anyone listens.
`ConnectionLost` gives the messages back while the consumer still runs;
`ExitOnClose` is the process's answer. The watchdog is two timers: `Yield`, then
`Terminate` a second later. `starts` is history: how often a task was delivered
to a thread. A save or a count
that fails may have been applied. Scaled down: 5 threads to 1, 3 retries of a save
to 2.

Left out: message priorities, JSON parsing, SIGINT draining, and the push-log
and deposit follow-ups of a failed task (`PushLog` and `Redeposit` have them).

### Exports

Extends `WorkerQueue`. A call of `getOrStartExportTask` is cut at every await:
find, create the row, create the task, send, name the task on the row. A call
whose query or publish fails ends and says so. `ExportReports` is the task's
report, which the code makes only after the URL is on the row (`AssignFile`);
`uploaded` says whether a thread has done that, and dies with it. Every step is
one of the queue's or leaves the queue alone (`ExportsUseTheQueue`, proved).
One pub, format and history key; rendering and upload are one step.

### PushLog

Every query of `beginPushLog`, `finishPushLog` and `failPushLog` is a step, on the
web server, in the worker thread and in the worker's main thread. The queue is
that of `WorkerQueue` reduced to one process. A push without changes (`noop`)
finishes its row as a success does. `stranded` names the rows that have lost
whoever would finish them, at the step where it happens: begun behind their task,
begun beside another row, or left because a query of `failPushLog` failed.

### UnderlayPush

A push is a worker's run of `pushToUnderlayTask`; its `stage` is where it stands.
A pub is its content - its row, what the cache has signatures of (`facet`), what it
is mapped from without a signature (`side`) - and content stands for the pub's
record, its hash and its one file, so that pubs of equal content share a file. A
record of a cache hit is produced by mapping its pub again (`Rehydrated`), which may
fail when the pub has changed without a signature (`Unaltered`); a file by mapping its
owner again (`Owners`, `ResolveFileByHash`). `inputs` is what the task has read of the pubs,
`entries` of the cache; `manifest` grows by `ReuseEntry` and `MapPub` in any order
(the code takes the pubs by date), `fresh` is what was mapped, `pending` what the
next `Checkpoint` writes, `inFlight` the uploads of the pool. An `Attempt` reads the
head, computes the difference and maps reused records anew (`hydrated`); then the
session is opened, sent, committed and polled in steps between which the server,
other pushes and editors move. A push that fails abandons its session, which may be
committed all the same (`Abandons`). The task works for the collection that was
configured when it began (`target`), and compares with the signature it has read
then, of a push to the collection `of`; that and `harm` (a facet was set back, two
pushes overlapped) are history, for the properties only. What the server does is external: it commits a
session whose base is its head and whose files it holds, refuses others with the
errors that `commitRefused` tells apart, may clean up files no version has, and
goes on committing when nobody polls.

Left out: the records of the community itself, its schemas, metadata and images
with the cache of their hashes (all mapped anew in each push), assets that are
skipped, uploads of large files, hydration in several chunks (all pubs are read at
one moment here), retries inside one request (`CallFails` is their end).

### Redeposit

The loop of `redepositDois` over `1..N`: check, backup, send without and then
with relationships, persist, and the reading of the submission log at the end.
Of a deposit the model keeps its shape (DOI, type, journal, issue), which an
edit may change at any time; the check compares what a deposit has with what is
stored or, without a copy, with what Crossref tells, one-sidedly as the code does: a
journal and issue that were not known may be filled in (`Fits`). Crossref takes uploads
in order and later. The
worker may die at every step and is started again by the queue; an admin may ask
to stop. Left out: peer reviews, deposits from the settings page, contents.

### CachePurge

A change defers a task that looks up the keys it shows on and schedules a purge
for each; requests and model hooks do the same. The debouncer's map, the
throttle, the purge in flight and the answer are the state; timers fire in any
order the code allows. `missed` records what a failed lookup or purge, or a
restart of the process, has left in the cache. Changes are finite, so that
endless writes that postpone a trailing debounce for ever are not covered.

## 3. Runs

| run | instance | shows |
|---|---|---|
| `draft_safety` | 2 sessions, 1 writer, 3 steps, one of which one session cannot parse | the safety properties and the refinement of `DraftLog` |
| `draft_live` | 2 sessions, one of them stale, 2 steps | edits get through and sessions catch up |
| `discussions` | 2 sessions, 3 edits | copies keep up, stored keys only grow, true positions stay right |
| `storage_safety` | 2 pages, 2 posts, 1 request, 3 edits, 2 freezes, 2 releases | nothing is lost, documents, versions and step maps are faithful |
| `storage_anchors` | 1 page, 3 edits, 2 releases | violation: anchors skip the frozen edits |
| `queue_safety` | 2 consumers, 2 tasks, 3 faults | settled, real, exclusive, final outcomes; starts are for faults |
| `exports` | 2 calls, 2 tasks, 1 consumer, 1 fault | results have files, answers were sent, every message is settled |
| `push_log` | 2 tasks, 1 attempt, 2 rows, 1 fault | a running row is owned, except the named ones |
| `underlay_push` | 2 pushes in a row, 2 pubs, 2 collections, 1 edit, 2 faults of any kind | what is reported is there, pushes end, and a push after all faults succeeds |
| `underlay_concurrent` | 2 pushes at once, 2 pubs with one file, 2 collections, an edit, a fault, an unsigned change | cached files have landed, what was cached can be produced, versions are manifests |
| `redeposit` | 2 items, 2 starts, 1 edit, 1 fault | shapes, stop and success |
| `cache_purge` | 1 key, 3 changes, 1 fault | no request is forgotten, every change is purged, deferred tasks end |

Bounds. Two sessions and a writer with three steps give every pair of
contenders, a loser that rebases over more than one change, and a resend after
another's commit; a third session adds only symmetric contention. Three edits
with two freezes and two releases give edit-freeze-edit-freeze around each
release, and every place at which a freeze stops. `storage_safety` has at most three
of its pages, posts, requests and freezes under way at a time (`MaxBusy`), edits and
releases add up to four (`MaxHistory`), the history view asks for the first version
(`FirstViewed`), and what follows a harm is not explored (`NoHarm`): after a wipe the
properties except it, before one they hold by the proof. Three faults on two tasks
cover a crash of each consumer and a failed write, or all writes of one save
failing. Three edits by two sessions give a discussion that is mapped, stored,
received late and fast-forwarded over more than one change. Three changes of one
key are one that is debounced into another's timer and one that is scheduled
while their purge is in flight; keys share only the throttle. Two items are one
done and one to do when the redeposit dies or is stopped; an edit leads to another
shape (`EditedTo`), which is one that the check tells from what was known. Two
pushes in a row are one that something happens to and one that finds what it left;
two at once meet at every point of their sessions. Two pubs are one that is reused
and one that is mapped; `CheckpointEvery` is 2 in `underlay_concurrent`, so that
uploads queue up before a drain, and 1 in `underlay_push`, so that a push dies
between checkpoints. What the code does not withstand the properties except (section
5); `underlay_push` has no unsigned change and no overlap, which `underlay_concurrent`
has, and the theorems have all of it. Two tasks of one
community are a push by hand and a scheduled one. Deadlock is not checked: users
may stop editing, and bounded faults, edits, calls and freezes run out.

Symmetry is used where nothing distinguishes the members: sessions and steps,
pages, tasks and consumers; never in a liveness run.

Fairness. `draft_live`: the event loop runs a handler it has started (weak), a
live page's transaction eventually reaches Firebase (weak), and answers and
events come through although the connection may drop again and again (strong:
`TxAnswerLost` may disable an answer repeatedly). No fairness on users, failures
or page exits, and a rejected transaction excuses a session (`Failed`).
`exports`: handlers, timers and the broker of the queue run and a dead service is
restarted (weak; docker restarts it). A task need not end: the watchdog settles
it. Faults are fewer than the retries of a save, because the code gives up after
`MAX_RETRIES` and leaves the message unacknowledged on purpose. With
`AckedIsSettled` and `AnswersWereSent`, `MessagesSettle` says that whoever is told
to poll a task sees it end. `cache_purge`: timers fire, queries and purges are
answered (weak); a failure excuses what it has hit (`missed`, `faults`).
`underlay_push`: the thread runs (weak), every request has a
timeout and a bounded number of tries, so that an upload lands or fails (weak), and
the server ends a commit it has begun (weak; without it the deadline of the polls
would end the push, as `GiveUp` does). Faults and edits are bounded; `PushesRecover`
is about pushes that begin after the last of them.

## 4. Proofs

`CollabDraftProofs` proves `Spec => []DraftInv`. `TypeOK`, `KeysContiguous`,
`BasedOnPredecessor` and `SessionInSync` are not inductive alone: that a commit
keeps the list gapless needs the sender's key to be in the list (`TxSound`), and
that a confirmation by count takes the right steps needs to know where a
session's own change is - either its transaction is unanswered, or the change is
the next of its own in the list after `mostRecentRemoteKey` and carries a prefix
of what is unconfirmed (`OwnIsNext`) - and that the stored changes are the stretch of the
list between `mostRecentRemoteKey` and `listenFrom` (`PendingIsList`). Each
action has a step, each conjunct it disturbs a step below. From it follow
`TypeCorrect`, `ListHasNoGap`, `ChangesApply`, `SessionsAgree`, `CheckpointsHold`
and `ListIsImmutable` (an action property). What they say of an author that is not
`Outdated` stays said: a list only grows, so that one who is up to date later was so
before. Assumptions:
sessions and writers are disjoint, stale sessions are sessions, `SaveEvery > 0`.

It also proves `EachStepOnce` (`StepsAreOnce`) and the refinement
(`DraftImplementsLog`, for a finite `Steps`). Beside `DraftInv` stands `OnceInv`:
every step is in one change of the list at most (`ListOnce`); a step a session
still holds as its own is in the list only in a change of that session which it
has yet to apply (`LocalOnce`) and will not pass over (`OwnNotSkipped`); what it
shows as confirmed is from the list up to its key (`ConfirmedOnce`); and the keys
are `0..n - 1` (`ListFinite`). A transaction that finds its key free then carries
steps that no change has, and its author has read the list to the end: that is
`Publish`. Opening, loading and applying are `Read`, everything else stutters.

`DiscussionsProofs` proves `Spec => []DiscussionsInv`. That a position stays right
when it is mapped needs every edit to be in one change and in no screen twice
(`ChangesDistinct`, `EditsOwned`: a session's edit that is in the list lies after
what the session has seen), the keys of a session to be ordered (`KeysOrdered`),
and every position under way - stored, waiting for a key, being fast-forwarded -
to be sound for the list (`InfosSound`). Ten actions are reduced to two kinds of
step: a transaction (`TransactionStep`) and a change of positions while documents
stay (`PositionsStep`). Theorems: `DiscussionsTypeCorrect`, `CopiesStayCurrent`,
`TruePositionsStay`, and the action property `StoredKeyNeverFalls`. Assumptions:
`MaxEdits` is a natural number and `NoInfo` is not a position.

`WorkerQueueProofs` proves `Spec => []QueueInv`. `AckedIsSettled` needs to know
that a run about to acknowledge has saved (`RunsSettle`, which also gives
`ResultsAreReal`), and that no task is created twice once published
(`NothingBeforeSend`). `RunsHoldMessages` needs that a process without a
connection holds no message and a dead one no run (`GoneHoldsNothing`). The many
ways a run advances are first reduced to one, `Moves` (a sound run follows, the
outcome of a finished one stays, no row is unsettled); each invariant is then
shown for the kinds of step of `StepKind` instead of eighteen actions.
`StartsBounded` strengthens `StartsNeedFaults`: a task that can be delivered has
had no more starts than faults. Theorems: `TypeCorrect`, `AcknowledgedIsSettled`,
`ResultsAreProduced`, `ConnectedRunsHoldMessages`, `StartsAreForFaults`, and the
action properties `AckedRowsAreFinal` and `FirstReportDecides`. Assumptions: the
bounds are natural numbers, no consumer is called `"none"`, `"ready"` or
`"acked"`, and `NoRun` is not a run.

The same module shows that every behaviour of `ExportsSpec` is one of the queue's
`Spec` (`ExportsUseTheQueue`), so that the queue's theorems hold of it
(`PolledTasksSettle`), and proves an invariant of its own: each call works for a
row of its own or finds one (`ExportsTypeCorrect`), names a task only when its
message is out (`AnsweredTasksWereSent`), and a thread that may report has stored
its file, which the row keeps when the thread dies (`ResultsComeWithFiles`).

`UnderlayPushProofs` first reduces the actions to what they do to one push
(`PushStep`) and to one session (`SessionStep`). `PushInv` adds to the types that
nothing is mapped before the cache has been read (`NothingYet`), that the manifest is
of the pubs that were read, equal but for what has no signature, and what was not
mapped in this push has hit the cache (`MappedWork`), and which session a stage goes
with (`SessionFits`); `TypeCorrect` follows, which needs that an attempt's collection
is known and that unsigned changes are counted. `CommitsManifest` says that a session
which may still be committed, applied to the head it was planned for, gives the
manifest: a head moves only with its version (`HeadMovesWithVersion`), so a session
whose base is the head's version still meets that head, and the difference to a head
applied to it is the manifest (`DifferenceIsManifest`). With it a commit that becomes
a version proves `VersionsAreManifests`. `FilesInv` says of each file that was mapped
that it has landed, is in flight or has failed, and after the last drain that it has
landed (`FreshLanded`; a file that two pubs share is sent once, for the first of
them); and that a second mapping corrects no entry while nothing unsigned has changed
(`Unsigned`, `NothingHealed`), since a hit then has all of the pub's content. Hence
`CacheIsOfLandedFiles`, for a server that drops no file. Assumption:
`BoundsAssumption` (pubs are finitely many, `InitialRow` numbers their rows).

`FilesCanBeProduced` has no hypothesis: whatever is edited, shared, dropped or pushed
beside it, a push fails for a record or file that it cannot produce only when a pub that
hit the cache is `NotAsCached`. `ProducibleInv` keeps, through every step, that a session
sends what the push has read of the pubs (`SendsInputs`) and that a push which has
failed so has such a pub (`SomeNotAsCached`). A pub that is as it was cached is
`Unaltered`, so that its record is found (`RecordsAreFound`), and so is a file whose
every possible owner is still mapped to it (`FilesAreFound`).

`PushesAreReportedTruly` has none either; the property speaks of the time before a facet
is set back or two pushes overlap, which `harm` notes. A push may be told that there is
nothing to do because of a note that an earlier push left, or of a commit that was given
up and completed later. `OrderInv` puts everything of each collection in one order, in
which the signed contents of pubs only get newer (`Below`): the head comes before whatever a push has
read, and that before what the pubs are now (`HeadPrecedes`, `InputsPrecede`); a session
that can still become a version comes after the head and before what is read next
(`SessionInOrder`); and every manifest that was ever noted of a push to a collection has been
reached by its head (`NotesPrecede`). A push that finds its inputs noted has then a
head both before and after them, which is the same but for what has no signature. What is
committed is what was read up to the same (`WorkDone`).

`DraftStorageProofs` proves all five properties of `DraftStorage` and its types from
`StorageInv`, and assumes nothing of who uses a draft while it is frozen. The types hold
always (`TypeInv`, which includes that keys stay below the length of the history); the
rest, `SoundInv`, as long as the state is `Harmless`. Since a harm stays once it is noted
(`HarmStays`), a step needs a proof only from a harmless state to a harmless one.
Firebase has exactly the changes after the last completed freeze (`FirebaseInv`).
Whatever a page, request or freezer has read of the rows and will go on from must be of a
key that Firebase still reaches (`Serves`), a post that has found a row may still update
it (`PostInv`), and what a freezer has built stays true while others edit, post and
release (`FreezerInv`). The step that would break this is the wipe: `HarmlessWipe` shows
that one which notes no harm meets one row, of the freezer's key or a later one, and no
page, load or request behind it, so that all that was read is served by what is
left (`Wiped`). Step maps reach back to a release and forward to what Firebase has,
the latest release does, or there is a gap that was noted in `unmapped` (`Continues`),
so that the next freeze adds the missing ones and none twice (`FrozenRowContinues`). As
long as Firebase has not been wiped, a release after the one before it finds all steps
between the two there, and does not touch the step maps that a freeze has stored before
it was cut short; a release of an older key would (section 5).

`CachePurgeProofs` proves `PendingIsKept` and the types. That `deferredCount` is never
negative (`CountInv`: it covers the tasks that may still come off it) needs the tasks
under way to be finitely many at every step, restarts and rejections included.

`PushLogProofs` proves `RunningIsOwned` (`RunningRowsAreOwned`) and the types. A row
is unstranded if it is fresh, running and not among `stranded`. `PushLogInv` says that
an unstranded row is alone - the only fresh one and the only one of its task
(`Alone`) -, so that the task's thread and `failPushLogForWorkerTask` can find no
other, and that its task attends to it (`Attended`): the thread has yet to look,
holds the row or has failed, and after that the main thread looks for it or is about
to fail it, and cannot be saving or acknowledging. `TaskFits` ties a message to
the stages of handler, thread and main thread. Every query of the log either
leaves the unstranded rows alone (`Kept`) or begins the only one (`RowBegins`).
The look-up takes the largest of a set of numbers; that there is one
(`MaxIsMember`) is drawn from the well-foundedness of `<`. Assumption:
`BoundsAssumption` (`MaxAttempts > 0`: a first attempt is always counted).

`RedepositProofs` proves all three properties of `Redeposit` and its types. `StopInv`
says that what was sent since the stop is of one start and item, which is the one at
hand if the task is still sending, and that no item is being checked by then;
`ShapeInv` that an item which was not edited after its check has a shape that fits what
was known everywhere - at Crossref, on its way there, in its record, in the deposit being
made -; `ResultInv` that a result is of an upload with relationships, the last of which can
be told (`HasLast`), and that uploads are kept and never lose their success
(`UploadsAreKept`). Assumptions: the bounds are natural numbers, `EditedTo` are shapes.

Some theorems state what no run lists: the types of each module (`TypeOK`), and
`KeysContiguous` and `ListImmutable`, which `ImplementsDraftLog` implies.

Only model-checked: liveness (`EditsGetThrough`, `SessionsCatchUp`, `MessagesSettle`,
`ChangesPurged`, `DeferredTasksEnd`, `PushesEnd`, `PushesRecover`), which is out of this
prover's reach, as are `ENABLED` and induction over data. Every other property of a
passing run is proved as the run checks it, and one under a hypothesis that the theorem
states: `CacheIsOfLandedFiles` is for a server that drops no file. The properties
themselves except what the code does not withstand: an `Outdated` author in
`CollabDraft`, what is noted in `harm` in `DraftStorage`, content without a signature
and what `NotAsCached` and `harm` name in `UnderlayPush`. Section 5 lists each of these
as a behaviour of the code.

## 5. Findings

`storage_anchors` is one (`PROJECT.json`, "findings"): a release after a thaw maps
anchors through a part of the steps.

The Underlay push has six more. Its properties except them by name; TLC finds each
violated as soon as the exception is taken out of the property:

* `ReportsAreTrue` compares without `side` (`Signed`), since entries are reused although
  attributions, edges or exports have changed (`isCacheHit`, incremental.ts:159-180;
  `updatePubAttribution` touches no pub): a push reports success with a
  record or release footer that names the old authors (`MaxUnsigned = 1`);
* `HitsCanBeProduced` excepts a pub that is not what its entry says (`NotAsCached`): after
  a crash between checkpoint and commit such a record is mapped anew (`hydratePub`),
  with a file that was not uploaded and that `pubIdByHash` has no owner of, or without
  the record that the entry promised; every later push fails for it until
  the pub is touched, although incremental.ts:30 says that "a cache hit never means
  'we can't upload a record the diff needs'". A push without changes may store the
  corrected entry, whose file nobody has sent (`CachedFilesLanded` excepts it);
* it also excepts a file of two pubs: one of them is edited, the file is cleaned
  up, and `pubIdByHash` has the edited pub as its only owner (incremental.ts:304; lines
  92-93: "can always regenerate the bytes");
* `ReportsAreTrue` excepts the signature of a push to another collection (`of`):
  `upsertUnderlayIntegration` leaves `lastManifestHash`, and the push to another
  collection is skipped as unchanged while that collection is empty;
* it excepts what comes after a facet was set back (`undone`): a commit that was given up
  (client.ts:1151-1154) or not recorded completes, its edit is undone, and the next
  push is skipped, because `lastManifestHash` is of the push before
  (pushToUnderlay.ts:640, "identical content since the last push"); three pushes, two
  edits and one fault are enough;
* it excepts what comes after an overlap (`overlapped`): of two pushes that have read
  different contents the one that is recorded last may find the other's version over
  its own.

Two more have a property that no run checks:

* `StoredStaysRight`, with the constants of `Discussions.cfg`: the discussions plugin is
  handed the state before the transaction for the one after (plugin.ts:67), and
  stores a position under a key whose changes it has already been mapped through;
* `AdoptedNotDuplicated`, with those of `PushLog.cfg`: a push by hand gets two rows of
  the log, the handler's and the worker's, though the second is meant to be adopted
  (queries.ts:66-68, 88-101); the row nobody finishes refuses pushes for six hours.

Met while modelling; the models have the behaviour, and where a passing property
would be disturbed it says so:

* underlayPushEntry/model.ts:30 says that entries are written only after a commit;
  they are written at every checkpoint (pushToUnderlay.ts:631);
* a rejected transaction leaves `ongoingTransaction` set and the editor sends and
  applies nothing more (`Failed`); a destroyed editor (document.ts:255) resends for ever;
* cold storage selects by a date that edits do not set (coldStorage.ts:541), so that it
  meets drafts in use: edits made between its read and its wipe are lost to everybody
  (`unreadEdits`); a page or a load that has not seen the last wiped key continues
  from what is gone (`overtaken`); a post that found the row before the freeze sets its
  key back below what is wiped, since the key it compares is the one found
  (draftCheckpoint/queries.ts:38; `rowSetBack`);
* when the changes cannot be fetched or parsed, a freeze stores no step maps and wipes
  Firebase all the same (coldStorage.ts:418-420), dropping those an earlier freeze had
  stored; the next freeze stores only the steps after the wipe, although lines 374-376
  say that stored step maps are composed with the new changes. `StepMapsContiguous`
  lets step maps begin there (`unmapped`), and an anchor mapped through them skips
  what came before;
* a wipe in batches that stops halfway leaves Firebase with the later changes only;
  readers are served by the row, and `NothingLost` covers it;
* a version before the checkpoint of a frozen draft is read from a Firebase that has
  lost it; two first checkpoints of a draft make two rows, since `draftId` is not unique
  (`twoRows`);
  stored step maps are kept when a newer release should restart them;
* a release can be of an older key than the one before it (a page that lags behind asks
  for it): Firebase has no steps in that range, and if a freeze has stored step maps and
  then failed, anchors are mapped through those, forward instead of not at all
  (release/queries.ts:94-148; `ReleasesInOrder` excepts it, found by the proof of
  `UnfrozenAnchorsHold`);
* a task is started before its attempts are counted, so that it may be started
  once more than `maxAttemptCount` says; a run whose attempt cannot be counted
  leaves its thread working beyond `maxWorkerThreads`;
* discussions frozen by cold storage may be set twice by two loads, the second erasing
  what came between, and are mapped through steps sliced by keys (coldStorage.ts:345);
* `failPushLog` may write a failure over a row that has been finished meanwhile;
* a redeposit that fails here may have reached Crossref, and its item is then an
  error whose backup is not of what Crossref has;
* a pub that is deleted during its push makes `applyPushCache` fail, and the push
  is recorded as an error after it was recorded as a success;
* a failed purge is not tried again, and a failed deferred task keeps
  `finishDeferredTasks` waiting, or lets it return early;
* a fast-forwarded discussion that arrives after the document has moved on is
  dropped, and the session goes without it until it is stored again.

## 6. Plan

Done: `CollabDraft` with `DraftLog`, `WorkerQueue`, `DraftStorage`, `Exports`,
`PushLog`, `Discussions`, `Redeposit`, `CachePurge`, `UnderlayPush`, and the proofs of section 4.

Left, in this order:

1. The discussions that cold storage freezes and two loads thaw, between
   `Discussions` and `DraftStorage`.
2. `SubmissionWorkflow` (status, abstract, mail).
3. Operators: `Rank` (a rank strictly between its neighbours, under two
   writers), `FacetCascade`, against reference definitions.

## 7. Not modelled

Most of the repository is CRUD over Postgres, views, migrations and
transformations of documents; its correctness is in constraints, wording and
shape and not in the order of steps, and a small abstract model would restate
it. That is why the map covers a small share of the lines. In detail, and with
the reason of each, `PROJECT.json` ("components"): import and direct draft
writes, submissions, ranks, facets, suggested edits, the mapping of Underlay's records,
pubs and collections, communities and members, organisations, users and login,
activity and mails, spam, search, HTTP routing, the client, tools and migrations,
the archiving service.
