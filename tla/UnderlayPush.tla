----------------------------- MODULE UnderlayPush -----------------------------
(***************************************************************************)
(* Pushing a community to its Underlay collection: the worker's task       *)
(* (workers/tasks/pushToUnderlay.ts), the incremental build with its cache *)
(* of pushed pubs (server/underlay/incremental.ts) and the client of the   *)
(* Underlay server (server/underlay/client.ts).                            *)
(*                                                                         *)
(* A pub maps to one record, which references one file; both are content   *)
(* addressed, so a record, its hash and its file are all the content they  *)
(* are made of: the pub's row with its updatedAt ("row"), the values that  *)
(* the cache has signatures of ("facet": the facets, the collections, the  *)
(* latest release and the options of the push), and what is mapped but has *)
(* no signature ("side": attributions, edges and exports).  Two pubs of    *)
(* equal content share a file.  The records of the community itself, its   *)
(* schemas and metadata are left out.                                      *)
(*                                                                         *)
(* The server is external: it holds files and a head version, and commits  *)
(* sessions in the background.                                             *)
(***************************************************************************)
EXTENDS Naturals, FiniteSets

CONSTANTS
    Pubs,            \* pubs of the community at first
    InitialRow,      \* their rows: pubs of equal rows have a file in common
    Pushes,          \* runs of the task
    Concurrent,      \* whether pushes of the community may overlap
    Targets,         \* collections that it may be configured to push to
    CheckpointEvery, \* CHECKPOINT_EVERY_PUBS
    FaultKinds,      \* what may go wrong
    MaxFaults,       \* bound: how often it does
    MaxEdits,        \* bound: edits of pubs, their facets and the configuration
    MaxUnsigned      \* bound: changes of what has no signature

Faults == {"crash", "call", "upload", "publish", "cleanup", "busy", "slow", "lost", "write"}

ASSUME BoundsAssumption ==
    /\ InitialRow \in [Pubs -> Nat]
    /\ Concurrent \in BOOLEAN
    /\ CheckpointEvery \in Nat \ {0}
    /\ FaultKinds \subseteq Faults
    /\ MaxFaults \in Nat /\ MaxEdits \in Nat /\ MaxUnsigned \in Nat
    /\ IsFiniteSet(Pubs)
    /\ \A p \in Pubs : InitialRow[p] < Cardinality(Pubs)

VARIABLES
    pubs,    \* content of the community's pubs
    note,    \* the UnderlayIntegration: the collection to push to, lastManifestHash
             \* (and, for the properties, the collection that this was pushed to)
    cache,   \* the UnderlayPushEntry rows
    push,    \* the runs of the task
    server,  \* the collections
    session, \* the last session that a push opened
    spent    \* edits, unsigned changes and faults so far, and the harms: a facet was
             \* set back to what it was, pushes overlapped

vars == <<pubs, note, cache, push, server, session, spent>>

Content == [row : 0..(Cardinality(Pubs) + MaxEdits), facet : {0, 1}, side : 0..MaxUnsigned]
Manifests == UNION {[S -> Content] : S \in SUBSET Pubs}
\* lastManifestHash: none, or the signature of a manifest.
Signatures == {{}} \cup {{m} : m \in Manifests}
Empty == [p \in {} |-> p]
Nobody == "nobody"
Image(f) == {f[p] : p \in DOMAIN f}
\* The entries of f, and those of g for other pubs.
Over(f, g) == [p \in DOMAIN f \cup DOMAIN g |-> IF p \in DOMAIN f THEN f[p] ELSE g[p]]
Only(f, S) == [p \in DOMAIN f \cap S |-> f[p]]
Just(p, c) == [o \in {p} |-> c]

Idle == [stage |-> "idle", result |-> "none", target |-> Nobody, last |-> {}, of |-> Nobody,
         inputs |-> Empty, entries |-> Empty, manifest |-> Empty, fresh |-> Empty,
         hydrated |-> Empty, pending |-> {}, inFlight |-> {}, failure |-> FALSE, attempt |-> 1]
NoSession == [status |-> "none", base |-> 0, target |-> Nobody,
              upserts |-> Empty, deletes |-> {}]

Init ==
    /\ pubs = [p \in Pubs |-> [row |-> InitialRow[p], facet |-> 0, side |-> 0]]
    /\ note \in [target : Targets, last : {{}}, of : {Nobody}]
    /\ cache = Empty
    /\ push = [q \in Pushes |-> Idle]
    /\ server = [t \in Targets |-> [version |-> 0, head |-> Empty, held |-> {}, kept |-> {}]]
    /\ session = [q \in Pushes |-> NoSession]
    /\ spent = [edits |-> 0, unsigned |-> 0, faults |-> 0, harm |-> {}]

At(q, stage) == push[q].stage = stage
Live(q) == push[q].stage \notin {"idle", "done", "dead"}
Fault(kind) ==
    /\ kind \in FaultKinds /\ spent.faults < MaxFaults
    /\ spent' = [spent EXCEPT !.faults = @ + 1]

\* A push has ended: only a session that is committing outlives it.
Ends(q, stage, result) ==
    /\ push' = [push EXCEPT ![q] = [Idle EXCEPT !.stage = stage, !.result = result]]
    /\ session' = [session EXCEPT ![q] = IF @.status = "committing" THEN @ ELSE NoSession]

----------------------------------------------------------------------------
(* Edits, while pushes run or not. *)

Edit(harm) ==
    /\ spent.edits < MaxEdits
    /\ spent' = [spent EXCEPT !.edits = @ + 1, !.harm = @ \cup harm]
    /\ UNCHANGED <<push, server, session>>

EditPub(p) ==
    /\ p \in DOMAIN pubs /\ Edit({})
    /\ pubs' = [pubs EXCEPT ![p].row = Cardinality(Pubs) + spent.edits]
    /\ UNCHANGED <<note, cache>>

\* A facet may be set back to what it was; the pub's updatedAt does not move.
EditFacet(p) ==
    /\ p \in DOMAIN pubs /\ Edit(IF pubs[p].facet = 1 THEN {"undone"} ELSE {})
    /\ pubs' = [pubs EXCEPT ![p].facet = 1 - @]
    /\ UNCHANGED <<note, cache>>

\* The pub's entry goes with it (onDelete: CASCADE).
DeletePub(p) ==
    /\ p \in DOMAIN pubs /\ Edit({})
    /\ pubs' = Only(pubs, DOMAIN pubs \ {p})
    /\ cache' = Only(cache, DOMAIN cache \ {p})
    /\ UNCHANGED note

EditAttribution(p) ==
    /\ spent.unsigned < MaxUnsigned /\ p \in DOMAIN pubs
    /\ pubs' = [pubs EXCEPT ![p].side = @ + 1]
    /\ spent' = [spent EXCEPT !.unsigned = @ + 1]
    /\ UNCHANGED <<note, cache, push, server, session>>

\* lastManifestHash and the entries stay.
UpsertUnderlayIntegration(t) ==
    /\ t # note.target /\ Edit({})
    /\ note' = [note EXCEPT !.target = t]
    /\ UNCHANGED <<pubs, cache>>

Edits ==
    \/ \E p \in Pubs : EditPub(p) \/ EditFacet(p) \/ DeletePub(p) \/ EditAttribution(p)
    \/ \E t \in Targets : UpsertUnderlayIntegration(t)

----------------------------------------------------------------------------
(* The task, up to the manifest. *)

PushToUnderlayTask(q) ==
    /\ At(q, "idle")
    /\ LET alone == \A o \in Pushes : ~Live(o) IN
       /\ Concurrent \/ alone
       /\ spent' = [spent EXCEPT !.harm = @ \cup (IF alone THEN {} ELSE {"overlapped"})]
    /\ push' = [push EXCEPT ![q].stage = "begun", ![q].target = note.target,
                            ![q].last = note.last, ![q].of = note.of]
    /\ UNCHANGED <<pubs, note, cache, server, session>>

\* One chunk of PUB_HYDRATION_CHUNK pubs.
Hydrate(q) ==
    /\ At(q, "begun")
    /\ push' = [push EXCEPT ![q].stage = "hydrated", ![q].inputs = pubs]
    /\ UNCHANGED <<pubs, note, cache, server, session, spent>>

GetPushCacheEntries(q) ==
    /\ At(q, "hydrated")
    /\ push' = [push EXCEPT ![q].stage = "mapping", ![q].entries = cache]
    /\ UNCHANGED <<pubs, note, cache, server, session, spent>>

\* An entry keeps, besides its hashes, the signals that they were mapped under.
IsCacheHit(input, entry) == entry.row = input.row /\ entry.facet = input.facet
Hit(q, p) ==
    /\ p \in DOMAIN push[q].entries
    /\ IsCacheHit(push[q].inputs[p], push[q].entries[p])

Todo(q) == DOMAIN push[q].inputs \ DOMAIN push[q].manifest
\* The pool is to be drained before anything else is mapped.
AtDrain(q) == Todo(q) = {} \/ Cardinality(push[q].pending) >= CheckpointEvery

ReuseEntry(q, p) ==
    /\ At(q, "mapping") /\ ~AtDrain(q)
    /\ p \in Todo(q) /\ Hit(q, p)
    /\ push' = [push EXCEPT ![q].manifest = Over(Just(p, push[q].entries[p]), @)]
    /\ UNCHANGED <<pubs, note, cache, server, session, spent>>

\* Marked on submit: a file is sent once in a push.
UploadedHashes(q) == Image(push[q].fresh)
Submits(q, p, c) ==
    IF c \in UploadedHashes(q) THEN push[q].inFlight ELSE push[q].inFlight \cup {c}
MustSubmit(q, p) == push[q].inputs[p] \notin UploadedHashes(q)

MapPub(q, p) ==
    /\ At(q, "mapping") /\ ~AtDrain(q)
    /\ p \in Todo(q) /\ ~Hit(q, p)
    /\ ~(push[q].failure /\ MustSubmit(q, p))
    /\ LET c == push[q].inputs[p] IN
       push' = [push EXCEPT ![q].manifest = Over(Just(p, c), @),
                            ![q].fresh = Over(Just(p, c), @),
                            ![q].pending = @ \cup {p},
                            ![q].inFlight = Submits(q, p, c)]
    /\ UNCHANGED <<pubs, note, cache, server, session, spent>>

UploadLands(q, f) ==
    /\ f \in push[q].inFlight
    /\ push' = [push EXCEPT ![q].inFlight = @ \ {f}]
    /\ server' = [server EXCEPT ![push[q].target].held = @ \cup {f}]
    /\ UNCHANGED <<pubs, note, cache, session, spent>>

\* The failure is latched, for the next submit or drain.
UploadFails(q, f) ==
    /\ f \in push[q].inFlight /\ Fault("upload")
    /\ push' = [push EXCEPT ![q].inFlight = @ \ {f}, ![q].failure = TRUE]
    /\ UNCHANGED <<pubs, note, cache, server, session>>

Fails(q, result) == push' = [push EXCEPT ![q].stage = "failing", ![q].result = result]

QueuedIsEnough(q) == TRUE
DrainedOfSuccesses(q) == push[q].inFlight = {} /\ ~push[q].failure
Drained(q) == push[q].inFlight = {}

BuildFails(q) ==
    /\ At(q, "mapping") /\ push[q].failure
    /\ IF AtDrain(q) THEN Drained(q)
       ELSE \E p \in Todo(q) : ~Hit(q, p) /\ MustSubmit(q, p)
    /\ Fails(q, "error")
    /\ UNCHANGED <<pubs, note, cache, server, session, spent>>

\* UnderlayPushEntry rows reference their pubs: one of a deleted pub is refused,
\* and the others of the statement with it.
UpsertPushCacheEntries(q, upserts) ==
    IF DOMAIN upserts \subseteq DOMAIN pubs THEN cache' = Over(upserts, cache) ELSE UNCHANGED cache

Checkpoint(q) ==
    /\ At(q, "mapping") /\ AtDrain(q) /\ Drained(q) /\ ~push[q].failure
    /\ LET upserts == Only(push[q].fresh, push[q].pending) IN
       /\ UpsertPushCacheEntries(q, upserts)
       /\ IF push[q].pending \subseteq DOMAIN pubs
          THEN push' = [push EXCEPT ![q].pending = {},
                                    ![q].stage = IF Todo(q) = {} THEN "mapped" ELSE @]
          ELSE Fails(q, "error")
    /\ UNCHANGED <<pubs, note, server, session, spent>>

\* The client-side no-op guard, on lastManifestHash as the task read it at its start.
Unchanged(q) == push[q].last = {push[q].manifest}

SkipUnchanged(q) ==
    /\ At(q, "mapped") /\ Unchanged(q)
    /\ note' = [note EXCEPT !.last = {push[q].manifest}, !.of = push[q].of]
    /\ Ends(q, "done", "skipped")
    /\ UNCHANGED <<pubs, cache, server, spent>>

----------------------------------------------------------------------------
(* client.push: an attempt, and another one if its error is retriable. *)

Mapped(q) == At(q, "mapped") /\ ~Unchanged(q)

\* diffAgainstHead.
Upserts(manifest, head) ==
    {p \in DOMAIN manifest : p \in DOMAIN head => head[p] # manifest[p]}
Deletes(manifest, head) == DOMAIN head \ DOMAIN manifest

\* resolveRecord: the pub that a record's hash is cached for is mapped again, from what
\* the push has read of it, and the record looked up by its key, then by its hash.
Rehydrated(q) == DOMAIN push[q].entries \cap DOMAIN push[q].inputs
\* A pub that maps to something else by now may lack a record of its entry: that of an
\* attribution or edge that is gone.
Unaltered(q) == {p \in Rehydrated(q) : push[q].inputs[p] = push[q].manifest[p]}

ResolveNothing(q, lacking) == Empty
ResolveUpserts(q, lacking) == Only(push[q].inputs, lacking)

\* The head is read, the difference computed and its records produced.
Attempt(q) ==
    /\ Mapped(q) \/ At(q, "retrying")
    /\ LET head == server[push[q].target].head
           upserts == Upserts(push[q].manifest, head)
           deletes == Deletes(push[q].manifest, head)
           lacking == upserts \ DOMAIN push[q].fresh
           resolved == ResolveUpserts(q, lacking) IN
       \/ /\ server[push[q].target].version > 0 /\ upserts = {} /\ deletes = {}
          /\ push' = [push EXCEPT ![q].stage = "noting", ![q].result = "noop"]
          /\ UNCHANGED session
       \/ /\ server[push[q].target].version = 0 \/ upserts # {} \/ deletes # {}
          /\ lacking \subseteq Rehydrated(q)
          /\ push' = [push EXCEPT ![q].stage = "opening", ![q].hydrated = Over(resolved, @)]
          /\ session' = [session EXCEPT ![q] =
                 [status |-> "planned", base |-> server[push[q].target].version,
                  target |-> push[q].target, deletes |-> deletes,
                  upserts |-> Only(Over(resolved, push[q].fresh), upserts)]]
       \/ /\ ~(lacking \subseteq Unaltered(q))
          /\ Fails(q, "unproducible")
          /\ UNCHANGED session
    /\ UNCHANGED <<pubs, note, cache, server, spent>>

RetryNever(q) == push' = [push EXCEPT ![q].stage = "failing", ![q].result = "error"]
\* A retriable error: the push starts over, once.
Retry(q) ==
    push' = IF push[q].attempt = 1
            THEN [push EXCEPT ![q].stage = "retrying", ![q].attempt = 2]
            ELSE [push EXCEPT ![q].stage = "failing", ![q].result = "error"]

BaseIsHead(q) == session[q].base = server[session[q].target].version
Session(q, status) == session' = [session EXCEPT ![q].status = status]

OpenSession(q) ==
    /\ At(q, "opening")
    /\ IF BaseIsHead(q)
       THEN Session(q, "open") /\ push' = [push EXCEPT ![q].stage = "sending"]
       ELSE Session(q, "none") /\ Retry(q)
    /\ UNCHANGED <<pubs, note, cache, server, spent>>

\* The lines are sent, and an asynchronous commit is asked for.
Commit(q) ==
    /\ At(q, "sending")
    /\ Session(q, "committing")
    /\ push' = [push EXCEPT ![q].stage = "polling"]
    /\ UNCHANGED <<pubs, note, cache, server, spent>>

\* The answer to a commit is lost; the request is sent again.
CommitAnswerLost(q) ==
    /\ At(q, "sending") /\ Fault("lost")
    /\ Session(q, "committing")
    /\ push' = [push EXCEPT ![q].stage = "recommitting"]
    /\ UNCHANGED <<pubs, note, cache, server>>

\* Only a session that is still committing is polled: one that has ended
\* accepts no commit, and the refusal has no cause that the client knows.
Recommit(q) ==
    /\ At(q, "recommitting")
    /\ IF session[q].status = "committing"
       THEN push' = [push EXCEPT ![q].stage = "polling"]
       ELSE Fails(q, "error")
    /\ UNCHANGED <<pubs, note, cache, server, session, spent>>

OwnersOfFresh(q, f) == {p \in DOMAIN push[q].fresh : push[q].fresh[p] = f}
\* pubIdByHash: the pub that a file would be mapped from.  The pubs mapped in this
\* push come last, and of entries with one file any may.
Owners(q, f) ==
    LET of(made) == {p \in DOMAIN made : made[p] = f} IN
    IF of(push[q].fresh) # {} THEN of(push[q].fresh) ELSE of(push[q].entries)

MissingFiles(q) == Image(session[q].upserts) \ server[session[q].target].held

\* resolveFileByHash maps the owner again and looks for the file.
ResolveFileByHash(q, owner, f) == owner \in DOMAIN push[q].inputs /\ push[q].inputs[owner] = f

UploadMissingFiles(q) ==
    \E owner \in [MissingFiles(q) -> Pubs \cup {Nobody}] :
        /\ \A f \in MissingFiles(q) :
               IF Owners(q, f) = {} THEN owner[f] = Nobody ELSE owner[f] \in Owners(q, f)
        /\ LET resolved == {f \in MissingFiles(q) : ResolveFileByHash(q, owner[f], f)} IN
           /\ server' = [server EXCEPT ![session[q].target].held = @ \cup resolved]
           /\ IF resolved = MissingFiles(q) THEN Retry(q) ELSE Fails(q, "unproducible")

Polls(q, status) == At(q, "polling") /\ session[q].status = status

AwaitAsyncCommit(q) ==
    /\ Polls(q, "committed")
    /\ push' = [push EXCEPT ![q].stage = "noting", ![q].result = "committed"]
    /\ UNCHANGED <<pubs, note, cache, server, session, spent>>

\* commitRefused, by the error of the session.
CommitRefused(q) ==
    /\ \/ /\ Polls(q, "conflict") \/ Polls(q, "busy")
          /\ Retry(q) /\ UNCHANGED server
       \/ /\ Polls(q, "unchanged")
          /\ push' = [push EXCEPT ![q].stage = "noting", ![q].result = "noop"]
          /\ UNCHANGED server
       \/ /\ Polls(q, "filesNeeded")
          /\ UploadMissingFiles(q)
    /\ UNCHANGED <<pubs, note, cache, session, spent>>

\* abandon: the session is deleted, unless it is committing and completes all the same.
Abandons(q) ==
    \/ Session(q, "none")
    \/ session[q].status = "committing" /\ UNCHANGED session

\* A request fails for good, that of the upload of a missing file included.
CallFails(q) ==
    /\ \/ /\ push[q].stage \in {"begun", "hydrated", "mapping", "mapped", "retrying", "opening",
                                "sending", "recommitting"}
          /\ UNCHANGED server
       \/ /\ Polls(q, "filesNeeded")
          /\ \E sent \in SUBSET (MissingFiles(q) \cap Image(push[q].inputs)) :
                 server' = [server EXCEPT ![session[q].target].held = @ \cup sent]
    /\ Fault("call")
    /\ Fails(q, "error") /\ Abandons(q)
    /\ UNCHANGED <<pubs, note, cache>>

\* The deadline of the polls, or the session has expired.
GiveUp(q) ==
    /\ Polls(q, "committing") /\ Fault("slow")
    /\ Fails(q, "error") /\ Abandons(q)
    /\ UNCHANGED <<pubs, note, cache, server>>

----------------------------------------------------------------------------
(* The task, after the client. *)

RecordPushResult(q) ==
    /\ At(q, "noting")
    /\ note' = [note EXCEPT !.last = {push[q].manifest}, !.of = push[q].target]
    /\ push' = [push EXCEPT ![q].stage = "applying"]
    /\ UNCHANGED <<pubs, cache, server, session, spent>>

\* The outcome, or the cache, cannot be written.
WriteFails(q) ==
    /\ At(q, "noting") \/ At(q, "applying")
    /\ Fault("write")
    /\ Fails(q, "error")
    /\ UNCHANGED <<pubs, note, cache, server, session>>

\* The pubs mapped in this push, and the entries that a second mapping corrected.
CacheUpserts(q) ==
    LET healed == {p \in DOMAIN push[q].hydrated : push[q].hydrated[p] # push[q].entries[p]} IN
    Over(push[q].fresh, Only(push[q].hydrated, healed))

\* The entries of pubs that this push did not see are dropped.
ApplyPushCache(q) ==
    /\ At(q, "applying")
    /\ IF DOMAIN CacheUpserts(q) \subseteq DOMAIN pubs
       THEN /\ cache' = Only(Over(CacheUpserts(q), cache), DOMAIN push[q].inputs)
            /\ Ends(q, "done", push[q].result)
       ELSE /\ Fails(q, "error") /\ UNCHANGED <<cache, session>>
    /\ UNCHANGED <<pubs, note, server, spent>>

RecordErrorOfManifest(q) ==
    /\ At(q, "failing")
    /\ Ends(q, "done", push[q].result)
    /\ note' = [note EXCEPT !.last = {push[q].manifest}, !.of = push[q].target]
    /\ UNCHANGED <<pubs, cache, server, spent>>

\* recordPushResult of an error keeps lastManifestHash.
RecordError(q) ==
    /\ At(q, "failing")
    /\ Ends(q, "done", push[q].result)
    /\ UNCHANGED <<pubs, note, cache, server, spent>>

\* The thread is killed or its process dies.
Crash(q) ==
    /\ Live(q) /\ Fault("crash")
    /\ Ends(q, "dead", "none")
    /\ UNCHANGED <<pubs, note, cache, server>>

----------------------------------------------------------------------------
(* The server. *)

Applied(q) ==
    LET head == server[session[q].target].head IN
    Over(session[q].upserts, Only(head, DOMAIN head \ session[q].deletes))

CommitRuns(q) ==
    /\ session[q].status = "committing"
    /\ LET t == session[q].target
           refuses(status) == Session(q, status) /\ UNCHANGED server IN
       IF ~BaseIsHead(q) THEN refuses("conflict")
       ELSE IF MissingFiles(q) # {} THEN refuses("filesNeeded")
       ELSE IF Applied(q) = server[t].head /\ server[t].version > 0 THEN refuses("unchanged")
       ELSE /\ server' = [server EXCEPT ![t].version = @ + 1, ![t].head = Applied(q),
                                        ![t].kept = @ \cup Image(Applied(q))]
            /\ Session(q, "committed")
    /\ UNCHANGED <<pubs, note, cache, push, spent>>

\* Storage was being cleaned up: the server asks for another push.
CommitIsBusy(q) ==
    /\ session[q].status = "committing" /\ Fault("busy")
    /\ Session(q, "busy")
    /\ UNCHANGED <<pubs, note, cache, push, server>>

\* A version is published in Underlay itself, of other metadata.
Publish(t) ==
    /\ server[t].version > 0 /\ Fault("publish")
    /\ server' = [server EXCEPT ![t].version = @ + 1]
    /\ UNCHANGED <<pubs, note, cache, push, session>>

\* A file that no version references is dropped.
CleanUp(t, f) ==
    /\ f \in server[t].held \ server[t].kept /\ Fault("cleanup")
    /\ server' = [server EXCEPT ![t].held = @ \ {f}]
    /\ UNCHANGED <<pubs, note, cache, push, session>>

Server ==
    \/ \E q \in Pushes : CommitRuns(q) \/ CommitIsBusy(q)
    \/ \E t \in Targets : Publish(t) \/ \E f \in server[t].held : CleanUp(t, f)

Step(q) ==
    \/ Hydrate(q) \/ GetPushCacheEntries(q)
    \/ \E p \in Pubs : ReuseEntry(q, p) \/ MapPub(q, p)
    \/ BuildFails(q) \/ Checkpoint(q) \/ SkipUnchanged(q)
    \/ Attempt(q) \/ OpenSession(q) \/ Commit(q) \/ Recommit(q)
    \/ AwaitAsyncCommit(q) \/ CommitRefused(q)
    \/ RecordPushResult(q) \/ ApplyPushCache(q) \/ RecordError(q)

Lands(q) == \E f \in push[q].inFlight : UploadLands(q, f)

Breaks(q) ==
    \/ \E f \in push[q].inFlight : UploadFails(q, f)
    \/ CommitAnswerLost(q) \/ CallFails(q) \/ GiveUp(q) \/ WriteFails(q) \/ Crash(q)

Next ==
    \/ Edits \/ Server
    \/ \E q \in Pushes : PushToUnderlayTask(q) \/ Step(q) \/ Lands(q) \/ Breaks(q)

Fairness == \A q \in Pushes : WF_vars(Step(q)) /\ WF_vars(Lands(q)) /\ WF_vars(CommitRuns(q))
Spec == Init /\ [][Next]_vars /\ Fairness

----------------------------------------------------------------------------
Stages == {"idle", "begun", "hydrated", "mapping", "mapped", "retrying", "opening", "sending",
           "polling", "recommitting", "noting", "applying", "failing", "done", "dead"}
Results == {"none", "committed", "noop", "skipped", "error", "unproducible"}
Statuses == {"none", "planned", "open", "committing", "committed",
             "conflict", "filesNeeded", "unchanged", "busy"}

\* The types of the variables.
TypeOK ==
    /\ pubs \in Manifests /\ cache \in Manifests
    /\ note \in [target : Targets, last : Signatures, of : Targets \cup {Nobody}]
    /\ push \in [Pushes ->
           [stage : Stages, result : Results, target : Targets \cup {Nobody},
            last : Signatures, of : Targets \cup {Nobody}, inputs : Manifests, entries : Manifests,
            manifest : Manifests, fresh : Manifests, hydrated : Manifests,
            pending : SUBSET Pubs, inFlight : SUBSET Content, failure : BOOLEAN,
            attempt : {1, 2}]]
    /\ server \in [Targets -> [version : Nat, head : Manifests,
                               held : SUBSET Content, kept : SUBSET Content]]
    /\ session \in [Pushes -> [status : Statuses, base : Nat, target : Targets \cup {Nobody},
                               upserts : Manifests, deletes : SUBSET Pubs]]
    /\ spent \in [edits : 0..MaxEdits, unsigned : 0..MaxUnsigned, faults : 0..MaxFaults,
                  harm : SUBSET {"undone", "overlapped"}]

\* A pub is in the cache only when its file has landed, whatever uploads are in
\* flight or have failed, and whichever push was killed (incremental.ts: "a pub may
\* only be recorded as cached once its bytes have actually landed"), as long as
\* the servers drop no file and nothing unsigned changes: an entry that a second
\* mapping corrects may be written without the file of the new record.
CachedFilesLanded ==
    spent.unsigned = 0 =>
        \A p \in DOMAIN cache : \E t \in Targets : cache[p] \in server[t].held

\* A manifest without what has no signature.
Signed(manifest) == [p \in DOMAIN manifest |-> [manifest[p] EXCEPT !.side = 0]]

\* What is committed is the manifest of the push, although only a difference to a
\* head that others move is sent, but for what a second mapping corrects (client.push).
VersionIsManifest ==
    [][\A q \in Pushes :
          Live(q) /\ session[q].status = "committing" /\ session'[q].status = "committed"
          => Signed(server'[push[q].target].head) = Signed(push[q].manifest)]_vars

UpToDate(q) == Signed(server[push[q].target].head) = Signed(push[q].inputs)

\* A push that is about to be recorded as a success or as without changes finds the
\* collection holding the pubs that it read, but for what has no signature: the no-op
\* guard, the diff against the head and the refusal of a commit without changes agree
\* with the server.  Excepted are the guard when the signature is of a push to another
\* collection, and what comes after a facet was set back or two pushes overlapped.
ReportsAreTrue ==
    spent.harm = {} =>
        \A q \in Pushes :
            \/ At(q, "mapped") /\ Unchanged(q) /\ push[q].of = push[q].target
            \/ At(q, "noting")
            => UpToDate(q)

\* The pub of the record has changed without a signature since it was cached, or another
\* pub that was cached with the same file is no longer mapped to it.
NotAsCached(q, p) ==
    \/ push[q].manifest[p] # push[q].inputs[p]
    \/ \E o \in DOMAIN push[q].entries \ {p} :
           /\ push[q].entries[o] = push[q].manifest[p]
           /\ ~ResolveFileByHash(q, o, push[q].manifest[p])

\* A push fails for a record or file that it cannot produce again only when some pub is
\* not as cached (incremental.ts: "a cache hit never means \"we can't upload a record the
\* diff needs\"" holds for all others).
HitsCanBeProduced ==
    \A q \in Pushes :
        At(q, "failing") /\ push[q].result = "unproducible"
        => \E p \in DOMAIN push[q].manifest \ DOMAIN push[q].fresh : NotAsCached(q, p)

\* A push that has begun ends.
PushesEnd == \A q \in Pushes : At(q, "begun") ~> ~Live(q)

\* Nothing goes wrong or changes any more, and no other push or commit is about.
Calm(q) ==
    /\ spent.faults = MaxFaults /\ spent.edits = MaxEdits
    /\ \A o \in Pushes : session[o].status # "committing" /\ (o # q => ~Live(o))

\* Whatever went wrong before (a crash after a checkpoint, a commit that was given up
\* or whose answer was lost, files that were cleaned up), a push that then begins
\* brings the collection to what the community has, and ends well, unless it compares
\* with the signature of a push to another collection.
PushesRecover ==
    \A q \in Pushes :
        (At(q, "begun") /\ Calm(q)
         /\ push[q].target = note.target /\ push[q].of \in {Nobody, note.target})
        ~> (push[q].result \in {"committed", "noop", "skipped"} /\ At(q, "done")
            /\ server[note.target].head = pubs)
=============================================================================
