-------------------------- MODULE UnderlayPushProofs --------------------------
(***************************************************************************)
(* Theorems about UnderlayPush, for every set of pubs, pushes and          *)
(* collections, every checkpoint interval and every bound: the types, that *)
(* a cached pub's file has landed, that a version is the manifest of the   *)
(* push that made it, that a file the server asks for can be produced      *)
(* again, and that what a push reports is so.                              *)
(***************************************************************************)
EXTENDS UnderlayPush, FiniteSetTheorems, TLAPS

Row == [stage : Stages, result : Results, target : Targets \cup {Nobody},
        last : Signatures, of : Targets \cup {Nobody}, inputs : Manifests, entries : Manifests,
        manifest : Manifests, fresh : Manifests, hydrated : Manifests,
        pending : SUBSET Pubs, inFlight : SUBSET Content, failure : BOOLEAN,
        attempt : {1, 2}]
Collection == [version : Nat, head : Manifests, held : SUBSET Content, kept : SUBSET Content]
SessionRow == [status : Statuses, base : Nat, target : Targets \cup {Nobody},
               upserts : Manifests, deletes : SUBSET Pubs]

\* Nothing unsigned changes without being counted.
PubsType == pubs \in Manifests /\ \A p \in DOMAIN pubs : pubs[p].side <= spent.unsigned
CacheType == cache \in Manifests
NoteType == note \in [target : Targets, last : Signatures, of : Targets \cup {Nobody}]
PushType == push \in [Pushes -> Row]
ServerType == server \in [Targets -> Collection]
SessionType == session \in [Pushes -> SessionRow]
SpentType == spent \in [edits : 0..MaxEdits, unsigned : 0..MaxUnsigned, faults : 0..MaxFaults,
                       harm : SUBSET {"undone", "overlapped"}]
Types == PubsType /\ CacheType /\ NoteType /\ PushType /\ ServerType /\ SessionType /\ SpentType
----------------------------------------------------------------------------
(* Manifests: functions from some pubs to content. *)

LEMMA ManifestElim ==
    ASSUME NEW m \in Manifests
    PROVE  /\ DOMAIN m \in SUBSET Pubs
           /\ m \in [DOMAIN m -> Content]
           /\ \A p \in DOMAIN m : m[p] \in Content
<1>1. PICK S \in SUBSET Pubs : m \in [S -> Content]
  BY DEF Manifests
<1>2. DOMAIN m = S
  BY <1>1
<1> QED
  BY <1>1, <1>2

LEMMA ManifestIntro ==
    ASSUME NEW S \in SUBSET Pubs, NEW f \in [S -> Content]
    PROVE  f \in Manifests
  BY DEF Manifests

LEMMA EmptyType == Empty \in Manifests /\ DOMAIN Empty = {}
<1>1. Empty \in [{} -> Content] /\ DOMAIN Empty = {}
  BY DEF Empty
<1> QED
  BY <1>1, ManifestIntro

LEMMA OverType ==
    ASSUME NEW f \in Manifests, NEW g \in Manifests
    PROVE  /\ Over(f, g) \in Manifests
           /\ DOMAIN Over(f, g) = DOMAIN f \cup DOMAIN g
           /\ \A p \in DOMAIN f : Over(f, g)[p] = f[p]
           /\ \A p \in DOMAIN g \ DOMAIN f : Over(f, g)[p] = g[p]
<1>1. /\ DOMAIN Over(f, g) = DOMAIN f \cup DOMAIN g
      /\ \A p \in DOMAIN f : Over(f, g)[p] = f[p]
      /\ \A p \in DOMAIN g \ DOMAIN f : Over(f, g)[p] = g[p]
  BY DEF Over
<1>2. DOMAIN f \cup DOMAIN g \in SUBSET Pubs
  BY ManifestElim
<1>3. \A p \in DOMAIN f \cup DOMAIN g :
        (IF p \in DOMAIN f THEN f[p] ELSE g[p]) \in Content
  BY ManifestElim
<1>4. Over(f, g) \in [DOMAIN f \cup DOMAIN g -> Content]
  BY <1>3 DEF Over
<1>5. Over(f, g) \in Manifests
  BY <1>2, <1>4, ManifestIntro
<1> QED
  BY <1>1, <1>5

LEMMA OnlyType ==
    ASSUME NEW f \in Manifests, NEW S
    PROVE  /\ Only(f, S) \in Manifests
           /\ DOMAIN Only(f, S) = DOMAIN f \cap S
           /\ \A p \in DOMAIN f \cap S : Only(f, S)[p] = f[p]
<1>1. /\ DOMAIN Only(f, S) = DOMAIN f \cap S
      /\ \A p \in DOMAIN f \cap S : Only(f, S)[p] = f[p]
  BY DEF Only
<1>2. DOMAIN f \cap S \in SUBSET Pubs /\ \A p \in DOMAIN f \cap S : f[p] \in Content
  BY ManifestElim
<1>3. Only(f, S) \in [DOMAIN f \cap S -> Content]
  BY <1>2 DEF Only
<1>4. Only(f, S) \in Manifests
  BY <1>2, <1>3, ManifestIntro
<1> QED
  BY <1>1, <1>4

LEMMA JustType ==
    ASSUME NEW p \in Pubs, NEW c \in Content
    PROVE  Just(p, c) \in Manifests /\ DOMAIN Just(p, c) = {p} /\ Just(p, c)[p] = c
<1>1. Just(p, c) \in [{p} -> Content] /\ DOMAIN Just(p, c) = {p} /\ Just(p, c)[p] = c
  BY DEF Just
<1>2. {p} \in SUBSET Pubs
  OBVIOUS
<1> QED
  BY <1>1, <1>2, ManifestIntro

LEMMA JustOver ==
    ASSUME NEW p \in Pubs, NEW c \in Content, NEW g \in Manifests
    PROVE  /\ Over(Just(p, c), g) \in Manifests
           /\ DOMAIN Over(Just(p, c), g) = DOMAIN g \cup {p}
           /\ Over(Just(p, c), g)[p] = c
           /\ \A o \in DOMAIN g \ {p} : Over(Just(p, c), g)[o] = g[o]
<1>1. PICK f \in Manifests : f = Just(p, c)
  BY JustType
<1>2. DOMAIN f = {p} /\ f[p] = c
  BY <1>1, JustType
<1>3. /\ Over(f, g) \in Manifests
      /\ DOMAIN Over(f, g) = DOMAIN f \cup DOMAIN g
      /\ \A o \in DOMAIN f : Over(f, g)[o] = f[o]
      /\ \A o \in DOMAIN g \ DOMAIN f : Over(f, g)[o] = g[o]
  BY OverType
<1> QED
  BY <1>1, <1>2, <1>3

LEMMA SignatureType ==
    /\ {} \in Signatures
    /\ \A m \in Manifests : {m} \in Signatures
  BY DEF Signatures

LEMMA ImageType ==
    ASSUME NEW m \in Manifests
    PROVE  Image(m) \in SUBSET Content
  BY ManifestElim DEF Image

LEMMA PubsAreCounted == Cardinality(Pubs) \in Nat
  BY BoundsAssumption, FS_CardinalityType
----------------------------------------------------------------------------
(* Types. *)

LEMMA IdleType == Idle \in Row
  BY EmptyType, SignatureType DEF Idle, Row, Stages, Results

LEMMA NoSessionType == NoSession \in SessionRow
  BY EmptyType DEF NoSession, SessionRow, Statuses

LEMMA InitTypes ==
    ASSUME Init
    PROVE  Types
<1>1. PubsType
  <2>1. \A p \in Pubs : [row |-> InitialRow[p], facet |-> 0, side |-> 0] \in Content
    BY PubsAreCounted, BoundsAssumption DEF Content
  <2>2. pubs \in [Pubs -> Content]
    BY <2>1 DEF Init
  <2>3. pubs \in Manifests
    BY <2>2, ManifestIntro
  <2>4. \A p \in DOMAIN pubs : pubs[p].side <= spent.unsigned
    BY DEF Init
  <2> QED
    BY <2>3, <2>4 DEF PubsType
<1>2. CacheType
  BY EmptyType DEF Init, CacheType
<1>3. NoteType
  BY SignatureType DEF Init, NoteType
<1>4. PushType
  BY IdleType DEF Init, PushType
<1>5. ServerType
  <2>1. [version |-> 0, head |-> Empty, held |-> {}, kept |-> {}] \in Collection
    BY EmptyType DEF Collection
  <2> QED
    BY <2>1 DEF Init, ServerType
<1>6. SessionType
  BY NoSessionType DEF Init, SessionType
<1>7. SpentType
  BY BoundsAssumption DEF Init, SpentType
<1> QED
  BY <1>1, <1>2, <1>3, <1>4, <1>5, <1>6, <1>7 DEF Types

\* The content of one pub is changed.
LEMMA ChangedManifest ==
    ASSUME NEW m \in Manifests, NEW p \in DOMAIN m, NEW c \in Content
    PROVE  [m EXCEPT ![p] = c] \in Manifests
<1>1. [m EXCEPT ![p] = c] \in [DOMAIN m -> Content]
  BY ManifestElim
<1> QED
  BY <1>1, ManifestIntro, ManifestElim

\* So is a step that changes one pub.
LEMMA ChangedPub ==
    ASSUME PubsType, SpentType,
           NEW p \in DOMAIN pubs, NEW c \in Content,
           pubs' = [pubs EXCEPT ![p] = c],
           spent'.unsigned \in Nat, spent.unsigned <= spent'.unsigned, c.side <= spent'.unsigned
    PROVE  PubsType'
<1>1. pubs' \in Manifests
  BY ChangedManifest DEF PubsType
<1>2. DOMAIN pubs' = DOMAIN pubs /\ \A o \in DOMAIN pubs : pubs'[o] = IF o = p THEN c ELSE pubs[o]
  BY ManifestElim DEF PubsType
<1>3. \A o \in DOMAIN pubs : pubs[o].side \in Nat /\ pubs[o].side <= spent.unsigned
  <2>1. \A o \in DOMAIN pubs : pubs[o] \in Content
    BY ManifestElim DEF PubsType
  <2> QED
    BY <2>1, BoundsAssumption DEF PubsType, Content
<1>4. spent.unsigned \in Nat
  BY BoundsAssumption DEF SpentType
<1>5. \A o \in DOMAIN pubs : pubs[o].side <= spent'.unsigned
  BY <1>3, <1>4
<1>6. \A o \in DOMAIN pubs' : pubs'[o].side <= spent'.unsigned
  BY <1>2, <1>5
<1> QED
  BY <1>1, <1>6 DEF PubsType

LEMMA EditTypes ==
    ASSUME Types, Edits
    PROVE  Types'
<1> USE DEF Types
<1>0. spent.unsigned \in Nat
  BY BoundsAssumption DEF SpentType
<1>00. ASSUME NEW h \in SUBSET {"undone", "overlapped"}, Edit(h)
       PROVE  SpentType' /\ spent'.unsigned = spent.unsigned
  <2>1. PICK k \in SUBSET {"undone", "overlapped"} : k = spent.harm \cup h
    BY DEF SpentType
  <2>2. spent' = [spent EXCEPT !.edits = spent.edits + 1, !.harm = k]
    BY <1>00, <2>1 DEF Edit
  <2>3. PICK n \in 0..MaxEdits : n = spent.edits + 1
    BY <1>00, BoundsAssumption DEF Edit, SpentType
  <2>4. spent' = [spent EXCEPT !.edits = n, !.harm = k]
    BY <2>2, <2>3
  <2> QED
    BY <2>4 DEF SpentType
<1>1. ASSUME NEW p \in Pubs, EditPub(p) PROVE Types'
  <2>1. pubs \in Manifests /\ p \in DOMAIN pubs
    BY <1>1 DEF EditPub, PubsType
  <2>2. pubs[p] \in Content /\ pubs[p].side <= spent.unsigned
    BY <2>1, ManifestElim DEF PubsType
  <2>3. Cardinality(Pubs) + spent.edits \in 0..(Cardinality(Pubs) + MaxEdits)
    BY <1>1, PubsAreCounted, BoundsAssumption DEF EditPub, Edit, SpentType
  <2>4. PICK c \in Content : c = [pubs[p] EXCEPT !.row = Cardinality(Pubs) + spent.edits]
    BY <2>2, <2>3 DEF Content
  <2>5. pubs' = [pubs EXCEPT ![p] = c] /\ c.side <= spent.unsigned
    BY <1>1, <2>2, <2>4 DEF EditPub, Content
  <2>6. SpentType' /\ spent'.unsigned = spent.unsigned
    BY <1>00, <1>1 DEF EditPub
  <2>7. PubsType'
    <3>1. /\ spent'.unsigned \in Nat /\ spent.unsigned <= spent'.unsigned
          /\ c.side <= spent'.unsigned
      BY <1>0, <2>5, <2>6
    <3> QED
      BY ONLY PubsType, SpentType, <2>1, <2>5, <2>6, <3>1, ChangedPub
  <2> QED
    BY <1>1, <2>6, <2>7 DEF EditPub, Edit, CacheType, NoteType, PushType, ServerType, SessionType
<1>2. ASSUME NEW p \in Pubs, EditFacet(p) PROVE Types'
  <2>1. pubs \in Manifests /\ p \in DOMAIN pubs
    BY <1>2 DEF EditFacet, PubsType
  <2>2. pubs[p] \in Content /\ pubs[p].side <= spent.unsigned
    BY <2>1, ManifestElim DEF PubsType
  <2>. pubs[p].facet \in {0, 1} /\ 1 - pubs[p].facet \in {0, 1}
    BY <2>2 DEF Content
  <2>3. PICK c \in Content : c = [pubs[p] EXCEPT !.facet = 1 - pubs[p].facet]
    BY <2>2 DEF Content
  <2>4. pubs' = [pubs EXCEPT ![p] = c] /\ c.side <= spent.unsigned
    BY <1>2, <2>2, <2>3 DEF EditFacet, Content
  <2>5. SpentType' /\ spent'.unsigned = spent.unsigned
    BY <1>00, <1>2 DEF EditFacet
  <2>6. PubsType'
    <3>1. /\ spent'.unsigned \in Nat /\ spent.unsigned <= spent'.unsigned
          /\ c.side <= spent'.unsigned
      BY <1>0, <2>4, <2>5
    <3> QED
      BY ONLY PubsType, SpentType, <2>1, <2>4, <2>5, <3>1, ChangedPub
  <2> QED
    BY <1>2, <2>5, <2>6 DEF EditFacet, Edit, CacheType, NoteType, PushType, ServerType, SessionType
<1>3. ASSUME NEW p \in Pubs, DeletePub(p) PROVE Types'
  <2>1. pubs' \in Manifests /\ CacheType'
    BY <1>3, OnlyType DEF DeletePub, PubsType, CacheType
  <2>2. SpentType' /\ spent'.unsigned = spent.unsigned
    BY <1>00, <1>3 DEF DeletePub
  <2>3. \A o \in DOMAIN pubs' : o \in DOMAIN pubs /\ pubs'[o] = pubs[o]
    BY <1>3 DEF DeletePub, Only
  <2>4. PubsType'
    BY <2>1, <2>2, <2>3 DEF PubsType
  <2> QED
    BY <1>3, <2>1, <2>2, <2>4 DEF DeletePub, Edit, NoteType, PushType, ServerType, SessionType
<1>4. ASSUME NEW p \in Pubs, EditAttribution(p) PROVE Types'
  <2>1. pubs \in Manifests /\ p \in DOMAIN pubs
    BY <1>4 DEF EditAttribution, PubsType
  <2>2. pubs[p] \in Content /\ pubs[p].side <= spent.unsigned
    BY <2>1, ManifestElim DEF PubsType
  <2>3. SpentType' /\ spent'.unsigned = spent.unsigned + 1
    BY <1>4, BoundsAssumption DEF EditAttribution, SpentType
  <2>4. pubs[p].side + 1 \in 0..MaxUnsigned
    BY <1>0, <1>4, <2>2, BoundsAssumption DEF EditAttribution, Content
  <2>5. PICK c \in Content : c = [pubs[p] EXCEPT !.side = pubs[p].side + 1]
    BY <2>2, <2>4 DEF Content
  <2>6. pubs' = [pubs EXCEPT ![p] = c] /\ c.side <= spent.unsigned + 1
    BY <1>0, <1>4, <2>2, <2>5, BoundsAssumption DEF EditAttribution, Content
  <2>7. PubsType'
    <3>1. /\ spent'.unsigned \in Nat /\ spent.unsigned <= spent'.unsigned
          /\ c.side <= spent'.unsigned
      BY <1>0, <2>3, <2>6
    <3> QED
      BY ONLY PubsType, SpentType, <2>1, <2>3, <2>6, <3>1, ChangedPub
  <2> QED
    BY <1>4, <2>3, <2>7 DEF EditAttribution, CacheType, NoteType, PushType, ServerType, SessionType
<1>5. ASSUME NEW t \in Targets, UpsertUnderlayIntegration(t) PROVE Types'
  <2>1. NoteType'
    BY <1>5 DEF UpsertUnderlayIntegration, NoteType
  <2>2. SpentType' /\ spent'.unsigned = spent.unsigned
    BY <1>00, <1>5 DEF UpsertUnderlayIntegration
  <2> QED
    BY <1>5, <2>1, <2>2 DEF UpsertUnderlayIntegration, Edit, PubsType, CacheType, PushType,
       ServerType, SessionType
<1> QED
  BY <1>1, <1>2, <1>3, <1>4, <1>5 DEF Edits

\* What a fault spends.
LEMMA FaultType ==
    ASSUME SpentType, NEW kind, Fault(kind)
    PROVE  SpentType' /\ spent'.unsigned = spent.unsigned
  BY BoundsAssumption DEF Fault, SpentType

LEMMA EndsType ==
    ASSUME PushType, SessionType, NEW q \in Pushes, NEW stage \in Stages, NEW result \in Results,
           Ends(q, stage, result)
    PROVE  PushType' /\ SessionType'
<1>1. [Idle EXCEPT !.stage = stage, !.result = result] \in Row
  BY IdleType DEF Row
<1> QED
  BY <1>1, NoSessionType DEF Ends, PushType, SessionType

LEMMA FailsType ==
    ASSUME PushType, NEW q \in Pushes, NEW result \in Results, Fails(q, result)
    PROVE  PushType'
<1>1. "failing" \in Stages
  BY DEF Stages
<1>2. PICK r \in Row : r = [push[q] EXCEPT !.stage = "failing", !.result = result]
  <2>1. push[q] \in Row
    BY DEF PushType
  <2> QED
    BY <1>1, <2>1 DEF Row
<1>3. push' = [push EXCEPT ![q] = r]
  BY <1>2 DEF Fails, PushType
<1> QED
  BY <1>3 DEF PushType

LEMMA RetryType ==
    ASSUME PushType, NEW q \in Pushes, Retry(q)
    PROVE  PushType'
<1>1. "retrying" \in Stages /\ "failing" \in Stages /\ "error" \in Results
  BY DEF Stages, Results
<1> QED
  <2>1. push[q] \in Row
    BY DEF PushType
  <2>2. PICK r \in Row : r = IF push[q].attempt = 1
                             THEN [push[q] EXCEPT !.stage = "retrying", !.attempt = 2]
                             ELSE [push[q] EXCEPT !.stage = "failing", !.result = "error"]
    BY <1>1, <2>1 DEF Row
  <2>3. push' = [push EXCEPT ![q] = r]
    BY <2>2 DEF Retry, PushType
  <2> QED
    BY <2>3 DEF PushType

LEMMA SessionStatusType ==
    ASSUME SessionType, NEW q \in Pushes, NEW status \in Statuses, Session(q, status)
    PROVE  SessionType'
  BY DEF Session, SessionType, SessionRow

\* The content of a pub that is read, and of an entry.
LEMMA RowType ==
    ASSUME PushType, NEW q \in Pushes
    PROVE  /\ push[q] \in Row
           /\ push[q].inputs \in Manifests /\ push[q].entries \in Manifests
           /\ push[q].manifest \in Manifests /\ push[q].fresh \in Manifests
           /\ push[q].hydrated \in Manifests
           /\ push[q].pending \in SUBSET Pubs /\ push[q].inFlight \in SUBSET Content
           /\ \A p \in DOMAIN push[q].inputs : p \in Pubs /\ push[q].inputs[p] \in Content
           /\ \A p \in DOMAIN push[q].entries : p \in Pubs /\ push[q].entries[p] \in Content
<1>1. push[q] \in Row
  BY DEF PushType
<1>2. /\ push[q].inputs \in Manifests /\ push[q].entries \in Manifests
      /\ push[q].manifest \in Manifests /\ push[q].fresh \in Manifests
      /\ push[q].hydrated \in Manifests
      /\ push[q].pending \in SUBSET Pubs /\ push[q].inFlight \in SUBSET Content
  BY <1>1 DEF Row
<1> QED
  BY <1>1, <1>2, ManifestElim

LEMMA BuildTypes ==
    ASSUME Types, NEW q \in Pushes,
           \/ PushToUnderlayTask(q) \/ Hydrate(q) \/ GetPushCacheEntries(q)
           \/ \E p \in Pubs : ReuseEntry(q, p) \/ MapPub(q, p)
           \/ BuildFails(q) \/ Checkpoint(q) \/ SkipUnchanged(q)
    PROVE  Types'
<1> USE DEF Types
<1>0. /\ {"begun", "hydrated", "mapping", "mapped", "done"} \subseteq Stages
      /\ {"error", "skipped"} \subseteq Results
  BY DEF Stages, Results
<1>1. CASE PushToUnderlayTask(q)
  <2>1. PushType'
    <3>1. PICK r \in Row :
            r = [push[q] EXCEPT !.stage = "begun", !.target = note.target, !.last = note.last,
                                !.of = note.of]
      BY <1>0, RowType DEF NoteType, Row
    <3>2. push' = [push EXCEPT ![q] = r]
      BY <1>1, <3>1 DEF PushToUnderlayTask, PushType
    <3> QED
      BY <3>2 DEF PushType
  <2>2. PICK h \in SUBSET {"undone", "overlapped"} : spent' = [spent EXCEPT !.harm = h]
    BY <1>1 DEF PushToUnderlayTask, SpentType
  <2>3. SpentType' /\ spent'.unsigned = spent.unsigned
    BY <2>2 DEF SpentType
  <2> QED
    BY <1>1, <2>1, <2>3 DEF PushToUnderlayTask, PubsType, CacheType, NoteType, ServerType,
       SessionType
<1>2. CASE Hydrate(q)
  <2>1. PushType'
    <3>1. PICK r \in Row : r = [push[q] EXCEPT !.stage = "hydrated", !.inputs = pubs]
      BY <1>0, RowType DEF PubsType, Row
    <3>2. push' = [push EXCEPT ![q] = r]
      BY <1>2, <3>1 DEF Hydrate, PushType
    <3> QED
      BY <3>2 DEF PushType
  <2> QED
    BY <1>2, <2>1 DEF Hydrate, PubsType, CacheType, NoteType, ServerType, SessionType, SpentType
<1>3. CASE GetPushCacheEntries(q)
  <2>1. PushType'
    <3>1. PICK r \in Row : r = [push[q] EXCEPT !.stage = "mapping", !.entries = cache]
      BY <1>0, RowType DEF CacheType, Row
    <3>2. push' = [push EXCEPT ![q] = r]
      BY <1>3, <3>1 DEF GetPushCacheEntries, PushType
    <3> QED
      BY <3>2 DEF PushType
  <2> QED
    BY <1>3, <2>1 DEF GetPushCacheEntries, PubsType, CacheType, NoteType, ServerType,
       SessionType, SpentType
<1>4. ASSUME NEW p \in Pubs, ReuseEntry(q, p) PROVE Types'
  <2>1. push[q].entries[p] \in Content
    BY <1>4, RowType DEF ReuseEntry, Hit
  <2>2. PICK m \in Manifests : m = Over(Just(p, push[q].entries[p]), push[q].manifest)
    BY <2>1, RowType, JustOver
  <2>3. push' = [push EXCEPT ![q].manifest = m]
    BY <1>4, <2>2 DEF ReuseEntry
  <2>4. PushType'
    BY <2>3 DEF PushType, Row
  <2> QED
    BY <1>4, <2>4 DEF ReuseEntry, PubsType, CacheType, NoteType, ServerType, SessionType, SpentType
<1>5. ASSUME NEW p \in Pubs, MapPub(q, p) PROVE Types'
  <2>1. PICK c \in Content : c = push[q].inputs[p]
    BY <1>5, RowType DEF MapPub, Todo
  <2>2. PICK m \in Manifests : m = Over(Just(p, c), push[q].manifest)
    BY RowType, JustOver
  <2>3. PICK f \in Manifests : f = Over(Just(p, c), push[q].fresh)
    BY RowType, JustOver
  <2>4. PICK s \in SUBSET Content : s = Submits(q, p, c)
    BY RowType DEF Submits
  <2>5. push' = [push EXCEPT ![q].manifest = m, ![q].fresh = f,
                             ![q].pending = push[q].pending \cup {p}, ![q].inFlight = s]
    BY <1>5, <2>1, <2>2, <2>3, <2>4 DEF MapPub
  <2>6. PushType'
    <3>1. PICK r \in Row :
            r = [push[q] EXCEPT !.manifest = m, !.fresh = f,
                                !.pending = push[q].pending \cup {p}, !.inFlight = s]
      <4>1. push[q] \in Row /\ push[q].pending \cup {p} \in SUBSET Pubs
        BY RowType
      <4> QED
        BY <4>1 DEF Row
    <3>2. push' = [push EXCEPT ![q] = r]
      BY <2>5, <3>1 DEF PushType
    <3> QED
      BY <3>2 DEF PushType
  <2> QED
    BY <1>5, <2>6 DEF MapPub, PubsType, CacheType, NoteType, ServerType, SessionType, SpentType
<1>6. CASE BuildFails(q)
  <2>1. PushType'
    BY <1>0, <1>6, FailsType DEF BuildFails
  <2> QED
    BY <1>6, <2>1 DEF BuildFails, PubsType, CacheType, NoteType, ServerType, SessionType, SpentType
<1>7. CASE Checkpoint(q)
  <2>1. Only(push[q].fresh, push[q].pending) \in Manifests
    BY RowType, OnlyType
  <2>2. CacheType'
    BY <1>7, <2>1, OverType DEF Checkpoint, UpsertPushCacheEntries, CacheType
  <2>3. ASSUME Fails(q, "error") PROVE PushType'
    BY <1>0, <2>3, FailsType
  <2>4. ASSUME NEW s \in Stages, push' = [push EXCEPT ![q].pending = {}, ![q].stage = s]
        PROVE  PushType'
    <3>1. PICK r \in Row : r = [push[q] EXCEPT !.pending = {}, !.stage = s]
      BY RowType DEF Row
    <3>2. push' = [push EXCEPT ![q] = r]
      BY <2>4, <3>1 DEF PushType
    <3> QED
      BY <3>2 DEF PushType
  <2>5. PICK s \in Stages : s = IF Todo(q) = {} THEN "mapped" ELSE push[q].stage
    BY <1>0, RowType DEF Row
  <2>6. PushType'
    BY <1>7, <2>3, <2>4, <2>5 DEF Checkpoint
  <2> QED
    BY <1>7, <2>2, <2>6 DEF Checkpoint, PubsType, NoteType, ServerType, SessionType, SpentType
<1>8. CASE SkipUnchanged(q)
  <2>1. PushType' /\ SessionType'
    BY <1>0, <1>8, EndsType DEF SkipUnchanged
  <2>2. PICK s \in Signatures : s = {push[q].manifest}
    BY RowType, SignatureType
  <2>3. NoteType'
    <3>1. PICK o \in Targets \cup {Nobody} : o = push[q].of
      BY RowType DEF Row
    <3>2. note' = [note EXCEPT !.last = s, !.of = o]
      BY <1>8, <2>2, <3>1 DEF SkipUnchanged
    <3> QED
      BY <3>2 DEF NoteType
  <2> QED
    BY <1>8, <2>1, <2>3 DEF SkipUnchanged, PubsType, CacheType, ServerType, SpentType
<1> QED
  BY <1>1, <1>2, <1>3, <1>4, <1>5, <1>6, <1>7, <1>8

\* What an attempt may upsert is mapped.
LEMMA UpsertsType ==
    ASSUME PushType, NEW q \in Pushes, NEW U
    PROVE  /\ ResolveUpserts(q, U) \in Manifests
           /\ DOMAIN ResolveUpserts(q, U) = DOMAIN push[q].inputs \cap U
           /\ \A p \in DOMAIN ResolveUpserts(q, U) : ResolveUpserts(q, U)[p] = push[q].inputs[p]
<1>1. push[q].inputs \in Manifests
  BY RowType
<1>2. ResolveUpserts(q, U) = Only(push[q].inputs, U)
  BY DEF ResolveUpserts
<1>3. /\ Only(push[q].inputs, U) \in Manifests
      /\ DOMAIN Only(push[q].inputs, U) = DOMAIN push[q].inputs \cap U
      /\ \A p \in DOMAIN push[q].inputs \cap U : Only(push[q].inputs, U)[p] = push[q].inputs[p]
  BY <1>1, OnlyType
<1> QED
  BY <1>2, <1>3

\* A push that only moves on to another stage.
LEMMA StageType ==
    ASSUME PushType, NEW q \in Pushes, NEW s \in Stages, push' = [push EXCEPT ![q].stage = s]
    PROVE  PushType'
<1>1. PICK r \in Row : r = [push[q] EXCEPT !.stage = s]
  BY RowType DEF Row
<1>2. push' = [push EXCEPT ![q] = r]
  BY <1>1 DEF PushType
<1> QED
  BY <1>2 DEF PushType

LEMMA StageResultType ==
    ASSUME PushType, NEW q \in Pushes, NEW s \in Stages, NEW result \in Results,
           push' = [push EXCEPT ![q].stage = s, ![q].result = result]
    PROVE  PushType'
<1>1. PICK r \in Row : r = [push[q] EXCEPT !.stage = s, !.result = result]
  BY RowType DEF Row
<1>2. push' = [push EXCEPT ![q] = r]
  BY <1>1 DEF PushType
<1> QED
  BY <1>2 DEF PushType

LEMMA AttemptTypes ==
    ASSUME Types, NEW q \in Pushes, Attempt(q), push[q].target \in Targets
    PROVE  Types'
<1> USE DEF Types
<1> DEFINE head == server[push[q].target].head
           upserts == Upserts(push[q].manifest, head)
           deletes == Deletes(push[q].manifest, head)
           lacking == upserts \ DOMAIN push[q].fresh
           resolved == ResolveUpserts(q, lacking)
           records == Over(resolved, push[q].fresh)
<1>1. /\ head \in Manifests /\ server[push[q].target].version \in Nat
      /\ deletes \in SUBSET Pubs
  <2>1. server[push[q].target] \in Collection
    BY DEF ServerType
  <2>2. head \in Manifests /\ server[push[q].target].version \in Nat
    BY <2>1 DEF Collection
  <2>3. DOMAIN head \in SUBSET Pubs
    BY <2>2, ManifestElim
  <2> QED
    BY <2>2, <2>3 DEF Deletes
<1> HIDE DEF head, deletes
<1>2. resolved \in Manifests
  BY UpsertsType
<1>3. Over(resolved, push[q].hydrated) \in Manifests /\ Only(records, upserts) \in Manifests
  <2> HIDE DEF upserts, resolved
  <2> QED
    BY <1>2, RowType, OverType, OnlyType
<1> HIDE DEF upserts, lacking, resolved, records
<1>4. /\ "noting" \in Stages /\ "noop" \in Results /\ "opening" \in Stages /\ "planned" \in Statuses
      /\ "unproducible" \in Results
  BY DEF Stages, Results, Statuses
<1>5. \/ /\ push' = [push EXCEPT ![q].stage = "noting", ![q].result = "noop"]
         /\ UNCHANGED session
      \/ /\ push' = [push EXCEPT ![q].stage = "opening",
                                 ![q].hydrated = Over(resolved, push[q].hydrated)]
         /\ session' = [session EXCEPT ![q] =
                [status |-> "planned", base |-> server[push[q].target].version,
                 target |-> push[q].target, deletes |-> deletes,
                 upserts |-> Only(records, upserts)]]
      \/ Fails(q, "unproducible") /\ UNCHANGED session
  BY DEF Attempt, head, upserts, deletes, lacking, resolved, records
<1>6. PushType'
  <2>1. CASE push' = [push EXCEPT ![q].stage = "noting", ![q].result = "noop"]
    BY <1>4, <2>1, StageResultType
  <2>2. ASSUME push' = [push EXCEPT ![q].stage = "opening",
                                    ![q].hydrated = Over(resolved, push[q].hydrated)]
        PROVE  PushType'
    <3>1. PICK h \in Manifests : h = Over(resolved, push[q].hydrated)
      BY <1>3
    <3>2. PICK r \in Row : r = [push[q] EXCEPT !.stage = "opening", !.hydrated = h]
      BY <1>4, RowType DEF Row
    <3>3. push' = [push EXCEPT ![q] = r]
      BY <2>2, <3>1, <3>2 DEF PushType
    <3> QED
      BY <3>3 DEF PushType
  <2>3. CASE Fails(q, "unproducible")
    BY <1>4, <2>3, FailsType
  <2> QED
    BY <1>5, <2>1, <2>2, <2>3
<1>7. SessionType'
  <2>1. PICK r \in SessionRow :
          r = [status |-> "planned", base |-> server[push[q].target].version,
               target |-> push[q].target, deletes |-> deletes,
               upserts |-> Only(records, upserts)]
    BY <1>1, <1>3, <1>4 DEF SessionRow
  <2> QED
    BY <1>5, <2>1 DEF SessionType
<1> QED
  BY <1>6, <1>7 DEF Attempt, PubsType, CacheType, NoteType, ServerType, SpentType

LEMMA ClientTypes ==
    ASSUME Types, NEW q \in Pushes,
           \/ OpenSession(q) \/ Commit(q) \/ CommitAnswerLost(q) \/ Recommit(q)
           \/ AwaitAsyncCommit(q) \/ CommitRefused(q) \/ CallFails(q) \/ GiveUp(q)
    PROVE  Types'
<1> USE DEF Types
<1>0. /\ {"sending", "polling", "recommitting", "noting"} \subseteq Stages
      /\ {"error", "noop", "committed", "unproducible"} \subseteq Results
      /\ {"none", "open", "committing"} \subseteq Statuses
  BY DEF Stages, Results, Statuses
<1>1. CASE OpenSession(q)
  <2>1. PushType' /\ SessionType'
    <3>1. CASE Session(q, "open") /\ push' = [push EXCEPT ![q].stage = "sending"]
      BY <1>0, <3>1, StageType, SessionStatusType
    <3>2. CASE Session(q, "none") /\ Retry(q)
      BY <1>0, <3>2, RetryType, SessionStatusType
    <3> QED
      BY <1>1, <3>1, <3>2 DEF OpenSession
  <2> QED
    BY <1>1, <2>1 DEF OpenSession, PubsType, CacheType, NoteType, ServerType, SpentType
<1>2. CASE Commit(q)
  <2>1. PushType' /\ SessionType'
    BY <1>0, <1>2, StageType, SessionStatusType DEF Commit
  <2> QED
    BY <1>2, <2>1 DEF Commit, PubsType, CacheType, NoteType, ServerType, SpentType
<1>3. CASE CommitAnswerLost(q)
  <2>1. PushType' /\ SessionType'
    BY <1>0, <1>3, StageType, SessionStatusType DEF CommitAnswerLost
  <2>2. SpentType' /\ spent'.unsigned = spent.unsigned
    BY <1>3, FaultType DEF CommitAnswerLost
  <2> QED
    BY <1>3, <2>1, <2>2 DEF CommitAnswerLost, PubsType, CacheType, NoteType, ServerType
<1>4. CASE Recommit(q)
  <2>1. PushType'
    BY <1>0, <1>4, StageType, FailsType DEF Recommit
  <2> QED
    BY <1>4, <2>1 DEF Recommit, PubsType, CacheType, NoteType, ServerType, SessionType, SpentType
<1>5. CASE AwaitAsyncCommit(q)
  <2>1. PushType'
    BY <1>0, <1>5, StageResultType DEF AwaitAsyncCommit
  <2> QED
    BY <1>5, <2>1 DEF AwaitAsyncCommit, PubsType, CacheType, NoteType, ServerType,
       SessionType, SpentType
<1>6. CASE CommitRefused(q)
  <2>1. ASSUME UploadMissingFiles(q) PROVE PushType' /\ ServerType'
    <3>1. PICK owner \in [MissingFiles(q) -> Pubs \cup {Nobody}] :
            LET resolved == {f \in MissingFiles(q) : ResolveFileByHash(q, owner[f], f)} IN
            /\ server' = [server EXCEPT ![session[q].target].held = @ \cup resolved]
            /\ IF resolved = MissingFiles(q) THEN Retry(q) ELSE Fails(q, "unproducible")
      BY <2>1 DEF UploadMissingFiles
    <3>2. PushType'
      BY <1>0, <3>1, RetryType, FailsType
    <3>3. MissingFiles(q) \in SUBSET Content
      <4>1. session[q].upserts \in Manifests
        BY DEF SessionType, SessionRow
      <4> QED
        BY <4>1, ImageType DEF MissingFiles
    <3>4. PICK resolved \in SUBSET Content :
            server' = [server EXCEPT ![session[q].target].held = @ \cup resolved]
      BY <3>1, <3>3
    <3>5. ServerType'
      BY <3>4 DEF ServerType, Collection
    <3> QED
      BY <3>2, <3>5
  <2>2. PushType' /\ ServerType'
    BY <1>0, <1>6, <2>1, RetryType, StageResultType DEF CommitRefused, ServerType
  <2> QED
    BY <1>6, <2>2 DEF CommitRefused, PubsType, CacheType, NoteType, SessionType, SpentType
<1>7. CASE CallFails(q)
  <2>1. PushType' /\ SessionType'
    <3>1. Fails(q, "error") /\ Abandons(q)
      BY <1>7 DEF CallFails
    <3>2. PushType'
      BY <1>0, <3>1, FailsType
    <3>3. SessionType'
      BY <1>0, <3>1, SessionStatusType DEF Abandons, SessionType
    <3> QED
      BY <3>2, <3>3
  <2>2. SpentType' /\ spent'.unsigned = spent.unsigned
    BY <1>7, FaultType DEF CallFails
  <2>3. ServerType'
    <3>1. CASE UNCHANGED server
      BY <3>1 DEF ServerType
    <3>2. ASSUME NEW sent \in SUBSET (MissingFiles(q) \cap Image(push[q].inputs)),
                 server' = [server EXCEPT ![session[q].target].held = @ \cup sent]
          PROVE  ServerType'
      <4>1. sent \in SUBSET Content
        BY <3>2, RowType, ImageType
      <4> QED
        BY <3>2, <4>1 DEF ServerType, Collection
    <3> QED
      BY <1>7, <3>1, <3>2 DEF CallFails
  <2> QED
    BY <1>7, <2>1, <2>2, <2>3 DEF CallFails, PubsType, CacheType, NoteType
<1>8. CASE GiveUp(q)
  <2>1. PushType' /\ SessionType'
    <3>1. Fails(q, "error") /\ Abandons(q)
      BY <1>8 DEF GiveUp
    <3>2. PushType'
      BY <1>0, <3>1, FailsType
    <3>3. SessionType'
      BY <1>0, <3>1, SessionStatusType DEF Abandons, SessionType
    <3> QED
      BY <3>2, <3>3
  <2>2. SpentType' /\ spent'.unsigned = spent.unsigned
    BY <1>8, FaultType DEF GiveUp
  <2> QED
    BY <1>8, <2>1, <2>2 DEF GiveUp, PubsType, CacheType, NoteType, ServerType
<1> QED
  BY <1>1, <1>2, <1>3, <1>4, <1>5, <1>6, <1>7, <1>8

LEMMA UploadTypes ==
    ASSUME Types, NEW q \in Pushes, NEW f \in push[q].inFlight,
           UploadLands(q, f) \/ UploadFails(q, f)
    PROVE  Types'
<1> USE DEF Types
<1>1. f \in Content
  BY RowType
<1>2. PICK r \in Row :
        \/ r = [push[q] EXCEPT !.inFlight = push[q].inFlight \ {f}] /\ UploadLands(q, f)
        \/ /\ r = [push[q] EXCEPT !.inFlight = push[q].inFlight \ {f}, !.failure = TRUE]
           /\ UploadFails(q, f)
  BY RowType DEF Row
<1>3. push' = [push EXCEPT ![q] = r]
  <2>1. CASE r = [push[q] EXCEPT !.inFlight = push[q].inFlight \ {f}] /\ UploadLands(q, f)
    BY <2>1 DEF UploadLands, PushType
  <2>2. CASE /\ r = [push[q] EXCEPT !.inFlight = push[q].inFlight \ {f}, !.failure = TRUE]
             /\ UploadFails(q, f)
    BY <2>2 DEF UploadFails, PushType
  <2> QED
    BY <1>2, <2>1, <2>2
<1>4. PushType'
  BY <1>3 DEF PushType
<1>5. CASE UploadLands(q, f)
  <2>1. ServerType'
    BY <1>1, <1>5 DEF UploadLands, ServerType, Collection
  <2> QED
    BY <1>4, <1>5, <2>1 DEF UploadLands, PubsType, CacheType, NoteType, SessionType, SpentType
<1>6. CASE UploadFails(q, f)
  <2>1. SpentType' /\ spent'.unsigned = spent.unsigned
    BY <1>6, FaultType DEF UploadFails
  <2> QED
    BY <1>4, <1>6, <2>1 DEF UploadFails, PubsType, CacheType, NoteType, ServerType, SessionType
<1> QED
  BY <1>5, <1>6

LEMMA EndTypes ==
    ASSUME Types, NEW q \in Pushes,
           \/ RecordPushResult(q) \/ WriteFails(q) \/ ApplyPushCache(q)
           \/ RecordError(q) \/ Crash(q)
    PROVE  Types'
<1> USE DEF Types
<1>0. /\ {"applying", "done", "dead"} \subseteq Stages
      /\ {"error", "none"} \subseteq Results /\ push[q].result \in Results
  BY RowType DEF Stages, Results, Row
<1>1. CASE RecordPushResult(q)
  <2>1. PushType'
    BY <1>0, <1>1, StageType DEF RecordPushResult
  <2>2. PICK s \in Signatures : s = {push[q].manifest}
    BY RowType, SignatureType
  <2>3. NoteType'
    <3>1. PICK o \in Targets \cup {Nobody} : o = push[q].target
      BY RowType DEF Row
    <3>2. note' = [note EXCEPT !.last = s, !.of = o]
      BY <1>1, <2>2, <3>1 DEF RecordPushResult
    <3> QED
      BY <3>2 DEF NoteType
  <2> QED
    BY <1>1, <2>1, <2>3 DEF RecordPushResult, PubsType, CacheType, ServerType, SessionType,
       SpentType
<1>2. CASE WriteFails(q)
  <2>1. PushType'
    BY <1>0, <1>2, FailsType DEF WriteFails
  <2>2. SpentType' /\ spent'.unsigned = spent.unsigned
    BY <1>2, FaultType DEF WriteFails
  <2> QED
    BY <1>2, <2>1, <2>2 DEF WriteFails, PubsType, CacheType, NoteType, ServerType, SessionType
<1>3. CASE ApplyPushCache(q)
  <2>1. \A H : Only(push[q].hydrated, H) \in Manifests
    BY RowType, OnlyType
  <2>2. CacheUpserts(q) \in Manifests
    BY <2>1, RowType, OverType DEF CacheUpserts
  <2>3. Over(CacheUpserts(q), cache) \in Manifests
    BY <2>2, OverType DEF CacheType
  <2>4. CacheType'
    <3>1. \A S : Only(Over(CacheUpserts(q), cache), S) \in Manifests
      BY <2>3, OnlyType
    <3> QED
      BY <1>3, <3>1 DEF ApplyPushCache, CacheType
  <2>5. PushType' /\ SessionType'
    <3>1. CASE Ends(q, "done", push[q].result)
      <4>1. PICK result \in Results : result = push[q].result
        BY <1>0
      <4>2. Ends(q, "done", result)
        BY <3>1, <4>1
      <4> QED
        BY <1>0, <4>2, EndsType
    <3>2. CASE Fails(q, "error") /\ UNCHANGED session
      BY <1>0, <3>2, FailsType DEF SessionType
    <3> QED
      BY <1>3, <3>1, <3>2 DEF ApplyPushCache
  <2> QED
    BY <1>3, <2>4, <2>5 DEF ApplyPushCache, PubsType, NoteType, ServerType, SpentType
<1>4. CASE RecordError(q)
  <2>1. PICK result \in Results : result = push[q].result
    BY <1>0
  <2>2. Ends(q, "done", result)
    BY <1>4, <2>1 DEF RecordError
  <2>3. PushType' /\ SessionType'
    BY <1>0, <2>2, EndsType
  <2> QED
    BY <1>4, <2>3 DEF RecordError, PubsType, CacheType, NoteType, ServerType, SpentType
<1>5. CASE Crash(q)
  <2>1. PushType' /\ SessionType'
    BY <1>0, <1>5, EndsType DEF Crash
  <2>2. SpentType' /\ spent'.unsigned = spent.unsigned
    BY <1>5, FaultType DEF Crash
  <2> QED
    BY <1>5, <2>1, <2>2 DEF Crash, PubsType, CacheType, NoteType, ServerType
<1> QED
  BY <1>1, <1>2, <1>3, <1>4, <1>5

\* What a session makes of the head that it meets.
LEMMA AppliedType ==
    ASSUME ServerType, SessionType, NEW q \in Pushes, session[q].target \in Targets
    PROVE  Applied(q) \in Manifests /\ Image(Applied(q)) \in SUBSET Content
<1>1. server[session[q].target].head \in Manifests
  BY DEF ServerType, Collection
<1>2. session[q].upserts \in Manifests
  BY DEF SessionType, SessionRow
<1>3. \A S : Only(server[session[q].target].head, S) \in Manifests
  BY <1>1, OnlyType
<1>4. Applied(q) \in Manifests
  BY <1>2, <1>3, OverType DEF Applied
<1> QED
  BY <1>4, ImageType

LEMMA ServerTypes ==
    ASSUME Types,
           \A q \in Pushes : session[q].status = "committing" => session[q].target \in Targets,
           Server
    PROVE  Types'
<1> USE DEF Types
<1>0. {"conflict", "filesNeeded", "unchanged", "committed", "busy"} \subseteq Statuses
  BY DEF Statuses
<1>1. ASSUME NEW q \in Pushes, CommitRuns(q) PROVE Types'
  <2>1. PICK t \in Targets : t = session[q].target
    BY <1>1 DEF CommitRuns
  <2>2. PICK m \in Manifests, k \in SUBSET Content : m = Applied(q) /\ k = Image(Applied(q))
    BY <2>1, AppliedType
  <2>3. \/ /\ \/ Session(q, "conflict") \/ Session(q, "filesNeeded") \/ Session(q, "unchanged")
           /\ UNCHANGED server
        \/ /\ server' = [server EXCEPT ![t].version = @ + 1, ![t].head = m, ![t].kept = @ \cup k]
           /\ Session(q, "committed")
    BY <1>1, <2>1, <2>2 DEF CommitRuns
  <2>4. ServerType'
    <3>1. CASE UNCHANGED server
      BY <3>1 DEF ServerType
    <3>2. CASE server' = [server EXCEPT ![t].version = @ + 1, ![t].head = m, ![t].kept = @ \cup k]
      <4>1. PICK c \in Collection :
              c = [server[t] EXCEPT !.version = server[t].version + 1, !.head = m,
                                    !.kept = server[t].kept \cup k]
        <5>1. server[t] \in Collection
          BY DEF ServerType
        <5>2. /\ server[t].version + 1 \in Nat
              /\ server[t].kept \cup k \in SUBSET Content
          BY <5>1 DEF Collection
        <5>3. PICK n \in Nat, l \in SUBSET Content :
                n = server[t].version + 1 /\ l = server[t].kept \cup k
          BY <5>2
        <5>4. [server[t] EXCEPT !.version = n, !.head = m, !.kept = l] \in Collection
          BY <5>1 DEF Collection
        <5> QED
          BY <5>3, <5>4
      <4>2. server' = [server EXCEPT ![t] = c]
        BY <3>2, <4>1 DEF ServerType
      <4> QED
        BY <4>2 DEF ServerType
    <3> QED
      BY <2>3, <3>1, <3>2
  <2>5. SessionType'
    BY <1>0, <2>3, SessionStatusType
  <2> QED
    BY <1>1, <2>4, <2>5 DEF CommitRuns, PubsType, CacheType, NoteType, PushType, SpentType
<1>2. ASSUME NEW q \in Pushes, CommitIsBusy(q) PROVE Types'
  <2>1. SessionType'
    BY <1>0, <1>2, SessionStatusType DEF CommitIsBusy
  <2>2. SpentType' /\ spent'.unsigned = spent.unsigned
    BY <1>2, FaultType DEF CommitIsBusy
  <2> QED
    BY <1>2, <2>1, <2>2 DEF CommitIsBusy, PubsType, CacheType, NoteType, PushType, ServerType
<1>3. ASSUME NEW t \in Targets, Publish(t) \/ \E f \in server[t].held : CleanUp(t, f) PROVE Types'
  <2>1. ServerType'
    BY <1>3 DEF Publish, CleanUp, ServerType, Collection
  <2>2. SpentType' /\ spent'.unsigned = spent.unsigned
    BY <1>3, FaultType DEF Publish, CleanUp
  <2> QED
    BY <1>3, <2>1, <2>2 DEF Publish, CleanUp, PubsType, CacheType, NoteType, PushType, SessionType
<1> QED
  BY <1>1, <1>2, <1>3 DEF Server
----------------------------------------------------------------------------
(* What a step does to a push. *)

\* The uploads of a push have been drained for the last time.
PastDrain == {"mapped", "retrying", "opening", "sending", "polling", "recommitting",
              "noting", "applying"}

KeepsWork(q) ==
    /\ push'[q].target = push[q].target
    /\ push'[q].last = push[q].last /\ push'[q].of = push[q].of
    /\ push'[q].inputs = push[q].inputs /\ push'[q].entries = push[q].entries
    /\ push'[q].manifest = push[q].manifest /\ push'[q].fresh = push[q].fresh

\* A stage ends, or a checkpoint is passed.
MovesOn(q) ==
    /\ Live(q) /\ KeepsWork(q)
    /\ push'[q].hydrated = push[q].hydrated
    /\ push'[q].inFlight = push[q].inFlight /\ push'[q].failure = push[q].failure
    /\ \/ push'[q].stage = "failing"
       \/ push[q].stage \in PastDrain /\ push'[q].stage \in PastDrain
       \/ /\ push[q].stage = "mapping" /\ push'[q].stage \in {"mapping", "mapped"}
          /\ push[q].inFlight = {} /\ ~push[q].failure
          /\ push'[q].stage = "mapped" => Todo(q) = {}

Ended(q) ==
    /\ Live(q) /\ push'[q].stage \in {"done", "dead"}
    /\ push'[q].last = {} /\ push'[q].of = Nobody
    /\ DOMAIN push'[q].inputs = {} /\ DOMAIN push'[q].entries = {}
    /\ DOMAIN push'[q].manifest = {} /\ DOMAIN push'[q].fresh = {}
    /\ DOMAIN push'[q].hydrated = {} /\ push'[q].inFlight = {}

\* The difference is computed: nothing to do, or a session is planned.
Attempted(q) ==
    /\ Attempt(q) /\ KeepsWork(q)
    /\ push'[q].inFlight = push[q].inFlight
    /\ push[q].stage \in PastDrain /\ push'[q].stage \in PastDrain
    /\ \/ push'[q].hydrated = push[q].hydrated
       \/ \E U \in SUBSET (DOMAIN push[q].manifest \ DOMAIN push[q].fresh) :
            push'[q].hydrated = Over(ResolveUpserts(q, U), push[q].hydrated)

\* What a step of the task makes of a push: every action that changes its work, and
\* the others as MovesOn or Ended.
PushStep(q) ==
    \/ push'[q] = push[q]
    \/ PushToUnderlayTask(q) \/ Hydrate(q) \/ GetPushCacheEntries(q)
    \/ \E p \in Pubs : ReuseEntry(q, p) \/ MapPub(q, p)
    \/ \E f \in push[q].inFlight : UploadLands(q, f) \/ UploadFails(q, f)
    \/ Attempted(q) \/ MovesOn(q) \/ Ended(q)

LEMMA EndsIsEnded ==
    ASSUME PushType, NEW q \in Pushes, Live(q), NEW stage \in {"done", "dead"}, NEW result,
           Ends(q, stage, result)
    PROVE  Ended(q)
<1>1. push'[q] = [Idle EXCEPT !.stage = stage, !.result = result]
  BY DEF Ends, PushType
<1> QED
  BY <1>1, EmptyType DEF Ended, Idle

LEMMA FailsMovesOn ==
    ASSUME PushType, NEW q \in Pushes, Live(q), NEW result, Fails(q, result)
    PROVE  MovesOn(q)
<1>1. push'[q] = [push[q] EXCEPT !.stage = "failing", !.result = result]
  BY DEF Fails, PushType
<1> QED
  BY <1>1, RowType DEF MovesOn, KeepsWork, Row

LEMMA RetryMovesOn ==
    ASSUME PushType, NEW q \in Pushes, push[q].stage \in PastDrain, Retry(q)
    PROVE  MovesOn(q)
<1>1. \/ push'[q] = [push[q] EXCEPT !.stage = "retrying", !.attempt = 2]
      \/ push'[q] = [push[q] EXCEPT !.stage = "failing", !.result = "error"]
  BY DEF Retry, PushType
<1> QED
  BY <1>1, RowType DEF MovesOn, KeepsWork, Row, Live, PastDrain

LEMMA StageMovesOn ==
    ASSUME PushType, NEW q \in Pushes, push[q].stage \in PastDrain, NEW s \in PastDrain, NEW result,
           \/ push' = [push EXCEPT ![q].stage = s]
           \/ push' = [push EXCEPT ![q].stage = s, ![q].result = result]
    PROVE  MovesOn(q)
<1>1. \/ push'[q] = [push[q] EXCEPT !.stage = s]
      \/ push'[q] = [push[q] EXCEPT !.stage = s, !.result = result]
  BY DEF PushType
<1>2. /\ KeepsWork(q) /\ push'[q].stage = s
      /\ push'[q].hydrated = push[q].hydrated
      /\ push'[q].inFlight = push[q].inFlight /\ push'[q].failure = push[q].failure
  BY <1>1, RowType DEF KeepsWork, Row
<1> QED
  BY <1>2 DEF MovesOn, Live, PastDrain

LEMMA AttemptIsAttempted ==
    ASSUME PushType, NEW q \in Pushes, Attempt(q)
    PROVE  Attempted(q) \/ (Fails(q, "unproducible") /\ MovesOn(q))
<1> DEFINE head == server[push[q].target].head
           upserts == Upserts(push[q].manifest, head)
           lacking == upserts \ DOMAIN push[q].fresh
           resolved == ResolveUpserts(q, lacking)
<1>1. \/ push' = [push EXCEPT ![q].stage = "noting", ![q].result = "noop"]
      \/ push' = [push EXCEPT ![q].stage = "opening",
                              ![q].hydrated = Over(resolved, push[q].hydrated)]
      \/ Fails(q, "unproducible")
  BY DEF Attempt
<1>2. lacking \in SUBSET (DOMAIN push[q].manifest \ DOMAIN push[q].fresh)
  BY DEF Upserts
<1>3. push[q].stage \in PastDrain
  BY DEF Attempt, Mapped, At, PastDrain
<1>4. CASE push' = [push EXCEPT ![q].stage = "noting", ![q].result = "noop"]
  <2>1. push'[q] = [push[q] EXCEPT !.stage = "noting", !.result = "noop"]
    BY <1>4 DEF PushType
  <2>2. /\ push'[q].hydrated = push[q].hydrated /\ push'[q].inFlight = push[q].inFlight
        /\ push'[q].stage \in PastDrain /\ KeepsWork(q)
    BY <2>1, RowType DEF KeepsWork, PastDrain, Row
  <2> HIDE DEF upserts, lacking, resolved
  <2>3. Attempt(q) /\ push[q].stage \in PastDrain
    BY <1>3
  <2> QED
    BY ONLY <2>2, <2>3 DEF Attempted
<1>5. CASE push' = [push EXCEPT ![q].stage = "opening",
                                ![q].hydrated = Over(resolved, push[q].hydrated)]
  <2> HIDE DEF upserts, lacking
  <2>1. push'[q] = [push[q] EXCEPT !.stage = "opening",
                                   !.hydrated = Over(resolved, push[q].hydrated)]
    BY <1>5 DEF PushType
  <2> HIDE DEF resolved
  <2>2. /\ push'[q].hydrated = Over(resolved, push[q].hydrated)
        /\ push'[q].stage \in PastDrain /\ push'[q].inFlight = push[q].inFlight
        /\ KeepsWork(q)
    BY <2>1, RowType DEF KeepsWork, PastDrain, Row
  <2>3. \E U \in SUBSET (DOMAIN push[q].manifest \ DOMAIN push[q].fresh) :
          push'[q].hydrated = Over(ResolveUpserts(q, U), push[q].hydrated)
    BY <1>2, <2>2 DEF resolved
  <2>4. Attempt(q) /\ push[q].stage \in PastDrain
    BY <1>3
  <2> QED
    BY ONLY <2>2, <2>3, <2>4 DEF Attempted
<1>6. CASE Fails(q, "unproducible")
  <2>1. Live(q)
    BY <1>3 DEF PastDrain, Live
  <2> QED
    BY <1>6, <2>1, FailsMovesOn
<1> QED
  BY <1>1, <1>4, <1>5, <1>6

LEMMA StepIsPushStep ==
    ASSUME PushType, NEW q \in Pushes, Step(q)
    PROVE  PushStep(q)
<1>1. CASE Hydrate(q) \/ GetPushCacheEntries(q) \/ \E p \in Pubs : ReuseEntry(q, p) \/ MapPub(q, p)
  BY <1>1 DEF PushStep
<1>2. CASE BuildFails(q)
  <2>1. Live(q) /\ Fails(q, "error")
    BY <1>2 DEF BuildFails, At, Live
  <2> QED
    BY <2>1, FailsMovesOn DEF PushStep
<1>3. CASE Checkpoint(q)
  <2>1. Live(q) /\ push[q].stage = "mapping" /\ push[q].inFlight = {} /\ ~push[q].failure
    BY <1>3 DEF Checkpoint, At, Live, Drained
  <2>2. CASE Fails(q, "error")
    BY <2>1, <2>2, FailsMovesOn DEF PushStep
  <2>3. ASSUME NEW s \in {"mapping", "mapped"}, s = "mapped" => Todo(q) = {},
               push' = [push EXCEPT ![q].pending = {}, ![q].stage = s]
        PROVE  MovesOn(q)
    <3>1. push'[q] = [push[q] EXCEPT !.pending = {}, !.stage = s]
      BY <2>3 DEF PushType
    <3>2. /\ KeepsWork(q) /\ push'[q].stage = s
          /\ push'[q].hydrated = push[q].hydrated
          /\ push'[q].inFlight = push[q].inFlight /\ push'[q].failure = push[q].failure
      BY <3>1, RowType DEF KeepsWork, Row
    <3> QED
      BY <2>1, <2>3, <3>2 DEF MovesOn
  <2>4. PICK s \in {"mapping", "mapped"} :
          /\ s = IF Todo(q) = {} THEN "mapped" ELSE push[q].stage
          /\ s = "mapped" => Todo(q) = {}
    BY <2>1
  <2>5. Fails(q, "error") \/ MovesOn(q)
    BY <1>3, <2>3, <2>4 DEF Checkpoint
  <2> QED
    BY <2>2, <2>5 DEF PushStep
<1>4. CASE SkipUnchanged(q)
  <2>1. Live(q) /\ Ends(q, "done", "skipped")
    BY <1>4 DEF SkipUnchanged, At, Live
  <2> QED
    BY <2>1, EndsIsEnded DEF PushStep
<1>5. CASE Attempt(q)
  BY <1>5, AttemptIsAttempted DEF PushStep
<1>6. CASE OpenSession(q)
  <2>1. push[q].stage \in PastDrain /\ "sending" \in PastDrain
    BY <1>6 DEF OpenSession, At, PastDrain
  <2> QED
    BY <1>6, <2>1, StageMovesOn, RetryMovesOn DEF OpenSession, PushStep
<1>7. CASE Commit(q)
  <2>1. push[q].stage \in PastDrain /\ "polling" \in PastDrain
    BY <1>7 DEF Commit, At, PastDrain
  <2> QED
    BY <1>7, <2>1, StageMovesOn DEF Commit, PushStep
<1>8. CASE Recommit(q)
  <2>1. push[q].stage \in PastDrain /\ "polling" \in PastDrain /\ Live(q)
    BY <1>8 DEF Recommit, At, PastDrain, Live
  <2> QED
    BY <1>8, <2>1, StageMovesOn, FailsMovesOn DEF Recommit, PushStep
<1>9. CASE AwaitAsyncCommit(q)
  <2>1. push[q].stage \in PastDrain /\ "noting" \in PastDrain
    BY <1>9 DEF AwaitAsyncCommit, Polls, At, PastDrain
  <2> QED
    BY <1>9, <2>1, StageMovesOn DEF AwaitAsyncCommit, PushStep
<1>10. CASE CommitRefused(q)
  <2>1. push[q].stage \in PastDrain /\ "noting" \in PastDrain /\ Live(q)
    BY <1>10 DEF CommitRefused, Polls, At, PastDrain, Live
  <2>2. \/ Retry(q) \/ Fails(q, "unproducible")
        \/ push' = [push EXCEPT ![q].stage = "noting", ![q].result = "noop"]
    BY <1>10 DEF CommitRefused, UploadMissingFiles
  <2> QED
    BY <2>1, <2>2, StageMovesOn, RetryMovesOn, FailsMovesOn DEF PushStep
<1>11. CASE RecordPushResult(q)
  <2>1. push[q].stage \in PastDrain /\ "applying" \in PastDrain
    BY <1>11 DEF RecordPushResult, At, PastDrain
  <2> QED
    BY <1>11, <2>1, StageMovesOn DEF RecordPushResult, PushStep
<1>12. CASE ApplyPushCache(q)
  <2>1. Live(q)
    BY <1>12 DEF ApplyPushCache, At, Live
  <2>2. Ends(q, "done", push[q].result) \/ Fails(q, "error")
    BY <1>12 DEF ApplyPushCache
  <2>3. PICK result : result = push[q].result
    OBVIOUS
  <2> QED
    BY <2>1, <2>2, <2>3, EndsIsEnded, FailsMovesOn DEF PushStep
<1>13. CASE RecordError(q)
  <2>1. Live(q) /\ Ends(q, "done", push[q].result)
    BY <1>13 DEF RecordError, At, Live
  <2>2. PICK result : result = push[q].result
    OBVIOUS
  <2> QED
    BY <2>1, <2>2, EndsIsEnded DEF PushStep
<1> QED
  BY <1>1, <1>2, <1>3, <1>4, <1>5, <1>6, <1>7, <1>8, <1>9, <1>10, <1>11, <1>12, <1>13 DEF Step

LEMMA BreaksIsPushStep ==
    ASSUME PushType, NEW q \in Pushes, Breaks(q)
    PROVE  PushStep(q)
<1>1. CASE \E f \in push[q].inFlight : UploadFails(q, f)
  BY <1>1 DEF PushStep
<1>2. CASE CommitAnswerLost(q)
  <2>1. push[q].stage \in PastDrain /\ "recommitting" \in PastDrain
    BY <1>2 DEF CommitAnswerLost, At, PastDrain
  <2> QED
    BY <1>2, <2>1, StageMovesOn DEF CommitAnswerLost, PushStep
<1>3. CASE CallFails(q)
  <2>1. Live(q) /\ Fails(q, "error")
    BY <1>3 DEF CallFails, Polls, At, Live
  <2> QED
    BY <2>1, FailsMovesOn DEF PushStep
<1>4. CASE GiveUp(q)
  <2>1. Live(q) /\ Fails(q, "error")
    BY <1>4 DEF GiveUp, Polls, At, Live
  <2> QED
    BY <2>1, FailsMovesOn DEF PushStep
<1>5. CASE WriteFails(q)
  <2>1. Live(q) /\ Fails(q, "error")
    BY <1>5 DEF WriteFails, At, Live
  <2> QED
    BY <2>1, FailsMovesOn DEF PushStep
<1>6. CASE Crash(q)
  <2>1. Live(q) /\ Ends(q, "dead", "none")
    BY <1>6 DEF Crash
  <2> QED
    BY <2>1, EndsIsEnded DEF PushStep
<1> QED
  BY <1>1, <1>2, <1>3, <1>4, <1>5, <1>6 DEF Breaks

\* A step of a push touches no other push.
LEMMA OthersKeep ==
    ASSUME PushType, NEW q \in Pushes, NEW o \in Pushes \ {q},
           PushToUnderlayTask(o) \/ Step(o) \/ Lands(o) \/ Breaks(o)
    PROVE  push'[q] = push[q]
<1>1. ASSUME NEW stage, NEW result, Ends(o, stage, result) PROVE push'[q] = push[q]
  BY <1>1 DEF Ends, PushType
<1>2. ASSUME NEW result, Fails(o, result) PROVE push'[q] = push[q]
  BY <1>2 DEF Fails, PushType
<1>3. ASSUME Retry(o) PROVE push'[q] = push[q]
  BY <1>3 DEF Retry, PushType
<1>4. CASE PushToUnderlayTask(o) \/ Hydrate(o) \/ GetPushCacheEntries(o)
  BY <1>4 DEF PushToUnderlayTask, Hydrate, GetPushCacheEntries, PushType
<1>5. CASE \E p \in Pubs : ReuseEntry(o, p) \/ MapPub(o, p)
  BY <1>5 DEF ReuseEntry, MapPub, PushType
<1>6. CASE \E f \in push[o].inFlight : UploadLands(o, f) \/ UploadFails(o, f)
  BY <1>6 DEF UploadLands, UploadFails, PushType
<1>7. CASE BuildFails(o) \/ Recommit(o) \/ CallFails(o) \/ GiveUp(o) \/ WriteFails(o)
  <2>1. Fails(o, "error") \/ push' = [push EXCEPT ![o].stage = "polling"]
    BY <1>7 DEF BuildFails, Recommit, CallFails, GiveUp, WriteFails
  <2> QED
    BY <1>2, <2>1 DEF PushType
<1>8. CASE Checkpoint(o)
  <2>1. \/ Fails(o, "error")
        \/ push' = [push EXCEPT ![o].pending = {},
                                ![o].stage = IF Todo(o) = {} THEN "mapped" ELSE push[o].stage]
    BY <1>8 DEF Checkpoint
  <2> QED
    BY <1>2, <2>1 DEF PushType
<1>9. CASE SkipUnchanged(o) \/ ApplyPushCache(o) \/ RecordError(o) \/ Crash(o)
  <2>1. PICK result : result = push[o].result
    OBVIOUS
  <2>2. \/ Ends(o, "done", "skipped") \/ Ends(o, "done", result) \/ Ends(o, "dead", "none")
        \/ Fails(o, "error")
    BY <1>9, <2>1 DEF SkipUnchanged, ApplyPushCache, RecordError, Crash
  <2> QED
    BY <1>1, <1>2, <2>2
<1>10. CASE Attempt(o)
  <2>1. CASE Fails(o, "unproducible")
    BY <1>2, <2>1
  <2>2. CASE ~Fails(o, "unproducible")
    BY <1>10, <2>2 DEF Attempt, PushType
  <2> QED
    BY <2>1, <2>2
<1>11. CASE OpenSession(o) \/ Commit(o) \/ CommitAnswerLost(o) \/ AwaitAsyncCommit(o)
            \/ RecordPushResult(o)
  <2>1. \/ Retry(o)
        \/ \E s \in Stages : push' = [push EXCEPT ![o].stage = s]
        \/ push' = [push EXCEPT ![o].stage = "noting", ![o].result = "committed"]
    BY <1>11 DEF OpenSession, Commit, CommitAnswerLost, AwaitAsyncCommit, RecordPushResult, Stages
  <2> QED
    BY <1>3, <2>1 DEF PushType
<1>12. CASE CommitRefused(o)
  <2>1. \/ Retry(o) \/ Fails(o, "unproducible")
        \/ push' = [push EXCEPT ![o].stage = "noting", ![o].result = "noop"]
    BY <1>12 DEF CommitRefused, UploadMissingFiles
  <2> QED
    BY <1>2, <1>3, <2>1 DEF PushType
<1> QED
  BY <1>4, <1>5, <1>6, <1>7, <1>8, <1>9, <1>10, <1>11, <1>12 DEF Step, Lands, Breaks

LEMMA PushSteps ==
    ASSUME PushType, [Next]_vars, NEW q \in Pushes
    PROVE  PushStep(q)
<1>1. CASE Edits \/ Server \/ UNCHANGED vars
  <2>1. push' = push
    BY <1>1 DEF Edits, Edit, EditPub, EditFacet, DeletePub, EditAttribution,
       UpsertUnderlayIntegration, Server, CommitRuns, CommitIsBusy, Publish, CleanUp, vars
  <2> QED
    BY <2>1 DEF PushStep
<1>2. CASE PushToUnderlayTask(q) \/ Lands(q)
  BY <1>2 DEF PushStep, Lands
<1>3. CASE Step(q)
  BY <1>3, StepIsPushStep
<1>4. CASE Breaks(q)
  BY <1>4, BreaksIsPushStep
<1>5. ASSUME NEW o \in Pushes \ {q}, PushToUnderlayTask(o) \/ Step(o) \/ Lands(o) \/ Breaks(o)
      PROVE  PushStep(q)
  BY <1>5, OthersKeep DEF PushStep
<1> QED
  BY <1>1, <1>2, <1>3, <1>4, <1>5 DEF Next
----------------------------------------------------------------------------
(* What a push has mapped. *)

\* Nothing is mapped before the cache has been read.
NothingYet(q) ==
    push[q].stage \in {"idle", "begun", "hydrated", "done", "dead"} =>
        /\ DOMAIN push[q].manifest = {} /\ DOMAIN push[q].fresh = {}
        /\ DOMAIN push[q].hydrated = {} /\ push[q].inFlight = {}

\* The manifest is of the pubs that were read, but for what has no signature; a pub
\* that was not mapped in this push hit the cache.
MappedWork(q) ==
    /\ \A p \in DOMAIN push[q].manifest :
         /\ p \in DOMAIN push[q].inputs
         /\ IsCacheHit(push[q].inputs[p], push[q].manifest[p])
         /\ p \notin DOMAIN push[q].fresh =>
              Hit(q, p) /\ push[q].manifest[p] = push[q].entries[p]
    /\ \A p \in DOMAIN push[q].fresh :
         p \in DOMAIN push[q].inputs /\ push[q].fresh[p] = push[q].inputs[p]
    /\ \A p \in DOMAIN push[q].hydrated :
         /\ p \in DOMAIN push[q].inputs /\ push[q].hydrated[p] = push[q].inputs[p]
         /\ Hit(q, p)

TargetKnown(q) == Live(q) => push[q].target \in Targets

\* A pub that is mapped is added to the manifest.
LEMMA MappedPub ==
    ASSUME PushType, NEW q \in Pushes, NEW p \in Pubs, MapPub(q, p)
    PROVE  /\ p \in DOMAIN push[q].inputs /\ push[q].stage = "mapping"
           /\ push'[q].stage = push[q].stage /\ push'[q].target = push[q].target
           /\ push'[q].inputs = push[q].inputs /\ push'[q].entries = push[q].entries
           /\ push'[q].hydrated = push[q].hydrated /\ push'[q].failure = push[q].failure
           /\ push'[q].inFlight = Submits(q, p, push[q].inputs[p])
           /\ DOMAIN push'[q].manifest = DOMAIN push[q].manifest \cup {p}
           /\ DOMAIN push'[q].fresh = DOMAIN push[q].fresh \cup {p}
           /\ push'[q].manifest[p] = push[q].inputs[p] /\ push'[q].fresh[p] = push[q].inputs[p]
           /\ \A o \in DOMAIN push[q].manifest \ {p} : push'[q].manifest[o] = push[q].manifest[o]
           /\ \A o \in DOMAIN push[q].fresh \ {p} : push'[q].fresh[o] = push[q].fresh[o]
<1>1. p \in DOMAIN push[q].inputs /\ push[q].stage = "mapping"
  BY DEF MapPub, Todo, At
<1>2. PICK c \in Content : c = push[q].inputs[p]
  BY <1>1, RowType
<1>3. \A g \in Manifests :
        /\ Over(Just(p, c), g) \in Manifests
        /\ DOMAIN Over(Just(p, c), g) = DOMAIN g \cup {p}
        /\ Over(Just(p, c), g)[p] = c
        /\ \A o \in DOMAIN g \ {p} : Over(Just(p, c), g)[o] = g[o]
  BY JustOver
<1>4. PICK m \in Manifests, f \in Manifests :
        m = Over(Just(p, c), push[q].manifest) /\ f = Over(Just(p, c), push[q].fresh)
  BY <1>3, RowType
<1>5. push'[q] = [push[q] EXCEPT !.manifest = m, !.fresh = f,
                                 !.pending = push[q].pending \cup {p},
                                 !.inFlight = Submits(q, p, push[q].inputs[p])]
  BY <1>2, <1>4 DEF MapPub, PushType
<1>6. /\ DOMAIN m = DOMAIN push[q].manifest \cup {p} /\ m[p] = c
      /\ \A o \in DOMAIN push[q].manifest \ {p} : m[o] = push[q].manifest[o]
  BY <1>3, <1>4, RowType
<1>7. /\ DOMAIN f = DOMAIN push[q].fresh \cup {p} /\ f[p] = c
      /\ \A o \in DOMAIN push[q].fresh \ {p} : f[o] = push[q].fresh[o]
  BY <1>3, <1>4, RowType
<1>8. /\ push'[q].manifest = m /\ push'[q].fresh = f
      /\ push'[q].stage = push[q].stage /\ push'[q].target = push[q].target
      /\ push'[q].inputs = push[q].inputs /\ push'[q].entries = push[q].entries
      /\ push'[q].hydrated = push[q].hydrated /\ push'[q].failure = push[q].failure
      /\ push'[q].inFlight = Submits(q, p, push[q].inputs[p])
  BY <1>5, RowType DEF Row
<1> QED
  BY <1>1, <1>2, <1>6, <1>7, <1>8

\* So is one of an entry that is reused.
LEMMA ReusedEntry ==
    ASSUME PushType, NEW q \in Pushes, NEW p \in Pubs, ReuseEntry(q, p)
    PROVE  /\ p \in DOMAIN push[q].inputs /\ Hit(q, p)
           /\ push'[q].stage = push[q].stage /\ push'[q].target = push[q].target
           /\ push'[q].inputs = push[q].inputs /\ push'[q].entries = push[q].entries
           /\ push'[q].hydrated = push[q].hydrated /\ push'[q].failure = push[q].failure
           /\ push'[q].inFlight = push[q].inFlight /\ push'[q].fresh = push[q].fresh
           /\ DOMAIN push'[q].manifest = DOMAIN push[q].manifest \cup {p}
           /\ push'[q].manifest[p] = push[q].entries[p]
           /\ \A o \in DOMAIN push[q].manifest \ {p} : push'[q].manifest[o] = push[q].manifest[o]
           /\ push[q].stage = "mapping"
<1>1. p \in DOMAIN push[q].inputs /\ Hit(q, p) /\ push[q].stage = "mapping"
  BY DEF ReuseEntry, Todo, At
<1>2. PICK c \in Content : c = push[q].entries[p]
  BY <1>1, RowType DEF Hit
<1>0. \A g \in Manifests :
        /\ Over(Just(p, c), g) \in Manifests
        /\ DOMAIN Over(Just(p, c), g) = DOMAIN g \cup {p}
        /\ Over(Just(p, c), g)[p] = c
        /\ \A o \in DOMAIN g \ {p} : Over(Just(p, c), g)[o] = g[o]
  BY JustOver
<1>3. PICK m \in Manifests : m = Over(Just(p, c), push[q].manifest)
  BY <1>0, RowType
<1>4. push'[q] = [push[q] EXCEPT !.manifest = m]
  BY <1>2, <1>3 DEF ReuseEntry, PushType
<1>5. /\ DOMAIN m = DOMAIN push[q].manifest \cup {p} /\ m[p] = c
      /\ \A o \in DOMAIN push[q].manifest \ {p} : m[o] = push[q].manifest[o]
  BY <1>0, <1>3, RowType
<1>6. /\ push'[q].manifest = m /\ push'[q].fresh = push[q].fresh
      /\ push'[q].stage = push[q].stage /\ push'[q].target = push[q].target
      /\ push'[q].inputs = push[q].inputs /\ push'[q].entries = push[q].entries
      /\ push'[q].hydrated = push[q].hydrated /\ push'[q].failure = push[q].failure
      /\ push'[q].inFlight = push[q].inFlight
  BY <1>4, RowType DEF Row
<1> QED
  BY <1>1, <1>2, <1>5, <1>6

\* The steps that read, and those of an upload.
KeepsMaps(q) ==
    /\ push'[q].manifest = push[q].manifest /\ push'[q].fresh = push[q].fresh
    /\ push'[q].hydrated = push[q].hydrated /\ push'[q].failure = push[q].failure

LEMMA Begins ==
    ASSUME PushType, NEW q \in Pushes, PushToUnderlayTask(q)
    PROVE  /\ KeepsMaps(q) /\ push[q].stage = "idle" /\ push'[q].stage = "begun"
           /\ push'[q].target = note.target /\ push'[q].inFlight = push[q].inFlight
           /\ push'[q].inputs = push[q].inputs /\ push'[q].entries = push[q].entries
<1>1. push'[q] = [push[q] EXCEPT !.stage = "begun", !.target = note.target, !.last = note.last,
                                 !.of = note.of]
  BY DEF PushToUnderlayTask, PushType
<1> QED
  <2>1. push[q].stage = "idle"
    BY DEF PushToUnderlayTask, At
  <2> QED
    BY <1>1, <2>1, RowType DEF Row, KeepsMaps

LEMMA ReadSteps ==
    ASSUME PushType, NEW q \in Pushes, Hydrate(q) \/ GetPushCacheEntries(q)
    PROVE  /\ KeepsMaps(q) /\ push[q].stage \in {"begun", "hydrated"}
           /\ push'[q].stage \in {"hydrated", "mapping"}
           /\ push'[q].target = push[q].target /\ push'[q].inFlight = push[q].inFlight
           /\ \/ push'[q].inputs = pubs /\ push'[q].entries = push[q].entries
              \/ push'[q].inputs = push[q].inputs /\ push'[q].entries = cache
<1>1. CASE Hydrate(q)
  <2>1. push'[q] = [push[q] EXCEPT !.stage = "hydrated", !.inputs = pubs]
    BY <1>1 DEF Hydrate, PushType
  <2> QED
    <3>1. push[q].stage \in {"begun", "hydrated"}
      BY <1>1 DEF Hydrate, At
    <3> QED
      BY <2>1, <3>1, RowType DEF Row, KeepsMaps
<1>2. CASE GetPushCacheEntries(q)
  <2>1. push'[q] = [push[q] EXCEPT !.stage = "mapping", !.entries = cache]
    BY <1>2 DEF GetPushCacheEntries, PushType
  <2> QED
    <3>1. push[q].stage \in {"begun", "hydrated"}
      BY <1>2 DEF GetPushCacheEntries, At
    <3> QED
      BY <2>1, <3>1, RowType DEF Row, KeepsMaps
<1> QED
  BY <1>1, <1>2

LEMMA UploadSteps ==
    ASSUME PushType, NEW q \in Pushes, NEW f, UploadLands(q, f) \/ UploadFails(q, f)
    PROVE  /\ KeepsWork(q) /\ push'[q].hydrated = push[q].hydrated
           /\ push'[q].stage = push[q].stage
           /\ push'[q].inFlight = push[q].inFlight \ {f}
           /\ push'[q].failure = IF UploadFails(q, f) THEN TRUE ELSE push[q].failure
<1>1. CASE UploadFails(q, f)
  <2>1. push'[q] = [push[q] EXCEPT !.inFlight = push[q].inFlight \ {f}, !.failure = TRUE]
    BY <1>1 DEF UploadFails, PushType
  <2> QED
    BY <1>1, <2>1, RowType DEF Row, KeepsWork
<1>2. CASE UploadLands(q, f) /\ ~UploadFails(q, f)
  <2>1. push'[q] = [push[q] EXCEPT !.inFlight = push[q].inFlight \ {f}]
    BY <1>2 DEF UploadLands, PushType
  <2> QED
    BY <1>2, <2>1, RowType DEF Row, KeepsWork
<1> QED
  BY <1>1, <1>2

LEMMA NothingYetKept ==
    ASSUME Types, NEW q \in Pushes, NothingYet(q), TargetKnown(q), PushStep(q)
    PROVE  NothingYet(q)' /\ TargetKnown(q)'
<1> USE RowType DEF Types, Row
<1>1. CASE push'[q] = push[q]
  BY <1>1 DEF NothingYet, TargetKnown, Live
<1>2. CASE PushToUnderlayTask(q)
  BY <1>2, Begins DEF KeepsMaps, NothingYet, TargetKnown, Live, NoteType
<1>3. CASE Hydrate(q) \/ GetPushCacheEntries(q)
  BY <1>3, ReadSteps DEF KeepsMaps, NothingYet, TargetKnown, Live
<1>5. CASE \E p \in Pubs : ReuseEntry(q, p)
  BY <1>5, ReusedEntry DEF NothingYet, TargetKnown, Live
<1>6. CASE \E p \in Pubs : MapPub(q, p)
  BY <1>6, MappedPub DEF NothingYet, TargetKnown, Live
<1>7. CASE \E f \in push[q].inFlight : UploadLands(q, f) \/ UploadFails(q, f)
  <2>1. PICK f \in push[q].inFlight : UploadLands(q, f) \/ UploadFails(q, f)
    BY <1>7
  <2>2. KeepsWork(q) /\ push'[q].stage = push[q].stage /\ push[q].inFlight # {}
        /\ push'[q].hydrated = push[q].hydrated
    BY <2>1, UploadSteps
  <2> QED
    BY <2>2 DEF NothingYet, TargetKnown, Live, KeepsWork
<1>8. CASE Attempted(q)
  BY <1>8 DEF Attempted, KeepsWork, PastDrain, NothingYet, TargetKnown, Live
<1>9. CASE MovesOn(q)
  BY <1>9 DEF MovesOn, KeepsWork, PastDrain, NothingYet, TargetKnown, Live
<1>10. CASE Ended(q)
  BY <1>10 DEF Ended, NothingYet, TargetKnown, Live
<1> QED
  BY <1>1, <1>2, <1>3, <1>5, <1>6, <1>7, <1>8, <1>9, <1>10 DEF PushStep

LEMMA MappedWorkKept ==
    ASSUME Types, NEW q \in Pushes, NothingYet(q), MappedWork(q), PushStep(q)
    PROVE  MappedWork(q)'
<1> USE DEF Types
<1>1. ASSUME KeepsWork(q), push'[q].hydrated = push[q].hydrated PROVE MappedWork(q)'
  BY <1>1 DEF KeepsWork, MappedWork, Hit
<1>2. CASE push'[q] = push[q]
  BY <1>2 DEF MappedWork, Hit
<1>3. CASE PushToUnderlayTask(q)
  BY <1>3, Begins DEF KeepsMaps, MappedWork, Hit
<1>4. CASE Hydrate(q) \/ GetPushCacheEntries(q)
  <2>1. /\ DOMAIN push[q].manifest = {} /\ DOMAIN push[q].fresh = {}
        /\ DOMAIN push[q].hydrated = {}
    BY <1>4, ReadSteps DEF NothingYet
  <2>2. /\ DOMAIN push'[q].manifest = {} /\ DOMAIN push'[q].fresh = {}
        /\ DOMAIN push'[q].hydrated = {}
    BY <1>4, <2>1, ReadSteps DEF KeepsMaps
  <2> QED
    BY <2>2 DEF MappedWork
<1>5. ASSUME NEW p \in Pubs, ReuseEntry(q, p) PROVE MappedWork(q)'
  <2>1. \A o : Hit(q, o) => Hit(q, o)'
    BY <1>5, ReusedEntry DEF Hit
  <2>2. ASSUME NEW o \in DOMAIN push'[q].manifest
        PROVE  /\ o \in DOMAIN push'[q].inputs
               /\ IsCacheHit(push'[q].inputs[o], push'[q].manifest[o])
               /\ o \notin DOMAIN push'[q].fresh =>
                    Hit(q, o)' /\ push'[q].manifest[o] = push'[q].entries[o]
    <3>1. CASE o = p
      BY <1>5, <2>1, <3>1, ReusedEntry DEF Hit
    <3>2. CASE o \in DOMAIN push[q].manifest \ {p}
      BY <1>5, <2>1, <3>2, ReusedEntry DEF MappedWork
    <3> QED
      BY <1>5, <2>2, <3>1, <3>2, ReusedEntry
  <2> QED
    BY <1>5, <2>1, <2>2, ReusedEntry DEF MappedWork
<1>6. ASSUME NEW p \in Pubs, MapPub(q, p) PROVE MappedWork(q)'
  BY <1>6, MappedPub DEF MappedWork, Hit, IsCacheHit
<1>7. CASE \E f \in push[q].inFlight : UploadLands(q, f) \/ UploadFails(q, f)
  <2>1. KeepsWork(q) /\ push'[q].hydrated = push[q].hydrated
    BY <1>7, UploadSteps
  <2> QED
    BY <1>1, <2>1
<1>8. CASE Attempted(q)
  <2>1. CASE push'[q].hydrated = push[q].hydrated
    BY <1>1, <1>8, <2>1 DEF Attempted
  <2>2. ASSUME NEW U \in SUBSET (DOMAIN push[q].manifest \ DOMAIN push[q].fresh),
               push'[q].hydrated = Over(ResolveUpserts(q, U), push[q].hydrated)
        PROVE  MappedWork(q)'
    <3>1. PICK m \in Manifests : m = ResolveUpserts(q, U)
      BY UpsertsType
    <3>2. \A p \in DOMAIN m : /\ p \in DOMAIN push[q].manifest \ DOMAIN push[q].fresh
                              /\ p \in DOMAIN push[q].inputs /\ m[p] = push[q].inputs[p]
      <4>1. /\ DOMAIN ResolveUpserts(q, U) = DOMAIN push[q].inputs \cap U
            /\ \A p \in DOMAIN ResolveUpserts(q, U) : ResolveUpserts(q, U)[p] = push[q].inputs[p]
        BY UpsertsType
      <4> QED
        BY <3>1, <4>1
    <3>3. \A p \in DOMAIN push'[q].hydrated :
             \/ p \in DOMAIN m /\ push'[q].hydrated[p] = m[p]
             \/ p \in DOMAIN push[q].hydrated /\ push'[q].hydrated[p] = push[q].hydrated[p]
      <4>1. PICK h \in Manifests : h = push[q].hydrated
        BY RowType
      <4>2. push'[q].hydrated = Over(m, h)
        BY <2>2, <3>1, <4>1
      <4>3. /\ DOMAIN Over(m, h) = DOMAIN m \cup DOMAIN h
            /\ \A p \in DOMAIN m : Over(m, h)[p] = m[p]
            /\ \A p \in DOMAIN h \ DOMAIN m : Over(m, h)[p] = h[p]
        BY OverType
      <4> QED
        BY <4>1, <4>2, <4>3
    <3>4. \A p \in DOMAIN push'[q].hydrated :
             /\ p \in DOMAIN push[q].inputs /\ push'[q].hydrated[p] = push[q].inputs[p]
             /\ Hit(q, p)
      BY <3>2, <3>3 DEF MappedWork
    <3> QED
      BY <1>8, <3>4 DEF Attempted, KeepsWork, MappedWork, Hit
  <2> QED
    BY <1>8, <2>1, <2>2 DEF Attempted
<1>9. CASE MovesOn(q)
  BY <1>1, <1>9 DEF MovesOn
<1>10. CASE Ended(q)
  BY <1>10 DEF Ended, MappedWork
<1> QED
  BY <1>2, <1>3, <1>4, <1>5, <1>6, <1>7, <1>8, <1>9, <1>10 DEF PushStep
----------------------------------------------------------------------------
(* What a step does to a session. *)

Early == {"idle", "begun", "hydrated", "mapping"}
StagesFit(q) ==
    /\ push'[q].stage \in {"opening", "sending"} => push'[q].stage = push[q].stage
    /\ push'[q].stage \in Early => push[q].stage \in Early

Planned(q) ==
    LET head == server[push[q].target].head
        upserts == Upserts(push[q].manifest, head)
        lacking == upserts \ DOMAIN push[q].fresh IN
    [status |-> "planned", base |-> server[push[q].target].version,
     target |-> push[q].target, deletes |-> Deletes(push[q].manifest, head),
     upserts |-> Only(Over(ResolveUpserts(q, lacking), push[q].fresh), upserts)]

Moved(q, status) == session'[q] = [session[q] EXCEPT !.status = status]

SessionStep(q) ==
    \/ session'[q] = session[q] /\ StagesFit(q)
    \/ session'[q] = NoSession /\ push'[q].stage \in {"done", "dead"}
    \/ Attempt(q) /\ push'[q].stage = "opening" /\ session'[q] = Planned(q)
    \/ At(q, "opening") /\ push'[q].stage = "sending" /\ Moved(q, "open")
    \/ At(q, "sending") /\ push'[q].stage \in {"polling", "recommitting"} /\ Moved(q, "committing")
    \/ push'[q].stage \in {"retrying", "failing"} /\ Moved(q, "none")
    \/ /\ CommitRuns(q) \/ CommitIsBusy(q)
       /\ session[q].status = "committing" /\ push' = push
       /\ \E s \in {"committed", "conflict", "filesNeeded", "unchanged", "busy"} : Moved(q, s)

LEMMA MovedBySession ==
    ASSUME SessionType, NEW q \in Pushes, NEW status, Session(q, status)
    PROVE  Moved(q, status)
  BY DEF Session, Moved, SessionType

LEMMA StageAfter ==
    ASSUME PushType, NEW q \in Pushes
    PROVE  /\ \A s : push' = [push EXCEPT ![q].stage = s] => push'[q].stage = s
           /\ \A s, r : push' = [push EXCEPT ![q].stage = s, ![q].result = r] => push'[q].stage = s
           /\ \A r : Fails(q, r) => push'[q].stage = "failing"
           /\ Retry(q) => push'[q].stage \in {"retrying", "failing"}
<1>1. ASSUME NEW s, push' = [push EXCEPT ![q].stage = s] PROVE push'[q].stage = s
  <2>1. push'[q] = [push[q] EXCEPT !.stage = s]
    BY <1>1 DEF PushType
  <2> QED
    BY <2>1, RowType DEF Row
<1>2. ASSUME NEW s, NEW r, push' = [push EXCEPT ![q].stage = s, ![q].result = r]
      PROVE  push'[q].stage = s
  <2>1. push'[q] = [push[q] EXCEPT !.stage = s, !.result = r]
    BY <1>2 DEF PushType
  <2> QED
    BY <2>1, RowType DEF Row
<1>3. ASSUME NEW r, Fails(q, r) PROVE push'[q].stage = "failing"
  BY <1>2, <1>3 DEF Fails
<1>4. ASSUME Retry(q) PROVE push'[q].stage \in {"retrying", "failing"}
  <2>1. CASE push' = [push EXCEPT ![q].stage = "retrying", ![q].attempt = 2]
    <3>1. push'[q] = [push[q] EXCEPT !.stage = "retrying", !.attempt = 2]
      BY <2>1 DEF PushType
    <3> QED
      BY <3>1, RowType DEF Row
  <2>2. CASE push' = [push EXCEPT ![q].stage = "failing", ![q].result = "error"]
    BY <1>2, <2>2
  <2> QED
    BY <1>4, <2>1, <2>2 DEF Retry
<1> QED
  BY <1>1, <1>2, <1>3, <1>4

LEMMA OpeningAfter ==
    ASSUME PushType, NEW q \in Pushes, NEW h,
           push' = [push EXCEPT ![q].stage = "opening", ![q].hydrated = h]
    PROVE  push'[q].stage = "opening"
<1>1. push'[q] = [push[q] EXCEPT !.stage = "opening", !.hydrated = h]
  BY DEF PushType
<1>2. PICK r : r \in Row /\ r = push[q]
  BY DEF PushType
<1>3. push'[q] = [r EXCEPT !.stage = "opening", !.hydrated = h]
  BY <1>1, <1>2
<1> QED
  BY ONLY <1>2, <1>3 DEF Row

LEMMA EndsSession ==
    ASSUME PushType, SessionType, NEW q \in Pushes, NEW stage \in {"done", "dead"}, NEW result,
           Ends(q, stage, result)
    PROVE  SessionStep(q)
<1>1. push'[q].stage = stage
  <2>1. push'[q] = [Idle EXCEPT !.stage = stage, !.result = result]
    BY DEF Ends, PushType
  <2> QED
    BY <2>1 DEF Idle
<1>2. session'[q] = session[q] \/ session'[q] = NoSession
  BY DEF Ends, SessionType
<1> QED
  BY <1>1, <1>2 DEF SessionStep, StagesFit, Early

LEMMA FailsSession ==
    ASSUME PushType, SessionType, NEW q \in Pushes, NEW result, Fails(q, result),
           session' = session \/ Session(q, "none") \/ Abandons(q)
    PROVE  SessionStep(q)
<1>1. push'[q].stage = "failing"
  BY StageAfter
<1>2. session'[q] = session[q] \/ Moved(q, "none")
  BY MovedBySession DEF Abandons
<1> QED
  BY <1>1, <1>2 DEF SessionStep, StagesFit, Early

LEMMA RetrySession ==
    ASSUME PushType, SessionType, NEW q \in Pushes, Retry(q),
           session' = session \/ Session(q, "none")
    PROVE  SessionStep(q)
<1>1. push'[q].stage \in {"retrying", "failing"}
  BY StageAfter
<1>2. session'[q] = session[q] \/ Moved(q, "none")
  BY MovedBySession
<1> QED
  BY <1>1, <1>2 DEF SessionStep, StagesFit, Early

LEMMA OwnSessionSteps ==
    ASSUME PushType, SessionType, NEW q \in Pushes,
           PushToUnderlayTask(q) \/ Step(q) \/ Lands(q) \/ Breaks(q)
    PROVE  SessionStep(q)
<1>1. CASE PushToUnderlayTask(q)
  <2>1. session'[q] = session[q]
    BY <1>1 DEF PushToUnderlayTask
  <2> QED
    BY <1>1, <2>1, Begins DEF SessionStep, StagesFit, Early
<1>2. CASE Hydrate(q) \/ GetPushCacheEntries(q)
  <2>1. session'[q] = session[q]
    BY <1>2 DEF Hydrate, GetPushCacheEntries
  <2> QED
    BY <1>2, <2>1, ReadSteps DEF SessionStep, StagesFit, Early
<1>3. CASE \E p \in Pubs : ReuseEntry(q, p) \/ MapPub(q, p)
  <2>1. session'[q] = session[q]
    BY <1>3 DEF ReuseEntry, MapPub
  <2> QED
    BY <1>3, <2>1, ReusedEntry, MappedPub DEF SessionStep, StagesFit, Early
<1>4. CASE \E f \in push[q].inFlight : UploadLands(q, f) \/ UploadFails(q, f)
  <2>1. session'[q] = session[q]
    BY <1>4 DEF UploadLands, UploadFails
  <2> QED
    BY <1>4, <2>1, UploadSteps DEF SessionStep, StagesFit, Early
<1>5. CASE BuildFails(q) \/ GiveUp(q) \/ WriteFails(q) \/ CallFails(q)
  BY <1>5, FailsSession DEF BuildFails, GiveUp, WriteFails, CallFails
<1>6. CASE Checkpoint(q)
  <2>1. session' = session /\ push[q].stage = "mapping"
    BY <1>6 DEF Checkpoint, At
  <2>2. CASE Fails(q, "error")
    BY <2>1, <2>2, FailsSession
  <2>3. ASSUME NEW s \in {"mapping", "mapped"},
               push' = [push EXCEPT ![q].pending = {}, ![q].stage = s]
        PROVE  SessionStep(q)
    <3>1. push'[q] = [push[q] EXCEPT !.pending = {}, !.stage = s]
      BY <2>3 DEF PushType
    <3>2. push'[q].stage = s
      BY <3>1, RowType DEF Row
    <3> QED
      BY <2>1, <3>2 DEF SessionStep, StagesFit, Early
  <2>4. PICK s \in {"mapping", "mapped"} : s = IF Todo(q) = {} THEN "mapped" ELSE push[q].stage
    BY <2>1
  <2> QED
    BY <1>6, <2>2, <2>3, <2>4 DEF Checkpoint
<1>7. CASE SkipUnchanged(q)
  BY <1>7, EndsSession DEF SkipUnchanged
<1>8. CASE Attempt(q)
  <2>1. CASE push' = [push EXCEPT ![q].stage = "noting", ![q].result = "noop"] /\ session' = session
    BY <2>1, StageAfter DEF SessionStep, StagesFit, Early
  <2>2. ASSUME NEW h, push' = [push EXCEPT ![q].stage = "opening", ![q].hydrated = h]
        PROVE  push'[q].stage = "opening"
    <3>1. push'[q] = [push[q] EXCEPT !.stage = "opening", !.hydrated = h]
      BY <2>2 DEF PushType
    <3> QED
      BY <3>1, RowType DEF Row
  <2>3. CASE session' = [session EXCEPT ![q] = Planned(q)]
             /\ \E h : push' = [push EXCEPT ![q].stage = "opening", ![q].hydrated = h]
    <3>1. session'[q] = Planned(q)
      BY <2>3 DEF SessionType
    <3> QED
      BY <1>8, <2>2, <2>3, <3>1 DEF SessionStep
  <2>4. CASE Fails(q, "unproducible") /\ session' = session
    BY <2>4, FailsSession
  <2> QED
    BY <1>8, <2>1, <2>3, <2>4 DEF Attempt, Planned
<1>9. CASE OpenSession(q)
  <2>1. At(q, "opening")
    BY <1>9 DEF OpenSession
  <2>2. CASE Session(q, "open") /\ push' = [push EXCEPT ![q].stage = "sending"]
    BY <2>1, <2>2, StageAfter, MovedBySession DEF SessionStep
  <2>3. CASE Session(q, "none") /\ Retry(q)
    BY <2>3, RetrySession
  <2> QED
    BY <1>9, <2>2, <2>3 DEF OpenSession
<1>10. CASE Commit(q) \/ CommitAnswerLost(q)
  BY <1>10, StageAfter, MovedBySession DEF Commit, CommitAnswerLost, SessionStep
<1>11. CASE Recommit(q)
  <2>1. session' = session
    BY <1>11 DEF Recommit
  <2>2. CASE push' = [push EXCEPT ![q].stage = "polling"]
    BY <2>1, <2>2, StageAfter DEF SessionStep, StagesFit, Early
  <2> QED
    BY <1>11, <2>1, <2>2, FailsSession DEF Recommit
<1>12. CASE AwaitAsyncCommit(q) \/ RecordPushResult(q)
  <2>1. session' = session
    BY <1>12 DEF AwaitAsyncCommit, RecordPushResult
  <2>2. push'[q].stage \in {"noting", "applying"}
    BY <1>12, StageAfter DEF AwaitAsyncCommit, RecordPushResult
  <2> QED
    BY <2>1, <2>2 DEF SessionStep, StagesFit, Early
<1>13. CASE CommitRefused(q)
  <2>1. session' = session
    BY <1>13 DEF CommitRefused
  <2>2. CASE push' = [push EXCEPT ![q].stage = "noting", ![q].result = "noop"]
    BY <2>1, <2>2, StageAfter DEF SessionStep, StagesFit, Early
  <2>3. \/ Retry(q) \/ Fails(q, "unproducible")
        \/ push' = [push EXCEPT ![q].stage = "noting", ![q].result = "noop"]
    BY <1>13 DEF CommitRefused, UploadMissingFiles
  <2> QED
    BY <2>1, <2>2, <2>3, RetrySession, FailsSession
<1>14. CASE ApplyPushCache(q) \/ RecordError(q) \/ Crash(q)
  <2>1. PICK result : result = push[q].result
    OBVIOUS
  <2>2. \/ Ends(q, "done", result) \/ Ends(q, "dead", "none")
        \/ Fails(q, "error") /\ session' = session
    BY <1>14, <2>1 DEF ApplyPushCache, RecordError, Crash
  <2> QED
    BY <2>2, EndsSession, FailsSession
<1> QED
  BY <1>1, <1>2, <1>3, <1>4, <1>5, <1>6, <1>7, <1>8, <1>9, <1>10, <1>11, <1>12, <1>13, <1>14
     DEF Step, Lands, Breaks

\* A step of a push touches no other session.
LEMMA OtherSessionsKeep ==
    ASSUME SessionType, NEW q \in Pushes, NEW o \in Pushes \ {q},
           \/ PushToUnderlayTask(o) \/ Step(o) \/ Lands(o) \/ Breaks(o)
           \/ CommitRuns(o) \/ CommitIsBusy(o)
    PROVE  session'[q] = session[q]
<1>1. ASSUME NEW status, Session(o, status) PROVE session'[q] = session[q]
  BY <1>1 DEF Session, SessionType
<1>2. ASSUME NEW stage, NEW result, Ends(o, stage, result) PROVE session'[q] = session[q]
  BY <1>2 DEF Ends, SessionType
<1>3. CASE \/ PushToUnderlayTask(o) \/ Hydrate(o) \/ GetPushCacheEntries(o)
           \/ \E p \in Pubs : ReuseEntry(o, p) \/ MapPub(o, p)
           \/ Lands(o) \/ \E f \in push[o].inFlight : UploadFails(o, f)
           \/ BuildFails(o) \/ Checkpoint(o) \/ Recommit(o) \/ AwaitAsyncCommit(o)
           \/ CommitRefused(o) \/ RecordPushResult(o) \/ WriteFails(o)
  BY <1>3 DEF PushToUnderlayTask, Hydrate, GetPushCacheEntries, ReuseEntry, MapPub, Lands,
     UploadLands, UploadFails, BuildFails, Checkpoint, Recommit, AwaitAsyncCommit,
     CommitRefused, RecordPushResult, WriteFails
<1>4. CASE \/ OpenSession(o) \/ Commit(o) \/ CommitAnswerLost(o) \/ CallFails(o) \/ GiveUp(o)
           \/ CommitRuns(o) \/ CommitIsBusy(o)
  <2>1. session' = session \/ \E status : Session(o, status)
    BY <1>4 DEF OpenSession, Commit, CommitAnswerLost, CallFails, GiveUp, Abandons, CommitRuns,
       CommitIsBusy
  <2> QED
    BY <1>1, <2>1
<1>5. CASE SkipUnchanged(o) \/ ApplyPushCache(o) \/ RecordError(o) \/ Crash(o)
  <2>1. session' = session \/ \E stage, result : Ends(o, stage, result)
    BY <1>5 DEF SkipUnchanged, ApplyPushCache, RecordError, Crash
  <2> QED
    BY <1>2, <2>1
<1>6. CASE Attempt(o)
  <2>1. session' = session \/ \E r : session' = [session EXCEPT ![o] = r]
    BY <1>6 DEF Attempt
  <2> QED
    BY <2>1 DEF SessionType
<1> QED
  BY <1>3, <1>4, <1>5, <1>6 DEF Step, Breaks

LEMMA SessionSteps ==
    ASSUME PushType, SessionType, NEW q \in Pushes, [Next]_vars
    PROVE  SessionStep(q)
<1>1. CASE session' = session /\ push' = push
  BY <1>1 DEF SessionStep, StagesFit
<1>2. CASE CommitRuns(q) \/ CommitIsBusy(q)
  <2>1. PICK s \in {"committed", "conflict", "filesNeeded", "unchanged", "busy"} : Session(q, s)
    BY <1>2 DEF CommitRuns, CommitIsBusy
  <2>2. session[q].status = "committing" /\ push' = push
    BY <1>2 DEF CommitRuns, CommitIsBusy
  <2> QED
    BY <1>2, <2>1, <2>2, MovedBySession DEF SessionStep
<1>3. CASE PushToUnderlayTask(q) \/ Step(q) \/ Lands(q) \/ Breaks(q)
  BY <1>3, OwnSessionSteps
<1>4. ASSUME NEW o \in Pushes \ {q}, PushToUnderlayTask(o) \/ Step(o) \/ Lands(o) \/ Breaks(o)
      PROVE  SessionStep(q)
  BY <1>4, OthersKeep, OtherSessionsKeep DEF SessionStep, StagesFit
<1>5. ASSUME NEW o \in Pushes \ {q}, CommitRuns(o) \/ CommitIsBusy(o) PROVE SessionStep(q)
  <2>1. push' = push
    BY <1>5 DEF CommitRuns, CommitIsBusy
  <2> QED
    BY <1>5, <2>1, OtherSessionsKeep DEF SessionStep, StagesFit
<1>6. CASE \/ Edits \/ UNCHANGED vars
           \/ \E t \in Targets : Publish(t) \/ \E f \in server[t].held : CleanUp(t, f)
  BY <1>1, <1>6 DEF Edits, Edit, EditPub, EditFacet, DeletePub, EditAttribution,
     UpsertUnderlayIntegration, Publish, CleanUp, vars
<1> QED
  BY <1>2, <1>3, <1>4, <1>5, <1>6 DEF Next, Server

\* A session is of a known collection, and there is none before the manifest is made.
SessionFits(q) ==
    /\ push[q].stage \in Early => session[q].status = "none"
    /\ push[q].stage = "opening" => session[q].status = "planned"
    /\ push[q].stage = "sending" => session[q].status = "open"
    /\ session[q].status # "none" => session[q].target \in Targets

LEMMA SessionFitsKept ==
    ASSUME PushType, SessionType, NEW q \in Pushes, TargetKnown(q), SessionFits(q), SessionStep(q)
    PROVE  SessionFits(q)'
<1>0. session[q] \in SessionRow
  BY DEF SessionType
<1>1. ASSUME NEW s, Moved(q, s)
      PROVE  session'[q].status = s /\ session'[q].target = session[q].target
  BY <1>0, <1>1 DEF Moved, SessionRow
<1>2. CASE session'[q] = session[q] /\ StagesFit(q)
  BY <1>2 DEF SessionFits, StagesFit
<1>3. CASE session'[q] = NoSession /\ push'[q].stage \in {"done", "dead"}
  BY <1>3 DEF SessionFits, NoSession, Early
<1>4. CASE Attempt(q) /\ push'[q].stage = "opening" /\ session'[q] = Planned(q)
  <2>1. push[q].target \in Targets
    BY <1>4 DEF TargetKnown, Live, Attempt, Mapped, At
  <2>2. session'[q].status = "planned" /\ session'[q].target = push[q].target
    BY <1>4 DEF Planned
  <2> QED
    BY <1>4, <2>1, <2>2 DEF SessionFits, Early
<1>5. CASE At(q, "opening") /\ push'[q].stage = "sending" /\ Moved(q, "open")
  BY <1>1, <1>5 DEF SessionFits, Early, At
<1>6. CASE /\ At(q, "sending") /\ push'[q].stage \in {"polling", "recommitting"}
           /\ Moved(q, "committing")
  BY <1>1, <1>6 DEF SessionFits, Early, At
<1>7. CASE push'[q].stage \in {"retrying", "failing"} /\ Moved(q, "none")
  BY <1>1, <1>7 DEF SessionFits, Early
<1>8. CASE /\ CommitRuns(q) \/ CommitIsBusy(q)
           /\ session[q].status = "committing" /\ push' = push
           /\ \E s \in {"committed", "conflict", "filesNeeded", "unchanged", "busy"} : Moved(q, s)
  BY <1>1, <1>8 DEF SessionFits, Early
<1> QED
  BY <1>2, <1>3, <1>4, <1>5, <1>6, <1>7, <1>8 DEF SessionStep

\* The inductive invariant of the types.
PushInv ==
    /\ Types
    /\ \A q \in Pushes : NothingYet(q) /\ TargetKnown(q) /\ MappedWork(q) /\ SessionFits(q)

LEMMA InitPushInv ==
    ASSUME Init
    PROVE  PushInv
<1>1. \A q \in Pushes : push[q] = Idle /\ session[q] = NoSession
  BY DEF Init
<1>2. ASSUME NEW q \in Pushes
      PROVE  NothingYet(q) /\ TargetKnown(q) /\ MappedWork(q) /\ SessionFits(q)
  BY <1>1, EmptyType DEF Idle, NoSession, NothingYet, TargetKnown, Live, MappedWork, SessionFits
<1> QED
  BY <1>2, InitTypes DEF PushInv

LEMMA NextPushInv ==
    ASSUME PushInv, [Next]_vars
    PROVE  PushInv'
<1>1. Types'
  <2> USE DEF PushInv
  <2>1. CASE Edits
    BY <2>1, EditTypes
  <2>2. CASE Server
    BY <2>2, ServerTypes DEF SessionFits
  <2>3. ASSUME NEW q \in Pushes, PushToUnderlayTask(q) PROVE Types'
    BY <2>3, BuildTypes
  <2>4. ASSUME NEW q \in Pushes, Step(q) PROVE Types'
    <3>1. CASE Attempt(q)
      <4>1. push[q].target \in Targets
        BY <3>1 DEF TargetKnown, Live, Attempt, Mapped, At
      <4> QED
        BY <3>1, <4>1, AttemptTypes
    <3> QED
      BY <2>4, <3>1, BuildTypes, ClientTypes, EndTypes DEF Step
  <2>5. ASSUME NEW q \in Pushes, Lands(q) \/ Breaks(q) PROVE Types'
    BY <2>5, UploadTypes, ClientTypes, EndTypes DEF Lands, Breaks
  <2>6. CASE UNCHANGED vars
    BY <2>6 DEF vars, Types, PubsType, CacheType, NoteType, PushType, ServerType, SessionType,
       SpentType
  <2> QED
    BY <2>1, <2>2, <2>3, <2>4, <2>5, <2>6 DEF Next
<1>2. ASSUME NEW q \in Pushes
      PROVE  (NothingYet(q) /\ TargetKnown(q) /\ MappedWork(q) /\ SessionFits(q))'
  <2>1. PushStep(q) /\ SessionStep(q)
    BY PushSteps, SessionSteps DEF PushInv, Types
  <2>2. /\ Types /\ PushType /\ SessionType
        /\ NothingYet(q) /\ TargetKnown(q) /\ MappedWork(q) /\ SessionFits(q)
    BY DEF PushInv, Types
  <2> QED
    BY <2>1, <2>2, NothingYetKept, MappedWorkKept, SessionFitsKept
<1> QED
  BY <1>1, <1>2 DEF PushInv

LEMMA PushInvHolds == Spec => []PushInv
<1>1. Init => PushInv
  BY InitPushInv
<1>2. PushInv /\ [Next]_vars => PushInv'
  BY NextPushInv
<1> QED
  BY <1>1, <1>2, PTL DEF Spec

\* The variables have their types: a push writes manifests of the community's pubs,
\* whatever is edited, deleted or fails meanwhile.
THEOREM TypeCorrect == Spec => []TypeOK
<1>1. PushInv => TypeOK
  BY DEF PushInv, Types, TypeOK, PubsType, CacheType, NoteType, PushType, ServerType,
     SessionType, SpentType, Row, Collection, SessionRow
<1> QED
  BY <1>1, PushInvHolds, PTL
----------------------------------------------------------------------------
(* A version is the manifest of the push that made it. *)

\* Pubs of equal signatures.
LEMMA SignedEqual ==
    ASSUME NEW m \in Manifests, NEW n \in Manifests, DOMAIN m = DOMAIN n,
           \A p \in DOMAIN m : IsCacheHit(m[p], n[p])
    PROVE  Signed(m) = Signed(n)
<1>1. ASSUME NEW p \in DOMAIN m PROVE [m[p] EXCEPT !.side = 0] = [n[p] EXCEPT !.side = 0]
  <2>1. m[p] \in Content /\ n[p] \in Content
    BY ManifestElim
  <2>2. m[p].row = n[p].row /\ m[p].facet = n[p].facet
    BY DEF IsCacheHit
  <2> QED
    BY <2>1, <2>2 DEF Content
<1> QED
  BY <1>1 DEF Signed

\* The difference to a head, applied to that head, is the manifest: whatever is not
\* sent the head has already, and what is sent is of the pubs that were read.
LEMMA DifferenceIsManifest ==
    ASSUME NEW inputs \in Manifests, NEW manifest \in Manifests, NEW fresh \in Manifests,
           NEW head \in Manifests,
           \A p \in DOMAIN manifest :
               p \in DOMAIN inputs /\ IsCacheHit(inputs[p], manifest[p]),
           \A p \in DOMAIN fresh : p \in DOMAIN inputs /\ fresh[p] = inputs[p],
           NEW U, U = Upserts(manifest, head),
           NEW records \in Manifests,
           records = Over(Only(inputs, U \ DOMAIN fresh), fresh)
    PROVE  LET applied == Over(Only(records, U),
                               Only(head, DOMAIN head \ Deletes(manifest, head))) IN
           applied \in Manifests /\ Signed(applied) = Signed(manifest)
<1>1. U \subseteq DOMAIN manifest
  BY DEF Upserts
<1>2. PICK resolved \in Manifests :
        /\ resolved = Only(inputs, U \ DOMAIN fresh)
        /\ DOMAIN resolved = DOMAIN inputs \cap (U \ DOMAIN fresh)
        /\ \A p \in DOMAIN resolved : resolved[p] = inputs[p]
  <2> DEFINE S == U \ DOMAIN fresh
  <2>1. /\ Only(inputs, S) \in Manifests
        /\ DOMAIN Only(inputs, S) = DOMAIN inputs \cap S
        /\ \A p \in DOMAIN inputs \cap S : Only(inputs, S)[p] = inputs[p]
    <3> HIDE DEF S
    <3> QED
      BY OnlyType
  <2> QED
    BY <2>1
<1>3. /\ DOMAIN records = DOMAIN resolved \cup DOMAIN fresh
      /\ \A p \in DOMAIN records : records[p] = inputs[p]
  <2>1. /\ DOMAIN Over(resolved, fresh) = DOMAIN resolved \cup DOMAIN fresh
        /\ \A p \in DOMAIN resolved : Over(resolved, fresh)[p] = resolved[p]
        /\ \A p \in DOMAIN fresh \ DOMAIN resolved : Over(resolved, fresh)[p] = fresh[p]
    BY OverType
  <2> QED
    BY <1>2, <2>1
<1>4. PICK sent \in Manifests :
        /\ sent = Only(records, U) /\ DOMAIN sent = U
        /\ \A p \in U : sent[p] = inputs[p]
  <2>1. /\ Only(records, U) \in Manifests
        /\ DOMAIN Only(records, U) = DOMAIN records \cap U
        /\ \A p \in DOMAIN records \cap U : Only(records, U)[p] = records[p]
    <3>1. \A S : /\ Only(records, S) \in Manifests
                /\ DOMAIN Only(records, S) = DOMAIN records \cap S
                /\ \A p \in DOMAIN records \cap S : Only(records, S)[p] = records[p]
      BY ONLY records \in Manifests, OnlyType
    <3> QED
      BY <3>1
  <2>2. U \subseteq DOMAIN records
    BY <1>1, <1>2, <1>3
  <2> QED
    BY <1>3, <2>1, <2>2
<1>5. PICK kept \in Manifests :
        /\ kept = Only(head, DOMAIN head \ Deletes(manifest, head))
        /\ DOMAIN kept = DOMAIN head \cap DOMAIN manifest
        /\ \A p \in DOMAIN kept : kept[p] = head[p]
  <2> DEFINE S == DOMAIN head \ Deletes(manifest, head)
  <2>1. /\ Only(head, S) \in Manifests
        /\ DOMAIN Only(head, S) = DOMAIN head \cap S
        /\ \A p \in DOMAIN head \cap S : Only(head, S)[p] = head[p]
    <3> HIDE DEF S
    <3> QED
      BY OnlyType
  <2>2. DOMAIN head \cap S = DOMAIN head \cap DOMAIN manifest
    BY DEF Deletes
  <2> QED
    BY <2>1, <2>2
<1>6. PICK applied \in Manifests :
        /\ applied = Over(sent, kept) /\ DOMAIN applied = U \cup DOMAIN kept
        /\ \A p \in U : applied[p] = sent[p]
        /\ \A p \in DOMAIN kept \ U : applied[p] = kept[p]
  <2>1. /\ Over(sent, kept) \in Manifests
        /\ DOMAIN Over(sent, kept) = DOMAIN sent \cup DOMAIN kept
        /\ \A p \in DOMAIN sent : Over(sent, kept)[p] = sent[p]
        /\ \A p \in DOMAIN kept \ DOMAIN sent : Over(sent, kept)[p] = kept[p]
    <3>1. Over(sent, kept) \in Manifests
      BY OverType
    <3>2. /\ DOMAIN Over(sent, kept) = DOMAIN sent \cup DOMAIN kept
          /\ \A p \in DOMAIN sent : Over(sent, kept)[p] = sent[p]
          /\ \A p \in DOMAIN kept \ DOMAIN sent : Over(sent, kept)[p] = kept[p]
      BY ONLY DEF Over
    <3> QED
      BY <3>1, <3>2
  <2> QED
    BY ONLY <1>4, <2>1
<1>7. \A p \in DOMAIN manifest \ U : p \in DOMAIN head /\ head[p] = manifest[p]
  BY DEF Upserts
<1>8. DOMAIN applied = DOMAIN manifest
  BY <1>1, <1>5, <1>6, <1>7
<1>9. \A p \in DOMAIN applied : IsCacheHit(applied[p], manifest[p])
  <2>1. ASSUME NEW p \in U PROVE IsCacheHit(applied[p], manifest[p])
    BY <1>1, <1>4, <1>6, <2>1
  <2>2. ASSUME NEW p \in DOMAIN manifest \ U PROVE applied[p] = manifest[p]
    BY <1>5, <1>6, <1>7, <2>2
  <2> QED
    BY <1>8, <2>1, <2>2 DEF IsCacheHit
<1>10. Signed(applied) = Signed(manifest)
  BY <1>8, <1>9, SignedEqual
<1> QED
  BY <1>4, <1>5, <1>6, <1>10

\* While a session of a push may be committed, what it makes of the head that it was
\* planned for is the manifest.
CommitsManifest(q) ==
    Live(q) /\ session[q].status \in {"planned", "open", "committing"} =>
        /\ session[q].target = push[q].target
        /\ session[q].base <= server[push[q].target].version
        /\ BaseIsHead(q) => Signed(Applied(q)) = Signed(push[q].manifest)

LEMMA PlannedIsManifest ==
    ASSUME PushInv, NEW q \in Pushes, Attempt(q), push'[q].stage = "opening",
           session'[q] = Planned(q)
    PROVE  CommitsManifest(q)'
<1>1. push[q].target \in Targets /\ server' = server
  BY DEF PushInv, Types, TargetKnown, Live, Attempt, Mapped, At
<1>2. push'[q].manifest = push[q].manifest /\ push'[q].target = push[q].target
  <2>1. KeepsWork(q)
    BY AttemptIsAttempted DEF PushInv, Types, Attempted, MovesOn
  <2> QED
    BY <2>1 DEF KeepsWork
<1>3. PICK t \in Targets, head \in Manifests :
        t = push[q].target /\ head = server[t].head /\ server[t].version \in Nat
  <2>1. server[push[q].target] \in Collection
    BY <1>1 DEF PushInv, Types, ServerType
  <2> QED
    BY <1>1, <2>1 DEF Collection
<1>4. PICK manifest \in Manifests, inputs \in Manifests, fresh \in Manifests :
        manifest = push[q].manifest /\ inputs = push[q].inputs /\ fresh = push[q].fresh
  BY RowType DEF PushInv, Types
<1>5. PICK U : U = Upserts(manifest, head)
  OBVIOUS
<1>6. PICK records \in Manifests : records = Over(Only(inputs, U \ DOMAIN fresh), fresh)
  BY OnlyType, OverType
<1>7. Planned(q) = [status |-> "planned", base |-> server[t].version, target |-> t,
                    deletes |-> Deletes(manifest, head), upserts |-> Only(records, U)]
  BY <1>3, <1>4, <1>5, <1>6 DEF Planned, ResolveUpserts
<1>8. /\ session'[q].target = t /\ session'[q].base = server[t].version
      /\ session'[q].upserts = Only(records, U)
      /\ session'[q].deletes = Deletes(manifest, head)
  BY <1>7
<1>9. /\ \A p \in DOMAIN manifest : p \in DOMAIN inputs /\ IsCacheHit(inputs[p], manifest[p])
      /\ \A p \in DOMAIN fresh : p \in DOMAIN inputs /\ fresh[p] = inputs[p]
  BY <1>4 DEF PushInv, MappedWork
<1>10. PICK applied : applied = Over(Only(records, U),
                                     Only(head, DOMAIN head \ Deletes(manifest, head)))
  OBVIOUS
<1>11. Signed(applied) = Signed(manifest)
  BY <1>5, <1>6, <1>9, <1>10, DifferenceIsManifest
<1>12. Applied(q)' = applied
  BY <1>1, <1>3, <1>8, <1>10 DEF Applied
<1> QED
  BY <1>1, <1>2, <1>3, <1>4, <1>8, <1>11, <1>12 DEF CommitsManifest

\* Files come and go; a head moves only with its version.
LEMMA HeadMovesWithVersion ==
    ASSUME Types, [Next]_vars, NEW t \in Targets
    PROVE  /\ server[t].version \in Nat /\ server'[t].version \in Nat
           /\ server[t].version <= server'[t].version
           /\ server'[t].version = server[t].version => server'[t].head = server[t].head
<1> DEFINE Goal == /\ server[t].version \in Nat /\ server'[t].version \in Nat
                   /\ server[t].version <= server'[t].version
                   /\ server'[t].version = server[t].version => server'[t].head = server[t].head
<1>0. server[t] \in Collection /\ server[t].version \in Nat
  BY DEF Types, ServerType, Collection
<1>1. ASSUME NEW u, NEW S, server' = [server EXCEPT ![u].held = S] PROVE Goal
  <2>1. server'[t] = server[t] \/ server'[t] = [server[t] EXCEPT !.held = S]
    BY <1>1 DEF Types, ServerType
  <2>2. server'[t].version = server[t].version /\ server'[t].head = server[t].head
    BY <1>0, <2>1 DEF Collection
  <2> QED
    BY <1>0, <2>2
<1>2. ASSUME NEW u, NEW h, NEW k,
             \/ server' = [server EXCEPT ![u].version = @ + 1]
             \/ server' = [server EXCEPT ![u].version = @ + 1, ![u].head = h, ![u].kept = k]
      PROVE  Goal
  <2>1. \/ server'[t] = server[t]
        \/ server'[t] = [server[t] EXCEPT !.version = server[t].version + 1]
        \/ server'[t] = [server[t] EXCEPT !.version = server[t].version + 1, !.head = h, !.kept = k]
    BY <1>2 DEF Types, ServerType
  <2>2. server'[t] = server[t] \/ server'[t].version = server[t].version + 1
    BY <1>0, <2>1 DEF Collection
  <2> QED
    BY <1>0, <2>2
<1>3. ASSUME UNCHANGED server PROVE Goal
  BY <1>0, <1>3
<1> HIDE DEF Goal
<1>4. ASSUME NEW q \in Pushes, Lands(q) PROVE Goal
  <2>1. \E u, S : server' = [server EXCEPT ![u].held = S]
    BY <1>4 DEF Lands, UploadLands
  <2> QED
    BY <1>1, <2>1
<1>5. ASSUME NEW q \in Pushes, CommitRefused(q) PROVE Goal
  <2>1. UNCHANGED server \/ \E u, S : server' = [server EXCEPT ![u].held = S]
    BY <1>5 DEF CommitRefused, UploadMissingFiles
  <2> QED
    BY <1>1, <1>3, <2>1
<1>6. ASSUME NEW q \in Pushes, CommitRuns(q) PROVE Goal
  <2>1. \/ UNCHANGED server
        \/ \E u, h, k :
             server' = [server EXCEPT ![u].version = @ + 1, ![u].head = h, ![u].kept = k]
    BY <1>6 DEF CommitRuns
  <2> QED
    BY <1>2, <1>3, <2>1
<1>7. ASSUME NEW u \in Targets, Publish(u) \/ \E f \in server[u].held : CleanUp(u, f) PROVE Goal
  <2>1. \/ server' = [server EXCEPT ![u].version = @ + 1]
        \/ \E S : server' = [server EXCEPT ![u].held = S]
    BY <1>7 DEF Publish, CleanUp
  <2> QED
    BY <1>1, <1>2, <2>1
<1>8. ASSUME NEW q \in Pushes, PushToUnderlayTask(q) \/ Breaks(q) PROVE Goal
  <2>1. UNCHANGED server \/ \E u, S : server' = [server EXCEPT ![u].held = S]
    BY <1>8 DEF PushToUnderlayTask, Breaks, UploadFails, CommitAnswerLost, CallFails, GiveUp,
       WriteFails, Crash
  <2> QED
    BY <1>1, <1>3, <2>1
<1>9. ASSUME NEW q \in Pushes, Step(q) PROVE UNCHANGED server \/ CommitRefused(q)
  BY <1>9 DEF Step, Hydrate, GetPushCacheEntries, ReuseEntry, MapPub, BuildFails, Checkpoint,
     SkipUnchanged, Attempt, OpenSession, Commit, Recommit, AwaitAsyncCommit,
     RecordPushResult, ApplyPushCache, RecordError
<1>10. ASSUME Edits \/ UNCHANGED vars PROVE Goal
  <2>1. UNCHANGED server
    BY <1>10 DEF Edits, Edit, EditPub, EditFacet, DeletePub, EditAttribution,
       UpsertUnderlayIntegration, vars
  <2> QED
    BY <1>3, <2>1
<1>11. ASSUME NEW q \in Pushes, CommitIsBusy(q) PROVE UNCHANGED server
  BY <1>11 DEF CommitIsBusy
<1>12. Goal
  BY <1>3, <1>4, <1>5, <1>6, <1>7, <1>8, <1>9, <1>10, <1>11 DEF Next, Server
<1> QED
  BY <1>12 DEF Goal

\* What a push has made stays once its manifest is there, and as long as it lives.
LEMMA WorkStays ==
    ASSUME PushType, NEW q \in Pushes, PushStep(q), push[q].stage \notin Early, Live(q)'
    PROVE  KeepsWork(q) /\ Live(q)
<1>1. CASE PushToUnderlayTask(q) \/ Hydrate(q) \/ GetPushCacheEntries(q)
           \/ \E p \in Pubs : ReuseEntry(q, p) \/ MapPub(q, p)
  BY <1>1 DEF PushToUnderlayTask, Hydrate, GetPushCacheEntries, ReuseEntry, MapPub, At, Early
<1>2. CASE push'[q] = push[q]
  BY <1>2 DEF KeepsWork, Live
<1>3. CASE \E f \in push[q].inFlight : UploadLands(q, f) \/ UploadFails(q, f)
  BY <1>3, UploadSteps DEF Live
<1>4. CASE Attempted(q) \/ MovesOn(q)
  BY <1>4 DEF Attempted, MovesOn, PastDrain, Live
<1>5. CASE Ended(q)
  BY <1>5 DEF Ended, Live
<1> QED
  BY <1>1, <1>2, <1>3, <1>4, <1>5 DEF PushStep

LEMMA CommitsManifestKept ==
    ASSUME PushInv, [Next]_vars, NEW q \in Pushes, CommitsManifest(q)
    PROVE  CommitsManifest(q)'
<1>1. PushStep(q) /\ SessionStep(q) /\ session[q] \in SessionRow
  BY PushSteps, SessionSteps DEF PushInv, Types, SessionType
<1>2. SessionFits(q) /\ TargetKnown(q) /\ PushType /\ Types
  BY DEF PushInv, Types
\* The session is the same but for its status, and was one that may be committed.
<1>3. ASSUME session[q].status \in {"planned", "open", "committing"},
             session'[q].target = session[q].target, session'[q].base = session[q].base,
             session'[q].upserts = session[q].upserts, session'[q].deletes = session[q].deletes
      PROVE  CommitsManifest(q)'
  <2> SUFFICES ASSUME Live(q)'
               PROVE  /\ session'[q].target = push'[q].target
                      /\ session'[q].base <= server'[push'[q].target].version
                      /\ BaseIsHead(q)' => Signed(Applied(q))' = Signed(push[q].manifest)'
    BY DEF CommitsManifest
  <2>1. push[q].stage \notin Early
    BY <1>2, <1>3 DEF SessionFits
  <2>2. KeepsWork(q) /\ Live(q)
    BY <1>1, <1>2, <2>1, WorkStays
  <2>3. /\ session[q].target = push[q].target
        /\ session[q].base <= server[push[q].target].version
        /\ BaseIsHead(q) => Signed(Applied(q)) = Signed(push[q].manifest)
    BY <1>3, <2>2 DEF CommitsManifest
  <2>4. PICK t \in Targets : t = push[q].target
    BY <1>2, <2>2 DEF TargetKnown
  <2>5. /\ server[t].version \in Nat /\ server'[t].version \in Nat
        /\ server[t].version <= server'[t].version
        /\ server'[t].version = server[t].version => server'[t].head = server[t].head
    BY <1>2, HeadMovesWithVersion
  <2>6. session[q].base \in Nat
    BY <1>1 DEF SessionRow
  <2>7. push'[q].target = t /\ session'[q].target = t /\ push'[q].manifest = push[q].manifest
    BY <1>3, <2>2, <2>3, <2>4 DEF KeepsWork
  <2>8. session'[q].base <= server'[t].version
    BY <1>3, <2>3, <2>4, <2>5, <2>6
  <2>9. ASSUME BaseIsHead(q)' PROVE Signed(Applied(q))' = Signed(push[q].manifest)'
    <3>1. session[q].base = server'[t].version
      BY <1>3, <2>7, <2>9 DEF BaseIsHead
    <3>2. server[t].version = server'[t].version
      BY <2>3, <2>4, <2>5, <2>6, <3>1
    <3>3. BaseIsHead(q)
      BY <2>3, <2>4, <3>1, <3>2 DEF BaseIsHead
    <3>4. Applied(q)' = Applied(q)
      BY <1>3, <2>3, <2>4, <2>5, <2>7, <3>2 DEF Applied
    <3> QED
      BY <2>3, <2>7, <3>3, <3>4
  <2> QED
    BY <2>7, <2>8, <2>9
<1>4. ASSUME NEW s, Moved(q, s)
      PROVE  /\ session'[q].status = s
             /\ session'[q].target = session[q].target /\ session'[q].base = session[q].base
             /\ session'[q].upserts = session[q].upserts
             /\ session'[q].deletes = session[q].deletes
  BY <1>1, <1>4 DEF Moved, SessionRow
<1>5. CASE session'[q] = session[q] /\ StagesFit(q)
  BY <1>3, <1>5 DEF CommitsManifest
<1>6. CASE session'[q] = NoSession /\ push'[q].stage \in {"done", "dead"}
  BY <1>6 DEF NoSession, CommitsManifest
<1>7. CASE Attempt(q) /\ push'[q].stage = "opening" /\ session'[q] = Planned(q)
  BY <1>7, PlannedIsManifest
<1>8. CASE \/ At(q, "opening") /\ Moved(q, "open")
           \/ At(q, "sending") /\ Moved(q, "committing")
  <2>1. session[q].status \in {"planned", "open"}
    BY <1>2, <1>8 DEF At, SessionFits
  <2> QED
    BY <1>3, <1>4, <1>8, <2>1
<1>9. CASE Moved(q, "none")
  BY <1>4, <1>9 DEF CommitsManifest
<1>10. CASE \E s \in {"committed", "conflict", "filesNeeded", "unchanged", "busy"} : Moved(q, s)
  BY <1>4, <1>10 DEF CommitsManifest
<1> QED
  BY <1>1, <1>5, <1>6, <1>7, <1>8, <1>9, <1>10 DEF SessionStep

\* A commit that makes a version applies its session to the head that it is based on.
LEMMA CommittedBy ==
    ASSUME Types, [Next]_vars, NEW q \in Pushes, session[q].target \in Targets,
           session[q].status = "committing", session'[q].status = "committed"
    PROVE  BaseIsHead(q) /\ server'[session[q].target].head = Applied(q)
<1>0. session[q] \in SessionRow
  BY DEF Types, SessionType
<1>1. ASSUME NEW s, Moved(q, s) PROVE session'[q].status = s
  BY <1>0, <1>1 DEF Moved, SessionRow
<1>2. SessionStep(q)
  BY SessionSteps DEF Types
<1>3. CommitRuns(q) \/ CommitIsBusy(q)
  BY <1>1, <1>2 DEF SessionStep, NoSession, Planned
<1>4. ~Session(q, "busy") /\ ~Session(q, "conflict") /\ ~Session(q, "filesNeeded")
      /\ ~Session(q, "unchanged")
  BY <1>1, MovedBySession DEF Types
<1>5. CommitRuns(q)
  BY <1>3, <1>4 DEF CommitIsBusy
<1>6. /\ BaseIsHead(q)
      /\ server' = [server EXCEPT ![session[q].target].version = @ + 1,
                                  ![session[q].target].head = Applied(q),
                                  ![session[q].target].kept = @ \cup Image(Applied(q))]
  BY <1>4, <1>5 DEF CommitRuns
<1>7. PICK t \in Targets : t = session[q].target
  OBVIOUS
<1>8. server[t] \in Collection
  BY DEF Types, ServerType
<1>9. server'[t] = [server[t] EXCEPT !.version = server[t].version + 1, !.head = Applied(q),
                                     !.kept = server[t].kept \cup Image(Applied(q))]
  BY <1>6, <1>7 DEF Types, ServerType
<1>10. server'[t].head = Applied(q)
  BY <1>8, <1>9 DEF Collection
<1> QED
  BY <1>6, <1>7, <1>10

VersionInv == PushInv /\ \A q \in Pushes : CommitsManifest(q)

LEMMA VersionInvHolds == Spec => []VersionInv
<1>1. Init => VersionInv
  <2>1. Init => \A q \in Pushes : push[q].stage = "idle"
    BY DEF Init, Idle
  <2> QED
    BY <2>1, InitPushInv DEF VersionInv, CommitsManifest, Live
<1>2. VersionInv /\ [Next]_vars => VersionInv'
  BY NextPushInv, CommitsManifestKept DEF VersionInv
<1> QED
  BY <1>1, <1>2, PTL DEF Spec

\* Whenever a session of a live push becomes a version, the version is the push's
\* manifest but for what has no signature, whoever moves the head before.
THEOREM VersionsAreManifests == Spec => VersionIsManifest
<1>1. ASSUME VersionInv, [Next]_vars, NEW q \in Pushes, Live(q),
             session[q].status = "committing", session'[q].status = "committed"
      PROVE  Signed(server'[push[q].target].head) = Signed(push[q].manifest)
  <2>1. session[q].target = push[q].target /\ push[q].target \in Targets
    BY <1>1 DEF VersionInv, CommitsManifest, PushInv, TargetKnown
  <2>2. BaseIsHead(q) /\ server'[session[q].target].head = Applied(q)
    BY <1>1, <2>1, CommittedBy DEF VersionInv, PushInv
  <2>3. Signed(Applied(q)) = Signed(push[q].manifest)
    BY <1>1, <2>2 DEF VersionInv, CommitsManifest
  <2> QED
    BY <2>1, <2>2, <2>3
<1>2. VersionInv /\ [Next]_vars =>
        [\A q \in Pushes :
            Live(q) /\ session[q].status = "committing" /\ session'[q].status = "committed"
            => Signed(server'[push[q].target].head) = Signed(push[q].manifest)]_vars
  BY <1>1
<1> QED
  BY <1>2, VersionInvHolds, PTL DEF Spec, VersionIsManifest
----------------------------------------------------------------------------
(* A cached pub's file has landed. *)

Landed(f) == \E t \in Targets : f \in server[t].held

\* A file that was mapped has landed, is in flight or has failed; once the uploads
\* have been drained, it has landed.
FreshLanded(q) ==
    \A p \in DOMAIN push[q].fresh :
        /\ push[q].stage = "mapping" =>
             Landed(push[q].fresh[p]) \/ push[q].fresh[p] \in push[q].inFlight \/ push[q].failure
        /\ push[q].stage \in PastDrain => Landed(push[q].fresh[p])

NoSides(m) == \A p \in DOMAIN m : m[p].side = 0

\* As long as nothing unsigned has changed, an entry says all that there is of its pub.
Unsigned ==
    spent.unsigned = 0 =>
        /\ NoSides(cache)
        /\ \A q \in Pushes : NoSides(push[q].inputs) /\ NoSides(push[q].entries)
CacheLanded == spent.unsigned = 0 => \A p \in DOMAIN cache : Landed(cache[p])

\* The inductive invariant.
FilesInv ==
    /\ PushInv
    /\ \A q \in Pushes : FreshLanded(q)
    /\ Unsigned
    /\ CacheLanded

LEMMA LandedStays ==
    ASSUME Types, "cleanup" \notin FaultKinds, [Next]_vars, NEW f, Landed(f)
    PROVE  Landed(f)'
<1>0. PICK t \in Targets : f \in server[t].held
  BY DEF Landed
<1>1. server[t] \in Collection
  BY DEF Types, ServerType
<1> DEFINE Goal == f \in server'[t].held
<1>2. ASSUME NEW u, NEW S, server' = [server EXCEPT ![u].held = @ \cup S] PROVE Goal
  <2>1. server'[t] = server[t] \/ server'[t] = [server[t] EXCEPT !.held = server[t].held \cup S]
    BY <1>2 DEF Types, ServerType
  <2> QED
    BY <1>0, <1>1, <2>1 DEF Collection
<1>3. ASSUME NEW u, NEW h, NEW k,
             \/ server' = [server EXCEPT ![u].version = @ + 1]
             \/ server' = [server EXCEPT ![u].version = @ + 1, ![u].head = h, ![u].kept = k]
      PROVE  Goal
  <2>1. \/ server'[t] = server[t]
        \/ server'[t] = [server[t] EXCEPT !.version = server[t].version + 1]
        \/ server'[t] = [server[t] EXCEPT !.version = server[t].version + 1, !.head = h, !.kept = k]
    BY <1>3 DEF Types, ServerType
  <2> QED
    BY <1>0, <1>1, <2>1 DEF Collection
<1>4. ASSUME UNCHANGED server PROVE Goal
  BY <1>0, <1>4
<1> HIDE DEF Goal
<1>5. ASSUME NEW q \in Pushes, Lands(q) PROVE Goal
  <2>1. \E u, S : server' = [server EXCEPT ![u].held = @ \cup S]
    BY <1>5 DEF Lands, UploadLands
  <2> QED
    BY <1>2, <2>1
<1>6. ASSUME NEW q \in Pushes, CommitRefused(q) PROVE Goal
  <2>1. UNCHANGED server \/ \E u, S : server' = [server EXCEPT ![u].held = @ \cup S]
    BY <1>6 DEF CommitRefused, UploadMissingFiles
  <2> QED
    BY <1>2, <1>4, <2>1
<1>7. ASSUME NEW q \in Pushes, CommitRuns(q) PROVE Goal
  <2>1. \/ UNCHANGED server
        \/ \E u, h, k :
             server' = [server EXCEPT ![u].version = @ + 1, ![u].head = h, ![u].kept = k]
    BY <1>7 DEF CommitRuns
  <2> QED
    BY <1>3, <1>4, <2>1
<1>8. ASSUME NEW u \in Targets, Publish(u) PROVE Goal
  BY <1>3, <1>8 DEF Publish
<1>9. ASSUME NEW u \in Targets, NEW g, CleanUp(u, g) PROVE FALSE
  BY <1>9 DEF CleanUp, Fault
<1>10. ASSUME NEW q \in Pushes, PushToUnderlayTask(q) \/ Breaks(q) PROVE Goal
  <2>1. UNCHANGED server \/ \E u, S : server' = [server EXCEPT ![u].held = @ \cup S]
    BY <1>10 DEF PushToUnderlayTask, Breaks, UploadFails, CommitAnswerLost, CallFails, GiveUp,
       WriteFails, Crash
  <2> QED
    BY <1>2, <1>4, <2>1
<1>11. ASSUME NEW q \in Pushes, Step(q) PROVE UNCHANGED server \/ CommitRefused(q)
  BY <1>11 DEF Step, Hydrate, GetPushCacheEntries, ReuseEntry, MapPub, BuildFails, Checkpoint,
     SkipUnchanged, Attempt, OpenSession, Commit, Recommit, AwaitAsyncCommit,
     RecordPushResult, ApplyPushCache, RecordError
<1>12. ASSUME Edits \/ UNCHANGED vars PROVE UNCHANGED server
  BY <1>12 DEF Edits, Edit, EditPub, EditFacet, DeletePub, EditAttribution,
     UpsertUnderlayIntegration, vars
<1>13. ASSUME NEW q \in Pushes, CommitIsBusy(q) PROVE UNCHANGED server
  BY <1>13 DEF CommitIsBusy
<1>14. Goal
  BY <1>4, <1>5, <1>6, <1>7, <1>8, <1>9, <1>10, <1>11, <1>12, <1>13 DEF Next, Server
<1> QED
  BY <1>14 DEF Goal, Landed

LEMMA UnsignedStays ==
    ASSUME Types, [Next]_vars, spent'.unsigned = 0
    PROVE  spent.unsigned = 0
<1>1. ASSUME NEW p \in Pubs, EditAttribution(p) PROVE FALSE
  BY <1>1, BoundsAssumption DEF EditAttribution, Types, SpentType
<1>2. ASSUME NEW kind, Fault(kind) PROVE spent'.unsigned = spent.unsigned
  BY <1>2, FaultType DEF Types
<1>3. ASSUME NEW h, Edit(h) PROVE spent'.unsigned = spent.unsigned
  BY <1>3 DEF Edit, Types, SpentType
<1>4. ASSUME Edits PROVE spent'.unsigned = spent.unsigned
  BY <1>1, <1>3, <1>4 DEF Edits, EditPub, EditFacet, DeletePub, UpsertUnderlayIntegration
<1>5. ASSUME Server PROVE spent' = spent \/ \E kind : Fault(kind)
  BY <1>5 DEF Server, CommitRuns, CommitIsBusy, Publish, CleanUp
<1>6. ASSUME NEW q \in Pushes, PushToUnderlayTask(q) PROVE spent'.unsigned = spent.unsigned
  <2>1. \E h : spent' = [spent EXCEPT !.harm = h]
    BY <1>6 DEF PushToUnderlayTask
  <2> QED
    BY <2>1 DEF Types, SpentType
<1>9. ASSUME NEW q \in Pushes, Step(q) \/ Lands(q) PROVE spent' = spent
  BY <1>9 DEF Lands, UploadLands, Step, Hydrate, GetPushCacheEntries,
     ReuseEntry, MapPub, BuildFails, Checkpoint, SkipUnchanged, Attempt, OpenSession, Commit,
     Recommit, AwaitAsyncCommit, CommitRefused, RecordPushResult, ApplyPushCache, RecordError
<1>7. ASSUME NEW q \in Pushes, Breaks(q) PROVE \E kind : Fault(kind)
  BY <1>7 DEF Breaks, UploadFails, CommitAnswerLost, CallFails, GiveUp, WriteFails, Crash
<1>8. ASSUME UNCHANGED vars PROVE spent' = spent
  BY <1>8 DEF vars
<1> QED
  BY <1>2, <1>4, <1>5, <1>6, <1>7, <1>8, <1>9 DEF Next

LEMMA FreshLandedKept ==
    ASSUME PushInv, "cleanup" \notin FaultKinds, [Next]_vars, NEW q \in Pushes, FreshLanded(q)
    PROVE  FreshLanded(q)'
<1>0. /\ PushStep(q) /\ PushType /\ NothingYet(q) /\ TargetKnown(q)
      /\ \A f : Landed(f) => Landed(f)'
  BY PushSteps, LandedStays DEF PushInv, Types
<1>1. CASE push'[q] = push[q]
  BY <1>0, <1>1 DEF FreshLanded
<1>2. CASE PushToUnderlayTask(q)
  BY <1>0, <1>2, Begins DEF FreshLanded, KeepsMaps, PastDrain
<1>3. CASE Hydrate(q) \/ GetPushCacheEntries(q)
  <2>1. DOMAIN push'[q].fresh = {}
    BY <1>0, <1>3, ReadSteps DEF KeepsMaps, NothingYet
  <2> QED
    BY <2>1 DEF FreshLanded
<1>4. ASSUME NEW p \in Pubs, ReuseEntry(q, p) PROVE FreshLanded(q)'
  BY <1>0, <1>4, ReusedEntry DEF FreshLanded
<1>5. ASSUME NEW p \in Pubs, MapPub(q, p) PROVE FreshLanded(q)'
  <2> DEFINE c == push[q].inputs[p]
  <2>1. /\ push[q].stage = "mapping" /\ push'[q].stage = "mapping"
        /\ push'[q].failure = push[q].failure
        /\ push'[q].inFlight = Submits(q, p, c)
        /\ DOMAIN push'[q].fresh = DOMAIN push[q].fresh \cup {p}
        /\ push'[q].fresh[p] = c
        /\ \A o \in DOMAIN push[q].fresh \ {p} : push'[q].fresh[o] = push[q].fresh[o]
    BY <1>0, <1>5, MappedPub
  <2>2. push[q].inFlight \subseteq push'[q].inFlight
    BY <2>1 DEF Submits
  <2>3. \A o \in DOMAIN push[q].fresh :
          Landed(push[q].fresh[o]) \/ push[q].fresh[o] \in push[q].inFlight \/ push[q].failure
    BY <2>1 DEF FreshLanded
  <2>4. Landed(c) \/ c \in push'[q].inFlight \/ push[q].failure
    <3>1. CASE c \in UploadedHashes(q)
      <4>1. PICK o \in DOMAIN push[q].fresh : push[q].fresh[o] = c
        BY <3>1 DEF UploadedHashes, Image
      <4> QED
        BY <2>2, <2>3, <4>1
    <3>2. CASE c \notin UploadedHashes(q)
      BY <2>1, <3>2 DEF Submits
    <3> QED
      BY <3>1, <3>2
  <2>5. ASSUME NEW o \in DOMAIN push'[q].fresh
        PROVE  \/ Landed(push'[q].fresh[o]) \/ push'[q].fresh[o] \in push'[q].inFlight
               \/ push'[q].failure
    <3>1. CASE o = p
      BY <2>1, <2>4, <3>1
    <3>2. CASE o # p
      BY <2>1, <2>2, <2>3, <2>5, <3>2
    <3> QED
      BY <3>1, <3>2
  <2>6. \A f : Landed(f) => \E t \in Targets : f \in server'[t].held
    BY <1>0 DEF Landed
  <2> QED
    BY <2>1, <2>5, <2>6 DEF FreshLanded, Landed, PastDrain
<1>6. ASSUME NEW f \in push[q].inFlight, UploadLands(q, f) PROVE FreshLanded(q)'
  <2>1. /\ KeepsWork(q) /\ push'[q].stage = push[q].stage
        /\ push'[q].inFlight = push[q].inFlight \ {f}
        /\ push[q].failure => push'[q].failure
    BY <1>0, <1>6, UploadSteps
  <2>2. push[q].target \in Targets
    BY <1>0, <1>6 DEF NothingYet, TargetKnown, Live
  <2>3. Landed(f)'
    <3>1. PICK t \in Targets : t = push[q].target
      BY <2>2
    <3>2. server[t] \in Collection
      BY DEF PushInv, Types, ServerType
    <3>3. server'[t] = [server[t] EXCEPT !.held = server[t].held \cup {f}]
      BY <1>6, <3>1 DEF UploadLands, PushInv, Types, ServerType
    <3>4. f \in server'[t].held
      BY <3>2, <3>3 DEF Collection
    <3> QED
      BY <3>4 DEF Landed
  <2> QED
    BY <1>0, <2>1, <2>3 DEF FreshLanded, KeepsWork
<1>7. ASSUME NEW f \in push[q].inFlight, UploadFails(q, f) PROVE FreshLanded(q)'
  <2>1. /\ KeepsWork(q) /\ push'[q].stage = push[q].stage /\ push'[q].failure
    BY <1>0, <1>7, UploadSteps
  <2> QED
    BY <1>0, <2>1 DEF FreshLanded, KeepsWork
<1>8. CASE Attempted(q)
  BY <1>0, <1>8 DEF Attempted, KeepsWork, FreshLanded, PastDrain
<1>9. CASE MovesOn(q)
  BY <1>0, <1>9 DEF MovesOn, KeepsWork, FreshLanded, PastDrain
<1>10. CASE Ended(q)
  BY <1>10 DEF Ended, FreshLanded
<1> QED
  BY <1>0, <1>1, <1>2, <1>3, <1>4, <1>5, <1>6, <1>7, <1>8, <1>9, <1>10 DEF PushStep

\* A second mapping corrects nothing, as long as nothing unsigned has changed.
LEMMA NothingHealed ==
    ASSUME PushInv, Unsigned, spent.unsigned = 0, NEW q \in Pushes,
           NEW p \in DOMAIN push[q].hydrated
    PROVE  push[q].hydrated[p] = push[q].entries[p]
<1>1. /\ p \in DOMAIN push[q].inputs /\ push[q].hydrated[p] = push[q].inputs[p]
      /\ p \in DOMAIN push[q].entries
      /\ IsCacheHit(push[q].inputs[p], push[q].entries[p])
  BY DEF PushInv, MappedWork, Hit
<1>2. PICK c \in Content, e \in Content : c = push[q].inputs[p] /\ e = push[q].entries[p]
  BY <1>1, RowType DEF PushInv, Types
<1>3. c.side = 0 /\ e.side = 0
  BY <1>1, <1>2 DEF Unsigned, NoSides
<1>4. e.row = c.row /\ e.facet = c.facet
  BY <1>1, <1>2 DEF IsCacheHit
<1>5. c = e
  BY <1>3, <1>4 DEF Content
<1> QED
  BY <1>1, <1>2, <1>5

\* What is written to the cache is of a push whose uploads have been drained.
LEMMA CacheSteps ==
    ASSUME PushInv, Unsigned, spent.unsigned = 0, [Next]_vars, NEW p \in DOMAIN cache'
    PROVE  \/ p \in DOMAIN cache /\ cache'[p] = cache[p]
           \/ \E q \in Pushes :
                /\ p \in DOMAIN push[q].fresh /\ cache'[p] = push[q].fresh[p]
                /\ \/ push[q].stage = "applying"
                   \/ push[q].stage = "mapping" /\ push[q].inFlight = {} /\ ~push[q].failure
<1> DEFINE Old == p \in DOMAIN cache /\ cache'[p] = cache[p]
           New(q) == /\ p \in DOMAIN push[q].fresh /\ cache'[p] = push[q].fresh[p]
                     /\ \/ push[q].stage = "applying"
                        \/ push[q].stage = "mapping" /\ push[q].inFlight = {} /\ ~push[q].failure
<1>0. cache \in Manifests
  BY DEF PushInv, Types, CacheType
<1>1. ASSUME UNCHANGED cache PROVE Old
  BY <1>1
<1>2. ASSUME NEW o \in Pubs, DeletePub(o) PROVE Old
  BY <1>2 DEF DeletePub, Only
<1>3. ASSUME NEW q \in Pushes, Checkpoint(q) PROVE Old \/ New(q)
  <2>1. push[q].stage = "mapping" /\ push[q].inFlight = {} /\ ~push[q].failure
    BY <1>3 DEF Checkpoint, At, Drained
  <2>2. cache' = cache \/ cache' = Over(Only(push[q].fresh, push[q].pending), cache)
    BY <1>3 DEF Checkpoint, UpsertPushCacheEntries
  <2>3. PICK f \in Manifests : f = push[q].fresh
    BY RowType DEF PushInv, Types
  <2>4. PICK u \in Manifests :
          /\ u = Only(f, push[q].pending)
          /\ \A o \in DOMAIN u : o \in DOMAIN f /\ u[o] = f[o]
    <3>1. \A S : /\ Only(f, S) \in Manifests
                 /\ \A o \in DOMAIN Only(f, S) : o \in DOMAIN f /\ Only(f, S)[o] = f[o]
      BY OnlyType
    <3> QED
      BY <3>1
  <2>5. \A o \in DOMAIN Over(u, cache) :
           \/ o \in DOMAIN u /\ Over(u, cache)[o] = u[o]
           \/ o \in DOMAIN cache /\ Over(u, cache)[o] = cache[o]
    BY DEF Over
  <2> QED
    BY <2>1, <2>2, <2>3, <2>4, <2>5
<1>4. ASSUME NEW q \in Pushes, ApplyPushCache(q) PROVE Old \/ New(q)
  <2>1. push[q].stage = "applying"
    BY <1>4 DEF ApplyPushCache, At
  <2>2. PICK f \in Manifests, h \in Manifests : f = push[q].fresh /\ h = push[q].hydrated
    BY RowType DEF PushInv, Types
  <2>3. {o \in DOMAIN h : h[o] # push[q].entries[o]} = {}
    BY <2>2, NothingHealed
  <2>4. CacheUpserts(q) = Over(f, Only(h, {}))
    BY <2>2, <2>3 DEF CacheUpserts
  <2>5. PICK u \in Manifests :
          u = CacheUpserts(q) /\ \A o \in DOMAIN u : o \in DOMAIN f /\ u[o] = f[o]
    <3>0. \A S : Only(h, S) \in Manifests
      BY OnlyType
    <3>1. PICK n \in Manifests : n = Only(h, {}) /\ DOMAIN n = {}
      <4>1. DOMAIN Only(h, {}) = DOMAIN h \cap {}
        BY DEF Only
      <4> QED
        BY <3>0, <4>1
    <3>2. /\ Over(f, n) \in Manifests
          /\ \A o \in DOMAIN Over(f, n) : o \in DOMAIN f /\ Over(f, n)[o] = f[o]
      <4>1. Over(f, n) \in Manifests
        BY OverType
      <4> QED
        BY <3>1, <4>1 DEF Over
    <3> QED
      BY <2>4, <3>1, <3>2
  <2>6. cache' = cache \/ cache' = Only(Over(u, cache), DOMAIN push[q].inputs)
    BY <1>4, <2>5 DEF ApplyPushCache
  <2>7. PICK m \in Manifests :
          /\ m = Over(u, cache)
          /\ \A o \in DOMAIN m : \/ o \in DOMAIN u /\ m[o] = u[o]
                                 \/ o \in DOMAIN cache /\ m[o] = cache[o]
    <3>1. Over(u, cache) \in Manifests
      BY <1>0, OverType
    <3>2. \A o \in DOMAIN Over(u, cache) :
            \/ o \in DOMAIN u /\ Over(u, cache)[o] = u[o]
            \/ o \in DOMAIN cache /\ Over(u, cache)[o] = cache[o]
      BY DEF Over
    <3> QED
      BY <3>1, <3>2
  <2>8. \A S : \A o \in DOMAIN Only(m, S) : o \in DOMAIN m /\ Only(m, S)[o] = m[o]
    BY DEF Only
  <2> QED
    BY <2>1, <2>2, <2>5, <2>6, <2>7, <2>8
<1> HIDE DEF Old, New
<1>5. ASSUME NEW q \in Pushes, PushToUnderlayTask(q) \/ Lands(q) \/ Breaks(q) PROVE UNCHANGED cache
  BY <1>5 DEF PushToUnderlayTask, Lands, UploadLands, Breaks, UploadFails, CommitAnswerLost,
     CallFails, GiveUp, WriteFails, Crash
<1>6. ASSUME NEW q \in Pushes, Step(q)
      PROVE  UNCHANGED cache \/ Checkpoint(q) \/ ApplyPushCache(q)
  BY <1>6 DEF Step, Hydrate, GetPushCacheEntries, ReuseEntry, MapPub, BuildFails,
     SkipUnchanged, Attempt, OpenSession, Commit, Recommit, AwaitAsyncCommit, CommitRefused,
     RecordPushResult, RecordError
<1>7. ASSUME Server \/ UNCHANGED vars PROVE UNCHANGED cache
  BY <1>7 DEF Server, CommitRuns, CommitIsBusy, Publish, CleanUp, vars
<1>8. ASSUME Edits PROVE UNCHANGED cache \/ \E o \in Pubs : DeletePub(o)
  BY <1>8 DEF Edits, EditPub, EditFacet, EditAttribution, UpsertUnderlayIntegration
<1>9. Old \/ \E q \in Pushes : New(q)
  BY <1>1, <1>2, <1>3, <1>4, <1>5, <1>6, <1>7, <1>8 DEF Next
<1> QED
  BY <1>9 DEF Old, New

LEMMA UnsignedKept ==
    ASSUME PushInv, Unsigned, [Next]_vars
    PROVE  Unsigned'
<1> SUFFICES ASSUME spent'.unsigned = 0
             PROVE  /\ NoSides(cache')
                    /\ \A q \in Pushes : NoSides(push'[q].inputs) /\ NoSides(push'[q].entries)
  BY DEF Unsigned, NoSides
<1>1. spent.unsigned = 0
  BY UnsignedStays DEF PushInv
<1>2. /\ NoSides(cache)
      /\ \A q \in Pushes : NoSides(push[q].inputs) /\ NoSides(push[q].entries)
  BY <1>1 DEF Unsigned
<1>3. NoSides(pubs)
  <2>1. \A p \in DOMAIN pubs : pubs[p] \in Content /\ pubs[p].side <= 0
    BY <1>1, ManifestElim DEF PushInv, Types, PubsType
  <2> QED
    BY <2>1, BoundsAssumption DEF Content, NoSides
<1>4. NoSides(cache')
  <2>1. \A q \in Pushes : \A p \in DOMAIN push[q].fresh : push[q].fresh[p].side = 0
    BY <1>2 DEF PushInv, MappedWork, NoSides
  <2>2. ASSUME NEW p \in DOMAIN cache' PROVE cache'[p].side = 0
    BY <1>1, <1>2, <2>1, CacheSteps DEF NoSides
  <2> QED
    BY <2>2 DEF NoSides
<1>5. ASSUME NEW q \in Pushes PROVE NoSides(push'[q].inputs) /\ NoSides(push'[q].entries)
  <2>0. PushStep(q) /\ PushType
    BY PushSteps DEF PushInv, Types
  <2>1. CASE push'[q] = push[q]
    BY <1>2, <2>1
  <2>2. CASE PushToUnderlayTask(q)
    BY <1>2, <2>0, <2>2, Begins
  <2>3. CASE Hydrate(q) \/ GetPushCacheEntries(q)
    BY <1>2, <1>3, <2>0, <2>3, ReadSteps
  <2>4. CASE \E p \in Pubs : ReuseEntry(q, p) \/ MapPub(q, p)
    <3>1. push'[q].inputs = push[q].inputs /\ push'[q].entries = push[q].entries
      BY <2>0, <2>4, ReusedEntry, MappedPub
    <3> QED
      BY <1>2, <3>1
  <2>5. CASE \E f \in push[q].inFlight : UploadLands(q, f) \/ UploadFails(q, f)
    <3>1. KeepsWork(q)
      BY <2>0, <2>5, UploadSteps
    <3> QED
      BY <1>2, <3>1 DEF KeepsWork
  <2>6. CASE Attempted(q) \/ MovesOn(q)
    BY <1>2, <2>6 DEF Attempted, MovesOn, KeepsWork
  <2>7. CASE Ended(q)
    BY <2>7 DEF Ended, NoSides
  <2> QED
    BY <2>0, <2>1, <2>2, <2>3, <2>4, <2>5, <2>6, <2>7 DEF PushStep
<1> QED
  BY <1>4, <1>5

LEMMA CacheLandedKept ==
    ASSUME FilesInv, "cleanup" \notin FaultKinds, [Next]_vars
    PROVE  CacheLanded'
<1> SUFFICES ASSUME spent'.unsigned = 0, NEW p \in DOMAIN cache'
             PROVE  Landed(cache[p])'
  BY DEF CacheLanded
<1>1. spent.unsigned = 0
  BY UnsignedStays DEF FilesInv, PushInv
<1>2. PICK c : c = cache'[p]
  OBVIOUS
<1>3. Landed(c)
  <2>1. CASE p \in DOMAIN cache /\ c = cache[p]
    BY <1>1, <2>1 DEF FilesInv, CacheLanded
  <2>2. ASSUME NEW q \in Pushes, p \in DOMAIN push[q].fresh, c = push[q].fresh[p],
               \/ push[q].stage = "applying"
               \/ push[q].stage = "mapping" /\ push[q].inFlight = {} /\ ~push[q].failure
        PROVE  Landed(c)
    BY <2>2 DEF FilesInv, FreshLanded, PastDrain
  <2> QED
    BY <1>1, <1>2, <2>1, <2>2, CacheSteps DEF FilesInv
<1>4. Landed(c)'
  BY <1>3, LandedStays DEF FilesInv, PushInv
<1> QED
  BY <1>2, <1>4

\* A pub is in the cache only when its file has landed, however many uploads are in
\* flight or fail, pushes die or pubs share the file; of a server that drops no file,
\* and as long as nothing unsigned changes.
THEOREM CacheIsOfLandedFiles ==
    ASSUME "cleanup" \notin FaultKinds
    PROVE  Spec => []CachedFilesLanded
<1>1. Init => FilesInv
  <2>1. ASSUME Init PROVE FilesInv
    <3>1. cache = Empty /\ \A q \in Pushes : push[q] = Idle
      BY <2>1 DEF Init
    <3>2. /\ \A q \in Pushes : FreshLanded(q)
          /\ Unsigned /\ CacheLanded
      BY <3>1, EmptyType DEF FreshLanded, Idle, Unsigned, NoSides, CacheLanded
    <3> QED
      BY <2>1, <3>2, InitPushInv DEF FilesInv
  <2> QED
    BY <2>1
<1>2. FilesInv /\ [Next]_vars => FilesInv'
  BY NextPushInv, FreshLandedKept, UnsignedKept, CacheLandedKept DEF FilesInv
<1>3. FilesInv => CachedFilesLanded
  BY DEF FilesInv, CacheLanded, Landed, CachedFilesLanded
<1> QED
  BY <1>1, <1>2, <1>3, PTL DEF Spec
----------------------------------------------------------------------------
(* What a push needs can be produced again. *)

\* A session sends what the push has read of the pubs.
SendsInputs(q) ==
    Live(q) /\ session[q].status # "none" =>
        \A p \in DOMAIN session[q].upserts :
            /\ p \in DOMAIN push[q].manifest /\ p \in DOMAIN push[q].inputs
            /\ session[q].upserts[p] = push[q].inputs[p]

LEMMA PlannedSendsInputs ==
    ASSUME PushInv, NEW q \in Pushes, Attempt(q), session'[q] = Planned(q)
    PROVE  SendsInputs(q)'
<1>1. KeepsWork(q)
  BY AttemptIsAttempted DEF PushInv, Types, Attempted, MovesOn
<1>2. push'[q].manifest = push[q].manifest /\ push'[q].inputs = push[q].inputs
  BY <1>1 DEF KeepsWork
<1>3. PICK manifest \in Manifests, inputs \in Manifests, fresh \in Manifests :
        manifest = push[q].manifest /\ inputs = push[q].inputs /\ fresh = push[q].fresh
  BY RowType DEF PushInv, Types
<1>4. PICK U : U = Upserts(manifest, server[push[q].target].head)
  OBVIOUS
<1>5. U \subseteq DOMAIN manifest
  BY <1>4 DEF Upserts
<1>6. PICK records : records = Over(Only(inputs, U \ DOMAIN fresh), fresh)
  OBVIOUS
<1>7. session'[q].upserts = Only(records, U)
  BY <1>3, <1>4, <1>6 DEF Planned, ResolveUpserts
<1>8. /\ \A p \in DOMAIN manifest : p \in DOMAIN inputs
      /\ \A p \in DOMAIN fresh : p \in DOMAIN inputs /\ fresh[p] = inputs[p]
  BY <1>3 DEF PushInv, MappedWork
<1>9. \A p \in DOMAIN records : records[p] = inputs[p]
  BY <1>6, <1>8 DEF Over, Only
<1>10. \A p \in DOMAIN Only(records, U) :
         p \in U /\ p \in DOMAIN records /\ Only(records, U)[p] = records[p]
  BY DEF Only
<1> QED
  BY <1>2, <1>3, <1>5, <1>7, <1>8, <1>9, <1>10 DEF SendsInputs

LEMMA SendsInputsKept ==
    ASSUME PushInv, [Next]_vars, NEW q \in Pushes, SendsInputs(q)
    PROVE  SendsInputs(q)'
<1>1. PushStep(q) /\ SessionStep(q) /\ session[q] \in SessionRow
  BY PushSteps, SessionSteps DEF PushInv, Types, SessionType
<1>2. SessionFits(q) /\ PushType
  BY DEF PushInv, Types
<1>3. ASSUME session[q].status # "none", session'[q].upserts = session[q].upserts
      PROVE  SendsInputs(q)'
  <2> SUFFICES ASSUME Live(q)'
               PROVE  SendsInputs(q)'
    BY DEF SendsInputs
  <2>1. push[q].stage \notin Early
    BY <1>2, <1>3 DEF SessionFits
  <2>2. KeepsWork(q) /\ Live(q)
    BY <1>1, <1>2, <2>1, WorkStays
  <2> QED
    BY <1>3, <2>2 DEF SendsInputs, KeepsWork
<1>4. ASSUME NEW s, Moved(q, s)
      PROVE  session'[q].status = s /\ session'[q].upserts = session[q].upserts
  BY <1>1, <1>4 DEF Moved, SessionRow
<1>5. CASE session'[q] = session[q] /\ StagesFit(q)
  BY <1>3, <1>5 DEF SendsInputs
<1>6. CASE session'[q] = NoSession
  BY <1>6 DEF NoSession, SendsInputs
<1>7. CASE Attempt(q) /\ session'[q] = Planned(q)
  BY <1>7, PlannedSendsInputs
<1>8. CASE \/ At(q, "opening") /\ Moved(q, "open")
           \/ At(q, "sending") /\ Moved(q, "committing")
           \/ session[q].status = "committing" /\ \E s : Moved(q, s)
  <2>1. session[q].status # "none"
    BY <1>2, <1>8 DEF At, SessionFits
  <2> QED
    BY <1>3, <1>4, <1>8, <2>1
<1>9. CASE Moved(q, "none")
  BY <1>4, <1>9 DEF SendsInputs
<1> QED
  BY <1>1, <1>5, <1>6, <1>7, <1>8, <1>9 DEF SessionStep

\* What a failing push has mapped is as before the step.
LEMMA FailingKeeps ==
    ASSUME PushType, NEW q \in Pushes, PushStep(q), push'[q].stage = "failing"
    PROVE  KeepsWork(q)
<1>1. CASE push'[q] = push[q]
  BY <1>1 DEF KeepsWork
<1>2. CASE PushToUnderlayTask(q) \/ Hydrate(q) \/ GetPushCacheEntries(q)
  BY <1>2, Begins, ReadSteps
<1>3. CASE \E p \in Pubs : ReuseEntry(q, p) \/ MapPub(q, p)
  BY <1>3, ReusedEntry, MappedPub
<1>4. CASE \E f \in push[q].inFlight : UploadLands(q, f) \/ UploadFails(q, f)
  BY <1>4, UploadSteps
<1>5. CASE Attempted(q) \/ MovesOn(q)
  BY <1>5 DEF Attempted, MovesOn
<1>6. CASE Ended(q)
  BY <1>6 DEF Ended
<1> QED
  BY <1>1, <1>2, <1>3, <1>4, <1>5, <1>6 DEF PushStep

SomeNotAsCached(q) ==
    \E p \in DOMAIN push[q].manifest \ DOMAIN push[q].fresh : NotAsCached(q, p)

\* A record that the difference lacks is of a pub that hit the cache: it is mapped again,
\* and found unless the pub maps to something else than its entry says.
LEMMA RecordsAreFound ==
    ASSUME PushInv, NEW q \in Pushes, Attempt(q), push'[q].stage = "failing"
    PROVE  SomeNotAsCached(q)
<1>1. push[q] \in Row /\ MappedWork(q)
  BY RowType DEF PushInv, Types
<1>2. PICK lacking :
        /\ lacking \subseteq DOMAIN push[q].manifest \ DOMAIN push[q].fresh
        /\ \/ push' = [push EXCEPT ![q].stage = "noting", ![q].result = "noop"]
           \/ \E h : push' = [push EXCEPT ![q].stage = "opening", ![q].hydrated = h]
           \/ ~(lacking \subseteq Unaltered(q))
  <2>1. Upserts(push[q].manifest, server[push[q].target].head) \subseteq DOMAIN push[q].manifest
    BY DEF Upserts
  <2> QED
    BY <2>1 DEF Attempt
<1>3. push' # [push EXCEPT ![q].stage = "noting", ![q].result = "noop"]
  BY StageAfter DEF PushInv, Types
<1>4. \A h : push' # [push EXCEPT ![q].stage = "opening", ![q].hydrated = h]
  BY OpeningAfter DEF PushInv, Types
<1>5. PICK p \in DOMAIN push[q].manifest \ DOMAIN push[q].fresh : p \notin Unaltered(q)
  BY <1>2, <1>3, <1>4
<1>6. p \in DOMAIN push[q].inputs /\ p \in DOMAIN push[q].entries
  BY <1>1, <1>5 DEF MappedWork, Hit
<1>7. push[q].inputs[p] # push[q].manifest[p]
  BY <1>5, <1>6 DEF Unaltered, Rehydrated
<1> QED
  BY <1>5, <1>7 DEF SomeNotAsCached, NotAsCached

\* A file that is missing at the server is of a pub that the push has read, and the pub
\* was mapped in this push, or is cached with it: the owner that is mapped again makes the
\* file, unless it is another pub that is no longer mapped to it.
LEMMA FilesAreFound ==
    ASSUME PushInv, NEW q \in Pushes, Live(q), session[q].status # "none", SendsInputs(q),
           NEW f \in MissingFiles(q), NEW o, ~ResolveFileByHash(q, o, f),
           IF Owners(q, f) = {} THEN o = Nobody ELSE o \in Owners(q, f)
    PROVE  SomeNotAsCached(q)
<1>1. PICK p \in DOMAIN session[q].upserts : session[q].upserts[p] = f
  BY DEF MissingFiles, Image
<1>2. p \in DOMAIN push[q].manifest /\ p \in DOMAIN push[q].inputs /\ push[q].inputs[p] = f
  BY <1>1 DEF SendsInputs
<1>3. /\ p \notin DOMAIN push[q].fresh => Hit(q, p) /\ push[q].manifest[p] = push[q].entries[p]
      /\ \A x \in DOMAIN push[q].fresh :
           x \in DOMAIN push[q].inputs /\ push[q].fresh[x] = push[q].inputs[x]
  BY <1>2 DEF PushInv, MappedWork
<1> DEFINE F == {x \in DOMAIN push[q].fresh : push[q].fresh[x] = f}
           E == {x \in DOMAIN push[q].entries : push[q].entries[x] = f}
<1>4. /\ Owners(q, f) = IF F # {} THEN F ELSE E
      /\ \A x : x \in F <=> x \in DOMAIN push[q].fresh /\ push[q].fresh[x] = f
      /\ \A x : x \in E <=> x \in DOMAIN push[q].entries /\ push[q].entries[x] = f
  BY DEF Owners
<1> HIDE DEF F, E
<1>5. F = {}
  <2> SUFFICES ASSUME F # {} PROVE FALSE
    OBVIOUS
  <2>1. o \in F
    BY <1>4
  <2> QED
    BY <1>3, <1>4, <2>1 DEF ResolveFileByHash
<1>6. p \notin DOMAIN push[q].fresh
  BY <1>2, <1>3, <1>4, <1>5
<1>7. CASE push[q].manifest[p] # f
  BY <1>2, <1>6, <1>7 DEF SomeNotAsCached, NotAsCached
<1>8. CASE push[q].manifest[p] = f
  <2>1. p \in E
    BY <1>3, <1>4, <1>6, <1>8 DEF Hit
  <2>2. o \in E
    BY <1>4, <1>5, <2>1
  <2>3. o # p
    BY <1>2 DEF ResolveFileByHash
  <2>4. /\ o \in DOMAIN push[q].entries \ {p} /\ push[q].entries[o] = push[q].manifest[p]
        /\ ~ResolveFileByHash(q, o, push[q].manifest[p])
    BY <1>4, <1>8, <2>2, <2>3
  <2> QED
    BY <1>2, <1>6, <2>4 DEF SomeNotAsCached, NotAsCached
<1> QED
  BY <1>7, <1>8

\* So is the end of a push for want of files.
LEMMA UploadsAreProduced ==
    ASSUME PushInv, NEW q \in Pushes, SendsInputs(q),
           Polls(q, "filesNeeded"), UploadMissingFiles(q), ~Retry(q)
    PROVE  SomeNotAsCached(q)
<1>1. Live(q) /\ session[q].status # "none"
  BY DEF Polls, At, Live
<1>2. PICK owner :
        /\ \A f \in MissingFiles(q) :
             IF Owners(q, f) = {} THEN owner[f] = Nobody ELSE owner[f] \in Owners(q, f)
        /\ LET resolved == {f \in MissingFiles(q) : ResolveFileByHash(q, owner[f], f)} IN
             IF resolved = MissingFiles(q) THEN Retry(q) ELSE Fails(q, "unproducible")
  BY DEF UploadMissingFiles
<1>3. PICK f \in MissingFiles(q) : ~ResolveFileByHash(q, owner[f], f)
  <2>1. {f \in MissingFiles(q) : ResolveFileByHash(q, owner[f], f)} # MissingFiles(q)
    BY <1>2
  <2> QED
    BY <2>1
<1>4. IF Owners(q, f) = {} THEN owner[f] = Nobody ELSE owner[f] \in Owners(q, f)
  BY <1>2
<1>5. PICK o : o = owner[f]
  OBVIOUS
<1> QED
  BY <1>1, <1>3, <1>4, <1>5, FilesAreFound

\* How a push comes to fail for what it cannot produce.
LEMMA OwnResults ==
    ASSUME PushType, NEW q \in Pushes,
           push'[q].result = "unproducible", push'[q].stage = "failing",
           PushToUnderlayTask(q) \/ Step(q) \/ Lands(q) \/ Breaks(q)
    PROVE  \/ push[q].result = "unproducible" /\ push[q].stage = "failing"
           \/ Polls(q, "filesNeeded") /\ UploadMissingFiles(q) /\ ~Retry(q)
           \/ Attempt(q)
<1> DEFINE Goal == \/ push[q].result = "unproducible" /\ push[q].stage = "failing"
                   \/ Polls(q, "filesNeeded") /\ UploadMissingFiles(q) /\ ~Retry(q)
                   \/ Attempt(q)
<1>0. push[q] \in Row
  BY DEF PushType
<1>1. ASSUME NEW s, NEW r, r \in {"none", "committed", "noop", "skipped", "error"} \/ s # "failing",
             push'[q] = [push[q] EXCEPT !.stage = s, !.result = r]
      PROVE  Goal
  BY <1>0, <1>1 DEF Row
<1>2. ASSUME NEW s, s # "failing", push' = [push EXCEPT ![q].stage = s] PROVE Goal
  <2>1. push'[q].stage = s
    BY <1>2, StageAfter
  <2> QED
    BY <1>2, <2>1
<1>3. ASSUME NEW s, NEW r, r \in {"none", "committed", "noop", "skipped", "error"} \/ s # "failing",
             push' = [push EXCEPT ![q].stage = s, ![q].result = r]
      PROVE  Goal
  BY <1>1, <1>3 DEF PushType
<1>4. ASSUME NEW s, NEW r, r \in {"none", "committed", "noop", "skipped", "error"} \/ s # "failing",
             Ends(q, s, r)
      PROVE  Goal
  <2>1. push'[q] = [Idle EXCEPT !.stage = s, !.result = r]
    BY <1>4 DEF Ends, PushType
  <2>2. push'[q].result = r /\ push'[q].stage = s
    BY <2>1 DEF Idle
  <2> QED
    BY <1>4, <2>2
<1>5. ASSUME Fails(q, "error") PROVE Goal
  BY <1>3, <1>5 DEF Fails
<1>6. ASSUME Retry(q) PROVE Goal
  <2>1. \/ push' = [push EXCEPT ![q].stage = "retrying", ![q].attempt = 2]
        \/ push' = [push EXCEPT ![q].stage = "failing", ![q].result = "error"]
    BY <1>6 DEF Retry
  <2>2. CASE push' = [push EXCEPT ![q].stage = "retrying", ![q].attempt = 2]
    <3>1. push'[q] = [push[q] EXCEPT !.stage = "retrying", !.attempt = 2]
      BY <2>2 DEF PushType
    <3> QED
      BY <1>0, <3>1 DEF Row
  <2> QED
    BY <1>3, <2>1, <2>2
<1>7. CASE PushToUnderlayTask(q)
  <2>1. push'[q] = [push[q] EXCEPT !.stage = "begun", !.target = note.target, !.last = note.last,
                                   !.of = note.of]
    BY <1>7 DEF PushToUnderlayTask, PushType
  <2> QED
    BY <1>0, <2>1 DEF Row
<1>8. CASE Hydrate(q) \/ GetPushCacheEntries(q)
  <2>1. \/ push'[q] = [push[q] EXCEPT !.stage = "hydrated", !.inputs = pubs]
        \/ push'[q] = [push[q] EXCEPT !.stage = "mapping", !.entries = cache]
    BY <1>8 DEF Hydrate, GetPushCacheEntries, PushType
  <2> QED
    BY <1>0, <2>1 DEF Row
<1>9. ASSUME NEW p \in Pubs, ReuseEntry(q, p) PROVE Goal
  <2>1. \E m : push'[q] = [push[q] EXCEPT !.manifest = m]
    BY <1>9 DEF ReuseEntry, PushType
  <2> QED
    BY <1>0, <2>1 DEF Row
<1>10. ASSUME NEW p \in Pubs, MapPub(q, p) PROVE Goal
  <2>1. \E m, f, s, i : push'[q] = [push[q] EXCEPT !.manifest = m, !.fresh = f, !.pending = s,
                                                  !.inFlight = i]
    BY <1>10 DEF MapPub, PushType
  <2> QED
    BY <1>0, <2>1 DEF Row
<1>11. ASSUME NEW f \in push[q].inFlight, UploadLands(q, f) \/ UploadFails(q, f) PROVE Goal
  <2>1. \/ \E S : push'[q] = [push[q] EXCEPT !.inFlight = S]
        \/ \E S : push'[q] = [push[q] EXCEPT !.inFlight = S, !.failure = TRUE]
    BY <1>11 DEF UploadLands, UploadFails, PushType
  <2> QED
    BY <1>0, <2>1 DEF Row
<1>12. CASE BuildFails(q) \/ CallFails(q) \/ GiveUp(q) \/ WriteFails(q)
  BY <1>5, <1>12 DEF BuildFails, CallFails, GiveUp, WriteFails
<1>13. CASE Checkpoint(q)
  <2>1. push[q].stage = "mapping"
    BY <1>13 DEF Checkpoint, At
  <2>2. ASSUME NEW s \in {"mapping", "mapped"},
               push' = [push EXCEPT ![q].pending = {}, ![q].stage = s]
        PROVE  Goal
    <3>1. push'[q] = [push[q] EXCEPT !.pending = {}, !.stage = s]
      BY <2>2 DEF PushType
    <3> QED
      BY <1>0, <3>1 DEF Row
  <2>3. PICK s \in {"mapping", "mapped"} : s = IF Todo(q) = {} THEN "mapped" ELSE push[q].stage
    BY <2>1
  <2> QED
    BY <1>5, <1>13, <2>2, <2>3 DEF Checkpoint
<1>14. CASE SkipUnchanged(q) \/ Crash(q)
  BY <1>4, <1>14 DEF SkipUnchanged, Crash
<1>15. CASE ApplyPushCache(q) \/ RecordError(q)
  BY <1>4, <1>5, <1>15 DEF ApplyPushCache, RecordError
<1>16. CASE Attempt(q)
  BY <1>16
<1>17. CASE OpenSession(q)
  BY <1>2, <1>6, <1>17 DEF OpenSession
<1>18. CASE Commit(q) \/ CommitAnswerLost(q) \/ RecordPushResult(q)
  BY <1>2, <1>18 DEF Commit, CommitAnswerLost, RecordPushResult
<1>19. CASE Recommit(q) \/ AwaitAsyncCommit(q)
  BY <1>2, <1>3, <1>5, <1>19 DEF Recommit, AwaitAsyncCommit
<1>20. CASE CommitRefused(q)
  <2>1. \/ Retry(q)
        \/ Polls(q, "filesNeeded") /\ UploadMissingFiles(q)
        \/ push' = [push EXCEPT ![q].stage = "noting", ![q].result = "noop"]
    BY <1>20 DEF CommitRefused
  <2> QED
    BY <1>0, <1>3, <1>6, <2>1
<1>21. CASE Step(q)
  BY <1>8, <1>9, <1>10, <1>12, <1>13, <1>14, <1>15, <1>16, <1>17, <1>18, <1>19, <1>20, <1>21
     DEF Step
<1>22. CASE Lands(q)
  BY <1>11, <1>22 DEF Lands
<1>23. CASE Breaks(q)
  BY <1>11, <1>12, <1>14, <1>18, <1>23 DEF Breaks
<1> QED
  BY <1>7, <1>21, <1>22, <1>23

LEMMA ResultSteps ==
    ASSUME PushType, [Next]_vars, NEW q \in Pushes,
           push'[q].result = "unproducible", push'[q].stage = "failing"
    PROVE  \/ push[q].result = "unproducible" /\ push[q].stage = "failing"
           \/ Polls(q, "filesNeeded") /\ UploadMissingFiles(q) /\ ~Retry(q)
           \/ Attempt(q)
<1>1. CASE Edits \/ Server \/ UNCHANGED vars
  <2>1. push' = push
    BY <1>1 DEF Edits, Edit, EditPub, EditFacet, DeletePub, EditAttribution,
       UpsertUnderlayIntegration, Server, CommitRuns, CommitIsBusy, Publish, CleanUp, vars
  <2> QED
    BY <2>1
<1>2. CASE PushToUnderlayTask(q) \/ Step(q) \/ Lands(q) \/ Breaks(q)
  BY <1>2, OwnResults
<1>3. ASSUME NEW o \in Pushes \ {q}, PushToUnderlayTask(o) \/ Step(o) \/ Lands(o) \/ Breaks(o)
      PROVE  push'[q] = push[q]
  BY <1>3, OthersKeep
<1> QED
  BY <1>1, <1>2, <1>3 DEF Next

\* The inductive invariant.
ProducibleInv ==
    /\ PushInv /\ HitsCanBeProduced
    /\ \A q \in Pushes : SendsInputs(q)

\* Whatever pushes overlap, collections drop and checkpoints, commits and crashes come
\* before: a push that fails for a record or a file that it cannot produce again has read
\* of some pub something else than its entry says, or shares the file with another cached
\* pub that is no longer mapped to it.  No other hit of the cache ends a push.
THEOREM FilesCanBeProduced == Spec => []HitsCanBeProduced
<1>1. Init => ProducibleInv
  <2> SUFFICES ASSUME Init PROVE ProducibleInv
    OBVIOUS
  <2>1. \A q \in Pushes : push[q] = Idle /\ session[q] = NoSession
    BY DEF Init
  <2>2. HitsCanBeProduced /\ \A q \in Pushes : SendsInputs(q)
    BY <2>1 DEF Idle, NoSession, SendsInputs, HitsCanBeProduced, At
  <2> QED
    BY <2>2, InitPushInv DEF ProducibleInv
<1>2. ProducibleInv /\ [Next]_vars => ProducibleInv'
  <2> SUFFICES ASSUME ProducibleInv, [Next]_vars PROVE ProducibleInv'
    OBVIOUS
  <2>1. PushInv' /\ \A q \in Pushes : SendsInputs(q)'
    BY NextPushInv, SendsInputsKept DEF ProducibleInv
  <2>2. ASSUME NEW q \in Pushes, push'[q].result = "unproducible", push'[q].stage = "failing"
        PROVE  SomeNotAsCached(q)'
    <3>1. KeepsWork(q)
      BY <2>2, PushSteps, FailingKeeps DEF ProducibleInv, PushInv, Types
    <3>2. SomeNotAsCached(q)
      <4>1. CASE push[q].result = "unproducible" /\ push[q].stage = "failing"
        BY <4>1 DEF ProducibleInv, HitsCanBeProduced, SomeNotAsCached, At
      <4>2. CASE Polls(q, "filesNeeded") /\ UploadMissingFiles(q) /\ ~Retry(q)
        BY <4>2, UploadsAreProduced DEF ProducibleInv
      <4>3. CASE Attempt(q)
        BY <2>2, <4>3, RecordsAreFound DEF ProducibleInv
      <4> QED
        BY <2>2, <4>1, <4>2, <4>3, ResultSteps DEF ProducibleInv, PushInv, Types
    <3> QED
      BY <3>1, <3>2 DEF KeepsWork, SomeNotAsCached, NotAsCached, ResolveFileByHash
  <2>3. HitsCanBeProduced'
    BY <2>2 DEF HitsCanBeProduced, SomeNotAsCached, At
  <2> QED
    BY <2>1, <2>3 DEF ProducibleInv
<1>3. ProducibleInv => HitsCanBeProduced
  BY DEF ProducibleInv
<1> QED
  BY <1>1, <1>2, <1>3, PTL DEF Spec
----------------------------------------------------------------------------
(* What a push reports is true. *)

\* But for what has no signature, no content of n is older than that of m, and no pub of
\* n is missing in m: pubs are edited and deleted, but neither set back nor created.
Below(m, n) ==
    /\ DOMAIN n \subseteq DOMAIN m
    /\ \A p \in DOMAIN n : m[p].row <= n[p].row /\ m[p].facet <= n[p].facet

\* They are the same but for what has no signature.
Same(m, n) == Signed(m) = Signed(n)

\* No facet is set back to what it was.
NeverSetBack == \A p \in DOMAIN pubs \cap DOMAIN pubs' : pubs[p].facet <= pubs'[p].facet

LEMMA ContentIsOrdered ==
    ASSUME NEW c \in Content
    PROVE  c.row \in Nat /\ c.facet \in Nat
  BY PubsAreCounted, BoundsAssumption DEF Content

LEMMA SameIsHit ==
    ASSUME NEW m \in Manifests, NEW n \in Manifests, Same(m, n)
    PROVE  DOMAIN m = DOMAIN n /\ \A p \in DOMAIN m : IsCacheHit(m[p], n[p])
<1>1. PICK s, z : s = Signed(m) /\ z = Signed(n) /\ s = z
  BY DEF Same
<1>2. /\ DOMAIN s = DOMAIN m /\ \A p \in DOMAIN m : s[p] = [m[p] EXCEPT !.side = 0]
      /\ DOMAIN z = DOMAIN n /\ \A p \in DOMAIN n : z[p] = [n[p] EXCEPT !.side = 0]
  BY <1>1 DEF Signed
<1>3. DOMAIN m = DOMAIN n
  BY <1>1, <1>2
<1>4. ASSUME NEW p \in DOMAIN m PROVE IsCacheHit(m[p], n[p])
  <2>1. PICK c \in Content, d \in Content : c = m[p] /\ d = n[p]
    BY <1>3, ManifestElim
  <2>2. [c EXCEPT !.side = 0] = [d EXCEPT !.side = 0]
    BY <1>1, <1>2, <1>3, <2>1
  <2>3. /\ [c EXCEPT !.side = 0].row = c.row /\ [d EXCEPT !.side = 0].row = d.row
        /\ [c EXCEPT !.side = 0].facet = c.facet /\ [d EXCEPT !.side = 0].facet = d.facet
    BY DEF Content
  <2> QED
    BY <2>1, <2>2, <2>3 DEF IsCacheHit
<1> QED
  BY <1>3, <1>4

LEMMA SameBelow ==
    ASSUME NEW m \in Manifests, NEW n \in Manifests, Same(m, n)
    PROVE  Below(m, n) /\ Below(n, m)
<1>1. /\ DOMAIN m = DOMAIN n
      /\ \A p \in DOMAIN m : m[p].row = n[p].row /\ m[p].facet = n[p].facet
  BY SameIsHit DEF IsCacheHit
<1>2. \A p \in DOMAIN m : m[p].row \in Nat /\ m[p].facet \in Nat
  BY ManifestElim, ContentIsOrdered
<1>3. ASSUME NEW p \in DOMAIN m
      PROVE  /\ m[p].row <= n[p].row /\ m[p].facet <= n[p].facet
             /\ n[p].row <= m[p].row /\ n[p].facet <= m[p].facet
  BY <1>1, <1>2
<1> QED
  BY <1>1, <1>3 DEF Below

LEMMA BelowBelow ==
    ASSUME NEW m \in Manifests, NEW n \in Manifests, NEW o \in Manifests,
           Below(m, n), Below(n, o)
    PROVE  Below(m, o)
<1>1. /\ \A p \in DOMAIN m : m[p].row \in Nat /\ m[p].facet \in Nat
      /\ \A p \in DOMAIN n : n[p].row \in Nat /\ n[p].facet \in Nat
      /\ \A p \in DOMAIN o : o[p].row \in Nat /\ o[p].facet \in Nat
  BY ManifestElim, ContentIsOrdered
<1>2. DOMAIN o \subseteq DOMAIN n /\ DOMAIN n \subseteq DOMAIN m
  BY DEF Below
<1>3. ASSUME NEW p \in DOMAIN o
      PROVE  m[p].row <= o[p].row /\ m[p].facet <= o[p].facet
  <2>1. p \in DOMAIN n /\ p \in DOMAIN m
    BY <1>2
  <2>2. /\ m[p].row <= n[p].row /\ m[p].facet <= n[p].facet
        /\ n[p].row <= o[p].row /\ n[p].facet <= o[p].facet
    BY <2>1 DEF Below
  <2> QED
    BY <1>1, <2>1, <2>2
<1> QED
  BY <1>2, <1>3 DEF Below

LEMMA BelowEachOther ==
    ASSUME NEW m \in Manifests, NEW n \in Manifests, Below(m, n), Below(n, m)
    PROVE  Same(m, n)
<1>1. DOMAIN m = DOMAIN n
  BY DEF Below
<1>2. ASSUME NEW p \in DOMAIN m PROVE IsCacheHit(m[p], n[p])
  <2>1. m[p] \in Content /\ n[p] \in Content
    BY <1>1, ManifestElim
  <2>2. /\ m[p].row <= n[p].row /\ m[p].facet <= n[p].facet
        /\ n[p].row <= m[p].row /\ n[p].facet <= m[p].facet
    BY <1>1 DEF Below
  <2>3. m[p].row \in Nat /\ n[p].row \in Nat /\ m[p].facet \in Nat /\ n[p].facet \in Nat
    BY <2>1, ContentIsOrdered
  <2>4. m[p].row = n[p].row /\ m[p].facet = n[p].facet
    BY <2>2, <2>3
  <2> QED
    BY <2>4 DEF IsCacheHit
<1> QED
  BY <1>1, <1>2, SignedEqual DEF Same

\* The number that the next row gets.
NextRow == Cardinality(Pubs) + spent.edits

\* Edits are counted.
LEMMA EditsAreCounted ==
    ASSUME Types, [Next]_vars
    PROVE  /\ spent.edits \in Nat /\ spent'.edits \in Nat
           /\ \/ spent'.edits = spent.edits /\ ~\E p \in Pubs : EditPub(p)
              \/ spent'.edits = spent.edits + 1
<1>0. spent.edits \in Nat /\ spent \in [edits : 0..MaxEdits, unsigned : 0..MaxUnsigned,
                                        faults : 0..MaxFaults,
                                        harm : SUBSET {"undone", "overlapped"}]
  BY BoundsAssumption DEF Types, SpentType
<1>1. ASSUME NEW p \in Pubs, EditAttribution(p) PROVE spent'.edits = spent.edits
  BY <1>0, <1>1 DEF EditAttribution
<1>2. ASSUME NEW kind, Fault(kind) PROVE spent'.edits = spent.edits
  BY <1>0, <1>2 DEF Fault
<1>3. ASSUME NEW h, Edit(h) PROVE spent'.edits = spent.edits + 1
  BY <1>0, <1>3 DEF Edit
<1>4. ASSUME Edits PROVE spent'.edits = spent.edits + 1 \/ spent'.edits = spent.edits
  BY <1>1, <1>3, <1>4 DEF Edits, EditPub, EditFacet, DeletePub, UpsertUnderlayIntegration
<1>5. ASSUME Server PROVE spent' = spent \/ \E kind : Fault(kind)
  BY <1>5 DEF Server, CommitRuns, CommitIsBusy, Publish, CleanUp
<1>6. ASSUME NEW q \in Pushes, PushToUnderlayTask(q) \/ Step(q) \/ Lands(q)
      PROVE  spent'.edits = spent.edits
  <2>1. CASE PushToUnderlayTask(q)
    <3>1. PICK h : spent' = [spent EXCEPT !.harm = h]
      BY <2>1 DEF PushToUnderlayTask
    <3> QED
      BY <1>0, <3>1
  <2>2. CASE Step(q) \/ Lands(q)
    <3>1. spent' = spent
      BY <2>2 DEF Lands, UploadLands, Step, Hydrate, GetPushCacheEntries, ReuseEntry, MapPub,
         BuildFails, Checkpoint, SkipUnchanged, Attempt, OpenSession, Commit, Recommit,
         AwaitAsyncCommit, CommitRefused, RecordPushResult, ApplyPushCache, RecordError
    <3> QED
      BY <3>1
  <2> QED
    BY <1>6, <2>1, <2>2
<1>7. ASSUME NEW q \in Pushes, Breaks(q) PROVE \E kind : Fault(kind)
  BY <1>7 DEF Breaks, UploadFails, CommitAnswerLost, CallFails, GiveUp, WriteFails, Crash
<1>8. ASSUME UNCHANGED vars PROVE spent' = spent
  BY <1>8 DEF vars
<1>9. spent'.edits = spent.edits + 1 \/ spent'.edits = spent.edits
  BY <1>2, <1>4, <1>5, <1>6, <1>7, <1>8 DEF Next
<1>10. (\E p \in Pubs : EditPub(p)) => spent'.edits = spent.edits + 1
  BY <1>3 DEF EditPub
<1> QED
  BY <1>0, <1>9, <1>10

\* A pub gets a row by an edit alone.
LEMMA PubsSteps ==
    ASSUME Types, [Next]_vars, NEW p \in DOMAIN pubs'
    PROVE  /\ p \in DOMAIN pubs
           /\ \/ pubs'[p].row = pubs[p].row
              \/ EditPub(p) /\ pubs'[p].row = NextRow
<1>0. pubs \in Manifests /\ \A o \in DOMAIN pubs : pubs[o] \in Content
  BY ManifestElim DEF Types, PubsType
<1> DEFINE Goal == /\ p \in DOMAIN pubs
                   /\ \/ pubs'[p].row = pubs[p].row
                      \/ EditPub(p) /\ pubs'[p].row = NextRow
<1>1. ASSUME UNCHANGED pubs PROVE Goal
  BY <1>1
<1>2. ASSUME NEW o \in Pubs, EditPub(o) PROVE Goal
  <2>1. pubs' = [pubs EXCEPT ![o].row = NextRow] /\ o \in DOMAIN pubs
    BY <1>2 DEF EditPub, NextRow
  <2>2. p \in DOMAIN pubs
    BY <2>1
  <2>3. CASE p = o
    <3>1. pubs'[p] = [pubs[p] EXCEPT !.row = NextRow]
      BY <2>1, <2>3
    <3>2. pubs'[p].row = NextRow
      BY <1>0, <2>2, <3>1 DEF Content
    <3> QED
      BY <1>2, <2>2, <2>3, <3>2
  <2>4. CASE p # o
    BY <2>1, <2>2, <2>4
  <2> QED
    BY <2>3, <2>4
<1>3. ASSUME NEW o \in Pubs, EditFacet(o) PROVE Goal
  <2>1. pubs' = [pubs EXCEPT ![o].facet = 1 - @] /\ o \in DOMAIN pubs
    BY <1>3 DEF EditFacet
  <2>2. p \in DOMAIN pubs
    BY <2>1
  <2>3. pubs'[p] = pubs[p] \/ pubs'[p] = [pubs[p] EXCEPT !.facet = 1 - pubs[p].facet]
    BY <2>1, <2>2
  <2>4. pubs'[p].row = pubs[p].row
    BY <1>0, <2>2, <2>3 DEF Content
  <2> QED
    BY <2>2, <2>4
<1>4. ASSUME NEW o \in Pubs, EditAttribution(o) PROVE Goal
  <2>1. pubs' = [pubs EXCEPT ![o].side = @ + 1] /\ o \in DOMAIN pubs
    BY <1>4 DEF EditAttribution
  <2>2. p \in DOMAIN pubs
    BY <2>1
  <2>3. pubs'[p] = pubs[p] \/ pubs'[p] = [pubs[p] EXCEPT !.side = pubs[p].side + 1]
    BY <2>1, <2>2
  <2>4. pubs'[p].row = pubs[p].row
    BY <1>0, <2>2, <2>3 DEF Content
  <2> QED
    BY <2>2, <2>4
<1>5. ASSUME NEW o \in Pubs, DeletePub(o) PROVE Goal
  BY <1>5 DEF DeletePub, Only
<1> HIDE DEF Goal
<1>6. ASSUME Edits PROVE Goal
  <2>1. ASSUME NEW t \in Targets, UpsertUnderlayIntegration(t) PROVE UNCHANGED pubs
    BY <2>1 DEF UpsertUnderlayIntegration
  <2> QED
    BY <1>1, <1>2, <1>3, <1>4, <1>5, <1>6, <2>1 DEF Edits
<1>7. ASSUME Server \/ UNCHANGED vars PROVE UNCHANGED pubs
  BY <1>7 DEF Server, CommitRuns, CommitIsBusy, Publish, CleanUp, vars
<1>8. ASSUME NEW q \in Pushes, PushToUnderlayTask(q) \/ Step(q) \/ Lands(q) PROVE UNCHANGED pubs
  BY <1>8 DEF PushToUnderlayTask, Lands, UploadLands, Step, Hydrate, GetPushCacheEntries,
     ReuseEntry, MapPub, BuildFails, Checkpoint, SkipUnchanged, Attempt, OpenSession, Commit,
     Recommit, AwaitAsyncCommit, CommitRefused, RecordPushResult, ApplyPushCache, RecordError
<1>9. ASSUME NEW q \in Pushes, Breaks(q) PROVE UNCHANGED pubs
  BY <1>9 DEF Breaks, UploadFails, CommitAnswerLost, CallFails, GiveUp, WriteFails, Crash
<1>10. Goal
  BY <1>1, <1>6, <1>7, <1>8, <1>9 DEF Next
<1> QED
  BY <1>10 DEF Goal

\* While nothing is undone and no pushes overlap.
Calmly ==
    /\ spent.harm = {} /\ NeverSetBack
    /\ \A q \in Pushes : PushToUnderlayTask(q) => \A o \in Pushes : ~Live(o)

\* A harm is not forgotten, and a step without one sets no facet back and begins no push
\* beside another.
LEMMA HarmStays ==
    ASSUME Types, [Next]_vars, spent'.harm = {}
    PROVE  Calmly
<1>0. /\ spent \in [edits : 0..MaxEdits, unsigned : 0..MaxUnsigned, faults : 0..MaxFaults,
                    harm : SUBSET {"undone", "overlapped"}]
      /\ pubs \in Manifests /\ \A o \in DOMAIN pubs : pubs[o] \in Content
      /\ \A o \in DOMAIN pubs : pubs[o].facet \in Nat
  BY ManifestElim, ContentIsOrdered DEF Types, SpentType, PubsType
<1>1. ASSUME NEW h, Edit(h) PROVE spent.harm = {} /\ h = {}
  <2>1. spent'.harm = spent.harm \cup h
    <3>1. spent' = [spent EXCEPT !.edits = spent.edits + 1, !.harm = spent.harm \cup h]
      BY <1>1 DEF Edit
    <3> QED
      BY <1>0, <3>1
  <2> QED
    BY <2>1
<1>2. ASSUME UNCHANGED pubs PROVE NeverSetBack
  BY <1>0, <1>2 DEF NeverSetBack
<1>3. ASSUME NEW p \in Pubs, EditPub(p) \/ EditAttribution(p) PROVE NeverSetBack
  <2>1. \E r : pubs' = [pubs EXCEPT ![p].row = r] \/ pubs' = [pubs EXCEPT ![p].side = r]
    BY <1>3 DEF EditPub, EditAttribution
  <2>2. PICK r : pubs' = [pubs EXCEPT ![p].row = r] \/ pubs' = [pubs EXCEPT ![p].side = r]
    BY <2>1
  <2>3. ASSUME NEW o \in DOMAIN pubs PROVE pubs'[o].facet = pubs[o].facet
    <3>1. \/ pubs'[o] = pubs[o] \/ pubs'[o] = [pubs[o] EXCEPT !.row = r]
          \/ pubs'[o] = [pubs[o] EXCEPT !.side = r]
      BY <2>2
    <3> QED
      BY <1>0, <3>1 DEF Content
  <2> QED
    BY <1>0, <2>3 DEF NeverSetBack
<1>4. ASSUME NEW p \in Pubs, DeletePub(p) PROVE NeverSetBack
  BY <1>0, <1>4 DEF DeletePub, Only, NeverSetBack
<1>5. ASSUME NEW p \in Pubs, EditFacet(p) PROVE NeverSetBack /\ spent.harm = {}
  <2>1. p \in DOMAIN pubs /\ pubs' = [pubs EXCEPT ![p].facet = 1 - @]
    BY <1>5 DEF EditFacet
  <2>2. pubs[p].facet # 1 /\ spent.harm = {}
    <3>1. Edit(IF pubs[p].facet = 1 THEN {"undone"} ELSE {})
      BY <1>5 DEF EditFacet
    <3> QED
      BY <1>1, <3>1
  <2>3. pubs[p].facet = 0
    BY <1>0, <2>1, <2>2 DEF Content
  <2>4. ASSUME NEW o \in DOMAIN pubs PROVE pubs[o].facet <= pubs'[o].facet
    <3>1. CASE o = p
      <4>1. pubs'[o] = [pubs[o] EXCEPT !.facet = 1 - pubs[o].facet]
        BY <2>1, <3>1
      <4>2. pubs'[o].facet = 1 - pubs[o].facet
        BY <1>0, <4>1 DEF Content
      <4> QED
        BY <2>3, <3>1, <4>2
    <3>2. CASE o # p
      BY <1>0, <2>1, <3>2
    <3> QED
      BY <3>1, <3>2
  <2> QED
    BY <2>2, <2>4 DEF NeverSetBack
<1>6. ASSUME NEW kind, Fault(kind) PROVE spent.harm = {}
  BY <1>0, <1>6 DEF Fault
<1>7. CASE Edits
  <2>1. NeverSetBack
    <3>1. ASSUME NEW t \in Targets, UpsertUnderlayIntegration(t) PROVE UNCHANGED pubs
      BY <3>1 DEF UpsertUnderlayIntegration
    <3> QED
      BY <1>2, <1>3, <1>4, <1>5, <1>7, <3>1 DEF Edits
  <2>2. spent.harm = {}
    <3>1. ASSUME NEW p \in Pubs, EditAttribution(p) PROVE spent.harm = {}
      BY <1>0, <3>1 DEF EditAttribution
    <3> QED
      BY <1>1, <1>5, <1>7, <3>1 DEF Edits, EditPub, DeletePub, UpsertUnderlayIntegration
  <2>3. ASSUME NEW q \in Pushes, PushToUnderlayTask(q) PROVE FALSE
    <3>1. push'[q].stage = "begun" /\ push[q].stage = "idle"
      BY <2>3, Begins DEF Types
    <3>2. push' = push
      BY <1>7 DEF Edits, Edit, EditPub, EditFacet, DeletePub, EditAttribution,
         UpsertUnderlayIntegration
    <3> QED
      BY <3>1, <3>2
  <2> QED
    BY <2>1, <2>2, <2>3 DEF Calmly
<1>8. ASSUME NEW q \in Pushes, PushToUnderlayTask(q)
      PROVE  UNCHANGED pubs /\ spent.harm = {} /\ \A o \in Pushes : ~Live(o)
  <2>1. PICK alone \in BOOLEAN :
          /\ alone <=> \A o \in Pushes : ~Live(o)
          /\ spent' = [spent EXCEPT !.harm = spent.harm \cup (IF alone THEN {} ELSE {"overlapped"})]
    BY <1>8 DEF PushToUnderlayTask
  <2>2. spent'.harm = spent.harm \cup (IF alone THEN {} ELSE {"overlapped"})
    BY <1>0, <2>1
  <2> QED
    BY <1>8, <2>1, <2>2 DEF PushToUnderlayTask
<1>9. ASSUME \/ Server \/ UNCHANGED vars
             \/ \E q \in Pushes : Step(q) \/ Lands(q) \/ Breaks(q)
      PROVE  UNCHANGED pubs /\ spent.harm = {}
  <2>1. ASSUME spent' = spent PROVE spent.harm = {}
    BY <2>1
  <2>2. ASSUME Server PROVE UNCHANGED pubs /\ (spent' = spent \/ \E kind : Fault(kind))
    BY <2>2 DEF Server, CommitRuns, CommitIsBusy, Publish, CleanUp
  <2>3. ASSUME UNCHANGED vars PROVE UNCHANGED pubs /\ spent' = spent
    BY <2>3 DEF vars
  <2>4. ASSUME NEW q \in Pushes, Step(q) \/ Lands(q) PROVE UNCHANGED pubs /\ spent' = spent
    BY <2>4 DEF Lands, UploadLands, Step, Hydrate, GetPushCacheEntries, ReuseEntry, MapPub,
       BuildFails, Checkpoint, SkipUnchanged, Attempt, OpenSession, Commit, Recommit,
       AwaitAsyncCommit, CommitRefused, RecordPushResult, ApplyPushCache, RecordError
  <2>5. ASSUME NEW q \in Pushes, Breaks(q) PROVE UNCHANGED pubs /\ \E kind : Fault(kind)
    BY <2>5 DEF Breaks, UploadFails, CommitAnswerLost, CallFails, GiveUp, WriteFails, Crash
  <2> QED
    BY <1>6, <1>9, <2>1, <2>2, <2>3, <2>4, <2>5
<1>10. spent.harm = {} /\ NeverSetBack
  BY <1>2, <1>7, <1>8, <1>9 DEF Next, Calmly
<1> QED
  BY <1>8, <1>10 DEF Calmly

\* The pubs have rows that were numbered before.
PubsRows == \A p \in DOMAIN pubs : pubs[p].row < NextRow

LEMMA PubsGrow ==
    ASSUME PushInv, PubsRows, [Next]_vars, NeverSetBack
    PROVE  Below(pubs, pubs') /\ PubsRows'
<1>1. Types'
  BY NextPushInv DEF PushInv
<1>4. /\ \A p \in DOMAIN pubs : pubs[p].row \in Nat
      /\ \A p \in DOMAIN pubs' : pubs'[p].row \in Nat
  BY <1>1, ManifestElim, ContentIsOrdered DEF PushInv, Types, PubsType
<1>5. NextRow \in Nat /\ NextRow' \in Nat /\ NextRow <= NextRow'
      /\ ((\E p \in Pubs : EditPub(p)) => NextRow < NextRow')
  <2>1. /\ spent.edits \in Nat /\ spent'.edits \in Nat
        /\ \/ spent'.edits = spent.edits /\ ~\E p \in Pubs : EditPub(p)
           \/ spent'.edits = spent.edits + 1
    BY EditsAreCounted DEF PushInv
  <2> QED
    BY <2>1, PubsAreCounted DEF NextRow
<1>6. ASSUME NEW p \in DOMAIN pubs'
      PROVE  /\ p \in DOMAIN pubs /\ pubs[p].row <= pubs'[p].row /\ pubs'[p].row < NextRow'
             /\ pubs[p].facet <= pubs'[p].facet
  <2>1. /\ p \in DOMAIN pubs
        /\ \/ pubs'[p].row = pubs[p].row
           \/ EditPub(p) /\ pubs'[p].row = NextRow
    BY PubsSteps DEF PushInv
  <2>2. pubs[p].row < NextRow /\ p \in Pubs
    BY <1>1, <2>1, ManifestElim DEF PubsRows, Types, PubsType
  <2>3. pubs[p].facet <= pubs'[p].facet
    BY <2>1 DEF NeverSetBack
  <2>4. PICK r \in Nat, s \in Nat, n \in Nat, m \in Nat :
          r = pubs[p].row /\ s = pubs'[p].row /\ n = NextRow /\ m = NextRow'
    BY <1>4, <1>5, <2>1
  <2>5. r <= s /\ s < m
    BY <1>5, <2>1, <2>2, <2>4
  <2> QED
    BY <1>4, <2>1, <2>3, <2>4, <2>5
<1> QED
  BY <1>6 DEF Below, PubsRows

\* What a push has mapped is what it has read, all of it once the pool is drained.
WorkDone(q) == push[q].stage \in PastDrain => Same(push[q].manifest, push[q].inputs)

LEMMA WorkDoneKept ==
    ASSUME PushInv, [Next]_vars, NEW q \in Pushes, WorkDone(q)
    PROVE  WorkDone(q)'
<1>0. PushStep(q) /\ PushType /\ MappedWork(q)
  BY PushSteps DEF PushInv, Types
<1>1. ASSUME KeepsWork(q), push'[q].stage \in PastDrain => push[q].stage \in PastDrain
      PROVE  WorkDone(q)'
  <2>1. push'[q].manifest = push[q].manifest /\ push'[q].inputs = push[q].inputs
    BY <1>1 DEF KeepsWork
  <2> QED
    BY <1>1, <2>1 DEF WorkDone, Same, Signed
<1>2. CASE push'[q] = push[q]
  BY <1>2 DEF WorkDone, Same, Signed
<1>3. ASSUME push'[q].stage \notin PastDrain PROVE WorkDone(q)'
  BY <1>3 DEF WorkDone
<1>4. CASE PushToUnderlayTask(q) \/ Hydrate(q) \/ GetPushCacheEntries(q)
  <2>1. push'[q].stage \in {"begun", "hydrated", "mapping"}
    BY <1>0, <1>4, Begins, ReadSteps
  <2> QED
    BY <1>3, <2>1 DEF PastDrain
<1>5. CASE \E p \in Pubs : ReuseEntry(q, p) \/ MapPub(q, p)
  <2>1. push'[q].stage = "mapping"
    BY <1>0, <1>5, ReusedEntry, MappedPub
  <2> QED
    BY <1>3, <2>1 DEF PastDrain
<1>6. CASE \E f \in push[q].inFlight : UploadLands(q, f) \/ UploadFails(q, f)
  BY <1>0, <1>1, <1>6, UploadSteps
<1>7. CASE Attempted(q)
  BY <1>1, <1>7 DEF Attempted
<1>8. CASE MovesOn(q)
  <2>1. CASE push[q].stage = "mapping" /\ push'[q].stage = "mapped"
    <3>1. KeepsWork(q) /\ Todo(q) = {}
      BY <1>8, <2>1 DEF MovesOn, PastDrain
    <3>2. PICK i \in Manifests, m \in Manifests : i = push[q].inputs /\ m = push[q].manifest
      BY <1>0, RowType
    <3>3. DOMAIN i = DOMAIN m /\ \A p \in DOMAIN i : IsCacheHit(i[p], m[p])
      BY <1>0, <3>1, <3>2 DEF Todo, MappedWork
    <3>4. Signed(i) = Signed(m)
      BY <3>3, SignedEqual
    <3>5. push'[q].inputs = i /\ push'[q].manifest = m
      BY <3>1, <3>2 DEF KeepsWork
    <3> QED
      BY <3>4, <3>5 DEF WorkDone, Same
  <2>2. CASE ~(push[q].stage = "mapping" /\ push'[q].stage = "mapped")
    BY <1>1, <1>8, <2>2 DEF MovesOn, PastDrain
  <2> QED
    BY <2>1, <2>2
<1>9. CASE Ended(q)
  BY <1>3, <1>9 DEF Ended, PastDrain
<1> QED
  BY <1>0, <1>2, <1>4, <1>5, <1>6, <1>7, <1>8, <1>9 DEF PushStep

\* A push that has read the pubs; one push at a time.
HasRead(q) == Live(q) /\ push[q].stage \notin {"begun", "failing"}
OneLive == \A q, o \in Pushes : Live(q) /\ Live(o) => q = o

LEMMA LiveSteps ==
    ASSUME PushInv, [Next]_vars, NEW q \in Pushes, Live(q)'
    PROVE  /\ Live(q) \/ PushToUnderlayTask(q)
           /\ HasRead(q)' =>
                /\ push'[q].target = push[q].target
                /\ \/ HasRead(q) /\ push'[q].inputs = push[q].inputs
                   \/ Hydrate(q) /\ push'[q].inputs = pubs
<1>0. PushStep(q) /\ PushType
  BY PushSteps DEF PushInv, Types
<1>1. CASE push'[q] = push[q]
  BY <1>1 DEF Live, HasRead
<1>2. CASE PushToUnderlayTask(q)
  BY <1>0, <1>2, Begins DEF HasRead
<1>3. CASE Hydrate(q)
  <2>1. push'[q] = [push[q] EXCEPT !.stage = "hydrated", !.inputs = pubs] /\ push[q].stage = "begun"
    BY <1>0, <1>3 DEF Hydrate, PushType, At
  <2>2. push'[q].inputs = pubs /\ push'[q].target = push[q].target
    BY <1>0, <2>1, RowType DEF Row
  <2> QED
    BY <1>3, <2>1, <2>2 DEF Live
<1>4. CASE GetPushCacheEntries(q)
  <2>1. push'[q] = [push[q] EXCEPT !.stage = "mapping", !.entries = cache]
        /\ push[q].stage = "hydrated"
    BY <1>0, <1>4 DEF GetPushCacheEntries, PushType, At
  <2>2. push'[q].inputs = push[q].inputs /\ push'[q].target = push[q].target
    BY <1>0, <2>1, RowType DEF Row
  <2> QED
    BY <2>1, <2>2 DEF Live, HasRead
<1>5. CASE \E p \in Pubs : ReuseEntry(q, p) \/ MapPub(q, p)
  BY <1>0, <1>5, ReusedEntry, MappedPub DEF Live, HasRead
<1>6. CASE \E f \in push[q].inFlight : UploadLands(q, f) \/ UploadFails(q, f)
  BY <1>0, <1>6, UploadSteps DEF KeepsWork, Live, HasRead
<1>7. CASE Attempted(q)
  BY <1>7 DEF Attempted, KeepsWork, PastDrain, Live, HasRead
<1>8. CASE MovesOn(q)
  <2>1. push'[q].inputs = push[q].inputs /\ push'[q].target = push[q].target /\ Live(q)
    BY <1>8 DEF MovesOn, KeepsWork
  <2>2. \/ push'[q].stage = "failing" \/ push[q].stage = "mapping"
        \/ push[q].stage \in PastDrain
    BY <1>8 DEF MovesOn
  <2> QED
    BY <2>1, <2>2 DEF HasRead, Live, PastDrain
<1>9. CASE Ended(q)
  BY <1>9 DEF Ended, Live
<1> QED
  BY <1>0, <1>1, <1>2, <1>3, <1>4, <1>5, <1>6, <1>7, <1>8, <1>9 DEF PushStep

\* The head of the collection, once there is one, is older than what a push has read,
\* and what has been read than what there is.
InputsPrecede(q) == HasRead(q) => Below(push[q].inputs, pubs)
HeadPrecedes(t) ==
    server[t].version > 0 =>
        /\ Below(server[t].head, pubs)
        /\ \A q \in Pushes : HasRead(q) => Below(server[t].head, push[q].inputs)

\* The collection holds a manifest, or newer content of its pubs.
Reached(t, m) == server[t].version > 0 /\ Below(m, server[t].head)

\* So for every manifest that is or was recorded of a push to it, and for what a push that
\* is about to be recorded has read.
NotesPrecede(t) ==
    /\ note.of = t => \A m \in note.last : Reached(t, m)
    /\ \A q \in Pushes : push[q].of = t => \A m \in push[q].last : Reached(t, m)
Ready(q) ==
    \/ push[q].stage \in {"noting", "applying"}
    \/ session[q].status \in {"committed", "unchanged"}
HasReached(t, q) ==
    HasRead(q) /\ Ready(q) /\ push[q].target = t => Reached(t, push[q].inputs)

\* A session that can still become a version comes after the head, and before whatever
\* is read; of a push that waits for it, it makes what that push has read.
SessionInOrder(t, q) ==
    session[q].status \in {"planned", "open", "committing"} /\ session[q].target = t =>
        /\ session[q].base <= server[t].version
        /\ session[q].base = server[t].version =>
             /\ Below(Applied(q), pubs)
             /\ server[t].version > 0 => Below(server[t].head, Applied(q))
             /\ \A o \in Pushes : HasRead(o) => Below(Applied(q), push[o].inputs)
             /\ HasRead(q) => Same(Applied(q), push[q].inputs)

\* What makes a version.
LEMMA VersionSteps ==
    ASSUME Types, [Next]_vars, NEW t \in Targets, server'[t].version # server[t].version
    PROVE  Publish(t) \/ \E q \in Pushes : CommitRuns(q) /\ session[q].target = t
<1>0. server[t] \in Collection /\ server \in [Targets -> Collection]
  BY DEF Types, ServerType
<1>1. ASSUME NEW u, NEW S, server' = [server EXCEPT ![u].held = S] PROVE FALSE
  <2>1. server'[t] = server[t] \/ server'[t] = [server[t] EXCEPT !.held = S]
    BY <1>0, <1>1
  <2> QED
    BY <1>0, <2>1 DEF Collection
<1>2. ASSUME NEW u, u # t, NEW h, NEW k,
             \/ server' = [server EXCEPT ![u].version = @ + 1]
             \/ server' = [server EXCEPT ![u].version = @ + 1, ![u].head = h, ![u].kept = k]
      PROVE  FALSE
  BY <1>0, <1>2
<1>3. server' # server
  OBVIOUS
<1>4. ASSUME NEW q \in Pushes PROVE ~Lands(q) /\ ~CommitRefused(q) /\ ~CallFails(q)
  <2>1. ASSUME Lands(q) PROVE \E u, S : server' = [server EXCEPT ![u].held = S]
    BY <2>1 DEF Lands, UploadLands
  <2>2. ASSUME CommitRefused(q)
        PROVE  UNCHANGED server \/ \E u, S : server' = [server EXCEPT ![u].held = S]
    BY <2>2 DEF CommitRefused, UploadMissingFiles
  <2>3. ASSUME CallFails(q)
        PROVE  UNCHANGED server \/ \E u, S : server' = [server EXCEPT ![u].held = S]
    BY <2>3 DEF CallFails
  <2> QED
    BY <1>1, <1>3, <2>1, <2>2, <2>3
<1>5. ASSUME NEW q \in Pushes PROVE ~PushToUnderlayTask(q) /\ ~Breaks(q) /\ ~Step(q)
  BY <1>3, <1>4 DEF PushToUnderlayTask, Breaks, UploadFails, CommitAnswerLost, GiveUp,
     WriteFails, Crash, Step, Hydrate, GetPushCacheEntries, ReuseEntry, MapPub, BuildFails,
     Checkpoint, SkipUnchanged, Attempt, OpenSession, Commit, Recommit, AwaitAsyncCommit,
     RecordPushResult, ApplyPushCache, RecordError
<1>6. ~Edits /\ ~UNCHANGED vars
  BY <1>3 DEF Edits, Edit, EditPub, EditFacet, DeletePub, EditAttribution,
     UpsertUnderlayIntegration, vars
<1>7. Server
  BY <1>4, <1>5, <1>6 DEF Next
<1>8. ASSUME NEW q \in Pushes, CommitRuns(q) PROVE session[q].target = t
  <2>1. server' = [server EXCEPT ![session[q].target].version = @ + 1,
                                 ![session[q].target].head = Applied(q),
                                 ![session[q].target].kept = @ \cup Image(Applied(q))]
    BY <1>3, <1>8 DEF CommitRuns
  <2> QED
    BY <1>0, <2>1
<1>9. ASSUME NEW q \in Pushes PROVE ~CommitIsBusy(q)
  BY <1>3 DEF CommitIsBusy
<1>10. ASSUME NEW u \in Targets, NEW f, CleanUp(u, f) PROVE FALSE
  BY <1>1, <1>10 DEF CleanUp
<1>11. ASSUME NEW u \in Targets, Publish(u) PROVE u = t
  <2>1. server' = [server EXCEPT ![u].version = @ + 1]
    BY <1>11 DEF Publish
  <2> QED
    BY <1>2, <2>1
<1> QED
  BY <1>7, <1>8, <1>9, <1>10, <1>11 DEF Server

\* A session becomes a version.
Commits(t, q) ==
    /\ session[q].status = "committing" /\ session[q].target = t
    /\ session[q].base = server[t].version
    /\ server'[t].head = Applied(q) /\ server'[t].version = server[t].version + 1
    /\ UNCHANGED <<pubs, note, push>>

LEMMA HeadSteps ==
    ASSUME Types, [Next]_vars, NEW t \in Targets
    PROVE  /\ server[t].version \in Nat /\ server'[t].version \in Nat
           /\ \/ /\ server'[t].head = server[t].head
                 /\ server'[t].version = server[t].version \/ server[t].version > 0
                 /\ server[t].version <= server'[t].version
              \/ \E q \in Pushes : Commits(t, q)
<1>0. /\ server[t].version \in Nat /\ server'[t].version \in Nat
      /\ server[t].version <= server'[t].version
      /\ server'[t].version = server[t].version => server'[t].head = server[t].head
  BY HeadMovesWithVersion
<1>1. server[t] \in Collection /\ server \in [Targets -> Collection]
  BY DEF Types, ServerType
<1>2. CASE Publish(t)
  <2>1. server'[t] = [server[t] EXCEPT !.version = server[t].version + 1]
        /\ server[t].version > 0
    BY <1>1, <1>2 DEF Publish
  <2>2. server'[t].head = server[t].head
    BY <1>1, <2>1 DEF Collection
  <2> QED
    BY <1>0, <2>1, <2>2
<1>3. ASSUME NEW q \in Pushes, CommitRuns(q), session[q].target = t,
             server'[t].version # server[t].version
      PROVE  Commits(t, q)
  <2>1. /\ BaseIsHead(q) /\ session[q].status = "committing"
        /\ server' = [server EXCEPT ![session[q].target].version = @ + 1,
                                    ![session[q].target].head = Applied(q),
                                    ![session[q].target].kept = @ \cup Image(Applied(q))]
        /\ UNCHANGED <<pubs, note, push>>
    BY <1>3 DEF CommitRuns
  <2>2. server'[t] = [server[t] EXCEPT !.version = server[t].version + 1, !.head = Applied(q),
                                       !.kept = server[t].kept \cup Image(Applied(q))]
    BY <1>1, <1>3, <2>1
  <2>3. server'[t].head = Applied(q) /\ server'[t].version = server[t].version + 1
    BY <1>1, <2>2 DEF Collection
  <2> QED
    BY <1>3, <2>1, <2>3 DEF Commits, BaseIsHead
<1>4. CASE server'[t].version = server[t].version
  BY <1>0, <1>4
<1>5. CASE server'[t].version # server[t].version
  BY <1>0, <1>2, <1>3, <1>5, VersionSteps
<1> QED
  BY <1>4, <1>5

LEMMA HeadType ==
    ASSUME Types, NEW t \in Targets
    PROVE  server[t].head \in Manifests
  BY DEF Types, ServerType, Collection

\* A commit makes a head that comes after the one before, and before whatever is read.
LEMMA CommitsInOrder ==
    ASSUME PushInv, NEW t \in Targets, NEW q \in Pushes, SessionInOrder(t, q), Commits(t, q)
    PROVE  /\ server'[t].head \in Manifests /\ Below(server'[t].head, pubs)
           /\ server[t].version > 0 => Below(server[t].head, server'[t].head)
           /\ \A o \in Pushes : HasRead(o) => Below(server'[t].head, push[o].inputs)
           /\ HasRead(q) => Same(server'[t].head, push[q].inputs)
<1>1. PICK applied : applied = Applied(q)
  OBVIOUS
<1>2. server'[t].head = applied
  BY <1>1 DEF Commits
<1>3. session[q].target \in Targets
  BY DEF Commits
<1>4. applied \in Manifests
  BY <1>1, <1>3, AppliedType DEF PushInv, Types
<1>5. /\ Below(applied, pubs)
      /\ server[t].version > 0 => Below(server[t].head, applied)
      /\ \A o \in Pushes : HasRead(o) => Below(applied, push[o].inputs)
      /\ HasRead(q) => Same(applied, push[q].inputs)
  BY <1>1 DEF Commits, SessionInOrder
<1> QED
  BY <1>2, <1>4, <1>5

\* What the collection has reached it does not lose.
LEMMA ReachedStays ==
    ASSUME PushInv, [Next]_vars, NEW t \in Targets,
           \A q \in Pushes : SessionInOrder(t, q),
           NEW m \in Manifests, Reached(t, m)
    PROVE  Reached(t, m)'
<1>1. /\ server[t].version \in Nat /\ server'[t].version \in Nat
      /\ \/ /\ server'[t].head = server[t].head
            /\ server'[t].version = server[t].version \/ server[t].version > 0
            /\ server[t].version <= server'[t].version
         \/ \E q \in Pushes : Commits(t, q)
  BY HeadSteps DEF PushInv
<1>2. server[t].version > 0 /\ Below(m, server[t].head) /\ server[t].head \in Manifests
  BY HeadType DEF Reached, PushInv
<1>3. CASE server'[t].head = server[t].head /\ server[t].version <= server'[t].version
  BY <1>1, <1>2, <1>3 DEF Reached
<1>4. ASSUME NEW q \in Pushes, Commits(t, q) PROVE Reached(t, m)'
  <2>1. PICK h \in Manifests, n \in Manifests : h = server[t].head /\ n = server'[t].head
    BY <1>2, <1>4, CommitsInOrder
  <2>2. Below(m, h) /\ Below(h, n)
    BY <1>2, <1>4, <2>1, CommitsInOrder
  <2>3. Below(m, n)
    BY <2>2, BelowBelow
  <2>4. server'[t].version > 0
    BY <1>1, <1>2, <1>4 DEF Commits
  <2> QED
    BY <2>1, <2>3, <2>4 DEF Reached
<1> QED
  BY <1>1, <1>3, <1>4

\* Whatever is older than the pubs and than all that has been read stays so.
LEMMA PrecedesStays ==
    ASSUME PushInv, [Next]_vars, PubsRows, NeverSetBack,
           NEW m \in Manifests, Below(m, pubs),
           \A q \in Pushes : HasRead(q) => Below(m, push[q].inputs)
    PROVE  /\ Below(m, pubs')
           /\ \A q \in Pushes : HasRead(q)' => Below(m, push'[q].inputs)
<1>1. PICK a \in Manifests, b \in Manifests : a = pubs /\ b = pubs'
  <2>1. Types'
    BY NextPushInv DEF PushInv
  <2> QED
    BY <2>1 DEF PushInv, Types, PubsType
<1>2. Below(m, a) /\ Below(a, b)
  BY <1>1, PubsGrow
<1>3. Below(m, b)
  BY <1>2, BelowBelow
<1>4. ASSUME NEW q \in Pushes, HasRead(q)' PROVE Below(m, push'[q].inputs)
  <2>1. Live(q)'
    BY <1>4 DEF HasRead
  <2>2. \/ HasRead(q) /\ push'[q].inputs = push[q].inputs
        \/ push'[q].inputs = pubs
    BY <1>4, <2>1, LiveSteps
  <2> QED
    BY <2>2
<1> QED
  BY <1>1, <1>3, <1>4

LEMMA HeadPrecedesKept ==
    ASSUME PushInv, [Next]_vars, PubsRows, NeverSetBack, NEW t \in Targets,
           \A q \in Pushes : SessionInOrder(t, q), HeadPrecedes(t)
    PROVE  HeadPrecedes(t)'
<1>1. /\ server[t].version \in Nat /\ server'[t].version \in Nat
      /\ \/ /\ server'[t].head = server[t].head
            /\ server'[t].version = server[t].version \/ server[t].version > 0
            /\ server[t].version <= server'[t].version
         \/ \E q \in Pushes : Commits(t, q)
  BY HeadSteps DEF PushInv
<1>2. SUFFICES ASSUME server'[t].version > 0
               PROVE  /\ Below(server'[t].head, pubs')
                      /\ \A q \in Pushes : HasRead(q)' => Below(server'[t].head, push'[q].inputs)
  BY DEF HeadPrecedes
<1>3. PICK h \in Manifests :
        /\ h = server'[t].head /\ Below(h, pubs)
        /\ \A q \in Pushes : HasRead(q) => Below(h, push[q].inputs)
  <2>1. CASE /\ server'[t].head = server[t].head
             /\ server'[t].version = server[t].version \/ server[t].version > 0
    <3>1. server[t].version > 0
      BY <1>2, <2>1
    <3>2. server[t].head \in Manifests
      BY HeadType DEF PushInv
    <3> QED
      BY <2>1, <3>1, <3>2 DEF HeadPrecedes
  <2>2. CASE \E q \in Pushes : Commits(t, q)
    BY <2>2, CommitsInOrder
  <2> QED
    BY <1>1, <2>1, <2>2
<1>4. Below(h, pubs') /\ \A q \in Pushes : HasRead(q)' => Below(h, push'[q].inputs)
  BY <1>3, PrecedesStays
<1> QED
  BY <1>3, <1>4

LEMMA InputsPrecedeKept ==
    ASSUME PushInv, [Next]_vars, PubsRows, NeverSetBack, NEW q \in Pushes,
           InputsPrecede(q)
    PROVE  InputsPrecede(q)'
<1>1. SUFFICES ASSUME HasRead(q)' PROVE Below(push'[q].inputs, pubs')
  BY DEF InputsPrecede
<1>2. Live(q)'
  BY <1>1 DEF HasRead
<1>3. \/ HasRead(q) /\ push'[q].inputs = push[q].inputs
      \/ push'[q].inputs = pubs
  BY <1>1, <1>2, LiveSteps
<1>4. PICK a \in Manifests, b \in Manifests : a = pubs /\ b = pubs'
  <2>1. Types'
    BY NextPushInv DEF PushInv
  <2> QED
    BY <2>1 DEF PushInv, Types, PubsType
<1>5. PICK i \in Manifests : i = push[q].inputs
  BY RowType DEF PushInv, Types
<1>6. Below(a, b)
  BY <1>4, PubsGrow
<1>7. CASE HasRead(q) /\ push'[q].inputs = push[q].inputs
  <2>1. Below(i, a)
    BY <1>4, <1>5, <1>7 DEF InputsPrecede
  <2>2. Below(i, b)
    BY <1>6, <2>1, BelowBelow
  <2> QED
    BY <1>4, <1>5, <1>7, <2>2
<1>8. CASE push'[q].inputs = pubs
  BY <1>4, <1>6, <1>8
<1> QED
  BY <1>3, <1>7, <1>8

\* An attempt keeps what has been read and mapped; where it finds no difference there is
\* none.
LEMMA AttemptKeeps ==
    ASSUME PushInv, NEW q \in Pushes, Attempt(q)
    PROVE  /\ HasRead(q) /\ push[q].stage \in PastDrain /\ push[q].target \in Targets
           /\ KeepsWork(q) /\ UNCHANGED <<pubs, server>>
<1>1. KeepsWork(q)
  BY AttemptIsAttempted DEF PushInv, Types, Attempted, MovesOn
<1>2. HasRead(q) /\ push[q].stage \in PastDrain
  BY DEF Attempt, Mapped, At, PastDrain, HasRead, Live
<1>3. push[q].target \in Targets
  BY <1>2 DEF PushInv, TargetKnown, HasRead
<1> QED
  BY <1>1, <1>2, <1>3 DEF Attempt

LEMMA NoDifference ==
    ASSUME NEW manifest \in Manifests, NEW head \in Manifests,
           Upserts(manifest, head) = {}, Deletes(manifest, head) = {}
    PROVE  Same(head, manifest)
<1>1. /\ \A p \in DOMAIN manifest : p \in DOMAIN head /\ head[p] = manifest[p]
      /\ DOMAIN head \subseteq DOMAIN manifest
  BY DEF Upserts, Deletes
<1>2. DOMAIN head = DOMAIN manifest /\ \A p \in DOMAIN head : IsCacheHit(head[p], manifest[p])
  BY <1>1 DEF IsCacheHit
<1> QED
  BY <1>2, SignedEqual DEF Same

LEMMA PlannedInOrder ==
    ASSUME PushInv, NEW t \in Targets, NEW q \in Pushes, WorkDone(q), OneLive',
           HeadPrecedes(t), InputsPrecede(q),
           Attempt(q), push'[q].stage = "opening", session'[q] = Planned(q)
    PROVE  SessionInOrder(t, q)'
<1>1. /\ HasRead(q) /\ push[q].stage \in PastDrain
      /\ push'[q].inputs = push[q].inputs /\ push'[q].manifest = push[q].manifest
      /\ push'[q].target = push[q].target /\ UNCHANGED <<pubs, server>>
  BY AttemptKeeps DEF KeepsWork
<1>2. SUFFICES ASSUME session'[q].target = t
               PROVE  SessionInOrder(t, q)'
  BY DEF SessionInOrder
<1>3. session'[q].base = server[t].version /\ session'[q].status = "planned"
      /\ push[q].target = t
  BY <1>2 DEF Planned
<1>4. PICK i \in Manifests, m \in Manifests : i = push[q].inputs /\ m = push[q].manifest
  BY RowType DEF PushInv, Types
<1>5. PICK applied \in Manifests : applied = Applied(q)'
  <2>1. Types'
    BY AttemptTypes, <1>1, <1>3 DEF PushInv
  <2>2. session'[q].upserts \in Manifests
    BY <2>1 DEF Types, SessionType, SessionRow
  <2>3. PICK u, h, d :
          u \in Manifests /\ h \in Manifests /\ u = session'[q].upserts /\ h = server[t].head /\ d = session'[q].deletes
    BY <2>2, HeadType DEF PushInv
  <2>4. Applied(q)' = Over(u, Only(h, DOMAIN h \ d))
    BY <1>1, <1>2, <2>3 DEF Applied
  <2>5. \A S : Only(h, S) \in Manifests
    BY <2>3, OnlyType
  <2> QED
    BY <2>3, <2>4, <2>5, OverType
<1>6. Same(applied, i)
  <2>1. CommitsManifest(q)'
    BY PlannedIsManifest
  <2>2. Live(q)' /\ BaseIsHead(q)'
    BY <1>1, <1>2, <1>3 DEF Live, BaseIsHead
  <2>3. Signed(Applied(q))' = Signed(push[q].manifest)'
    BY <1>3, <2>1, <2>2 DEF CommitsManifest
  <2>4. Signed(applied) = Signed(m)
    BY <1>1, <1>4, <1>5, <2>3 DEF Signed
  <2>5. Signed(m) = Signed(i)
    BY <1>1, <1>4 DEF WorkDone, Same
  <2> QED
    BY <2>4, <2>5 DEF Same
<1>7. Below(applied, i) /\ Below(i, applied)
  BY <1>6, SameBelow
<1>8. Below(applied, pubs)
  <2>1. PICK b \in Manifests : b = pubs
    BY DEF PushInv, Types, PubsType
  <2>2. Below(i, b)
    BY <1>1, <1>4, <2>1 DEF InputsPrecede
  <2>3. Below(applied, b)
    BY <1>7, <2>2, BelowBelow
  <2> QED
    BY <2>1, <2>3
<1>9. ASSUME server[t].version > 0 PROVE Below(server[t].head, applied)
  <2>1. PICK h \in Manifests : h = server[t].head
    BY HeadType DEF PushInv
  <2>2. Below(h, i)
    BY <1>1, <1>4, <1>9, <2>1 DEF HeadPrecedes
  <2>3. Below(h, applied)
    BY <1>7, <2>2, BelowBelow
  <2> QED
    BY <2>1, <2>3
<1>10. ASSUME NEW o \in Pushes, HasRead(o)' PROVE Below(applied, push'[o].inputs)
  <2>1. Live(o)' /\ Live(q)'
    BY <1>10 DEF HasRead, Live
  <2>2. o = q
    BY <2>1 DEF OneLive
  <2> QED
    BY <1>1, <1>4, <1>7, <2>2
<1>11. server[t].version \in Nat
  BY DEF PushInv, Types, ServerType, Collection
<1>12. server'[t].version = server[t].version /\ server'[t].head = server[t].head
       /\ pubs' = pubs /\ push'[q].inputs = i
  BY <1>1, <1>4
<1> QED
  BY <1>3, <1>5, <1>6, <1>8, <1>9, <1>10, <1>11, <1>12 DEF SessionInOrder

LEMMA SessionInOrderKept ==
    ASSUME PushInv, [Next]_vars, PubsRows, NeverSetBack, OneLive',
           NEW t \in Targets, NEW q \in Pushes, WorkDone(q),
           HeadPrecedes(t), InputsPrecede(q), SessionInOrder(t, q)
    PROVE  SessionInOrder(t, q)'
<1>1. SessionStep(q) /\ session[q] \in SessionRow /\ SessionFits(q)
  BY SessionSteps DEF PushInv, Types, SessionType
\* The session is the same but for its status, and was one that may be committed.
<1>2. ASSUME session[q].status \in {"planned", "open", "committing"},
             session'[q].target = session[q].target, session'[q].base = session[q].base,
             session'[q].upserts = session[q].upserts, session'[q].deletes = session[q].deletes
      PROVE  SessionInOrder(t, q)'
  <2> SUFFICES ASSUME session'[q].target = t PROVE SessionInOrder(t, q)'
    BY DEF SessionInOrder
  <2>1. /\ server[t].version \in Nat /\ server'[t].version \in Nat
        /\ server[t].version <= server'[t].version
        /\ server'[t].version = server[t].version => server'[t].head = server[t].head
    BY HeadMovesWithVersion DEF PushInv
  <2>2. /\ session[q].target = t /\ session[q].base <= server[t].version
        /\ session[q].base \in Nat
    BY <1>1, <1>2 DEF SessionInOrder, SessionRow
  <2>3. session'[q].target = t /\ session'[q].base <= server'[t].version
    BY <1>2, <2>1, <2>2
  <2>4. ASSUME session'[q].base = server'[t].version
        PROVE  /\ Below(Applied(q)', pubs')
               /\ server'[t].version > 0 => Below(server'[t].head, Applied(q)')
               /\ \A o \in Pushes : HasRead(o)' => Below(Applied(q)', push'[o].inputs)
               /\ HasRead(q)' => Same(Applied(q)', push'[q].inputs)
    <3>1. session[q].base = server[t].version /\ server'[t].version = server[t].version
      BY <1>2, <2>1, <2>2, <2>4
    <3>2. server'[t].head = server[t].head
      BY <2>1, <3>1
    <3>3. PICK applied \in Manifests : applied = Applied(q)
      BY <2>2, AppliedType DEF PushInv, Types
    <3>4. Applied(q)' = applied
      BY <1>2, <2>2, <3>2, <3>3 DEF Applied
    <3>5. /\ Below(applied, pubs)
          /\ server[t].version > 0 => Below(server[t].head, applied)
          /\ \A o \in Pushes : HasRead(o) => Below(applied, push[o].inputs)
          /\ HasRead(q) => Same(applied, push[q].inputs)
      BY <1>2, <2>2, <3>1, <3>3 DEF SessionInOrder
    <3>6. Below(applied, pubs') /\ \A o \in Pushes : HasRead(o)' => Below(applied, push'[o].inputs)
      BY <3>5, PrecedesStays
    <3>7. ASSUME HasRead(q)' PROVE Same(applied, push'[q].inputs)
      <4>1. Live(q)' /\ ~Hydrate(q)
        BY <1>1, <1>2, <3>7 DEF HasRead, Hydrate, At, SessionFits, Early
      <4>2. HasRead(q) /\ push'[q].inputs = push[q].inputs
        BY <3>7, <4>1, LiveSteps
      <4> QED
        BY <3>5, <4>2
    <3> QED
      BY <3>1, <3>2, <3>4, <3>5, <3>6, <3>7
  <2> QED
    BY <2>3, <2>4 DEF SessionInOrder
<1>3. ASSUME NEW s, Moved(q, s)
      PROVE  /\ session'[q].status = s
             /\ session'[q].target = session[q].target /\ session'[q].base = session[q].base
             /\ session'[q].upserts = session[q].upserts
             /\ session'[q].deletes = session[q].deletes
  BY <1>1, <1>3 DEF Moved, SessionRow
<1>4. CASE session'[q] = session[q]
  BY <1>2, <1>4 DEF SessionInOrder
<1>5. CASE session'[q] = NoSession
  BY <1>5 DEF NoSession, SessionInOrder
<1>6. CASE Attempt(q) /\ push'[q].stage = "opening" /\ session'[q] = Planned(q)
  BY <1>6, PlannedInOrder
<1>7. CASE \/ At(q, "opening") /\ Moved(q, "open")
           \/ At(q, "sending") /\ Moved(q, "committing")
  <2>1. session[q].status \in {"planned", "open"}
    BY <1>1, <1>7 DEF At, SessionFits
  <2> QED
    BY <1>2, <1>3, <1>7, <2>1
<1>8. CASE \E s \in {"none", "committed", "conflict", "filesNeeded", "unchanged", "busy"} :
             Moved(q, s)
  BY <1>3, <1>8 DEF SessionInOrder
<1> QED
  BY <1>1, <1>4, <1>5, <1>6, <1>7, <1>8 DEF SessionStep

\* What a push knows to be recorded it has read at its start.
LEMMA LastSteps ==
    ASSUME PushType, NEW q \in Pushes, PushStep(q)
    PROVE  \/ push'[q].last = push[q].last /\ push'[q].of = push[q].of
           \/ push'[q].last = {}
           \/ push'[q].last = note.last /\ push'[q].of = note.of
<1>0. push[q] \in Row
  BY DEF PushType
<1>1. CASE PushToUnderlayTask(q)
  <2>1. push'[q] = [push[q] EXCEPT !.stage = "begun", !.target = note.target, !.last = note.last,
                                   !.of = note.of]
    BY <1>1 DEF PushToUnderlayTask, PushType
  <2> QED
    BY <1>0, <1>1, <2>1 DEF Row
<1>2. CASE Hydrate(q) \/ GetPushCacheEntries(q)
  <2>1. \/ push'[q] = [push[q] EXCEPT !.stage = "hydrated", !.inputs = pubs]
        \/ push'[q] = [push[q] EXCEPT !.stage = "mapping", !.entries = cache]
    BY <1>2 DEF Hydrate, GetPushCacheEntries, PushType
  <2> QED
    BY <1>0, <2>1 DEF Row
<1>3. ASSUME NEW p \in Pubs, ReuseEntry(q, p) \/ MapPub(q, p)
      PROVE  push'[q].last = push[q].last /\ push'[q].of = push[q].of
  <2>1. CASE ReuseEntry(q, p)
    <3>1. \E m : push'[q] = [push[q] EXCEPT !.manifest = m]
      BY <2>1 DEF ReuseEntry, PushType
    <3> QED
      BY <1>0, <3>1 DEF Row
  <2>2. CASE MapPub(q, p)
    <3>1. \E m, f, s, i : push'[q] = [push[q] EXCEPT !.manifest = m, !.fresh = f, !.pending = s,
                                                    !.inFlight = i]
      BY <2>2 DEF MapPub, PushType
    <3> QED
      BY <1>0, <3>1 DEF Row
  <2> QED
    BY <1>3, <2>1, <2>2
<1>4. CASE \E f \in push[q].inFlight : UploadLands(q, f) \/ UploadFails(q, f)
  BY <1>4, UploadSteps DEF KeepsWork
<1>5. CASE push'[q] = push[q] \/ Attempted(q) \/ MovesOn(q) \/ Ended(q)
  BY <1>5 DEF Attempted, MovesOn, Ended, KeepsWork
<1> QED
  BY <1>1, <1>2, <1>3, <1>4, <1>5 DEF PushStep

\* When a push is about to be recorded.
Nothing(q) ==
    /\ Attempt(q) /\ server[push[q].target].version > 0
    /\ Upserts(push[q].manifest, server[push[q].target].head) = {}
    /\ Deletes(push[q].manifest, server[push[q].target].head) = {}

LEMMA OwnNotings ==
    ASSUME PushType, NEW q \in Pushes, push'[q].stage \in {"noting", "applying"},
           PushToUnderlayTask(q) \/ Step(q) \/ Lands(q) \/ Breaks(q)
    PROVE  Nothing(q) \/ (HasRead(q) /\ Ready(q))
<1> DEFINE Goal == Nothing(q) \/ (HasRead(q) /\ Ready(q))
<1>0. push[q] \in Row
  BY DEF PushType
<1>1. ASSUME NEW s, s \notin {"noting", "applying"}, NEW r,
             \/ push' = [push EXCEPT ![q].stage = s]
             \/ push' = [push EXCEPT ![q].stage = s, ![q].result = r]
      PROVE  FALSE
  BY <1>1, StageAfter
<1>2. ASSUME NEW s \in {"done", "dead"}, NEW r, Ends(q, s, r) PROVE FALSE
  BY <1>2, EndsSession, EndsIsEnded DEF Ends, PushType, Idle
<1>3. ASSUME NEW r, Fails(q, r) PROVE FALSE
  BY <1>3, StageAfter
<1>4. ASSUME Retry(q) PROVE FALSE
  BY <1>4, StageAfter
<1>5. CASE PushToUnderlayTask(q)
  BY <1>5, Begins
<1>6. CASE Hydrate(q) \/ GetPushCacheEntries(q)
  BY <1>6, ReadSteps
<1>7. CASE \E p \in Pubs : ReuseEntry(q, p) \/ MapPub(q, p)
  BY <1>7, ReusedEntry, MappedPub
<1>8. CASE \E f \in push[q].inFlight : UploadLands(q, f) \/ UploadFails(q, f)
  BY <1>8, UploadSteps DEF HasRead, Ready, Live
<1>9. CASE BuildFails(q) \/ CallFails(q) \/ GiveUp(q) \/ WriteFails(q)
  BY <1>3, <1>9 DEF BuildFails, CallFails, GiveUp, WriteFails
<1>10. CASE Checkpoint(q)
  <2>1. push[q].stage = "mapping"
    BY <1>10 DEF Checkpoint, At
  <2>2. \/ Fails(q, "error")
        \/ \E s \in {"mapping", "mapped"} : push' = [push EXCEPT ![q].pending = {}, ![q].stage = s]
    BY <1>10, <2>1 DEF Checkpoint
  <2>3. ASSUME NEW s \in {"mapping", "mapped"},
               push' = [push EXCEPT ![q].pending = {}, ![q].stage = s]
        PROVE  FALSE
    <3>1. push'[q] = [push[q] EXCEPT !.pending = {}, !.stage = s]
      BY <2>3 DEF PushType
    <3> QED
      BY <1>0, <3>1 DEF Row
  <2> QED
    BY <1>3, <2>2, <2>3
<1>11. CASE SkipUnchanged(q) \/ Crash(q)
  BY <1>2, <1>11 DEF SkipUnchanged, Crash
<1>12. CASE ApplyPushCache(q) \/ RecordError(q)
  BY <1>2, <1>3, <1>12 DEF ApplyPushCache, RecordError
<1>13. CASE Attempt(q)
  <2>1. \/ Nothing(q) \/ Fails(q, "unproducible")
        \/ \E h : push' = [push EXCEPT ![q].stage = "opening", ![q].hydrated = h]
    BY <1>13 DEF Attempt, Nothing
  <2>2. ASSUME NEW h, push' = [push EXCEPT ![q].stage = "opening", ![q].hydrated = h] PROVE FALSE
    BY <2>2, OpeningAfter
  <2> QED
    BY <1>3, <2>1, <2>2
<1>14. CASE OpenSession(q) \/ Commit(q) \/ CommitAnswerLost(q)
  <2>1. Retry(q) \/ \E s \in {"sending", "polling", "recommitting"} : push' = [push EXCEPT ![q].stage = s]
    BY <1>14 DEF OpenSession, Commit, CommitAnswerLost
  <2> QED
    BY <1>1, <1>4, <2>1
<1>15. CASE Recommit(q)
  BY <1>1, <1>3, <1>15 DEF Recommit
<1>16. CASE AwaitAsyncCommit(q) \/ RecordPushResult(q)
  BY <1>16 DEF AwaitAsyncCommit, RecordPushResult, Polls, At, HasRead, Ready, Live
<1>17. CASE CommitRefused(q)
  <2>1. \/ Retry(q) \/ Fails(q, "unproducible")
        \/ Polls(q, "unchanged")
    BY <1>17 DEF CommitRefused, UploadMissingFiles
  <2> QED
    BY <1>3, <1>4, <2>1 DEF Polls, At, HasRead, Ready, Live
<1>18. CASE Step(q)
  BY <1>6, <1>7, <1>9, <1>10, <1>11, <1>12, <1>13, <1>14, <1>15, <1>16, <1>17, <1>18 DEF Step
<1>19. CASE Lands(q)
  BY <1>8, <1>19 DEF Lands
<1>20. CASE Breaks(q)
  BY <1>8, <1>9, <1>11, <1>14, <1>20 DEF Breaks
<1> QED
  BY <1>5, <1>18, <1>19, <1>20

LEMMA NotingSteps ==
    ASSUME PushType, [Next]_vars, NEW q \in Pushes, push'[q].stage \in {"noting", "applying"}
    PROVE  Nothing(q) \/ (HasRead(q) /\ Ready(q))
<1>0. ASSUME push'[q] = push[q] PROVE HasRead(q) /\ Ready(q)
  BY <1>0 DEF HasRead, Ready, Live
<1>1. CASE Edits \/ Server \/ UNCHANGED vars
  <2>1. push' = push
    BY <1>1 DEF Edits, Edit, EditPub, EditFacet, DeletePub, EditAttribution,
       UpsertUnderlayIntegration, Server, CommitRuns, CommitIsBusy, Publish, CleanUp, vars
  <2> QED
    BY <1>0, <2>1
<1>2. CASE PushToUnderlayTask(q) \/ Step(q) \/ Lands(q) \/ Breaks(q)
  BY <1>2, OwnNotings
<1>3. ASSUME NEW o \in Pushes \ {q}, PushToUnderlayTask(o) \/ Step(o) \/ Lands(o) \/ Breaks(o)
      PROVE  push'[q] = push[q]
  BY <1>3, OthersKeep
<1> QED
  BY <1>0, <1>1, <1>2, <1>3 DEF Next

\* When a session is committed, or refused for want of changes.
LEMMA CommitOutcomes ==
    ASSUME Types, NEW t \in Targets, NEW q \in Pushes, CommitRuns(q), session[q].target = t
    PROVE  /\ session'[q].status = "committed" =>
                /\ BaseIsHead(q) /\ server'[t].head = Applied(q)
                /\ server'[t].version = server[t].version + 1
           /\ session'[q].status = "unchanged" =>
                /\ BaseIsHead(q) /\ server[t].head = Applied(q) /\ server[t].version > 0
                /\ server' = server
<1>0. /\ session[q] \in SessionRow /\ SessionType
      /\ server[t] \in Collection /\ server \in [Targets -> Collection]
  BY DEF Types, SessionType, ServerType
<1>1. ASSUME NEW s, Session(q, s) PROVE session'[q].status = s
  <2>1. session'[q] = [session[q] EXCEPT !.status = s]
    BY <1>0, <1>1, MovedBySession DEF Moved
  <2> QED
    BY <1>0, <2>1 DEF SessionRow
<1>2. ASSUME session'[q].status = "committed"
      PROVE  /\ BaseIsHead(q) /\ server'[t].head = Applied(q)
             /\ server'[t].version = server[t].version + 1
  <2>1. ~Session(q, "conflict") /\ ~Session(q, "filesNeeded") /\ ~Session(q, "unchanged")
    BY <1>1, <1>2
  <2>2. /\ BaseIsHead(q)
        /\ server' = [server EXCEPT ![t].version = @ + 1, ![t].head = Applied(q),
                                    ![t].kept = @ \cup Image(Applied(q))]
    BY <2>1 DEF CommitRuns
  <2>3. server'[t] = [server[t] EXCEPT !.version = server[t].version + 1, !.head = Applied(q),
                                       !.kept = server[t].kept \cup Image(Applied(q))]
    BY <1>0, <2>2
  <2>4. server'[t].head = Applied(q) /\ server'[t].version = server[t].version + 1
    BY <1>0, <2>3 DEF Collection
  <2> QED
    BY <2>2, <2>4
<1>3. ASSUME session'[q].status = "unchanged"
      PROVE  /\ BaseIsHead(q) /\ server[t].head = Applied(q) /\ server[t].version > 0
             /\ server' = server
  <2>1. ~Session(q, "conflict") /\ ~Session(q, "filesNeeded") /\ ~Session(q, "committed")
    BY <1>1, <1>3
  <2> QED
    BY <2>1 DEF CommitRuns
<1> QED
  BY <1>2, <1>3

\* A session gets an outcome of these two from such a commit alone.
LEMMA OutcomeSteps ==
    ASSUME PushType, SessionType, [Next]_vars, NEW q \in Pushes,
           session'[q].status \in {"committed", "unchanged"}
    PROVE  \/ session'[q] = session[q]
           \/ CommitRuns(q) /\ session[q].status = "committing" /\ push' = push
<1>1. SessionStep(q) /\ session[q] \in SessionRow
  BY SessionSteps DEF SessionType
<1>2. ASSUME NEW s, Moved(q, s) PROVE session'[q].status = s
  BY <1>1, <1>2 DEF Moved, SessionRow
<1>3. ~CommitIsBusy(q)
  BY <1>2, MovedBySession DEF CommitIsBusy
<1> QED
  BY <1>1, <1>2, <1>3 DEF SessionStep, NoSession, Planned

LEMMA HasReachedKept ==
    ASSUME PushInv, [Next]_vars, NEW t \in Targets, NEW q \in Pushes, WorkDone(q),
           CommitsManifest(q), \A o \in Pushes : SessionInOrder(t, o), HasReached(t, q)
    PROVE  HasReached(t, q)'
<1>0. PushType /\ SessionType /\ Types /\ SessionFits(q)
  BY DEF PushInv, Types
<1>1. SUFFICES ASSUME HasRead(q)', Ready(q)', push'[q].target = t
               PROVE  Reached(t, push[q].inputs)'
  BY DEF HasReached
<1>2. PICK i \in Manifests : i = push[q].inputs
  BY <1>0, RowType
<1>3. ASSUME Reached(t, i), push'[q].inputs = push[q].inputs PROVE Reached(t, push[q].inputs)'
  <2>1. Reached(t, i)'
    BY <1>3, ReachedStays
  <2> QED
    BY <1>2, <1>3, <2>1 DEF Reached
<1>4. push[q].target = t /\ (~Hydrate(q) => HasRead(q) /\ push'[q].inputs = push[q].inputs)
  <2>1. Live(q)'
    BY <1>1 DEF HasRead
  <2> QED
    BY <1>1, <2>1, LiveSteps
<1>5. ASSUME Ready(q), ~Hydrate(q) PROVE Reached(t, push[q].inputs)'
  BY <1>2, <1>3, <1>4, <1>5 DEF HasReached
<1>6. CASE push'[q].stage \in {"noting", "applying"}
  <2>1. ~Hydrate(q)
    BY <1>0, <1>6, ReadSteps
  <2>2. CASE Nothing(q)
    <3>1. PICK m \in Manifests, h \in Manifests : m = push[q].manifest /\ h = server[t].head
      BY <1>0, RowType, HeadType
    <3>2. server[t].version > 0 /\ Same(h, m)
      BY <1>4, <2>2, <3>1, NoDifference DEF Nothing
    <3>3. Same(m, i)
      BY <1>2, <2>2, <3>1, AttemptKeeps DEF Nothing, WorkDone
    <3>4. Same(i, h)
      BY <3>2, <3>3 DEF Same
    <3>5. Below(i, h)
      BY <3>4, SameBelow
    <3> QED
      BY <1>3, <1>4, <2>1, <3>1, <3>2, <3>5 DEF Reached
  <2> QED
    BY <1>0, <1>5, <1>6, <2>1, <2>2, NotingSteps
<1>7. CASE session'[q].status \in {"committed", "unchanged"}
  <2>1. CASE session'[q] = session[q]
    <3>1. ~Hydrate(q)
      BY <1>0, <1>7, <2>1 DEF Hydrate, At, SessionFits, Early
    <3> QED
      BY <1>5, <1>7, <2>1, <3>1 DEF Ready
  <2>2. CASE CommitRuns(q) /\ session[q].status = "committing" /\ push' = push
    <3>1. HasRead(q)
      BY <1>1, <2>2 DEF HasRead, Live
    <3>2. session[q].target = t
      BY <1>4, <2>2, <3>1 DEF CommitsManifest, HasRead
    <3>3. PICK a \in Manifests : a = Applied(q)
      BY <1>0, <3>2, AppliedType DEF Types
    <3>4. ASSUME BaseIsHead(q) PROVE Below(i, a)
      <4>1. Same(a, i)
        BY <1>2, <2>2, <3>1, <3>2, <3>3, <3>4 DEF SessionInOrder, BaseIsHead
      <4> QED
        BY <4>1, SameBelow
    <3>5. server[t].version \in Nat
      BY <1>0, HeadMovesWithVersion
    <3>6. /\ Below(i, a) /\ server'[t].head = a
          /\ \/ server'[t].version = server[t].version + 1
             \/ server'[t].version = server[t].version /\ server[t].version > 0
      BY <1>0, <1>7, <2>2, <3>2, <3>3, <3>4, CommitOutcomes
    <3>7. server'[t].version > 0
      BY <3>5, <3>6
    <3>8. push'[q].inputs = i
      BY <1>2, <2>2
    <3> QED
      BY <3>6, <3>7, <3>8 DEF Reached
  <2> QED
    BY <1>0, <1>7, <2>1, <2>2, OutcomeSteps
<1> QED
  BY <1>1, <1>6, <1>7 DEF Ready

\* What is recorded as pushed, and to which collection.
LEMMA NoteSteps ==
    ASSUME Types, [Next]_vars
    PROVE  \/ note'.last = note.last /\ note'.of = note.of
           \/ \E q \in Pushes :
                /\ note'.last = {push[q].manifest}
                /\ \/ At(q, "noting") /\ note'.of = push[q].target
                   \/ At(q, "mapped") /\ Unchanged(q) /\ note'.of = push[q].of
<1>0. note \in [target : Targets, last : Signatures, of : Targets \cup {Nobody}]
  BY DEF Types, NoteType
<1>1. ASSUME NEW q \in Pushes, RecordPushResult(q) \/ SkipUnchanged(q)
      PROVE  /\ note'.last = {push[q].manifest}
             /\ \/ At(q, "noting") /\ note'.of = push[q].target
                \/ At(q, "mapped") /\ Unchanged(q) /\ note'.of = push[q].of
  <2>1. PICK s, u, w : s = {push[q].manifest} /\ u = push[q].target /\ w = push[q].of
    OBVIOUS
  <2>2. \/ At(q, "noting") /\ note' = [note EXCEPT !.last = s, !.of = u]
        \/ At(q, "mapped") /\ Unchanged(q) /\ note' = [note EXCEPT !.last = s, !.of = w]
    BY <1>1, <2>1 DEF RecordPushResult, SkipUnchanged
  <2>3. ASSUME NEW o, note' = [note EXCEPT !.last = s, !.of = o] PROVE note'.last = s /\ note'.of = o
    BY <1>0, <2>3
  <2> QED
    BY <2>1, <2>2, <2>3
<1>2. ASSUME Edits \/ Server \/ UNCHANGED vars
      PROVE  note'.last = note.last /\ note'.of = note.of
  <2>1. ASSUME NEW u, note' = [note EXCEPT !.target = u]
        PROVE  note'.last = note.last /\ note'.of = note.of
    BY <1>0, <2>1
  <2>2. UNCHANGED note \/ \E u : note' = [note EXCEPT !.target = u]
    BY <1>2 DEF Edits, EditPub, EditFacet, DeletePub, EditAttribution,
       UpsertUnderlayIntegration, Server, CommitRuns, CommitIsBusy, Publish, CleanUp, vars
  <2> QED
    BY <2>1, <2>2
<1>3. ASSUME NEW q \in Pushes, PushToUnderlayTask(q) \/ Lands(q) \/ Breaks(q)
      PROVE  UNCHANGED note
  BY <1>3 DEF PushToUnderlayTask, Lands, UploadLands, Breaks, UploadFails, CommitAnswerLost,
     CallFails, GiveUp, WriteFails, Crash
<1>4. ASSUME NEW q \in Pushes, Step(q)
      PROVE  UNCHANGED note \/ RecordPushResult(q) \/ SkipUnchanged(q)
  BY <1>4 DEF Step, Hydrate, GetPushCacheEntries, ReuseEntry, MapPub, BuildFails, Checkpoint,
     Attempt, OpenSession, Commit, Recommit, AwaitAsyncCommit, CommitRefused, ApplyPushCache,
     RecordError
<1> QED
  BY <1>1, <1>2, <1>3, <1>4 DEF Next

LEMMA NotesPrecedeKept ==
    ASSUME PushInv, [Next]_vars, NEW t \in Targets,
           \A q \in Pushes : WorkDone(q) /\ SessionInOrder(t, q) /\ HasReached(t, q),
           NotesPrecede(t)
    PROVE  NotesPrecede(t)'
<1>0. PushType /\ Types /\ \A q \in Pushes : PushStep(q)
  BY PushSteps DEF PushInv, Types
<1>1. ASSUME NEW s \in Signatures, NEW m \in s PROVE m \in Manifests
  BY <1>1 DEF Signatures
<1>2. /\ note.last \in Signatures
      /\ \A q \in Pushes : push[q].last \in Signatures /\ push[q].manifest \in Manifests
  BY <1>0, RowType DEF Types, NoteType, Row
<1>3. ASSUME NEW m \in Manifests, Reached(t, m) PROVE Reached(t, m)'
  BY <1>3, ReachedStays
<1>4. ASSUME NEW q \in Pushes,
             \/ At(q, "noting") /\ push[q].target = t
             \/ At(q, "mapped") /\ Unchanged(q) /\ push[q].of = t
      PROVE  Reached(t, push[q].manifest)
  <2>1. CASE At(q, "noting") /\ push[q].target = t
    <3>1. HasRead(q) /\ Ready(q) /\ push[q].stage \in PastDrain
      BY <2>1 DEF At, HasRead, Live, Ready, PastDrain
    <3>2. PICK i \in Manifests, m \in Manifests, h \in Manifests :
            i = push[q].inputs /\ m = push[q].manifest /\ h = server[t].head
      BY <1>0, RowType, HeadType
    <3>3. server[t].version > 0 /\ Below(i, h)
      BY <2>1, <3>1, <3>2 DEF HasReached, Reached
    <3>4. Same(m, i)
      BY <3>1, <3>2 DEF WorkDone
    <3>5. Below(m, h)
      BY <3>3, <3>4, SameBelow, BelowBelow
    <3> QED
      BY <3>2, <3>3, <3>5 DEF Reached
  <2>2. CASE At(q, "mapped") /\ Unchanged(q) /\ push[q].of = t
    BY <2>2 DEF Unchanged, NotesPrecede
  <2> QED
    BY <1>4, <2>1, <2>2
<1>5. ASSUME note'.of = t, NEW m \in note'.last PROVE Reached(t, m)'
  <2>1. m \in Manifests /\ Reached(t, m)
    BY <1>0, <1>1, <1>2, <1>4, <1>5, NoteSteps DEF NotesPrecede
  <2> QED
    BY <1>3, <2>1
<1>6. ASSUME NEW q \in Pushes, push'[q].of = t, NEW m \in push'[q].last PROVE Reached(t, m)'
  <2>1. (m \in push[q].last /\ push[q].of = t) \/ (m \in note.last /\ note.of = t)
    BY <1>0, <1>6, LastSteps
  <2>2. m \in Manifests /\ Reached(t, m)
    BY <1>1, <1>2, <2>1 DEF NotesPrecede
  <2> QED
    BY <1>3, <2>2
<1> QED
  BY <1>5, <1>6 DEF NotesPrecede

LEMMA OneLiveKept ==
    ASSUME PushInv, [Next]_vars, Calmly, OneLive
    PROVE  OneLive'
<1>1. PushType
  BY DEF PushInv, Types
<1>2. ASSUME NEW q \in Pushes, NEW o \in Pushes, q # o, PushToUnderlayTask(q) PROVE ~Live(o)'
  <2>1. ~Live(o)
    BY <1>2 DEF Calmly
  <2>2. push'[o] = push[o]
    BY <1>1, <1>2, OthersKeep
  <2> QED
    BY <2>1, <2>2 DEF Live
<1>3. ASSUME NEW q \in Pushes, NEW o \in Pushes, Live(q)', Live(o)', q # o PROVE FALSE
  <2>1. /\ Live(q) \/ PushToUnderlayTask(q)
        /\ Live(o) \/ PushToUnderlayTask(o)
    BY <1>3, LiveSteps
  <2>2. ~PushToUnderlayTask(q) /\ ~PushToUnderlayTask(o)
    BY <1>2, <1>3
  <2> QED
    BY <1>3, <2>1, <2>2 DEF OneLive
<1> QED
  BY <1>3 DEF OneLive

\* Edits, what is read, heads and notes are in one order.
Ordered ==
    /\ PubsRows /\ OneLive
    /\ \A q \in Pushes : WorkDone(q) /\ InputsPrecede(q)
    /\ \A t \in Targets :
         /\ HeadPrecedes(t) /\ NotesPrecede(t)
         /\ \A q \in Pushes : SessionInOrder(t, q) /\ HasReached(t, q)

\* The inductive invariant: so it is as long as nothing is undone and no pushes overlap.
OrderInv == VersionInv /\ (spent.harm = {} => Ordered)

LEMMA OrderKept ==
    ASSUME VersionInv, Ordered, [Next]_vars, Calmly
    PROVE  Ordered'
<1>1. PushInv /\ NeverSetBack /\ \A q \in Pushes : CommitsManifest(q)
  BY DEF VersionInv, Calmly
<1>2. PubsRows /\ OneLive /\ \A q \in Pushes : WorkDone(q) /\ InputsPrecede(q)
  BY DEF Ordered
<1>3. PubsRows' /\ OneLive'
  BY <1>1, <1>2, PubsGrow, OneLiveKept
<1>4. ASSUME NEW q \in Pushes PROVE WorkDone(q)' /\ InputsPrecede(q)'
  BY <1>1, <1>2, WorkDoneKept, InputsPrecedeKept
<1>5. ASSUME NEW t \in Targets
      PROVE  /\ HeadPrecedes(t)' /\ NotesPrecede(t)'
             /\ \A q \in Pushes : SessionInOrder(t, q)' /\ HasReached(t, q)'
  <2>1. /\ HeadPrecedes(t) /\ NotesPrecede(t)
        /\ \A q \in Pushes : SessionInOrder(t, q) /\ HasReached(t, q)
    BY DEF Ordered
  <2>2. HeadPrecedes(t)' /\ NotesPrecede(t)'
    BY <1>1, <1>2, <2>1, HeadPrecedesKept, NotesPrecedeKept
  <2>3. ASSUME NEW q \in Pushes PROVE SessionInOrder(t, q)' /\ HasReached(t, q)'
    BY <1>1, <1>2, <1>3, <2>1, SessionInOrderKept, HasReachedKept
  <2> QED
    BY <2>2, <2>3
<1> QED
  BY <1>3, <1>4, <1>5 DEF Ordered

\* A push is recorded as a success, or as without changes, only when the collection
\* holds the pubs that it has read, but for what has no signature, whatever is edited or
\* deleted meanwhile, whichever commits of earlier pushes were given up, were not recorded
\* or still run, and however the community was sent from one collection to another.  Two
\* histories are excepted, and one state: after a facet was set back to what it was, or two
\* pushes overlapped, and where the guard compares with the signature of another collection.
THEOREM PushesAreReportedTruly == Spec => []ReportsAreTrue
<1>1. Init => OrderInv
  <2> SUFFICES ASSUME Init PROVE OrderInv
    OBVIOUS
  <2>1. /\ \A q \in Pushes : push[q] = Idle /\ session[q] = NoSession
        /\ pubs = [p \in Pubs |-> [row |-> InitialRow[p], facet |-> 0, side |-> 0]]
        /\ spent.edits = 0 /\ note.last = {}
        /\ server = [u \in Targets |-> [version |-> 0, head |-> Empty, held |-> {}, kept |-> {}]]
    BY DEF Init
  <2>2. PubsRows
    BY <2>1, PubsAreCounted, BoundsAssumption DEF PubsRows, NextRow
  <2>3. \A t \in Targets : server[t].version = 0
    BY <2>1
  <2>4. \A q \in Pushes : push[q].stage = "idle" /\ push[q].last = {} /\ session[q].status = "none"
    BY <2>1 DEF Idle, NoSession
  <2>5. OneLive /\ \A t \in Targets : HeadPrecedes(t) /\ NotesPrecede(t)
    BY <2>1, <2>3, <2>4 DEF OneLive, Live, HeadPrecedes, NotesPrecede
  <2>6. ASSUME NEW q \in Pushes
        PROVE  /\ WorkDone(q) /\ InputsPrecede(q) /\ CommitsManifest(q)
               /\ \A t \in Targets : SessionInOrder(t, q) /\ HasReached(t, q)
    BY <2>4 DEF WorkDone, PastDrain, InputsPrecede, HasRead, Live, SessionInOrder, HasReached,
       CommitsManifest
  <2> QED
    BY <2>2, <2>5, <2>6, InitPushInv DEF OrderInv, Ordered, VersionInv
<1>2. OrderInv /\ [Next]_vars => OrderInv'
  <2> SUFFICES ASSUME OrderInv, [Next]_vars PROVE OrderInv'
    OBVIOUS
  <2>1. VersionInv'
    BY NextPushInv, CommitsManifestKept DEF OrderInv, VersionInv
  <2>2. ASSUME spent'.harm = {} PROVE Ordered'
    <3>1. Calmly
      BY <2>2, HarmStays DEF OrderInv, VersionInv, PushInv
    <3> QED
      BY <3>1, OrderKept DEF OrderInv, Calmly
  <2> QED
    BY <2>1, <2>2 DEF OrderInv
<1>3. OrderInv => ReportsAreTrue
  <2> SUFFICES ASSUME OrderInv, spent.harm = {}, NEW q \in Pushes,
                      \/ At(q, "mapped") /\ Unchanged(q) /\ push[q].of = push[q].target
                      \/ At(q, "noting")
               PROVE  UpToDate(q)
    BY DEF ReportsAreTrue
  <2>1. PushInv /\ Ordered /\ PushType /\ Types
    BY DEF OrderInv, VersionInv, PushInv, Types
  <2>2. HasRead(q) /\ push[q].stage \in PastDrain
    BY DEF At, HasRead, Live, PastDrain
  <2>3. PICK t \in Targets : t = push[q].target
    BY <2>1, <2>2 DEF HasRead, PushInv, TargetKnown
  <2>4. PICK i \in Manifests, m \in Manifests, h \in Manifests :
          i = push[q].inputs /\ m = push[q].manifest /\ h = server[t].head
    BY <2>1, RowType, HeadType
  <2>5. Same(m, i)
    BY <2>1, <2>2, <2>4 DEF Ordered, WorkDone
  <2>6. server[t].version > 0 /\ Below(i, h)
    <3>1. CASE At(q, "noting")
      BY <2>1, <2>2, <2>3, <2>4, <3>1 DEF At, Ordered, HasReached, Ready, Reached
    <3>2. CASE At(q, "mapped") /\ Unchanged(q) /\ push[q].of = t
      <4>1. server[t].version > 0 /\ Below(m, h)
        BY <2>1, <2>4, <3>2 DEF Unchanged, Ordered, NotesPrecede, Reached
      <4> QED
        BY <2>5, <4>1, SameBelow, BelowBelow
    <3> QED
      BY <2>3, <3>1, <3>2
  <2>7. Below(h, i)
    BY <2>1, <2>2, <2>4, <2>6 DEF Ordered, HeadPrecedes
  <2>8. Same(h, i)
    BY <2>6, <2>7, BelowEachOther
  <2> QED
    BY <2>3, <2>4, <2>8 DEF UpToDate, Same
<1> QED
  BY <1>1, <1>2, <1>3, PTL DEF Spec
============================================================================
