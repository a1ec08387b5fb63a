-------------------------- MODULE DraftStorageProofs --------------------------
(***************************************************************************)
(* Theorems about DraftStorage, for every set of pages, posts and requests *)
(* and every number of edits, freezes and releases, with nothing assumed   *)
(* of who uses a draft while it is frozen: what an overlap spoils is noted *)
(* in harm, and the properties speak of what comes before (Harmless).      *)
(***************************************************************************)
EXTENDS DraftStorage, SequenceTheorems, FiniteSetTheorems, WellFoundedInduction, TLAPS

PageType == [status : {"closed", "loading", "open"}, row : Row \cup {NoRow},
             key : Keys \cup {EmptyKey}, doc : Docs]
PostType == [status : {"idle", "sent", "found"}, historyKey : Keys \cup {EmptyKey},
             doc : Docs, found : Nat, foundKey : Keys \cup {EmptyKey}]
RequestType == [status : {"idle", "asked", "read"}, release : BOOLEAN,
                version : Keys \cup {EmptyKey}, previous : Keys \cup {EmptyKey},
                row : Row \cup {NoRow}, doc : Docs]
ReleaseType == [historyKey : Keys, doc : Docs]
FreezerType == [status : {"idle", "selected", "rowRead", "built", "gathered", "stored"},
                row : Row \cup {NoRow}, key : Keys \cup {EmptyKey}, doc : Docs,
                stepMaps : Docs, stepMapToKey : Keys \cup {EmptyKey}, failed : BOOLEAN,
                runs : 0..MaxFreezes]
Harms == {"unreadEdits", "overtaken", "rowSetBack", "twoRows", "lateRelease"}

StorageTypes ==
    /\ \A k \in DOMAIN changes : changes[k] \in Edits
    /\ rows \in Seq(Row)
    /\ history \in Docs /\ Len(history) <= MaxEdits
    /\ latestKeyAtRecent \in BOOLEAN
    /\ page \in [Pages -> PageType]
    /\ post \in [Posts -> PostType]
    /\ request \in [Requests -> RequestType]
    /\ releases \in Seq(ReleaseType)
    /\ anchors \subseteq [historyKey : Keys, at : Docs]
    /\ freezer \in FreezerType
    /\ frozenTo \in Keys \cup {EmptyKey} /\ unmapped \subseteq Keys /\ harm \subseteq Harms

\* The keys of a draft are those of its history, wherever they have been copied to.
KeysBounded ==
    /\ DOMAIN changes \subseteq 0..Len(history) - 1
    /\ \A i \in DOMAIN rows : rows[i].historyKey < Len(history)
    /\ \A c \in Pages : page[c].key < Len(history) /\ page[c].row.historyKey < Len(history)
    /\ \A p \in Posts : post[p].historyKey < Len(history)
    /\ freezer.row.historyKey < Len(history) /\ freezer.key < Len(history)

\* A post has a key, a request a version; a freeze is of a draft that has changes,
\* until it has their key.
Underway ==
    /\ \A p \in Posts : post[p].status # "idle" => post[p].historyKey >= 0
    /\ \A r \in Requests : request[r].status # "idle" => request[r].version >= 0
    /\ freezer.status \in {"selected", "rowRead"} => DOMAIN changes # {}
    /\ freezer.status \in {"built", "gathered", "stored"} => freezer.key >= 0
    /\ freezer.status = "stored" => rows # <<>>
    /\ freezer.status \notin {"idle", "stored"} => freezer.runs < MaxFreezes

TypeInv == StorageTypes /\ KeysBounded /\ Underway
----------------------------------------------------------------------------
(* What is true until something that the code does not withstand has happened. *)

\* Firebase has the changes after the last freeze, all of them and no others.
FirebaseInv ==
    /\ history \in Docs /\ Len(history) <= MaxEdits
    /\ frozenTo \in EmptyKey..Len(history) - 1
    /\ DOMAIN changes = frozenTo + 1..Len(history) - 1
    /\ \A k \in DOMAIN changes : changes[k] = history[k + 1]

\* What a row, or the absence of one, has to be for a reader that goes on to the
\* changes: nothing is missing between it and what Firebase has.
Serves(row) ==
    \/ row = NoRow /\ frozenTo = EmptyKey
    \/ /\ row \in Row /\ row.historyKey \in frozenTo..Len(history) - 1
       /\ row.doc = HistoryAt(row.historyKey)

\* Where step maps may begin: at a release, or at a wiped key that has none.
MapStarts == {releases[n].historyKey : n \in DOMAIN releases} \cup unmapped

\* The step maps of the edits from such a key up to another.
MapsFrom(maps, to) == \E j \in MapStarts : /\ j <= to
                                           /\ maps = SubSeq(history, j + 2, to + 1)

\* What a row has to be for the freezer that goes on with its step maps: they reach
\* to what Firebase has; or else the latest release does, if there is one, or there
\* is a gap that was noted.
Continues(row) ==
    \/ /\ row.stepMapToKey = EmptyKey /\ row.stepMaps = <<>>
       /\ LatestRelease = EmptyKey \/ frozenTo <= LatestRelease \/ frozenTo \in unmapped
    \/ /\ row.stepMapToKey \in 0..Len(history) - 1 /\ frozenTo <= row.stepMapToKey
       /\ MapsFrom(row.stepMaps, row.stepMapToKey)

\* Before the first wipe there may be several rows, or none.
RowsInv ==
    /\ frozenTo # EmptyKey => Len(rows) = 1
    /\ \A i \in DOMAIN rows : Serves(rows[i]) /\ Continues(rows[i])

PageInv(p) ==
    /\ p.status = "loading" => Serves(p.row)
    /\ p.status = "open" => /\ p.key \in frozenTo..Len(history) - 1
                            /\ p.doc = HistoryAt(p.key)

PostInv(p) ==
    /\ p.status # "idle" => /\ p.historyKey \in 0..Len(history) - 1
                            /\ p.doc = HistoryAt(p.historyKey)
    /\ p.status = "found" => p.found = 0 \/ p.found \in DOMAIN rows

RequestInv(r) ==
    /\ r.status # "idle" => /\ r.version \in 0..Len(history) - 1
                            /\ r.release => r.previous # r.version
                            /\ r.release => r.previous = EmptyKey
                                 \/ \E i \in DOMAIN releases :
                                       releases[i].historyKey = r.previous
    /\ r.status = "asked" => Serves(r.row)
    /\ r.status = "read" /\ (frozenTo = EmptyKey \/ r.version >= r.row.historyKey)
         => r.doc = HistoryAt(r.version)

ReleaseInv(r) == /\ r.historyKey \in 0..Len(history) - 1
                 /\ frozenTo = EmptyKey => r.doc = HistoryAt(r.historyKey)

AnchorsInv == /\ \A a \in anchors : a.historyKey \in 0..Len(history) - 1
              /\ UnfrozenAnchorsHold

\* What a freeze has gathered: none when there is no release before its key, or when
\* it could not; or those up to its key.
GatheredInv ==
    \/ /\ freezer.stepMapToKey = EmptyKey /\ freezer.stepMaps = <<>>
       /\ \/ freezer.failed \/ LatestRelease = EmptyKey \/ freezer.key <= LatestRelease
          \/ harm # {}
    \/ /\ freezer.stepMapToKey = freezer.key
       /\ MapsFrom(freezer.stepMaps, freezer.key)

\* What a freeze has read and built stays true until it wipes Firebase, whatever the
\* others do meanwhile; what it has stored stays in a row that is the only one.
FreezerInv ==
    /\ freezer.status = "rowRead" => Serves(freezer.row)
    /\ freezer.status \in {"selected", "rowRead", "built"} =>
           freezer.stepMapToKey = EmptyKey /\ freezer.stepMaps = <<>>
    /\ freezer.status \in {"built", "gathered", "stored"} =>
           /\ freezer.key \in frozenTo..Len(history) - 1
           /\ freezer.doc = HistoryAt(freezer.key)
    /\ freezer.status = "built" =>
           \A i \in DOMAIN rows : rows[i].stepMapToKey <= freezer.key
    /\ freezer.status \in {"gathered", "stored"} => GatheredInv
    /\ freezer.status = "stored" /\ harm = {} /\ Len(rows) = 1 =>
           /\ rows[1].historyKey >= freezer.key
           /\ rows[1].stepMaps = freezer.stepMaps
           /\ rows[1].stepMapToKey = freezer.stepMapToKey

SoundInv ==
    /\ FirebaseInv /\ RowsInv /\ AnchorsInv /\ FreezerInv
    /\ unmapped \subseteq 0..Len(history) - 1
    /\ \A c \in Pages : PageInv(page[c])
    /\ \A p \in Posts : PostInv(post[p])
    /\ \A r \in Requests : RequestInv(request[r])
    /\ \A i \in DOMAIN releases : ReleaseInv(releases[i])

StorageInv == TypeInv /\ (Harmless => SoundInv)
----------------------------------------------------------------------------
(* Reading: what the queries for changes and for the latest release return.  *)

LEMMA LargestOfInterval ==
  ASSUME NEW a \in Int, NEW b \in Int, NEW d
  PROVE  Largest(a..b, d) = IF a <= b THEN b ELSE d
<1>1. CASE a <= b
  <2>1. b \in a..b /\ \A j \in a..b : j <= b
    BY <1>1
  <2>2. \A k \in a..b : (\A j \in a..b : j <= k) => k = b
    BY <2>1
  <2> QED
    BY <1>1, <2>1, <2>2 DEF Largest
<1>2. CASE ~(a <= b)
  <2>1. a..b = {}
    BY <1>2
  <2> QED
    BY <1>2, <2>1 DEF Largest
<1> QED
  BY <1>1, <1>2

\* A query for changes that exist at the keys a..b, in the order of the keys.
LEMMA StepsOfInterval ==
  ASSUME NEW from, NEW to, NEW a \in Nat, NEW b \in Int, KeysIn(from, to) = a..b,
         history \in Docs, b < Len(history), \A k \in a..b : changes[k] = history[k + 1]
  PROVE  StepsInRange(from, to) = SubSeq(history, a + 1, b + 1)
<1> DEFINE n == IF a > b THEN 0 ELSE b - a + 1
           place(k) == Cardinality({j \in a..b : j <= k})
           keyAt(i) == CHOOSE k \in a..b : place(k) = i
<1>1. Cardinality(a..b) = n /\ n \in Nat
  BY FS_Interval
<1>2. ASSUME NEW k \in a..b
      PROVE  place(k) = k - a + 1
  <2>1. {j \in a..b : j <= k} = a..k
    OBVIOUS
  <2>2. Cardinality(a..k) = k - a + 1
    BY FS_Interval
  <2> QED
    BY <2>1, <2>2
<1>3. StepsInRange(from, to) = [i \in 1..n |-> changes[keyAt(i)]]
  BY <1>1 DEF StepsInRange
<1> HIDE DEF place
<1>4. ASSUME NEW i \in 1..n
      PROVE  keyAt(i) = a + i - 1 /\ a + i - 1 \in a..b
  <2>1. a + i - 1 \in a..b
    OBVIOUS
  <2>2. place(a + i - 1) = i
    BY <1>2, <2>1
  <2>3. \A k \in a..b : place(k) = i => k = a + i - 1
    BY <1>2
  <2> QED
    BY <2>1, <2>2, <2>3
<1> HIDE DEF keyAt
<1>5. ASSUME NEW i \in 1..n
      PROVE  changes[keyAt(i)] = history[a + i] /\ a + i \in 1..Len(history)
  <2>1. changes[a + i - 1] = history[(a + i - 1) + 1]
    BY <1>4
  <2>2. Len(history) \in Nat
    BY DEF Docs
  <2> QED
    BY <1>4, <2>1, <2>2
<1>6. \A i \in 1..n : history[a + i] \in Edits
  BY <1>5, ElementOfSeq DEF Docs
<1>7. StepsInRange(from, to) = [i \in 1..n |-> history[a + i]]
  BY <1>3, <1>5
<1> DEFINE f == [i \in 1..n |-> history[a + i]]
<1>8. f \in Seq(Edits) /\ Len(f) = n
  BY <1>1, <1>6, IsASeq
<1>9. \A i \in a + 1..b + 1 : history[i] \in Edits
  BY ElementOfSeq DEF Docs
<1>10. /\ SubSeq(history, a + 1, b + 1) \in Seq(Edits)
       /\ Len(SubSeq(history, a + 1, b + 1)) = n
       /\ \A i \in 1..n : SubSeq(history, a + 1, b + 1)[i] = history[a + i]
  BY <1>9, SubSeqProperties
<1>11. f = SubSeq(history, a + 1, b + 1)
  BY <1>8, <1>10, SeqEqual
<1> QED
  BY <1>7, <1>11

\* What Firebase returns for a range of keys: those of its changes that are in it.
First(from) == IF from <= frozenTo THEN frozenTo + 1 ELSE from
Last(to) == IF to < Len(history) THEN to ELSE Len(history) - 1

LEMMA FirebaseReads ==
  ASSUME FirebaseInv, NEW from \in Int, NEW to \in Int
  PROVE  /\ KeysIn(from, to) = First(from)..Last(to)
         /\ from >= 0 => StepsInRange(from, to) = SubSeq(history, First(from) + 1, Last(to) + 1)
         /\ from >= 0 => StepsInRange(from, to) \in Docs
<1>1. Len(history) \in Nat /\ frozenTo \in Int /\ frozenTo >= -1
  BY DEF FirebaseInv, Docs, EmptyKey
<1>2. KeysIn(from, to) = First(from)..Last(to)
  BY <1>1 DEF FirebaseInv, KeysIn, First, Last
<1>3. First(from) \in Int /\ Last(to) \in Int /\ Last(to) < Len(history)
  BY <1>1 DEF First, Last
<1>4. \A k \in First(from)..Last(to) : changes[k] = history[k + 1]
  BY <1>2 DEF FirebaseInv, KeysIn
<1>5. ASSUME from >= 0
      PROVE  /\ StepsInRange(from, to) = SubSeq(history, First(from) + 1, Last(to) + 1)
             /\ StepsInRange(from, to) \in Docs
  <2>1. First(from) \in Nat
    BY <1>1, <1>5 DEF First
  <2>2. StepsInRange(from, to) = SubSeq(history, First(from) + 1, Last(to) + 1)
    <3>1. history \in Docs
      BY DEF FirebaseInv
    <3>2. \A a \in Nat, b \in Int :
             /\ KeysIn(from, to) = a..b /\ b < Len(history)
             /\ \A k \in a..b : changes[k] = history[k + 1]
             => StepsInRange(from, to) = SubSeq(history, a + 1, b + 1)
      BY <3>1, StepsOfInterval
    <3> QED
      BY <1>2, <1>3, <1>4, <2>1, <3>2
  <2>3. \A i \in First(from) + 1..Last(to) + 1 : i \in 1..Len(history)
    BY <1>3, <2>1, <1>1
  <2>4. \A i \in First(from) + 1..Last(to) + 1 : history[i] \in Edits
    BY <2>3, ElementOfSeq DEF FirebaseInv, Docs
  <2>5. SubSeq(history, First(from) + 1, Last(to) + 1) \in Seq(Edits)
    BY <1>3, <2>4, SubSeqProperties
  <2> QED
    BY <2>2, <2>5 DEF Docs
<1> QED
  BY <1>2, <1>5

LEMMA StepsAfter ==
  ASSUME FirebaseInv, NEW from \in Int, frozenTo < from
  PROVE  /\ \A to \in Int : to < Len(history) =>
              StepsInRange(from, to) = SubSeq(history, from + 1, to + 1)
         /\ StepsInRange(from, Latest) = SubSeq(history, from + 1, Len(history))
<1>1. Len(history) \in Nat /\ frozenTo \in Int /\ from >= 0 /\ Len(history) <= MaxEdits
  BY DEF FirebaseInv, Docs, EmptyKey
<1>2. First(from) = from
  BY <1>1 DEF First
<1>3. ASSUME NEW to \in Int, to < Len(history)
      PROVE  StepsInRange(from, to) = SubSeq(history, from + 1, to + 1)
  <2>1. Last(to) = to
    BY <1>3 DEF Last
  <2> QED
    BY <1>1, <1>2, <2>1, FirebaseReads
<1>4. Latest \in Int /\ Last(Latest) = Len(history) - 1
  BY <1>1, BoundsAssumption DEF Last, Latest
<1>5. StepsInRange(from, Latest) = SubSeq(history, from + 1, (Len(history) - 1) + 1)
  BY <1>1, <1>2, <1>4, FirebaseReads
<1>6. (Len(history) - 1) + 1 = Len(history)
  BY <1>1
<1> QED
  BY <1>3, <1>5, <1>6

\* The document of a key, and the edits after it.
LEMMA HistoryJoins ==
  ASSUME history \in Docs, NEW k \in Int, -1 <= k, NEW j \in Int, k <= j, j < Len(history)
  PROVE  /\ HistoryAt(k) \o SubSeq(history, k + 2, j + 1) = HistoryAt(j)
         /\ HistoryAt(k) \in Docs /\ Len(HistoryAt(k)) = k + 1
<1>1. Len(history) \in Nat /\ history \in Seq(Edits)
  BY DEF Docs
<1>2. 1 \in 1..Len(history) + 1 /\ k + 1 \in 0..Len(history) /\ j + 1 \in k + 1..Len(history)
  BY <1>1
<1>3. SubSeq(history, 1, k + 1) \o SubSeq(history, (k + 1) + 1, j + 1)
        = SubSeq(history, 1, j + 1)
  BY <1>1, <1>2, ConcatAdjacentSubSeq
<1>4. (k + 1) + 1 = k + 2
  OBVIOUS
<1>5. \A i \in 1..k + 1 : i \in 1..Len(history) /\ history[i] \in Edits
  BY <1>1, <1>2, ElementOfSeq
<1>6. SubSeq(history, 1, k + 1) \in Seq(Edits) /\ Len(SubSeq(history, 1, k + 1)) = k + 1
  BY <1>5, SubSeqProperties
<1> QED
  BY <1>3, <1>4, <1>6 DEF HistoryAt, Docs

LEMMA HistoryWhole ==
  ASSUME history \in Docs
  PROVE  HistoryAt(Len(history) - 1) = history
<1>1. Len(history) \in Nat /\ history \in Seq(Edits)
  BY DEF Docs
<1>2. (Len(history) - 1) + 1 = Len(history)
  BY <1>1
<1>3. SubSeq(history, 1, Len(history)) = history
  BY <1>1, SubSeqFull
<1> QED
  BY <1>2, <1>3 DEF HistoryAt

LEMMA RowIsNotNone ==
  ASSUME NEW row \in Row
  PROVE  row # NoRow
BY DEF Row, Keys, NoRow, EmptyKey

\* What a reader is given that has read the row, or none, and goes on to the changes.
LEMMA LatestIsRead ==
  ASSUME FirebaseInv, NEW row, Serves(row)
  PROVE  /\ DraftDoc(row, Latest).doc = history
         /\ DraftDoc(row, Latest).key = Len(history) - 1
<1>1. Len(history) \in Nat /\ frozenTo \in Int /\ Len(history) <= MaxEdits /\ history \in Docs
  BY DEF FirebaseInv, Docs, EmptyKey
<1>2. Latest \in Int /\ Last(Latest) = Len(history) - 1
  BY <1>1, BoundsAssumption DEF Last, Latest
<1>3. CASE row = NoRow /\ frozenTo = EmptyKey
  <2>1. DraftDoc(row, Latest) = FirebaseDoc(Latest)
    BY <1>3 DEF DraftDoc, RowServes
  <2>2. StepsInRange(0, Latest) = SubSeq(history, 0 + 1, Len(history))
    BY <1>3, <1>1, StepsAfter DEF EmptyKey
  <2>3. StepsInRange(0, Latest) = history
    BY <2>2, <1>1, SubSeqFull DEF Docs
  <2>4. KeysIn(0, Latest) = 0..Len(history) - 1
    BY <1>1, <1>2, <1>3, FirebaseReads DEF First, EmptyKey
  <2>5. Largest(KeysIn(0, Latest), EmptyKey) = Len(history) - 1
    BY <1>1, <2>4, LargestOfInterval DEF EmptyKey
  <2> QED
    BY <2>1, <2>3, <2>5 DEF FirebaseDoc
<1>4. CASE row \in Row /\ row.historyKey \in frozenTo..Len(history) - 1
           /\ row.doc = HistoryAt(row.historyKey)
  <2>1. PICK k \in Int : k = row.historyKey /\ 0 <= k /\ frozenTo <= k /\ k < Len(history)
    BY <1>1, <1>4 DEF Row, Keys
  <2>2. Latest >= k /\ row # NoRow
    <3>1. MaxEdits \in Nat /\ k <= MaxEdits
      BY <1>1, <2>1, BoundsAssumption
    <3> QED
      BY <1>4, <3>1, RowIsNotNone DEF Latest
  <2>3. DraftDoc(row, Latest) = OnCheckpoint(row, Latest)
    BY <2>1, <2>2 DEF DraftDoc, RowServes
  <2>4. StepsInRange(k + 1, Latest) = SubSeq(history, (k + 1) + 1, Len(history))
    <3>1. PICK n \in Int : n = k + 1
      BY <2>1
    <3>2. frozenTo < n /\ 0 <= n
      BY <1>1, <2>1, <3>1
    <3>3. StepsInRange(n, Latest) = SubSeq(history, n + 1, Len(history))
      BY <1>1, <3>1, <3>2, StepsAfter
    <3> QED
      BY <3>1, <3>3
  <2>5. (k + 1) + 1 = k + 2 /\ (Len(history) - 1) + 1 = Len(history)
    BY <1>1, <2>1
  <2>6. HistoryAt(k) \o StepsInRange(k + 1, Latest) = history
    <3> DEFINE j == Len(history) - 1
    <3>1. j \in Int /\ k <= j /\ j < Len(history) /\ -1 <= k
      BY <1>1, <2>1
    <3>2. history \in Docs
      BY <1>1
    <3> HIDE DEF j
    <3>3. HistoryAt(k) \o SubSeq(history, k + 2, j + 1) = HistoryAt(j)
      BY ONLY <2>1, <3>1, <3>2, HistoryJoins
    <3> USE DEF j
    <3> QED
      BY <1>1, <2>4, <2>5, <3>3, HistoryWhole
  <2>7. KeysIn(k + 1, Latest) = k + 1..Len(history) - 1
    BY <1>1, <1>2, <2>1, FirebaseReads DEF First
  <2>8. Largest(KeysIn(k + 1, Latest), k) = Len(history) - 1
    BY <1>1, <2>1, <2>7, LargestOfInterval
  <2> QED
    BY <1>4, <2>1, <2>3, <2>6, <2>8 DEF OnCheckpoint
<1> QED
  BY <1>3, <1>4 DEF Serves

LEMMA VersionIsRead ==
  ASSUME FirebaseInv, NEW row, Serves(row), NEW version \in 0..Len(history) - 1
  PROVE  /\ DraftDoc(row, version).doc \in Docs
         /\ frozenTo = EmptyKey \/ version >= row.historyKey
              => DraftDoc(row, version).doc = HistoryAt(version)
<1>1. Len(history) \in Nat /\ frozenTo \in Int /\ history \in Docs
  BY DEF FirebaseInv, Docs, EmptyKey
<1>2. CASE ~RowServes(row, version)
  <2>1. DraftDoc(row, version).doc = StepsInRange(0, version)
    BY <1>2 DEF DraftDoc, FirebaseDoc
  <2>2. StepsInRange(0, version) \in Docs
    BY <1>1, FirebaseReads
  <2>3. ASSUME frozenTo = EmptyKey
        PROVE  DraftDoc(row, version).doc = HistoryAt(version)
    <3>1. frozenTo < 0 /\ version \in Int /\ version < Len(history)
      BY <1>1, <2>3 DEF EmptyKey
    <3>2. StepsInRange(0, version) = SubSeq(history, 0 + 1, version + 1)
      BY <3>1, StepsAfter
    <3> QED
      BY <2>1, <3>2 DEF HistoryAt
  <2>4. version >= row.historyKey => frozenTo = EmptyKey
    BY <1>2, RowIsNotNone DEF Serves, RowServes
  <2> QED
    BY <2>1, <2>2, <2>3, <2>4
<1>3. CASE RowServes(row, version)
  <2>1. PICK k \in Int : /\ k = row.historyKey /\ 0 <= k /\ frozenTo <= k
                         /\ k < Len(history) /\ k <= version /\ row.doc = HistoryAt(k)
    BY <1>1, <1>3 DEF Serves, RowServes, Row, Keys
  <2>2. DraftDoc(row, version).doc = HistoryAt(k) \o StepsInRange(k + 1, version)
    BY <1>3, <2>1 DEF DraftDoc, OnCheckpoint
  <2>3. StepsInRange(k + 1, version) = SubSeq(history, (k + 1) + 1, version + 1)
    <3>1. frozenTo < k + 1 /\ version \in Int /\ version < Len(history) /\ k + 1 \in Int
      BY <1>1, <2>1
    <3> QED
      BY <3>1, StepsAfter
  <2>4. (k + 1) + 1 = k + 2
    BY <2>1
  <2>5. HistoryAt(k) \o StepsInRange(k + 1, version) = HistoryAt(version)
    <3>1. -1 <= k /\ version \in Int /\ version < Len(history)
      BY <1>1, <2>1
    <3>2. HistoryAt(k) \o SubSeq(history, k + 2, version + 1) = HistoryAt(version)
      BY <1>1, <2>1, <3>1, HistoryJoins
    <3> QED
      BY <2>3, <2>4, <3>2
  <2>6. HistoryAt(version) \in Docs
    BY <1>1, HistoryJoins
  <2> QED
    BY <2>2, <2>5, <2>6
<1> QED
  BY <1>2, <1>3
----------------------------------------------------------------------------
(* Keys and documents, for any changes that Firebase may hold, gaps included. *)

LEMMA LargestIsMember ==
  ASSUME NEW n \in Nat, NEW S \in SUBSET (0..n), S # {}
  PROVE  \E x \in S : \A y \in S : y <= x
<1> DEFINE T == {x \in 0..n : n - x \in S}
<1>1. \A y \in S : n - y \in T /\ n - (n - y) = y
  OBVIOUS
<1>2. T \subseteq Nat
  OBVIOUS
<1>3. \E t : t \in T
  <2>1. PICK y \in S : TRUE
    OBVIOUS
  <2>2. n - y \in T
    BY <1>1
  <2> HIDE DEF T
  <2> QED
    BY <2>2
<1>4. PICK m \in T : \A t \in T : <<t, m>> \notin OpToRel(<, Nat)
  <2> HIDE DEF T
  <2>1. T # {}
    BY <1>3
  <2> QED
    BY <1>2, <2>1, NatLessThanWellFounded, WFMin, Zenon
<1>5. \A t \in T : ~(t < m)
  <2> HIDE DEF T
  <2> QED
    BY <1>2, <1>4 DEF OpToRel
<1>6. n - m \in S /\ m \in 0..n
  BY <1>4
<1>7. ASSUME NEW y \in S
      PROVE  y <= n - m
  <2>1. ~(n - y < m) /\ y \in 0..n
    BY <1>1, <1>5
  <2> QED
    BY <1>6, <2>1
<1> QED
  BY <1>6, <1>7

LEMMA LargestOfReleases ==
  ASSUME NEW rs \in Seq(ReleaseType), NEW latest,
         latest = Largest({rs[i].historyKey : i \in DOMAIN rs}, EmptyKey)
  PROVE  /\ latest \in Keys \cup {EmptyKey}
         /\ latest # EmptyKey => \E i \in DOMAIN rs : rs[i].historyKey = latest
         /\ \A i \in DOMAIN rs : rs[i].historyKey <= latest
<1> DEFINE S == {rs[i].historyKey : i \in DOMAIN rs}
<1>1. \A i \in DOMAIN rs : rs[i].historyKey \in Keys
  <2>1. \A i \in DOMAIN rs : rs[i] \in ReleaseType
    OBVIOUS
  <2> QED
    BY <2>1 DEF ReleaseType
<1>2. CASE S = {}
  <2>1. latest = EmptyKey /\ \A i \in DOMAIN rs : FALSE
    BY <1>2 DEF Largest
  <2> QED
    BY <2>1
<1>3. CASE S # {}
  <2>1. S \in SUBSET (0..MaxEdits) /\ MaxEdits \in Nat
    BY <1>1, BoundsAssumption DEF Keys
  <2>2. \E x \in S : \A y \in S : y <= x
    BY <1>3, <2>1, LargestIsMember
  <2>3. latest = CHOOSE k \in S : \A j \in S : j <= k
    BY <1>3 DEF Largest
  <2>4. latest \in S /\ \A y \in S : y <= latest
    BY <2>2, <2>3
  <2> QED
    BY <1>1, <2>4
<1> QED
  BY <1>2, <1>3

\* In a finite set of keys there is one with exactly i keys up to it.
LEMMA RankIsReached ==
  ASSUME NEW S \in SUBSET Nat, IsFiniteSet(S), NEW n, n = Cardinality(S), NEW i \in 1..n
  PROVE  \E k \in S : Cardinality({j \in S : j <= k}) = i
<1> DEFINE Upto(k) == {j \in S : j <= k}
           rank == [k \in S |-> Cardinality(Upto(k))]
<1>1. n \in Nat
  BY FS_CardinalityType
<1>2. ASSUME NEW k \in S
      PROVE  IsFiniteSet(Upto(k)) /\ Cardinality(Upto(k)) \in 1..n
  <2>1. Upto(k) \in SUBSET S
    OBVIOUS
  <2>2. IsFiniteSet(Upto(k)) /\ Cardinality(Upto(k)) <= n
    BY <2>1, FS_Subset
  <2>3. Cardinality(Upto(k)) \in Nat
    BY <2>2, FS_CardinalityType
  <2>4. k \in Upto(k)
    OBVIOUS
  <2>5. Cardinality(Upto(k)) # 0
    BY <2>2, <2>4, FS_EmptySet
  <2> HIDE DEF Upto
  <2> QED
    BY <1>1, <2>2, <2>3, <2>5
<1>3. ASSUME NEW a \in S, NEW b \in S, a < b
      PROVE  Cardinality(Upto(a)) # Cardinality(Upto(b))
  <2>0. a \in Nat /\ b \in Nat /\ (\A j \in S : j \in Nat)
    OBVIOUS
  <2>1. Upto(a) \in SUBSET Upto(b) /\ b \in Upto(b) /\ b \notin Upto(a)
    <3>1. \A j \in S : j <= a => j <= b
      BY <1>3, <2>0
    <3>2. b <= b /\ ~(b <= a)
      BY <1>3, <2>0
    <3> QED
      BY <3>1, <3>2
  <2>2. IsFiniteSet(Upto(b))
    BY <1>2
  <2>3. Upto(a) # Upto(b)
    BY <2>1
  <2> HIDE DEF Upto
  <2> QED
    BY <2>1, <2>2, <2>3, FS_Subset
<1>4. rank \in Injection(S, 1..n)
  <2>1. rank \in [S -> 1..n]
    BY <1>2
  <2>2. \A a, b \in S : a = b \/ a < b \/ b < a
    OBVIOUS
  <2>3. \A a, b \in S : Cardinality(Upto(a)) = Cardinality(Upto(b)) => a = b
    <3> HIDE DEF Upto
    <3> QED
      BY <1>3, <2>2
  <2>4. IsInjective(rank)
    <3> HIDE DEF Upto
    <3> QED
      BY <2>3 DEF IsInjective
  <2> QED
    BY <2>1, <2>4 DEF Injection
<1>5. IsFiniteSet(1..n) /\ Cardinality(1..n) = n
  <2>1. 1 \in Int /\ n \in Int
    BY <1>1
  <2>2. /\ IsFiniteSet(1..n)
        /\ Cardinality(1..n) = IF 1 > n THEN 0 ELSE n - 1 + 1
    BY <2>1, FS_Interval
  <2> QED
    BY <1>1, <2>2
<1>6. rank \in Surjection(S, 1..n)
  <2> HIDE DEF rank
  <2> QED
    BY <1>4, <1>5, FS_Injection
<1>7. PICK k \in S : rank[k] = i
  <2> HIDE DEF rank
  <2> QED
    BY <1>6 DEF Surjection
<1> QED
  BY <1>7

\* A query returns edits.
LEMMA StepsAreDocs ==
  ASSUME StorageTypes, KeysBounded, NEW from, NEW to
  PROVE  StepsInRange(from, to) \in Docs
<1> DEFINE keys == KeysIn(from, to)
           n == Cardinality(keys)
           keyAt(i) == CHOOSE k \in keys : Cardinality({j \in keys : j <= k}) = i
<1>1. Len(history) \in Nat
  BY DEF StorageTypes, Docs
<1>2. \A k \in DOMAIN changes : k \in 0..Len(history)
  <2>1. \A k \in DOMAIN changes : k \in Nat /\ k < Len(history)
    BY <1>1 DEF KeysBounded
  <2> QED
    BY <1>1, <2>1
<1>3. keys \in SUBSET Nat /\ IsFiniteSet(keys)
  <2>1. keys \in SUBSET (0..Len(history))
    BY <1>2 DEF KeysIn
  <2>2. IsFiniteSet(0..Len(history))
    <3>1. 0 \in Int /\ Len(history) \in Int
      BY <1>1
    <3> QED
      BY <3>1, FS_Interval
  <2>3. IsFiniteSet(keys)
    <3> HIDE DEF keys
    <3> QED
      BY <2>1, <2>2, FS_Subset
  <2> QED
    BY <1>1, <2>1, <2>3
<1>4. n \in Nat
  <2> HIDE DEF keys
  <2> QED
    BY <1>3, FS_CardinalityType
<1>5. \A i \in 1..n : keyAt(i) \in keys
  <2> HIDE DEF keys
  <2>1. \A i \in 1..n : \E k \in keys : Cardinality({j \in keys : j <= k}) = i
    BY <1>3, RankIsReached
  <2> QED
    BY <2>1
<1>6. \A i \in 1..n : changes[keyAt(i)] \in Edits
  <2>1. keys \subseteq DOMAIN changes
    BY DEF KeysIn
  <2> HIDE DEF keys, n, keyAt
  <2> QED
    BY <1>5, <2>1 DEF StorageTypes
<1>7. StepsInRange(from, to) = [i \in 1..n |-> changes[keyAt(i)]]
  BY DEF StepsInRange
<1> HIDE DEF keys, n, keyAt
<1>8. [i \in 1..n |-> changes[keyAt(i)]] \in Seq(Edits)
  BY <1>4, <1>6, IsASeq
<1> QED
  BY <1>7, <1>8 DEF Docs
----------------------------------------------------------------------------
(* Edits and releases are added and never taken away, so that what holds of  *)
(* a copy of a row, a page or a request goes on to hold until Firebase is    *)
(* wiped.                                                                    *)

Grows ==
    /\ UNCHANGED frozenTo
    /\ history' \in Docs /\ Len(history) <= Len(history')
    /\ \A i \in 1..Len(history) + 1, j \in 0..Len(history) :
          SubSeq(history', i, j) = SubSeq(history, i, j)

ReleasesGrow ==
    /\ \A i \in DOMAIN releases : i \in DOMAIN releases' /\ releases'[i] = releases[i]
    /\ unmapped \subseteq unmapped'

LEMMA SameGrows ==
  ASSUME history \in Docs, UNCHANGED <<history, frozenTo>>
  PROVE  Grows
BY DEF Grows, Docs

LEMMA AppendGrows ==
  ASSUME history \in Docs, NEW e \in Edits, history' = Append(history, e), UNCHANGED frozenTo
  PROVE  Grows
<1>1. history \in Seq(Edits) /\ <<e>> \in Seq(Edits) /\ history' = history \o <<e>>
  BY AppendIsConcat DEF Docs
<1>2. Len(history) \in Nat /\ Len(history') = Len(history) + 1 /\ history' \in Seq(Edits)
  BY AppendProperties DEF Docs
<1>3. ASSUME NEW i \in 1..Len(history) + 1, NEW j \in 0..Len(history)
      PROVE  SubSeq(history', i, j) = SubSeq(history, i, j)
  <2>1. CASE i <= j
    <3>1. i \in 1..Len(history) /\ j \in 1..Len(history)
      BY <1>2, <2>1
    <3> QED
      BY <1>1, <3>1, SubSeqOfConcat1
  <2>2. CASE j < i
    BY <1>2, <2>2, SubSeqEmpty
  <2> QED
    BY <1>2, <2>1, <2>2
<1> QED
  BY <1>2, <1>3 DEF Grows, Docs

LEMMA HistoryStays ==
  ASSUME FirebaseInv, Grows
  PROVE  \A k \in -1..Len(history) - 1 : HistoryAt(k)' = HistoryAt(k)
<1>1. Len(history) \in Nat
  BY DEF FirebaseInv, Docs
<1> QED
  BY <1>1 DEF Grows, HistoryAt

LEMMA ServesStays ==
  ASSUME FirebaseInv, Grows
  PROVE  \A row : Serves(row) => Serves(row)'
<1>1. Len(history) \in Nat /\ Len(history') \in Nat /\ frozenTo \in Int /\ frozenTo >= -1
  BY DEF FirebaseInv, Docs, Grows, EmptyKey
<1> SUFFICES ASSUME NEW row, Serves(row) PROVE Serves(row)'
  OBVIOUS
<1>2. CASE row = NoRow /\ frozenTo = EmptyKey
  BY <1>2 DEF Serves, Grows
<1>3. CASE row \in Row /\ row.historyKey \in frozenTo..Len(history) - 1
           /\ row.doc = HistoryAt(row.historyKey)
  <2>1. row.historyKey \in -1..Len(history) - 1 /\ row.historyKey \in frozenTo..Len(history') - 1
    BY <1>1, <1>3 DEF Grows
  <2>2. HistoryAt(row.historyKey)' = HistoryAt(row.historyKey)
    BY <2>1, HistoryStays
  <2> QED
    BY <1>3, <2>1, <2>2 DEF Serves, Grows
<1> QED
  BY <1>2, <1>3 DEF Serves

LEMMA PagesStay ==
  ASSUME FirebaseInv, Grows
  PROVE  \A p : PageInv(p) => PageInv(p)'
<1>1. Len(history) \in Nat /\ Len(history') \in Nat /\ frozenTo \in Int /\ frozenTo >= -1
  BY DEF FirebaseInv, Docs, Grows, EmptyKey
<1> SUFFICES ASSUME NEW p, PageInv(p) PROVE PageInv(p)'
  OBVIOUS
<1>2. p.status = "loading" => Serves(p.row)'
  BY ServesStays DEF PageInv
<1>3. ASSUME p.status = "open"
      PROVE  p.key \in frozenTo'..Len(history') - 1 /\ p.doc = HistoryAt(p.key)'
  <2>1. p.key \in -1..Len(history) - 1 /\ p.key \in frozenTo..Len(history') - 1
    BY <1>1, <1>3 DEF PageInv, Grows
  <2> QED
    BY <1>3, <2>1, HistoryStays DEF PageInv, Grows
<1> QED
  BY <1>2, <1>3 DEF PageInv

LEMMA RequestsStay ==
  ASSUME FirebaseInv, Grows, ReleasesGrow
  PROVE  \A r : RequestInv(r) => RequestInv(r)'
<1>1. Len(history) \in Nat /\ Len(history') \in Nat
  BY DEF FirebaseInv, Docs, Grows
<1> SUFFICES ASSUME NEW r, RequestInv(r) PROVE RequestInv(r)'
  OBVIOUS
<1>2. ASSUME r.status # "idle"
      PROVE  r.version \in -1..Len(history) - 1 /\ r.version \in 0..Len(history') - 1
  BY <1>1, <1>2 DEF RequestInv, Grows
<1>3. r.status = "asked" => Serves(r.row)'
  BY ServesStays DEF RequestInv
<1>4. r.status # "idle" => HistoryAt(r.version)' = HistoryAt(r.version)
  BY <1>2, HistoryStays
<1>5. (\E i \in DOMAIN releases : releases[i].historyKey = r.previous)
        => \E i \in DOMAIN releases' : releases'[i].historyKey = r.previous
  BY DEF ReleasesGrow
<1>6. r.status = "read" => r.status # "idle"
  OBVIOUS
<1> QED
  BY <1>2, <1>3, <1>4, <1>5, <1>6 DEF RequestInv, Grows

LEMMA PostsStay ==
  ASSUME FirebaseInv, Grows, DOMAIN rows \subseteq DOMAIN rows'
  PROVE  \A p : PostInv(p) => PostInv(p)'
<1>1. Len(history) \in Nat /\ Len(history') \in Nat
  BY DEF FirebaseInv, Docs, Grows
<1> SUFFICES ASSUME NEW p, PostInv(p) PROVE PostInv(p)'
  OBVIOUS
<1>2. ASSUME p.status # "idle"
      PROVE  p.historyKey \in 0..Len(history') - 1 /\ p.doc = HistoryAt(p.historyKey)'
  <2>1. p.historyKey \in -1..Len(history) - 1 /\ p.historyKey \in 0..Len(history') - 1
    BY <1>1, <1>2 DEF PostInv, Grows
  <2> QED
    BY <1>2, <2>1, HistoryStays DEF PostInv
<1> QED
  BY <1>2 DEF PostInv

LEMMA ReleasesStay ==
  ASSUME FirebaseInv, Grows
  PROVE  \A r : ReleaseInv(r) => ReleaseInv(r)'
<1>1. Len(history) \in Nat /\ Len(history') \in Nat
  BY DEF FirebaseInv, Docs, Grows
<1> SUFFICES ASSUME NEW r, ReleaseInv(r) PROVE ReleaseInv(r)'
  OBVIOUS
<1>2. r.historyKey \in -1..Len(history) - 1 /\ r.historyKey \in 0..Len(history') - 1
  BY <1>1 DEF ReleaseInv, Grows
<1> QED
  BY <1>2, HistoryStays DEF ReleaseInv, Grows

\* Every key at which step maps may begin is a key of the history.
StartsInv == /\ \A i \in DOMAIN releases : ReleaseInv(releases[i])
             /\ unmapped \subseteq 0..Len(history) - 1

LEMMA StartsAreKeys ==
  ASSUME StartsInv
  PROVE  \A j \in MapStarts : j \in 0..Len(history) - 1
BY DEF StartsInv, MapStarts, ReleaseInv

LEMMA MapsStay ==
  ASSUME FirebaseInv, Grows, ReleasesGrow, StartsInv, NEW maps,
         NEW to \in -1..Len(history) - 1, MapsFrom(maps, to)
  PROVE  MapsFrom(maps, to)'
<1>1. Len(history) \in Nat
  BY DEF FirebaseInv, Docs
<1>2. PICK j \in MapStarts : j <= to /\ maps = SubSeq(history, j + 2, to + 1)
  BY DEF MapsFrom
<1>3. j \in 0..Len(history) - 1
  BY StartsAreKeys
<1>4. j + 2 \in 1..Len(history) + 1 /\ to + 1 \in 0..Len(history)
  BY <1>1, <1>3
<1>5. SubSeq(history', j + 2, to + 1) = maps
  BY <1>2, <1>4 DEF Grows
<1>6. j \in MapStarts'
  BY DEF ReleasesGrow, MapStarts
<1> QED
  BY <1>2, <1>5, <1>6 DEF MapsFrom

LEMMA AnchorsStay ==
  ASSUME FirebaseInv, Grows, UNCHANGED <<anchors, releases>>, AnchorsInv
  PROVE  AnchorsInv'
<1>1. Len(history) \in Nat /\ Len(history') \in Nat
  BY DEF FirebaseInv, Docs, Grows
<1>2. \A a \in anchors : /\ a.historyKey \in -1..Len(history) - 1
                         /\ a.historyKey \in 0..Len(history') - 1
  BY <1>1 DEF AnchorsInv, Grows
<1>3. \A a \in anchors : HistoryAt(a.historyKey)' = HistoryAt(a.historyKey)
  BY <1>2, HistoryStays
<1>4. UnfrozenAnchorsHold'
  BY <1>3 DEF AnchorsInv, UnfrozenAnchorsHold, AnchorsHold, ReleasesInOrder, Grows
<1> QED
  BY <1>2, <1>4 DEF AnchorsInv
----------------------------------------------------------------------------
(* The latest release, and what goes on to hold of the rows and the freezer. *)

LEMMA LatestIsLargest ==
  ASSUME StorageTypes
  PROVE  /\ LatestRelease \in Keys \cup {EmptyKey}
         /\ LatestRelease # EmptyKey =>
              \E i \in DOMAIN releases : releases[i].historyKey = LatestRelease
<1>1. PICK rs \in Seq(ReleaseType) : rs = releases
  BY DEF StorageTypes
<1>2. PICK latest : latest = Largest({rs[i].historyKey : i \in DOMAIN rs}, EmptyKey)
  OBVIOUS
<1>3. latest = LatestRelease
  BY <1>1, <1>2 DEF LatestRelease
<1>4. /\ latest \in Keys \cup {EmptyKey}
      /\ latest # EmptyKey => \E i \in DOMAIN rs : rs[i].historyKey = latest
  BY <1>2, LargestOfReleases
<1> QED
  BY <1>1, <1>3, <1>4

\* The latest release is still beyond what was wiped, if it was.
LatestStays == \/ UNCHANGED releases
               \/ frozenTo = EmptyKey /\ LatestRelease' \in Keys \cup {EmptyKey}
               \/ frozenTo <= LatestRelease'

LEMMA ContinuesStays ==
  ASSUME FirebaseInv, Grows, ReleasesGrow, StartsInv, LatestStays
  PROVE  \A row : Continues(row) => Continues(row)'
<1>1. Len(history) \in Nat /\ Len(history') \in Nat /\ frozenTo \in Int
  BY DEF FirebaseInv, Docs, Grows, EmptyKey
<1> SUFFICES ASSUME NEW row, Continues(row) PROVE Continues(row)'
  OBVIOUS
<1>2. CASE /\ row.stepMapToKey = EmptyKey /\ row.stepMaps = <<>>
           /\ LatestRelease = EmptyKey \/ frozenTo <= LatestRelease \/ frozenTo \in unmapped
  <2>1. UNCHANGED releases => LatestRelease' = LatestRelease
    BY DEF LatestRelease
  <2>2. \A l \in Keys \cup {EmptyKey} : frozenTo = EmptyKey => frozenTo <= l
    BY BoundsAssumption DEF Keys, EmptyKey
  <2>3. frozenTo' = frozenTo /\ unmapped \subseteq unmapped'
    BY DEF Grows, ReleasesGrow
  <2>4. LatestRelease' = EmptyKey \/ frozenTo' <= LatestRelease' \/ frozenTo' \in unmapped'
    BY <1>2, <2>1, <2>2, <2>3 DEF LatestStays
  <2> QED
    BY <1>2, <2>4 DEF Continues
<1>3. CASE /\ row.stepMapToKey \in 0..Len(history) - 1 /\ frozenTo <= row.stepMapToKey
           /\ MapsFrom(row.stepMaps, row.stepMapToKey)
  <2>1. PICK maps, to : maps = row.stepMaps /\ to = row.stepMapToKey
    OBVIOUS
  <2>2. to \in -1..Len(history) - 1 /\ to \in 0..Len(history') - 1
    BY <1>1, <1>3, <2>1 DEF Grows
  <2>3. MapsFrom(maps, to)'
    BY <1>3, <2>1, <2>2, MapsStay
  <2> QED
    BY <1>3, <2>1, <2>2, <2>3 DEF Continues, Grows
<1> QED
  BY <1>2, <1>3 DEF Continues

LEMMA RowsStay ==
  ASSUME FirebaseInv, RowsInv, Grows, ReleasesGrow, UNCHANGED rows, StartsInv, LatestStays
  PROVE  RowsInv'
<1>1. \A i \in DOMAIN rows : Serves(rows[i])' /\ Continues(rows[i])'
  BY ServesStays, ContinuesStays DEF RowsInv
<1> QED
  BY <1>1 DEF RowsInv, Grows

\* Whatever row a query returns, none included, it serves and continues.
LEMMA RowIsTyped ==
  ASSUME StorageTypes, NEW row \in RowRead
  PROVE  row \in Row \cup {NoRow}
BY DEF StorageTypes, RowRead

LEMMA RowReadIsSound ==
  ASSUME StorageTypes, RowsInv, NEW row \in RowRead
  PROVE  Serves(row) /\ Continues(row)
<1>1. CASE rows = <<>>
  <2>1. row = NoRow
    BY <1>1 DEF RowRead
  <2>2. frozenTo = EmptyKey
    <3>1. Len(rows) # 1
      BY <1>1
    <3> QED
      BY <3>1 DEF RowsInv
  <2>3. LatestRelease = EmptyKey \/ frozenTo <= LatestRelease
    BY <2>2, LatestIsLargest, BoundsAssumption DEF Keys, EmptyKey
  <2> QED
    BY <2>1, <2>2, <2>3 DEF Serves, Continues, NoRow
<1>2. CASE rows # <<>>
  BY <1>2 DEF RowRead, RowsInv
<1> QED
  BY <1>1, <1>2

\* A step of which the freezer takes no notice.
LEMMA FreezerKeeps ==
  ASSUME FirebaseInv, Grows, ReleasesGrow, StartsInv, StorageTypes, FreezerInv,
         UNCHANGED freezer, harm \subseteq harm',
         \/ UNCHANGED releases
         \/ freezer.status \in {"gathered", "stored"} =>
               freezer.key <= LatestRelease' \/ harm' # {},
         freezer.status = "built" => \A i \in DOMAIN rows' : rows'[i].stepMapToKey <= freezer.key,
         freezer.status = "stored" /\ harm' = {} /\ Len(rows') = 1 =>
            /\ rows'[1].historyKey >= freezer.key
            /\ rows'[1].stepMaps = freezer.stepMaps
            /\ rows'[1].stepMapToKey = freezer.stepMapToKey
  PROVE  FreezerInv'
<1>1. Len(history) \in Nat /\ Len(history') \in Nat /\ frozenTo \in Int /\ frozenTo >= -1
  BY DEF FirebaseInv, Docs, Grows, EmptyKey
<1>2. PICK f \in FreezerType : f = freezer /\ f = freezer'
  BY DEF StorageTypes
<1>3. f.status = "rowRead" => Serves(f.row)'
  BY <1>2, ServesStays DEF FreezerInv
<1>4. f.status \in {"selected", "rowRead", "built"} => f.stepMapToKey = EmptyKey /\ f.stepMaps = <<>>
  BY <1>2 DEF FreezerInv
<1>5. ASSUME f.status \in {"built", "gathered", "stored"}
      PROVE  f.key \in frozenTo'..Len(history') - 1 /\ f.doc = HistoryAt(f.key)'
  <2>1. f.key \in frozenTo..Len(history) - 1 /\ f.doc = HistoryAt(f.key)
    BY <1>2, <1>5 DEF FreezerInv
  <2>2. f.key \in -1..Len(history) - 1 /\ f.key \in frozenTo'..Len(history') - 1
    BY <1>1, <2>1 DEF Grows
  <2> QED
    BY <2>1, <2>2, HistoryStays
<1>6. ASSUME f.status \in {"gathered", "stored"}
      PROVE  GatheredInv'
  <2>1. GatheredInv
    BY <1>2, <1>6 DEF FreezerInv
  <2>2. CASE /\ f.stepMapToKey = EmptyKey /\ f.stepMaps = <<>>
             /\ \/ f.failed \/ LatestRelease = EmptyKey \/ f.key <= LatestRelease
                \/ harm # {}
    <3>1. UNCHANGED releases => LatestRelease' = LatestRelease
      BY DEF LatestRelease
    <3>2. harm # {} => harm' # {}
      OBVIOUS
    <3>3. f.failed \/ LatestRelease' = EmptyKey \/ f.key <= LatestRelease' \/ harm' # {}
      BY <1>2, <1>6, <2>2, <3>1, <3>2
    <3> QED
      BY <1>2, <2>2, <3>3 DEF GatheredInv
  <2>3. CASE f.stepMapToKey = f.key /\ MapsFrom(f.stepMaps, f.key)
    <3>1. PICK maps, k : maps = f.stepMaps /\ k = f.key
      OBVIOUS
    <3>2. k \in -1..Len(history) - 1
      BY <1>1, <1>2, <1>6, <3>1 DEF FreezerInv
    <3>3. MapsFrom(maps, k)'
      BY <2>3, <3>1, <3>2, MapsStay
    <3> QED
      BY <1>2, <2>3, <3>1, <3>3 DEF GatheredInv
  <2> QED
    BY <1>2, <2>1, <2>2, <2>3 DEF GatheredInv
<1>7. f.status = "built" => \A i \in DOMAIN rows' : rows'[i].stepMapToKey <= f.key
  BY <1>2
<1>8. f.status = "stored" /\ harm' = {} /\ Len(rows') = 1 =>
         /\ rows'[1].historyKey >= f.key
         /\ rows'[1].stepMaps = f.stepMaps
         /\ rows'[1].stepMapToKey = f.stepMapToKey
  BY <1>2
<1> QED
  BY <1>2, <1>3, <1>4, <1>5, <1>6, <1>7, <1>8 DEF FreezerInv

LEMMA FreezerStays ==
  ASSUME FirebaseInv, Grows, ReleasesGrow, StartsInv, StorageTypes, FreezerInv,
         UNCHANGED <<rows, freezer>>, harm \subseteq harm',
         \/ UNCHANGED releases
         \/ freezer.status \in {"gathered", "stored"} =>
               freezer.key <= LatestRelease' \/ harm' # {}
  PROVE  FreezerInv'
<1>1. freezer.status = "built" => \A i \in DOMAIN rows' : rows'[i].stepMapToKey <= freezer.key
  BY DEF FreezerInv
<1>2. freezer.status = "stored" /\ harm' = {} /\ Len(rows') = 1 =>
            /\ rows'[1].historyKey >= freezer.key
            /\ rows'[1].stepMaps = freezer.stepMaps
            /\ rows'[1].stepMapToKey = freezer.stepMapToKey
  BY DEF FreezerInv
<1> QED
  BY <1>1, <1>2, FreezerKeeps
----------------------------------------------------------------------------
(* Types, whatever happens.                                                  *)

LEMMA TypeFacts ==
  ASSUME TypeInv
  PROVE  /\ StorageTypes /\ KeysBounded /\ Underway
         /\ history \in Docs /\ Len(history) \in Nat /\ Len(history) <= MaxEdits
         /\ MaxEdits \in Nat /\ MaxFreezes \in Nat
BY BoundsAssumption DEF TypeInv, StorageTypes, Docs

LEMMA LargestOfKeys ==
  ASSUME TypeInv, NEW from, NEW to, NEW d
  PROVE  /\ KeysIn(from, to) = {} => Largest(KeysIn(from, to), d) = d
         /\ KeysIn(from, to) # {} => Largest(KeysIn(from, to), d) \in KeysIn(from, to)
<1>1. PICK n \in Nat : n = Len(history) /\ \A k \in DOMAIN changes : k \in 0..n
  BY TypeFacts DEF KeysBounded
<1>2. PICK S : S = KeysIn(from, to)
  OBVIOUS
<1>3. S \in SUBSET (0..n)
  BY <1>1, <1>2 DEF KeysIn
<1>4. S # {} => \E x \in S : \A y \in S : y <= x
  BY <1>3, LargestIsMember
<1>5. S # {} => Largest(S, d) \in S
  BY <1>4 DEF Largest
<1>6. S = {} => Largest(S, d) = d
  BY DEF Largest
<1> QED
  BY <1>2, <1>5, <1>6

\* What a reader of a row, or of none, is given.
LEMMA DraftDocTyped ==
  ASSUME TypeInv, NEW row \in Row \cup {NoRow}, row.historyKey < Len(history), NEW version
  PROVE  /\ DraftDoc(row, version).doc \in Docs
         /\ DraftDoc(row, version).key \in Keys \cup {EmptyKey}
         /\ DraftDoc(row, version).key < Len(history)
         /\ version = Latest /\ DOMAIN changes # {} => DraftDoc(row, version).key >= 0
<1>1. PICK n \in Nat : /\ n = Len(history) /\ n <= MaxEdits
                       /\ \A k \in DOMAIN changes : k \in 0..n - 1
  <2>1. PICK m \in Nat : m = Len(history) /\ m <= MaxEdits
    BY TypeFacts
  <2>2. \A k \in DOMAIN changes : k \in 0..m - 1
    BY <2>1, TypeFacts DEF KeysBounded
  <2> QED
    BY <2>1, <2>2
<1>2. 0..n - 1 \subseteq Keys /\ EmptyKey < n /\ (\A k \in 0..n - 1 : k < n /\ k >= 0)
  BY <1>1, TypeFacts DEF Keys, EmptyKey
<1>3. \A from, to : KeysIn(from, to) \subseteq 0..n - 1 /\ StepsInRange(from, to) \in Docs
  BY <1>1, StepsAreDocs, TypeFacts DEF KeysIn
<1>4. CASE RowServes(row, version)
  <2>1. row \in Row /\ DraftDoc(row, version) = OnCheckpoint(row, version)
    BY <1>4 DEF DraftDoc, RowServes
  <2>2. PICK hk \in Int, doc \in Docs : hk = row.historyKey /\ doc = row.doc /\ hk \in 0..n - 1
    BY <1>1, <2>1 DEF Row, Keys
  <2>3. PICK steps \in Docs : steps = StepsInRange(hk + 1, version)
    BY <1>3
  <2>4. doc \o steps \in Docs
    BY ConcatProperties DEF Docs
  <2>5. PICK k : k = Largest(KeysIn(hk + 1, version), hk)
    OBVIOUS
  <2>6. k \in 0..n - 1
    BY <1>3, <2>2, <2>5, LargestOfKeys
  <2>7. DraftDoc(row, version) = [doc |-> doc \o steps, key |-> k]
    BY <2>1, <2>2, <2>3, <2>5 DEF OnCheckpoint
  <2> QED
    BY <1>1, <1>2, <2>4, <2>6, <2>7
<1>5. CASE ~RowServes(row, version)
  <2>1. PICK steps \in Docs : steps = StepsInRange(0, version)
    BY <1>3
  <2>2. PICK k : k = Largest(KeysIn(0, version), EmptyKey)
    OBVIOUS
  <2>3. k \in 0..n - 1 \/ k = EmptyKey
    BY <1>3, <2>2, LargestOfKeys
  <2>4. DraftDoc(row, version) = [doc |-> steps, key |-> k]
    BY <1>5, <2>1, <2>2 DEF DraftDoc, FirebaseDoc
  <2>5. ASSUME version = Latest, DOMAIN changes # {}
        PROVE  k \in 0..n - 1
    <3>1. KeysIn(0, version) # {}
      <4>1. \A j \in DOMAIN changes : 0 <= j /\ j <= Latest
        BY <1>1, TypeFacts DEF Latest
      <4> QED
        BY <2>5, <4>1 DEF KeysIn
    <3> QED
      BY <1>3, <2>2, <3>1, LargestOfKeys
  <2> QED
    BY <1>1, <1>2, <2>3, <2>4, <2>5
<1> QED
  BY <1>4, <1>5

LEMMA RowReadBounded ==
  ASSUME TypeInv, NEW row \in RowRead
  PROVE  row \in Row \cup {NoRow} /\ row.historyKey < Len(history)
<1>1. NoRow.historyKey < Len(history)
  BY TypeFacts DEF NoRow, EmptyKey
<1> QED
  BY <1>1, RowIsTyped, TypeFacts DEF RowRead, KeysBounded

\* A step that adds nothing and stores nothing.
Calm == UNCHANGED <<changes, rows, history, releases, frozenTo, unmapped, harm>>

LEMMA PageTyped ==
  ASSUME TypeInv, Calm, NEW c \in Pages, NEW q \in PageType,
         q.key < Len(history), q.row.historyKey < Len(history),
         page' = [page EXCEPT ![c] = q], latestKeyAtRecent' \in BOOLEAN,
         UNCHANGED <<post, request, anchors, freezer>>
  PROVE  TypeInv'
<1>1. page' \in [Pages -> PageType] /\ \A d \in Pages : page'[d] = q \/ page'[d] = page[d]
  BY DEF TypeInv, StorageTypes
<1>2. StorageTypes'
  BY <1>1, TypeFacts DEF StorageTypes, Calm
<1>3. KeysBounded'
  BY <1>1, TypeFacts DEF KeysBounded, Calm
<1>4. Underway'
  BY TypeFacts DEF Underway, Calm
<1> QED
  BY <1>2, <1>3, <1>4 DEF TypeInv

LEMMA PostTyped ==
  ASSUME TypeInv, Calm, NEW p \in Posts, NEW q \in PostType, q.historyKey < Len(history),
         q.status # "idle" => q.historyKey >= 0, post' = [post EXCEPT ![p] = q],
         UNCHANGED <<latestKeyAtRecent, page, request, anchors, freezer>>
  PROVE  TypeInv'
<1>1. post' \in [Posts -> PostType] /\ \A d \in Posts : post'[d] = q \/ post'[d] = post[d]
  BY DEF TypeInv, StorageTypes
<1>2. StorageTypes'
  BY <1>1, TypeFacts DEF StorageTypes, Calm
<1>3. KeysBounded'
  BY <1>1, TypeFacts DEF KeysBounded, Calm
<1>4. Underway'
  BY <1>1, TypeFacts DEF Underway, Calm
<1> QED
  BY <1>2, <1>3, <1>4 DEF TypeInv

LEMMA RequestTyped ==
  ASSUME TypeInv, Calm, NEW r \in Requests, NEW q \in RequestType,
         q.status # "idle" => q.version >= 0, request' = [request EXCEPT ![r] = q],
         UNCHANGED <<latestKeyAtRecent, page, post, anchors, freezer>>
  PROVE  TypeInv'
<1>1. request' \in [Requests -> RequestType]
      /\ \A d \in Requests : request'[d] = q \/ request'[d] = request[d]
  BY DEF TypeInv, StorageTypes
<1>2. StorageTypes'
  BY <1>1, TypeFacts DEF StorageTypes, Calm
<1>3. KeysBounded'
  BY TypeFacts DEF KeysBounded, Calm
<1>4. Underway'
  BY <1>1, TypeFacts DEF Underway, Calm
<1> QED
  BY <1>2, <1>3, <1>4 DEF TypeInv

LEMMA FreezerTyped ==
  ASSUME TypeInv, Calm, NEW q \in FreezerType, freezer' = q,
         q.row.historyKey < Len(history), q.key < Len(history),
         q.status \in {"selected", "rowRead"} => DOMAIN changes # {},
         q.status \in {"built", "gathered", "stored"} => q.key >= 0,
         q.status # "stored", q.status # "idle" => q.runs < MaxFreezes,
         UNCHANGED <<latestKeyAtRecent, page, post, request, anchors>>
  PROVE  TypeInv'
<1>1. StorageTypes'
  BY TypeFacts DEF StorageTypes, Calm
<1>2. KeysBounded'
  BY TypeFacts DEF KeysBounded, Calm
<1>3. Underway'
  BY TypeFacts DEF Underway, Calm
<1> QED
  BY <1>1, <1>2, <1>3 DEF TypeInv

\* A record of a page, a post or a request that is at rest.
LEMMA NothingIsTyped ==
  /\ NoPage \in PageType /\ NoPost \in PostType /\ NoRequest \in RequestType
  /\ NoPage.key = EmptyKey /\ NoPage.row = NoRow /\ NoPost.historyKey = EmptyKey
  /\ NoRow.historyKey = EmptyKey /\ NoPost.status = "idle" /\ NoRequest.status = "idle"
BY DEF NoPage, PageType, NoPost, PostType, NoRequest, RequestType, NoRow, Docs

LEMMA PagesTyped ==
  ASSUME TypeInv, NEW c \in Pages,
         ReadRow(c) \/ OpenPage(c) \/ Receive(c) \/ ClosePage(c)
  PROVE  TypeInv'
<1>1. Calm /\ UNCHANGED <<post, request, anchors, freezer>> /\ latestKeyAtRecent' \in BOOLEAN
  BY TypeFacts DEF ReadRow, OpenPage, Receive, ClosePage, Calm, StorageTypes
<1>2. page[c] \in PageType /\ page[c].key < Len(history)
      /\ page[c].row.historyKey < Len(history)
  BY TypeFacts DEF StorageTypes, KeysBounded
<1>3. EmptyKey < Len(history) /\ <<>> \in Docs
  BY TypeFacts DEF EmptyKey, Docs
<1>4. CASE ReadRow(c)
  <2>1. PICK row \in RowRead :
           page' = [page EXCEPT ![c] = [NoPage EXCEPT !.status = "loading", !.row = row]]
    BY <1>4 DEF ReadRow
  <2>2. row \in Row \cup {NoRow} /\ row.historyKey < Len(history)
    BY RowReadBounded
  <2>3. PICK q : q = [NoPage EXCEPT !.status = "loading", !.row = row]
    OBVIOUS
  <2>4. q = [status |-> "loading", row |-> row, key |-> EmptyKey, doc |-> <<>>]
    BY <2>3 DEF NoPage
  <2>5. q \in PageType /\ q.key < Len(history) /\ q.row.historyKey < Len(history)
    BY <1>3, <2>2, <2>4 DEF PageType
  <2>6. page' = [page EXCEPT ![c] = q]
    BY <2>1, <2>3
  <2> QED
    BY <1>1, <2>5, <2>6, PageTyped
<1>5. CASE OpenPage(c)
  <2>1. PICK row \in Row \cup {NoRow} : row = page[c].row /\ row.historyKey < Len(history)
    BY <1>2 DEF PageType
  <2>2. PICK key, doc : key = DraftDoc(row, Latest).key /\ doc = DraftDoc(row, Latest).doc
    OBVIOUS
  <2>3. doc \in Docs /\ key \in Keys \cup {EmptyKey} /\ key < Len(history)
    BY <2>1, <2>2, DraftDocTyped
  <2>4. PICK q : q = [NoPage EXCEPT !.status = "open", !.key = key, !.doc = doc]
    OBVIOUS
  <2>5. page' = [page EXCEPT ![c] = q]
    BY <1>5, <2>1, <2>2, <2>4 DEF OpenPage
  <2>6. q \in PageType /\ q.key < Len(history) /\ q.row.historyKey < Len(history)
    <3>1. q = [status |-> "open", row |-> NoRow, key |-> key, doc |-> doc]
      BY <2>4 DEF NoPage
    <3> QED
      BY <1>3, <2>3, <3>1, NothingIsTyped DEF PageType
  <2> QED
    BY <1>1, <2>5, <2>6, PageTyped
<1>6. CASE Receive(c)
  <2>1. PICK k \in Int : k = page[c].key + 1
    BY <1>2 DEF PageType, Keys, EmptyKey
  <2>2. k \in DOMAIN changes /\ changes[k] \in Edits /\ 0 <= k /\ k < Len(history)
    BY <1>6, <2>1, TypeFacts DEF Receive, StorageTypes, KeysBounded
  <2>3. PICK doc : doc = Append(page[c].doc, changes[k])
    OBVIOUS
  <2>4. doc \in Docs
    BY <1>2, <2>2, <2>3, AppendProperties DEF PageType, Docs
  <2>5. PICK q : q = [page[c] EXCEPT !.key = k, !.doc = doc]
    OBVIOUS
  <2>6. page' = [page EXCEPT ![c] = q]
    BY <1>6, <2>1, <2>3, <2>5 DEF Receive
  <2>7. k \in Keys
    BY <2>2, TypeFacts DEF Keys
  <2>8. q \in PageType /\ q.key < Len(history) /\ q.row.historyKey < Len(history)
    BY <1>2, <2>2, <2>4, <2>5, <2>7 DEF PageType
  <2> QED
    BY <1>1, <2>6, <2>8, PageTyped
<1>7. CASE ClosePage(c)
  BY <1>1, <1>3, <1>7, NothingIsTyped, PageTyped DEF ClosePage
<1> QED
  BY <1>4, <1>5, <1>6, <1>7

LEMMA EditTyped ==
  ASSUME TypeInv, NEW c \in Pages, Edit(c)
  PROVE  TypeInv'
<1>1. PICK n \in Nat : n = Len(history) /\ n < MaxEdits
  BY TypeFacts DEF Edit
<1>2. page[c] \in PageType /\ page \in [Pages -> PageType] /\ post \in [Posts -> PostType]
      /\ page[c].key < n /\ page[c].row.historyKey < n
  BY <1>1, TypeFacts DEF StorageTypes, KeysBounded
<1>3. PICK k \in Int : k = page[c].key + 1 /\ 0 <= k /\ k <= n
  BY <1>1, <1>2 DEF PageType, Keys, EmptyKey
<1>4. n + 1 \in Edits /\ k \in Keys
  BY <1>1, <1>3, TypeFacts DEF Edits, Keys
<1>5. history' = Append(history, n + 1) /\ history' \in Docs /\ Len(history') = n + 1
  <2>1. history' = Append(history, n + 1)
    BY <1>1 DEF Edit
  <2> QED
    BY <1>1, <1>4, <2>1, TypeFacts, AppendProperties DEF Docs
<1>6. changes' = [j \in DOMAIN changes \cup {k} |-> IF j = k THEN n + 1 ELSE changes[j]]
  BY <1>1, <1>3 DEF Edit
<1>7. \A j \in DOMAIN changes' : changes'[j] \in Edits /\ j \in 0..n
  <2>1. \A j \in DOMAIN changes : changes[j] \in Edits /\ j \in 0..n
    <3>1. \A j \in DOMAIN changes : j \in 0..n - 1 /\ changes[j] \in Edits
      BY <1>1, TypeFacts DEF StorageTypes, KeysBounded
    <3> QED
      BY <1>1, <3>1
  <2> QED
    BY <1>3, <1>4, <1>6, <2>1
<1>8. PICK doc \in Docs : doc = Append(page[c].doc, n + 1)
  BY <1>2, <1>4, AppendProperties DEF PageType, Docs
<1>9. PICK q : q = [page[c] EXCEPT !.key = k, !.doc = doc]
  OBVIOUS
<1>10. page' = [page EXCEPT ![c] = q]
  BY <1>1, <1>3, <1>8, <1>9 DEF Edit
<1>11. q \in PageType /\ q.key < n + 1 /\ q.row.historyKey < n + 1
  <2>1. q \in PageType /\ q.key = k /\ q.row = page[c].row
    BY <1>2, <1>4, <1>8, <1>9 DEF PageType
  <2>2. page[c].row.historyKey \in Int
    BY <1>2 DEF PageType, Row, Keys, NoRow, EmptyKey
  <2> QED
    BY <1>2, <1>3, <2>1, <2>2
<1>12. page' \in [Pages -> PageType] /\ \A d \in Pages : page'[d] = q \/ page'[d] = page[d]
  BY <1>2, <1>10, <1>11
<1>13. PICK s : s = [NoPost EXCEPT !.status = "sent", !.historyKey = k, !.doc = doc]
  OBVIOUS
<1>14. s \in PostType /\ s.historyKey < n + 1 /\ s.historyKey >= 0
  <2>1. s = [status |-> "sent", historyKey |-> k, doc |-> doc, found |-> 0,
             foundKey |-> EmptyKey]
    BY <1>13 DEF NoPost
  <2> QED
    BY <1>3, <1>4, <2>1 DEF PostType
<1>15. UNCHANGED post \/ \E p \in Posts : post' = [post EXCEPT ![p] = s]
  BY <1>1, <1>3, <1>8, <1>13 DEF Edit
<1>16. post' \in [Posts -> PostType] /\ \A d \in Posts : post'[d] = s \/ post'[d] = post[d]
  BY <1>2, <1>14, <1>15
<1>17. UNCHANGED <<rows, latestKeyAtRecent, request, releases, anchors, freezer, frozenTo,
                   unmapped, harm>>
  BY DEF Edit
<1>18. StorageTypes'
  BY <1>1, <1>5, <1>7, <1>12, <1>16, <1>17, TypeFacts DEF StorageTypes
<1>19. KeysBounded'
  <2>1. \A i \in DOMAIN rows : rows[i].historyKey < n /\ rows[i].historyKey \in Int
    <3>1. \A i \in DOMAIN rows : rows[i] \in Row
      BY TypeFacts DEF StorageTypes
    <3> QED
      BY <1>1, <3>1, TypeFacts DEF KeysBounded, Row, Keys
  <2>2. \A d \in Pages : /\ page[d].key < n /\ page[d].row.historyKey < n
                         /\ page[d].key \in Int /\ page[d].row.historyKey \in Int
    <3>1. \A d \in Pages : page[d] \in PageType
      BY <1>2
    <3> QED
      BY <1>1, <3>1, TypeFacts DEF KeysBounded, PageType, Row, Keys, NoRow, EmptyKey
  <2>3. \A p \in Posts : post[p].historyKey < n /\ post[p].historyKey \in Int
    <3>1. \A p \in Posts : post[p] \in PostType
      BY <1>2
    <3> QED
      BY <1>1, <3>1, TypeFacts DEF KeysBounded, PostType, Keys, EmptyKey
  <2>4. /\ freezer.row.historyKey < n /\ freezer.key < n
        /\ freezer.row.historyKey \in Int /\ freezer.key \in Int
    BY <1>1, TypeFacts DEF KeysBounded, StorageTypes, FreezerType, Row, Keys, NoRow, EmptyKey
  <2>5. \A x \in Int : x < n => x < n + 1
    OBVIOUS
  <2>6. \A d \in Pages : page'[d].key < n + 1 /\ page'[d].row.historyKey < n + 1
    BY <1>11, <1>12, <2>2, <2>5
  <2>7. \A p \in Posts : post'[p].historyKey < n + 1
    BY <1>14, <1>16, <2>3, <2>5
  <2> QED
    BY <1>1, <1>5, <1>7, <1>17, <2>1, <2>4, <2>5, <2>6, <2>7 DEF KeysBounded
<1>20. Underway'
  <2>1. DOMAIN changes # {} => DOMAIN changes' # {}
    BY <1>6
  <2>2. \A p \in Posts : post'[p].status # "idle" => post'[p].historyKey >= 0
    BY <1>14, <1>16, TypeFacts DEF Underway
  <2> QED
    BY <1>17, <2>1, <2>2, TypeFacts DEF Underway
<1> QED
  BY <1>18, <1>19, <1>20 DEF TypeInv

LEMMA PostsTyped ==
  ASSUME TypeInv, NEW p \in Posts, FindRow(p) \/ CreateRow(p) \/ UpdateRow(p)
  PROVE  TypeInv'
<1>1. post[p] \in PostType /\ post[p].historyKey < Len(history)
  BY TypeFacts DEF StorageTypes, KeysBounded
<1>2. post[p].status # "idle" => post[p].historyKey \in Keys /\ post[p].historyKey >= 0
  BY <1>1, TypeFacts DEF PostType, Underway, EmptyKey
<1>3. rows \in Seq(Row)
  BY TypeFacts DEF StorageTypes
<1>4. CASE FindRow(p)
  <2>1. PICK i \in IF rows = <<>> THEN {0} ELSE DOMAIN rows :
           post' = [post EXCEPT ![p].status = "found", ![p].found = i,
                      ![p].foundKey = IF i = 0 THEN EmptyKey ELSE rows[i].historyKey]
    BY <1>4 DEF FindRow
  <2>2. PICK key : key = IF i = 0 THEN EmptyKey ELSE rows[i].historyKey
    OBVIOUS
  <2>3. i \in Nat /\ key \in Keys \cup {EmptyKey}
    <3>1. i \in Nat /\ (i # 0 => i \in DOMAIN rows)
      BY <1>3
    <3>2. i # 0 => rows[i] \in Row
      BY <1>3, <3>1
    <3> QED
      BY <2>2, <3>1, <3>2 DEF Row
  <2>4. PICK q : q = [post[p] EXCEPT !.status = "found", !.found = i, !.foundKey = key]
    OBVIOUS
  <2>5. post' = [post EXCEPT ![p] = q]
    BY <2>1, <2>2, <2>4
  <2>6. q \in PostType /\ q.historyKey = post[p].historyKey
    BY <1>1, <2>3, <2>4 DEF PostType
  <2>7. Calm /\ UNCHANGED <<latestKeyAtRecent, page, request, anchors, freezer>>
        /\ post[p].status # "idle"
    BY <1>4 DEF FindRow, Calm
  <2> QED
    BY <1>1, <1>2, <2>5, <2>6, <2>7, PostTyped
<1>5. CASE CreateRow(p) \/ UpdateRow(p)
  <2>1. PICK k \in Keys, doc \in Docs : k = post[p].historyKey /\ doc = post[p].doc
                                        /\ k < Len(history)
    BY <1>1, <1>2, <1>5 DEF CreateRow, UpdateRow, PostType
  <2>2. /\ rows' \in Seq(Row) /\ harm' \subseteq Harms /\ (rows # <<>> => rows' # <<>>)
        /\ \A i \in DOMAIN rows' : rows'[i].historyKey < Len(history)
    <3>1. harm' \subseteq Harms
      BY <1>5, TypeFacts DEF CreateRow, UpdateRow, StorageTypes, Harms
    <3>2. CASE CreateRow(p)
      <4>1. PICK new : new = [NoRow EXCEPT !.historyKey = k, !.doc = doc]
        OBVIOUS
      <4>2. new \in Row /\ new.historyKey = k
        <5>1. new = [historyKey |-> k, doc |-> doc, stepMaps |-> <<>>,
                     stepMapToKey |-> EmptyKey]
          BY <4>1 DEF NoRow
        <5> QED
          BY <5>1 DEF Row, Docs
      <4>3. rows' = Append(rows, new)
        BY <2>1, <3>2, <4>1 DEF CreateRow
      <4>4. rows' \in Seq(Row) /\ DOMAIN rows' = 1..Len(rows) + 1 /\ rows' # <<>>
        BY <1>3, <4>2, <4>3
      <4>5. \A i \in DOMAIN rows' : rows'[i] = new \/ (i \in DOMAIN rows /\ rows'[i] = rows[i])
        BY <1>3, <4>2, <4>3
      <4> QED
        BY <2>1, <3>1, <4>2, <4>4, <4>5, TypeFacts DEF KeysBounded
    <3>3. CASE UpdateRow(p)
      <4>1. CASE UNCHANGED rows
        BY <1>3, <3>1, <4>1, TypeFacts DEF KeysBounded
      <4>2. CASE rows' = [rows EXCEPT ![post[p].found] =
                             WithCheckpoint(@, post[p].historyKey, post[p].doc)]
        <5>1. PICK i : i = post[p].found
          OBVIOUS
        <5>2. rows' = [rows EXCEPT ![i] = [rows[i] EXCEPT !.historyKey = k, !.doc = doc]]
          BY <2>1, <4>2, <5>1 DEF WithCheckpoint
        <5>3. i \in DOMAIN rows => /\ [rows[i] EXCEPT !.historyKey = k, !.doc = doc] \in Row
                                   /\ [rows[i] EXCEPT !.historyKey = k, !.doc = doc].historyKey = k
          <6>1. i \in DOMAIN rows => rows[i] \in Row
            BY <1>3
          <6> QED
            BY <6>1 DEF Row
        <5>4. PICK new : new = [rows[i] EXCEPT !.historyKey = k, !.doc = doc]
          OBVIOUS
        <5>5. rows' = [rows EXCEPT ![i] = new] /\ (i \in DOMAIN rows => new \in Row)
          BY <5>2, <5>3, <5>4
        <5>6. rows' \in Seq(Row) /\ DOMAIN rows' = DOMAIN rows /\ (rows # <<>> => rows' # <<>>)
          <6>1. PICK n \in Nat : n = Len(rows) /\ rows \in [1..n -> Row] /\ DOMAIN rows = 1..n
            BY <1>3
          <6>2. \A j \in 1..n : rows'[j] = new \/ rows'[j] = rows[j]
            BY <5>5, <6>1
          <6>3. \A j \in 1..n : rows'[j] \in Row
            BY <5>5, <6>1
          <6>4. DOMAIN rows' = 1..n /\ rows' = [j \in 1..n |-> rows'[j]]
            BY <5>5, <6>1
          <6>5. rows' \in [1..n -> Row]
            BY <6>3, <6>4
          <6> QED
            BY <1>3, <6>1, <6>4, <6>5
        <5>7. \A j \in DOMAIN rows' :
                 (j = i /\ i \in DOMAIN rows /\ rows'[j] = new) \/ rows'[j] = rows[j]
          BY <5>5, <5>6
        <5> QED
          BY <2>1, <3>1, <5>3, <5>4, <5>6, <5>7, TypeFacts DEF KeysBounded
      <4> QED
        BY <3>3, <4>1, <4>2 DEF UpdateRow
    <3> QED
      BY <1>5, <3>2, <3>3
  <2>3. post' = [post EXCEPT ![p] = NoPost]
        /\ UNCHANGED <<changes, history, latestKeyAtRecent, page, request, releases, anchors,
                       freezer, frozenTo, unmapped>>
    BY <1>5 DEF CreateRow, UpdateRow
  <2>4. post' \in [Posts -> PostType] /\ \A d \in Posts : post'[d] = NoPost \/ post'[d] = post[d]
    BY <2>3, NothingIsTyped, TypeFacts DEF StorageTypes
  <2>5. StorageTypes'
    BY <2>2, <2>3, <2>4, TypeFacts DEF StorageTypes
  <2>6. KeysBounded'
    <3>1. NoPost.historyKey < Len(history)
      BY NothingIsTyped, TypeFacts DEF EmptyKey
    <3> QED
      BY <2>2, <2>3, <2>4, <3>1, TypeFacts DEF KeysBounded
  <2>7. Underway'
    BY <2>2, <2>3, <2>4, NothingIsTyped, TypeFacts DEF Underway
  <2> QED
    BY <2>5, <2>6, <2>7 DEF TypeInv
<1> QED
  BY <1>4, <1>5

LEMMA MappedAnchorIsDoc ==
  ASSUME TypeInv, NEW row \in RowRead, NEW previous, NEW v,
         NEW maps \in MapsForRelease(row, previous, v)
  PROVE  maps \in Docs
<1>1. \A from, to : StepsInRange(from, to) \in Docs
  BY StepsAreDocs, TypeFacts
<1>2. row.stepMaps \in Docs
  <2>1. row \in Row \cup {NoRow}
    BY RowReadBounded
  <2>2. NoRow.stepMaps = <<>> /\ <<>> \in Docs
    BY DEF NoRow, Docs
  <2> QED
    BY <2>1, <2>2 DEF Row
<1>3. PICK stored \in Docs : stored = row.stepMaps
  BY <1>2
<1>4. \A steps \in Docs : stored \o steps \in Docs
  BY ConcatProperties DEF Docs
<1> QED
  BY <1>1, <1>3, <1>4 DEF MapsForRelease

LEMMA CreateReleaseTyped ==
  ASSUME TypeInv, NEW r \in Requests, CreateRelease(r)
  PROVE  TypeInv'
<1>1. request[r] \in RequestType /\ request[r].version >= 0 /\ request \in [Requests -> RequestType]
  BY TypeFacts DEF StorageTypes, Underway, CreateRelease
<1>2. PICK v \in Keys, doc \in Docs, previous \in Keys \cup {EmptyKey} :
         v = request[r].version /\ doc = request[r].doc /\ previous = request[r].previous
  BY <1>1 DEF RequestType, EmptyKey
<1>3. PICK new : new = [historyKey |-> v, doc |-> doc]
  OBVIOUS
<1>4. releases' \in Seq(ReleaseType)
  <2>1. releases' = Append(releases, new)
    BY <1>2, <1>3 DEF CreateRelease
  <2> QED
    BY <1>3, <2>1, TypeFacts DEF ReleaseType, StorageTypes
<1>5. harm' \subseteq Harms
  BY TypeFacts DEF CreateRelease, StorageTypes, Harms
<1>6. anchors' \subseteq [historyKey : Keys, at : Docs]
  <2>1. PICK row \in RowRead : anchors' = anchors \cup MappedAnchors(row, previous, v)
    BY <1>2 DEF CreateRelease
  <2>2. ASSUME NEW a \in anchors, NEW maps \in MapsForRelease(row, previous, v)
        PROVE  [historyKey |-> v, at |-> a.at \o maps] \in [historyKey : Keys, at : Docs]
    <3>1. maps \in Docs /\ a.at \in Docs
      BY MappedAnchorIsDoc, TypeFacts DEF StorageTypes
    <3> QED
      BY <3>1, ConcatProperties DEF Docs
  <2>3. ASSUME NEW b \in MappedAnchors(row, previous, v)
        PROVE  b \in [historyKey : Keys, at : Docs]
    <3>1. PICK a \in anchors, maps \in MapsForRelease(row, previous, v) :
             b = [historyKey |-> v, at |-> a.at \o maps]
      BY <2>3 DEF MappedAnchors
    <3> QED
      BY <2>2, <3>1
  <2> QED
    BY <2>1, <2>3, TypeFacts DEF StorageTypes
<1>7. request' \in [Requests -> RequestType]
      /\ \A d \in Requests : request'[d] = NoRequest \/ request'[d] = request[d]
  BY <1>1, NothingIsTyped DEF CreateRelease
<1>8. UNCHANGED <<changes, rows, history, latestKeyAtRecent, page, post, freezer, frozenTo,
                  unmapped>>
  BY DEF CreateRelease
<1>9. StorageTypes'
  BY <1>4, <1>5, <1>6, <1>7, <1>8, TypeFacts DEF StorageTypes
<1>10. KeysBounded'
  BY <1>8, TypeFacts DEF KeysBounded
<1>11. Underway'
  BY <1>7, <1>8, NothingIsTyped, TypeFacts DEF Underway
<1> QED
  BY <1>9, <1>10, <1>11 DEF TypeInv

LEMMA RequestsTyped ==
  ASSUME TypeInv, NEW r \in Requests, AskForVersion(r) \/ ReadVersion(r) \/ FinishView(r)
  PROVE  TypeInv'
<1>1. Calm /\ UNCHANGED <<latestKeyAtRecent, page, post, anchors, freezer>>
  BY DEF AskForVersion, ReadVersion, FinishView, Calm
<1>2. request[r] \in RequestType
  BY TypeFacts DEF StorageTypes
<1>3. CASE AskForVersion(r)
  <2>1. PICK version \in 0..MaxEdits - 1, release \in BOOLEAN, row \in RowRead :
           request' = [request EXCEPT ![r] =
                          [NoRequest EXCEPT !.status = "asked", !.release = release,
                             !.version = version, !.previous = LatestRelease, !.row = row]]
    BY <1>3 DEF AskForVersion
  <2>2. PICK latest \in Keys \cup {EmptyKey} : latest = LatestRelease
    BY LatestIsLargest, TypeFacts
  <2>3. PICK q : q = [NoRequest EXCEPT !.status = "asked", !.release = release,
                        !.version = version, !.previous = latest, !.row = row]
    OBVIOUS
  <2>4. request' = [request EXCEPT ![r] = q]
    BY <2>1, <2>2, <2>3
  <2>5. q = [status |-> "asked", release |-> release, version |-> version,
             previous |-> latest, row |-> row, doc |-> <<>>]
    BY <2>3 DEF NoRequest
  <2>6. q \in RequestType /\ q.version >= 0
    <3>1. row \in Row \cup {NoRow} /\ version \in Keys /\ version >= 0
      BY RowReadBounded DEF Keys
    <3> QED
      BY <2>5, <3>1 DEF RequestType, Docs
  <2> QED
    BY <1>1, <2>4, <2>6, RequestTyped
<1>4. CASE ReadVersion(r)
  <2>1. PICK doc : doc = DraftDoc(request[r].row, request[r].version).doc
    OBVIOUS
  <2>2. doc \in Docs
    <3>1. PICK row, version : row = request[r].row /\ version = request[r].version
      OBVIOUS
    <3>2. \A from, to : StepsInRange(from, to) \in Docs
      BY StepsAreDocs, TypeFacts
    <3>3. RowServes(row, version) => row.doc \in Docs
      BY <1>2, <3>1 DEF RequestType, RowServes, Row
    <3>4. \A a, b \in Docs : a \o b \in Docs
      BY ConcatProperties DEF Docs
    <3> QED
      BY <2>1, <3>1, <3>2, <3>3, <3>4 DEF DraftDoc, OnCheckpoint, FirebaseDoc
  <2>3. PICK q : q = [request[r] EXCEPT !.status = "read", !.doc = doc]
    OBVIOUS
  <2>4. request' = [request EXCEPT ![r] = q]
    BY <1>4, <2>1, <2>3 DEF ReadVersion
  <2>5. q \in RequestType /\ q.version = request[r].version /\ q.version >= 0
    BY <1>2, <1>4, <2>2, <2>3, TypeFacts DEF RequestType, ReadVersion, Underway
  <2> QED
    BY <1>1, <2>4, <2>5, RequestTyped
<1>5. CASE FinishView(r)
  BY <1>1, <1>5, NothingIsTyped, RequestTyped DEF FinishView
<1> QED
  BY <1>3, <1>4, <1>5

LEMMA OthersTyped ==
  ASSUME TypeInv, DaysPass \/ CreateDiscussion
  PROVE  TypeInv'
<1>1. Calm /\ UNCHANGED <<page, post, request, freezer>> /\ latestKeyAtRecent' \in BOOLEAN
  BY TypeFacts DEF DaysPass, CreateDiscussion, Calm, StorageTypes
<1>2. anchors' \subseteq [historyKey : Keys, at : Docs]
  <2>1. CASE DaysPass
    BY <2>1, TypeFacts DEF DaysPass, StorageTypes
  <2>2. CASE CreateDiscussion
    <3>1. PICK i \in DOMAIN releases :
             anchors' = {[historyKey |-> releases[i].historyKey, at |-> releases[i].doc]}
      BY <2>2 DEF CreateDiscussion
    <3>2. releases[i] \in ReleaseType
      BY TypeFacts DEF StorageTypes
    <3> QED
      BY <3>1, <3>2 DEF ReleaseType
  <2> QED
    BY <2>1, <2>2
<1>3. StorageTypes'
  BY <1>1, <1>2, TypeFacts DEF StorageTypes, Calm
<1>4. KeysBounded'
  BY <1>1, TypeFacts DEF KeysBounded, Calm
<1>5. Underway'
  BY <1>1, TypeFacts DEF Underway, Calm
<1> QED
  BY <1>3, <1>4, <1>5 DEF TypeInv

\* A freeze that has ended, and one that is about to begin.
LEMMA NoFreezeTyped ==
  ASSUME NEW n \in 0..MaxFreezes, NEW q, q = [NoFreeze EXCEPT !.runs = n]
  PROVE  /\ q \in FreezerType /\ q.status = "idle" /\ q.row = NoRow /\ q.key = EmptyKey
         /\ q.stepMapToKey = EmptyKey /\ q.stepMaps = <<>>
<1>1. q = [status |-> "idle", row |-> NoRow, key |-> EmptyKey, doc |-> <<>>,
           stepMaps |-> <<>>, stepMapToKey |-> EmptyKey, failed |-> FALSE, runs |-> n]
  BY DEF NoFreeze
<1>2. n \in 0..MaxFreezes
  OBVIOUS
<1> QED
  BY ONLY <1>1, <1>2 DEF FreezerType, Docs

LEMMA SelectedTyped ==
  ASSUME NEW n \in 0..MaxFreezes, NEW q,
         q = [NoFreeze EXCEPT !.status = "selected", !.runs = n]
  PROVE  /\ q \in FreezerType /\ q.status = "selected" /\ q.row = NoRow /\ q.key = EmptyKey
         /\ q.stepMapToKey = EmptyKey /\ q.stepMaps = <<>> /\ q.runs = n
<1>1. q = [status |-> "selected", row |-> NoRow, key |-> EmptyKey, doc |-> <<>>,
           stepMaps |-> <<>>, stepMapToKey |-> EmptyKey, failed |-> FALSE, runs |-> n]
  BY DEF NoFreeze
<1>2. n \in 0..MaxFreezes
  OBVIOUS
<1> QED
  BY ONLY <1>1, <1>2 DEF FreezerType, Docs

LEMMA StepMapsTyped ==
  ASSUME TypeInv, NEW row \in RowRead, NEW key
  PROVE  StepMapsFor(row, key) \in Docs
<1>1. row.stepMaps \in Docs
  <2>1. row \in Row \cup {NoRow}
    BY RowReadBounded
  <2>2. NoRow.stepMaps = <<>> /\ <<>> \in Docs
    BY DEF NoRow, Docs
  <2> QED
    BY <2>1, <2>2 DEF Row
<1>2. \A from, to : StepsInRange(from, to) \in Docs
  BY StepsAreDocs, TypeFacts
<1>3. \A a, b \in Docs : a \o b \in Docs
  BY ConcatProperties DEF Docs
<1> QED
  BY <1>1, <1>2, <1>3 DEF StepMapsFor

LEMMA FreezesTyped ==
  ASSUME TypeInv,
         SelectDraft \/ ReadRowToFreeze \/ BuildDoc \/ GatherStepMaps \/ FreezeFails
  PROVE  TypeInv'
<1>1. Calm /\ UNCHANGED <<latestKeyAtRecent, page, post, request, anchors>>
  BY DEF SelectDraft, ReadRowToFreeze, BuildDoc, GatherStepMaps, FreezeFails, Calm
<1>2. PICK f \in FreezerType : f = freezer
  BY TypeFacts DEF StorageTypes
<1>3. f.runs \in 0..MaxFreezes /\ f.row \in Row \cup {NoRow} /\ f.key \in Keys \cup {EmptyKey}
      /\ f.row.historyKey < Len(history) /\ f.key < Len(history)
  BY <1>2, TypeFacts DEF FreezerType, KeysBounded
<1>4. NoRow.historyKey < Len(history) /\ EmptyKey < Len(history)
  BY NothingIsTyped, TypeFacts DEF EmptyKey
<1>5. CASE SelectDraft
  <2>1. PICK q : q = [NoFreeze EXCEPT !.status = "selected", !.runs = f.runs]
    OBVIOUS
  <2>2. q \in FreezerType /\ q.status = "selected" /\ q.row = NoRow /\ q.key = EmptyKey
        /\ q.runs = f.runs
    BY <1>3, <2>1, SelectedTyped
  <2>3. freezer' = q /\ DOMAIN changes # {} /\ f.runs < MaxFreezes
    BY <1>2, <1>5, <2>1 DEF SelectDraft
  <2> QED
    BY <1>1, <1>4, <2>2, <2>3, FreezerTyped
<1>6. CASE ReadRowToFreeze
  <2>1. PICK row \in RowRead : freezer' = [f EXCEPT !.status = "rowRead", !.row = row]
    BY <1>2, <1>6 DEF ReadRowToFreeze
  <2>2. row \in Row \cup {NoRow} /\ row.historyKey < Len(history)
    BY RowReadBounded
  <2>3. PICK q : q = [f EXCEPT !.status = "rowRead", !.row = row]
    OBVIOUS
  <2>4. q \in FreezerType /\ q.status = "rowRead" /\ q.row = row /\ q.key = f.key
        /\ q.runs = f.runs
    BY <2>2, <2>3 DEF FreezerType
  <2>5. DOMAIN changes # {} /\ f.runs < MaxFreezes
    BY <1>2, <1>6, TypeFacts DEF ReadRowToFreeze, Underway
  <2> QED
    BY <1>1, <1>3, <2>1, <2>2, <2>3, <2>4, <2>5, FreezerTyped
<1>7. CASE BuildDoc
  <2>1. DOMAIN changes # {} /\ f.runs < MaxFreezes
    BY <1>2, <1>7, TypeFacts DEF BuildDoc, Underway
  <2>2. PICK row \in Row \cup {NoRow} : row = f.row
    BY <1>3
  <2>3. PICK key, doc : key = DraftDoc(row, Latest).key /\ doc = DraftDoc(row, Latest).doc
    OBVIOUS
  <2>4. doc \in Docs /\ key \in Keys \cup {EmptyKey} /\ key < Len(history) /\ key >= 0
    BY <1>3, <2>1, <2>2, <2>3, DraftDocTyped
  <2>5. PICK q : q = [f EXCEPT !.status = "built", !.key = key, !.doc = doc]
    OBVIOUS
  <2>6. freezer' = q
    BY <1>2, <1>7, <2>2, <2>3, <2>5 DEF BuildDoc
  <2>7. q \in FreezerType /\ q.status = "built" /\ q.row = f.row /\ q.key = key
        /\ q.runs = f.runs
    BY <2>4, <2>5 DEF FreezerType
  <2> QED
    BY <1>1, <1>3, <2>1, <2>4, <2>6, <2>7, FreezerTyped
<1>8. CASE GatherStepMaps
  <2>1. f.key >= 0 /\ f.runs < MaxFreezes
    BY <1>2, <1>8, TypeFacts DEF GatherStepMaps, Underway
  <2>2. PICK q : freezer' = q
    OBVIOUS
  <2>3. q \in FreezerType /\ q.status = "gathered" /\ q.row = f.row /\ q.key = f.key
        /\ q.runs = f.runs
    <3>1. CASE \E row \in RowRead : q = [f EXCEPT !.status = "gathered", !.stepMapToKey = f.key,
                                              !.stepMaps = StepMapsFor(row, f.key)]
      <4>1. PICK row \in RowRead : q = [f EXCEPT !.status = "gathered", !.stepMapToKey = f.key,
                                              !.stepMaps = StepMapsFor(row, f.key)]
        BY <3>1
      <4>2. PICK maps \in Docs : maps = StepMapsFor(row, f.key)
        BY StepMapsTyped
      <4>3. q = [f EXCEPT !.status = "gathered", !.stepMapToKey = f.key, !.stepMaps = maps]
        BY <4>1, <4>2
      <4> QED
        BY <1>3, <4>3 DEF FreezerType
    <3>2. CASE q = [f EXCEPT !.status = "gathered", !.failed = TRUE]
      BY <3>2 DEF FreezerType
    <3>3. CASE q = [f EXCEPT !.status = "gathered"]
      BY <3>3 DEF FreezerType
    <3> QED
      BY <1>2, <1>8, <2>2, <3>1, <3>2, <3>3 DEF GatherStepMaps
  <2> QED
    BY <1>1, <1>3, <2>1, <2>2, <2>3, FreezerTyped
<1>9. CASE FreezeFails
  <2>1. PICK q : q = [NoFreeze EXCEPT !.runs = f.runs]
    OBVIOUS
  <2>2. q \in FreezerType /\ q.status = "idle" /\ q.row = NoRow /\ q.key = EmptyKey
    BY <1>3, <2>1, NoFreezeTyped
  <2>3. freezer' = q
    BY <1>2, <1>9, <2>1 DEF FreezeFails
  <2> QED
    BY <1>1, <1>4, <2>2, <2>3, FreezerTyped
<1> QED
  BY <1>5, <1>6, <1>7, <1>8, <1>9

LEMMA StoreFrozenTyped ==
  ASSUME TypeInv, StoreFrozen
  PROVE  TypeInv'
<1>1. PICK f \in FreezerType : f = freezer /\ f.status = "gathered" /\ f.key >= 0
  BY TypeFacts DEF StorageTypes, StoreFrozen, Underway
<1>2. PICK new : new = [historyKey |-> f.key, doc |-> f.doc, stepMaps |-> f.stepMaps,
                        stepMapToKey |-> f.stepMapToKey]
  OBVIOUS
<1>3. new \in Row /\ new.historyKey = f.key /\ f.key < Len(history)
      /\ f.row.historyKey < Len(history)
  <2>1. f.key \in Keys
    BY <1>1 DEF FreezerType, EmptyKey
  <2> QED
    BY <1>1, <1>2, <2>1, TypeFacts DEF FreezerType, Row, KeysBounded
<1>4. PICK n \in Nat : n = Len(rows) /\ rows \in [1..n -> Row] /\ DOMAIN rows = 1..n
  BY TypeFacts DEF StorageTypes
<1>5. /\ rows' \in Seq(Row) /\ rows' # <<>>
      /\ \A i \in DOMAIN rows' : rows'[i] = new \/ (i \in DOMAIN rows /\ rows'[i] = rows[i])
  <2>1. CASE rows = <<>>
    <3>1. rows' = <<new>>
      BY <1>1, <1>2, <2>1 DEF StoreFrozen
    <3> QED
      BY <1>3, <3>1
  <2>2. CASE rows # <<>>
    <3>1. PICK i \in 1..n : rows' = [rows EXCEPT ![i] = new]
      BY <1>1, <1>2, <1>4, <2>2 DEF StoreFrozen
    <3>2. rows' \in [1..n -> Row] /\ DOMAIN rows' = 1..n
          /\ \A j \in 1..n : rows'[j] = new \/ rows'[j] = rows[j]
      BY <1>3, <1>4, <3>1
    <3>3. rows' \in Seq(Row)
      BY <1>4, <3>2
    <3>4. rows' # <<>>
      BY <3>1, <3>2
    <3> QED
      BY <1>4, <3>2, <3>3, <3>4
  <2> QED
    BY <2>1, <2>2
<1>6. PICK q : q = [f EXCEPT !.status = "stored", !.runs = @ + 1]
  OBVIOUS
<1>7. q \in FreezerType /\ q.status = "stored" /\ q.key = f.key /\ q.row = f.row
  <2>1. f.runs + 1 \in 0..MaxFreezes
    <3>1. f.runs < MaxFreezes
      BY <1>1, TypeFacts DEF Underway
    <3> QED
      BY <1>1, <3>1, TypeFacts DEF FreezerType
  <2> QED
    BY <1>6, <2>1 DEF FreezerType
<1>8. freezer' = q
  BY <1>1, <1>6 DEF StoreFrozen
<1>9. UNCHANGED <<changes, history, page, post, request, releases, anchors, frozenTo, harm>>
      /\ latestKeyAtRecent' \in BOOLEAN
  BY DEF StoreFrozen
<1>10. unmapped' \subseteq Keys
  BY TypeFacts DEF StoreFrozen, Unmapped, StorageTypes
<1>11. StorageTypes'
  BY <1>5, <1>7, <1>8, <1>9, <1>10, TypeFacts DEF StorageTypes
<1>12. KeysBounded'
  BY <1>3, <1>5, <1>7, <1>8, <1>9, TypeFacts DEF KeysBounded
<1>13. Underway'
  BY <1>1, <1>5, <1>7, <1>8, <1>9, TypeFacts DEF Underway
<1> QED
  BY <1>11, <1>12, <1>13 DEF TypeInv

\* Firebase loses changes, and maybe the freeze ends.
LEMMA WipesTyped ==
  ASSUME TypeInv, WipeBatch \/ WipeFirebase
  PROVE  TypeInv'
<1>1. PICK f \in FreezerType : f = freezer /\ f.status = "stored" /\ f.key \in Keys
  BY TypeFacts
  DEF StorageTypes, WipeBatch, WipeFirebase, WipesAt, Underway, FreezerType, EmptyKey
<1>2. UNCHANGED <<rows, history, latestKeyAtRecent, page, post, request, releases, anchors>>
  BY DEF WipeBatch, WipeFirebase
<1>3. \A k, wiped : Harm(k, wiped) \subseteq Harms
  BY DEF Harm, Harms
<1>4. harm' \subseteq Harms
  BY <1>3, TypeFacts DEF StorageTypes, WipeBatch, WipeFirebase
<1>5. \A k \in Keys : Unmapped(k) \subseteq Keys
  BY DEF Unmapped
<1>6. ASSUME NEW k \in DOMAIN changes
      PROVE  k \in Keys
  <2>1. PICK n \in Nat : n = Len(history) /\ n <= MaxEdits
    BY TypeFacts
  <2>2. k \in 0..n - 1
    BY <2>1, TypeFacts DEF KeysBounded
  <2> QED
    BY <2>1, <2>2, TypeFacts DEF Keys
<1>7. /\ \A j \in DOMAIN changes' : j \in DOMAIN changes /\ changes'[j] = changes[j]
      /\ frozenTo' \in Keys /\ unmapped' \subseteq Keys
  <2>1. CASE WipeBatch
    <3>1. PICK k \in DOMAIN changes :
             /\ changes' = [j \in {i \in DOMAIN changes : i > k} |-> changes[j]]
             /\ frozenTo' = k /\ unmapped' = unmapped \cup Unmapped(k)
      BY <2>1 DEF WipeBatch
    <3> QED
      BY <1>5, <1>6, <3>1, TypeFacts DEF StorageTypes
  <2>2. CASE WipeFirebase
    <3>1. /\ changes' = [j \in {} |-> 0] /\ frozenTo' = f.key
          /\ unmapped' = unmapped \cup Unmapped(f.key)
      BY <1>1, <2>2 DEF WipeFirebase
    <3> QED
      BY <1>1, <1>5, <3>1, TypeFacts DEF StorageTypes
  <2> QED
    BY <2>1, <2>2
<1>8. /\ freezer' \in FreezerType /\ freezer'.row.historyKey < Len(history)
      /\ freezer'.key < Len(history)
      /\ freezer'.status = "idle" \/ (freezer'.status = "stored" /\ freezer'.key >= 0)
  <2>1. CASE WipeBatch
    BY <1>1, <2>1, TypeFacts DEF WipeBatch, KeysBounded, Underway
  <2>2. CASE WipeFirebase
    <3>1. PICK q : q = [NoFreeze EXCEPT !.runs = f.runs]
      OBVIOUS
    <3>2. q \in FreezerType /\ q.status = "idle" /\ q.row = NoRow /\ q.key = EmptyKey
      BY <1>1, <3>1, NoFreezeTyped DEF FreezerType
    <3>3. freezer' = q
      BY <1>1, <2>2, <3>1 DEF WipeFirebase
    <3> QED
      <4>1. EmptyKey < Len(history) /\ NoRow.historyKey < Len(history)
        BY NothingIsTyped, TypeFacts DEF EmptyKey
      <4>2. freezer' \in FreezerType /\ freezer'.status = "idle"
        BY <3>2, <3>3
      <4>3. freezer'.row.historyKey < Len(history) /\ freezer'.key < Len(history)
        BY <3>2, <3>3, <4>1
      <4> QED
        BY <4>2, <4>3
  <2> QED
    BY <2>1, <2>2
<1>9. StorageTypes'
  BY <1>2, <1>4, <1>7, <1>8, TypeFacts DEF StorageTypes
<1>10. KeysBounded'
  BY <1>2, <1>7, <1>8, TypeFacts DEF KeysBounded
<1>11. Underway'
  <2>1. freezer.status = "stored" /\ rows # <<>>
    BY <1>1, TypeFacts DEF Underway
  <2> QED
    BY <1>2, <1>8, <2>1, TypeFacts DEF Underway
<1> QED
  BY <1>9, <1>10, <1>11 DEF TypeInv

LEMMA TypesInitial ==
  ASSUME Init
  PROVE  TypeInv
<1>1. history = <<>> /\ Len(history) = 0 /\ DOMAIN changes = {} /\ rows = <<>>
  BY DEF Init
<1>2. NoFreeze \in FreezerType /\ NoFreeze.status = "idle" /\ NoFreeze.row = NoRow
      /\ NoFreeze.key = EmptyKey
  <2>1. 0 \in 0..MaxFreezes
    BY BoundsAssumption
  <2> QED
    BY <2>1 DEF NoFreeze, FreezerType, Docs
<1>3. page \in [Pages -> PageType] /\ post \in [Posts -> PostType]
      /\ request \in [Requests -> RequestType]
  BY NothingIsTyped DEF Init
<1>4. StorageTypes
  <2>1. rows \in Seq(Row) /\ releases \in Seq(ReleaseType) /\ history \in Docs
    BY <1>1 DEF Init, Docs
  <2>2. Len(history) <= MaxEdits /\ \A k \in DOMAIN changes : changes[k] \in Edits
    BY <1>1, BoundsAssumption
  <2> QED
    BY <1>2, <1>3, <2>1, <2>2 DEF Init, StorageTypes
<1>5. KeysBounded
  <2>1. EmptyKey < Len(history) /\ DOMAIN rows = {} /\ 0..Len(history) - 1 = {}
    BY <1>1 DEF EmptyKey
  <2> QED
    BY <1>1, <1>2, <2>1, NothingIsTyped DEF Init, KeysBounded
<1>6. Underway
  BY <1>2, NothingIsTyped DEF Init, Underway
<1> QED
  BY <1>4, <1>5, <1>6 DEF TypeInv

LEMMA TypesPreserved ==
  ASSUME TypeInv, [Next]_vars
  PROVE  TypeInv'
<1>1. CASE UNCHANGED vars
  BY <1>1 DEF vars, TypeInv, StorageTypes, KeysBounded, Underway
<1>2. CASE \E c \in Pages : ReadRow(c) \/ OpenPage(c) \/ Receive(c) \/ Edit(c) \/ ClosePage(c)
  BY <1>2, PagesTyped, EditTyped
<1>3. CASE \E p \in Posts : FindRow(p) \/ CreateRow(p) \/ UpdateRow(p)
  BY <1>3, PostsTyped
<1>4. CASE \E r \in Requests :
              AskForVersion(r) \/ ReadVersion(r) \/ FinishView(r) \/ CreateRelease(r)
  BY <1>4, RequestsTyped, CreateReleaseTyped
<1>5. CASE CreateDiscussion \/ DaysPass
  BY <1>5, OthersTyped
<1>6. CASE SelectDraft \/ ReadRowToFreeze \/ BuildDoc \/ GatherStepMaps \/ FreezeFails
  BY <1>6, FreezesTyped
<1>7. CASE StoreFrozen \/ WipeBatch \/ WipeFirebase
  BY <1>7, StoreFrozenTyped, WipesTyped
<1> QED
  BY <1>1, <1>2, <1>3, <1>4, <1>5, <1>6, <1>7 DEF Next
----------------------------------------------------------------------------
(* What stays sound when nothing is added and nothing stored.                *)

LEMMA StorageFacts ==
  ASSUME TypeInv, SoundInv
  PROVE  /\ FirebaseInv /\ RowsInv /\ AnchorsInv /\ FreezerInv /\ StartsInv
         /\ StorageTypes /\ Underway
         /\ history \in Docs /\ Len(history) \in Nat /\ Len(history) <= MaxEdits
         /\ MaxEdits \in Nat /\ frozenTo \in Int /\ -1 <= frozenTo /\ frozenTo < Len(history)
         /\ HistoryAt(Len(history) - 1) = history
<1>1. /\ FirebaseInv /\ RowsInv /\ AnchorsInv /\ FreezerInv /\ StartsInv /\ StorageTypes
      /\ Underway /\ history \in Docs /\ Len(history) \in Nat /\ Len(history) <= MaxEdits
      /\ MaxEdits \in Nat
  BY TypeFacts DEF SoundInv, StartsInv
<1>2. frozenTo \in Int /\ -1 <= frozenTo /\ frozenTo < Len(history)
  BY <1>1 DEF FirebaseInv, EmptyKey
<1> QED
  BY <1>1, <1>2, HistoryWhole

LEMMA CalmKeeps ==
  ASSUME TypeInv, SoundInv, Calm
  PROVE  /\ FirebaseInv' /\ RowsInv' /\ StartsInv'
         /\ \A p : PageInv(p) => PageInv(p)'
         /\ \A p : PostInv(p) => PostInv(p)'
         /\ \A r : RequestInv(r) => RequestInv(r)'
         /\ UNCHANGED anchors => AnchorsInv'
         /\ UNCHANGED freezer => FreezerInv'
<1>1. FirebaseInv /\ Grows /\ ReleasesGrow /\ UNCHANGED <<rows, releases, unmapped, harm>>
      /\ StartsInv /\ LatestStays
  BY StorageFacts, SameGrows DEF Calm, ReleasesGrow, LatestStays
<1>2. FirebaseInv'
  BY <1>1 DEF Calm, FirebaseInv
<1>3. RowsInv'
  BY <1>1, RowsStay, StorageFacts
<1>4. StartsInv'
  <2>1. \A r : ReleaseInv(r) => ReleaseInv(r)'
    BY <1>1, ReleasesStay
  <2> QED
    BY <1>1, <2>1 DEF StartsInv, Calm
<1>5. \A p : PostInv(p) => PostInv(p)'
  BY <1>1, PostsStay
<1>6. UNCHANGED freezer => FreezerInv'
  BY <1>1, FreezerStays, StorageFacts
<1>7. UNCHANGED anchors => AnchorsInv'
  BY <1>1, AnchorsStay, StorageFacts
<1> QED
  BY <1>1, <1>2, <1>3, <1>4, <1>5, <1>6, <1>7, PagesStay, RequestsStay

LEMMA PageMoves ==
  ASSUME TypeInv, SoundInv, Calm, NEW c \in Pages, NEW q, PageInv(q),
         page' = [page EXCEPT ![c] = q], UNCHANGED <<post, request, anchors, freezer>>
  PROVE  SoundInv'
<1>1. \A d \in Pages : page'[d] = q \/ page'[d] = page[d]
  BY TypeFacts DEF StorageTypes
<1>2. \A d \in Pages : PageInv(page[d])'
  BY <1>1, CalmKeeps DEF SoundInv
<1>3. \A p \in Posts : PostInv(post[p])'
  BY CalmKeeps DEF SoundInv
<1>4. \A r \in Requests : RequestInv(request[r])'
  BY CalmKeeps DEF SoundInv
<1> QED
  BY <1>2, <1>3, <1>4, CalmKeeps DEF SoundInv, StartsInv

LEMMA PostMoves ==
  ASSUME TypeInv, SoundInv, Calm, NEW p \in Posts, NEW q, PostInv(q),
         post' = [post EXCEPT ![p] = q], UNCHANGED <<page, request, anchors, freezer>>
  PROVE  SoundInv'
<1>1. \A d \in Posts : post'[d] = q \/ post'[d] = post[d]
  BY TypeFacts DEF StorageTypes
<1>2. \A d \in Posts : PostInv(post[d])'
  BY <1>1, CalmKeeps DEF SoundInv
<1>3. \A c \in Pages : PageInv(page[c])'
  BY CalmKeeps DEF SoundInv
<1>4. \A r \in Requests : RequestInv(request[r])'
  BY CalmKeeps DEF SoundInv
<1> QED
  BY <1>2, <1>3, <1>4, CalmKeeps DEF SoundInv, StartsInv

LEMMA RequestMoves ==
  ASSUME TypeInv, SoundInv, Calm, NEW r \in Requests, NEW q, RequestInv(q),
         request' = [request EXCEPT ![r] = q], UNCHANGED <<page, post, anchors, freezer>>
  PROVE  SoundInv'
<1>1. \A d \in Requests : request'[d] = q \/ request'[d] = request[d]
  BY TypeFacts DEF StorageTypes
<1>2. \A d \in Requests : RequestInv(request[d])'
  BY <1>1, CalmKeeps DEF SoundInv
<1>3. \A c \in Pages : PageInv(page[c])'
  BY CalmKeeps DEF SoundInv
<1>4. \A p \in Posts : PostInv(post[p])'
  BY CalmKeeps DEF SoundInv
<1> QED
  BY <1>2, <1>3, <1>4, CalmKeeps DEF SoundInv, StartsInv

LEMMA FreezerMoves ==
  ASSUME TypeInv, SoundInv, Calm, FreezerInv', UNCHANGED <<page, post, request, anchors>>
  PROVE  SoundInv'
<1>1. \A c \in Pages : PageInv(page[c])'
  BY CalmKeeps DEF SoundInv
<1>2. \A p \in Posts : PostInv(post[p])'
  BY CalmKeeps DEF SoundInv
<1>3. \A r \in Requests : RequestInv(request[r])'
  BY CalmKeeps DEF SoundInv
<1> QED
  BY <1>1, <1>2, <1>3, CalmKeeps DEF SoundInv, StartsInv
----------------------------------------------------------------------------
(* The steps of a page.                                                      *)

LEMMA HistoryExtends ==
  ASSUME history \in Docs, NEW k \in Int, -1 <= k, k + 1 < Len(history)
  PROVE  Append(HistoryAt(k), history[k + 2]) = HistoryAt(k + 1)
<1>1. Len(history) \in Nat /\ k + 2 \in 1..Len(history) /\ history \in Seq(Edits)
  BY DEF Docs
<1>2. history[k + 2] \in Edits
  BY <1>1, ElementOfSeq
<1>3. SubSeq(history, k + 2, k + 2) = <<history[k + 2]>>
  <2>1. /\ SubSeq(history, k + 2, k + 2) \in Seq(Edits)
        /\ Len(SubSeq(history, k + 2, k + 2)) = 1
        /\ SubSeq(history, k + 2, k + 2)[1] = history[k + 2]
    <3>1. \A i \in k + 2..k + 2 : history[i] \in Edits
      BY <1>1, <1>2
    <3>2. /\ SubSeq(history, k + 2, k + 2) \in Seq(Edits)
          /\ Len(SubSeq(history, k + 2, k + 2)) = 1
          /\ \A i \in 1..1 : SubSeq(history, k + 2, k + 2)[i] = history[k + 2 + i - 1]
      BY <1>1, <3>1, SubSeqProperties
    <3>3. 1 \in 1..1 /\ k + 2 + 1 - 1 = k + 2
      BY <1>1
    <3> QED
      BY <3>2, <3>3
  <2>2. <<history[k + 2]>> \in Seq(Edits) /\ Len(<<history[k + 2]>>) = 1
    BY <1>2
  <2>3. \A i \in 1..1 : SubSeq(history, k + 2, k + 2)[i] = (<<history[k + 2]>>)[i]
    <3>1. \A i \in 1..1 : i = 1
      OBVIOUS
    <3>2. (<<history[k + 2]>>)[1] = history[k + 2]
      OBVIOUS
    <3> QED
      BY <2>1, <3>1, <3>2, Zenon
  <2> QED
    BY <2>1, <2>2, <2>3, SeqEqual
<1>4. (k + 1) + 1 = k + 2 /\ k + 1 \in Int /\ k <= k + 1
  OBVIOUS
<1>5. HistoryAt(k) \o SubSeq(history, k + 2, (k + 1) + 1) = HistoryAt(k + 1)
  BY <1>4, HistoryJoins
<1>6. HistoryAt(k) \in Seq(Edits)
  <2>1. k < Len(history) /\ k <= k
    BY <1>1
  <2> QED
    BY <2>1, HistoryJoins DEF Docs
<1> QED
  BY <1>2, <1>3, <1>4, <1>5, <1>6, AppendIsConcat

LEMMA NothingIsSound == PageInv(NoPage) /\ PostInv(NoPost) /\ RequestInv(NoRequest)
BY DEF PageInv, NoPage, PostInv, NoPost, RequestInv, NoRequest

LEMMA ReadRowKeeps ==
  ASSUME TypeInv, SoundInv, NEW c \in Pages, ReadRow(c)
  PROVE  SoundInv'
<1>1. Calm /\ UNCHANGED <<post, request, anchors, freezer>>
  BY DEF ReadRow, Calm
<1>2. PICK row \in RowRead :
         page' = [page EXCEPT ![c] = [NoPage EXCEPT !.status = "loading", !.row = row]]
  BY DEF ReadRow
<1>3. Serves(row)
  BY StorageFacts, RowReadIsSound
<1>4. PICK q : q = [NoPage EXCEPT !.status = "loading", !.row = row]
  OBVIOUS
<1>5. PageInv(q)
  <2>1. q.status = "loading" /\ q.row = row
    BY <1>4 DEF NoPage
  <2> QED
    BY <1>3, <2>1 DEF PageInv
<1> QED
  BY <1>1, <1>2, <1>4, <1>5, PageMoves

LEMMA OpenPageKeeps ==
  ASSUME TypeInv, SoundInv, NEW c \in Pages, OpenPage(c)
  PROVE  SoundInv'
<1>1. Calm /\ UNCHANGED <<post, request, anchors, freezer>>
  BY DEF OpenPage, Calm
<1>2. PICK row : row = page[c].row /\ Serves(row)
  BY DEF SoundInv, PageInv, OpenPage
<1>3. DraftDoc(row, Latest).doc = history /\ DraftDoc(row, Latest).key = Len(history) - 1
  BY <1>2, StorageFacts, LatestIsRead
<1>4. PICK q : q = [NoPage EXCEPT !.status = "open", !.key = Len(history) - 1, !.doc = history]
  OBVIOUS
<1>5. page' = [page EXCEPT ![c] = q]
  BY <1>2, <1>3, <1>4 DEF OpenPage
<1>6. PageInv(q)
  BY <1>4, StorageFacts DEF NoPage, PageInv
<1> QED
  BY <1>1, <1>5, <1>6, PageMoves

LEMMA ReceiveKeeps ==
  ASSUME TypeInv, SoundInv, NEW c \in Pages, Receive(c)
  PROVE  SoundInv'
<1>1. Calm /\ UNCHANGED <<post, request, anchors, freezer>>
  BY DEF Receive, Calm
<1>2. page[c] \in PageType /\ page[c].status = "open"
  BY TypeFacts DEF StorageTypes, Receive
<1>3. PICK k \in Int : /\ k = page[c].key /\ frozenTo <= k /\ k < Len(history)
                       /\ page[c].doc = HistoryAt(k)
  <2>1. PageInv(page[c])
    BY DEF SoundInv
  <2> QED
    BY <1>2, <2>1, StorageFacts DEF PageInv
<1>4. k + 1 \in frozenTo + 1..Len(history) - 1 /\ changes[k + 1] = history[(k + 1) + 1]
  BY <1>3, StorageFacts DEF Receive, FirebaseInv
<1>5. -1 <= k /\ k + 1 < Len(history) /\ (k + 1) + 1 = k + 2
  <2>1. PICK n, f \in Int : n = Len(history) /\ f = frozenTo /\ -1 <= f
    BY StorageFacts
  <2>2. f <= k /\ k + 1 \in f + 1..n - 1
    BY <1>3, <1>4, <2>1
  <2>3. -1 <= k /\ k + 1 < n /\ (k + 1) + 1 = k + 2
    BY <2>1, <2>2
  <2> QED
    BY <2>1, <2>3
<1>6. Append(page[c].doc, changes[page[c].key + 1]) = HistoryAt(k + 1)
  BY <1>3, <1>4, <1>5, StorageFacts, HistoryExtends
<1>7. PICK q : q = [page[c] EXCEPT !.key = k + 1, !.doc = HistoryAt(k + 1)]
  OBVIOUS
<1>8. page' = [page EXCEPT ![c] = q]
  BY <1>3, <1>6, <1>7 DEF Receive
<1>9. PageInv(q)
  <2>1. q.status = "open" /\ q.key = k + 1 /\ q.doc = HistoryAt(k + 1)
    BY <1>2, <1>7 DEF PageType
  <2>2. k + 1 \in frozenTo..Len(history) - 1
    BY <1>3, <1>4, StorageFacts
  <2> QED
    BY <2>1, <2>2 DEF PageInv
<1> QED
  BY <1>1, <1>8, <1>9, PageMoves

LEMMA ClosePageKeeps ==
  ASSUME TypeInv, SoundInv, NEW c \in Pages, ClosePage(c)
  PROVE  SoundInv'
BY NothingIsSound, PageMoves DEF ClosePage, Calm

LEMMA DaysPassKeeps ==
  ASSUME TypeInv, SoundInv, DaysPass
  PROVE  SoundInv'
<1>1. Calm /\ UNCHANGED <<page, post, request, anchors, freezer>>
  BY DEF DaysPass, Calm
<1> QED
  BY <1>1, CalmKeeps, FreezerMoves
----------------------------------------------------------------------------
(* An edit.                                                                  *)

\* The page that may write is at the end of the history.
LEMMA EditIsNext ==
  ASSUME TypeInv, SoundInv, NEW c \in Pages, Edit(c)
  PROVE  /\ page[c].key + 1 = Len(history) /\ page[c].doc = history
         /\ Len(history) + 1 \in Edits
         /\ Append(page[c].doc, Len(history) + 1) = history'
         /\ history' \in Docs /\ Len(history') = Len(history) + 1
         /\ SubSeq(history', 1, Len(history) + 1) = history'
<1>1. PICK k \in Int : /\ k = page[c].key /\ frozenTo <= k /\ k < Len(history)
                       /\ page[c].doc = HistoryAt(k)
  <2>1. PageInv(page[c]) /\ page[c].status = "open"
    BY DEF SoundInv, Edit
  <2> QED
    BY <2>1, StorageFacts DEF PageInv
<1>2. k + 1 \notin frozenTo + 1..Len(history) - 1
  BY <1>1, StorageFacts DEF Edit, FirebaseInv
<1>3. k + 1 = Len(history) /\ k = Len(history) - 1
  BY <1>1, <1>2, StorageFacts
<1>4. Len(history) + 1 \in Edits
  BY StorageFacts DEF Edit, Edits
<1>5. history' = Append(history, Len(history) + 1)
  BY DEF Edit
<1>6. history' \in Docs /\ Len(history') = Len(history) + 1
  BY <1>4, <1>5, StorageFacts, AppendProperties DEF Docs
<1>7. SubSeq(history', 1, Len(history) + 1) = history'
  BY <1>6, SubSeqFull DEF Docs
<1> QED
  BY <1>1, <1>3, <1>4, <1>5, <1>6, <1>7, StorageFacts

LEMMA EditGrowsFirebase ==
  ASSUME TypeInv, SoundInv, NEW c \in Pages, Edit(c)
  PROVE  FirebaseInv'
<1>1. /\ page[c].key + 1 = Len(history) /\ history' \in Docs
      /\ Len(history') = Len(history) + 1 /\ Len(history) + 1 \in Edits
  BY EditIsNext
<1>2. PICK n \in Nat : n = Len(history) /\ n < MaxEdits
  BY StorageFacts DEF Edit
<1>3. changes' = [j \in DOMAIN changes \cup {n} |-> IF j = n THEN n + 1 ELSE changes[j]]
  BY <1>1, <1>2 DEF Edit
<1>4. DOMAIN changes' = frozenTo'+ 1..Len(history') - 1
  <2>1. DOMAIN changes = frozenTo + 1..n - 1
    BY <1>2, StorageFacts DEF FirebaseInv
  <2>2. DOMAIN changes \cup {n} = frozenTo + 1..n
    BY <1>2, <2>1, StorageFacts
  <2>3. DOMAIN changes' = frozenTo + 1..n
    BY <1>3, <2>2
  <2>4. UNCHANGED frozenTo /\ Len(history') - 1 = n
    BY <1>1, <1>2 DEF Edit
  <2> QED
    BY <2>3, <2>4
<1>5. ASSUME NEW j \in DOMAIN changes'
      PROVE  changes'[j] = history'[j + 1]
  <2>1. history' = Append(history, n + 1) /\ n + 1 \in Edits /\ history \in Seq(Edits)
    BY <1>1, <1>2, StorageFacts DEF Edit, Docs
  <2>2. /\ \A i \in 1..n : history'[i] = history[i]
        /\ history'[n + 1] = n + 1
    BY <1>2, <2>1, AppendProperties
  <2>3. CASE j = n
    BY <1>3, <2>2, <2>3
  <2>4. CASE j # n
    <3>1. j \in DOMAIN changes /\ changes'[j] = changes[j]
      BY <1>3, <2>4
    <3>2. j \in frozenTo + 1..n - 1 /\ changes[j] = history[j + 1]
      BY <1>2, <3>1, StorageFacts DEF FirebaseInv
    <3>3. j + 1 \in 1..n
      BY <1>2, <3>2, StorageFacts
    <3> QED
      BY <2>2, <3>1, <3>2, <3>3
  <2> QED
    BY <2>3, <2>4
<1>6. Len(history') <= MaxEdits /\ frozenTo' \in EmptyKey..Len(history') - 1
  BY <1>1, <1>2, StorageFacts DEF Edit, EmptyKey
<1> QED
  BY <1>1, <1>4, <1>5, <1>6 DEF FirebaseInv

LEMMA EditKeeps ==
  ASSUME TypeInv, SoundInv, NEW c \in Pages, Edit(c)
  PROVE  SoundInv'
<1>1. /\ page[c].key + 1 = Len(history) /\ Len(history) + 1 \in Edits
      /\ Append(page[c].doc, Len(history) + 1) = history'
      /\ history' \in Docs /\ Len(history') = Len(history) + 1
      /\ SubSeq(history', 1, Len(history) + 1) = history'
  BY EditIsNext
<1>2. FirebaseInv /\ Grows /\ ReleasesGrow
      /\ UNCHANGED <<rows, releases, anchors, freezer, harm, request, unmapped, frozenTo>>
  <2>1. history' = Append(history, Len(history) + 1) /\ UNCHANGED frozenTo
    BY DEF Edit
  <2>2. \A e \in Edits : history' = Append(history, e) => Grows
    BY <2>1, StorageFacts, AppendGrows
  <2> QED
    BY <1>1, <2>1, <2>2, StorageFacts DEF ReleasesGrow, Edit
<1>3. PICK n \in Nat : n = Len(history) /\ n < MaxEdits
  BY StorageFacts DEF Edit
<1>4. FirebaseInv' /\ HistoryAt(n)' = history'
  BY <1>1, <1>3, EditGrowsFirebase DEF HistoryAt
<1>5. RowsInv' /\ AnchorsInv' /\ FreezerInv'
  <2>1. LatestStays
    BY <1>2 DEF LatestStays
  <2> QED
    BY <1>2, <2>1, RowsStay, AnchorsStay, FreezerStays, StorageFacts
<1>6. \A r \in Requests : RequestInv(request[r])'
  BY <1>2, RequestsStay DEF SoundInv
<1>7. \A i \in DOMAIN releases' : ReleaseInv(releases[i])'
  <2>1. \A r : ReleaseInv(r) => ReleaseInv(r)'
    BY <1>2, ReleasesStay
  <2> QED
    BY <1>2, <2>1 DEF SoundInv
<1>8. page[c] \in PageType /\ page[c].status = "open" /\ page \in [Pages -> PageType]
  BY TypeFacts DEF StorageTypes, Edit
<1>9. PICK q : q = [page[c] EXCEPT !.key = n, !.doc = history']
  OBVIOUS
<1>10. page' = [page EXCEPT ![c] = q]
  BY <1>1, <1>3, <1>9 DEF Edit
<1>11. q.status = "open" /\ q.key = n /\ q.doc = history'
  BY <1>8, <1>9 DEF PageType
<1>12. n \in frozenTo'..Len(history') - 1 /\ n \in 0..Len(history') - 1
  BY <1>1, <1>2, <1>3, StorageFacts
<1>13. \A d \in Pages : PageInv(page[d])'
  <2>1. \A p : PageInv(p) => PageInv(p)'
    BY <1>2, PagesStay
  <2>2. PageInv(q)'
    BY <1>4, <1>11, <1>12 DEF PageInv
  <2>3. \A d \in Pages : page'[d] = q \/ page'[d] = page[d]
    BY <1>8, <1>10
  <2>4. \A d \in Pages : PageInv(page[d])
    BY DEF SoundInv
  <2> QED
    BY <2>1, <2>2, <2>3, <2>4
<1>14. PICK s : s = [NoPost EXCEPT !.status = "sent", !.historyKey = n, !.doc = history']
  OBVIOUS
<1>15. s.status = "sent" /\ s.historyKey = n /\ s.doc = history'
  BY <1>14 DEF NoPost
<1>16. UNCHANGED post \/ \E p \in Posts : post' = [post EXCEPT ![p] = s]
  BY <1>1, <1>3, <1>14 DEF Edit
<1>17. \A p \in Posts : post'[p] = s \/ post'[p] = post[p]
  BY <1>16, TypeFacts DEF StorageTypes
<1>18. \A p \in Posts : PostInv(post[p])'
  <2>1. \A p : PostInv(p) => PostInv(p)'
    BY <1>2, PostsStay
  <2>2. PostInv(s)'
    BY <1>4, <1>12, <1>15 DEF PostInv
  <2>3. \A p \in Posts : PostInv(post[p])
    BY DEF SoundInv
  <2> QED
    BY <1>17, <2>1, <2>2, <2>3
<1>19. unmapped' \subseteq 0..Len(history') - 1
  <2>1. \A k \in 0..Len(history) - 1 : k \in 0..Len(history') - 1
    BY <1>1, <1>3
  <2> QED
    BY <1>2, <2>1 DEF SoundInv
<1> QED
  BY <1>4, <1>5, <1>6, <1>7, <1>13, <1>18, <1>19 DEF SoundInv
----------------------------------------------------------------------------
(* The steps of a post.                                                      *)

LEMMA FindRowKeeps ==
  ASSUME TypeInv, SoundInv, NEW p \in Posts, FindRow(p)
  PROVE  SoundInv'
<1>1. Calm /\ UNCHANGED <<page, request, anchors, freezer>>
  BY DEF FindRow, Calm
<1>2. post[p] \in PostType /\ post[p].status = "sent" /\ PostInv(post[p])
  BY TypeFacts DEF SoundInv, StorageTypes, FindRow
<1>3. PICK i \in IF rows = <<>> THEN {0} ELSE DOMAIN rows :
         post' = [post EXCEPT ![p].status = "found", ![p].found = i,
                    ![p].foundKey = IF i = 0 THEN EmptyKey ELSE rows[i].historyKey]
  BY DEF FindRow
<1>4. PICK key : key = IF i = 0 THEN EmptyKey ELSE rows[i].historyKey
  OBVIOUS
<1>5. PICK q : q = [post[p] EXCEPT !.status = "found", !.found = i, !.foundKey = key]
  OBVIOUS
<1>6. post' = [post EXCEPT ![p] = q]
  BY <1>3, <1>4, <1>5
<1>7. /\ q.status = "found" /\ q.found = i /\ (i = 0 \/ i \in DOMAIN rows)
      /\ q.historyKey = post[p].historyKey /\ q.doc = post[p].doc
  BY <1>2, <1>3, <1>5 DEF PostType
<1>8. PostInv(q)
  BY <1>2, <1>7 DEF PostInv
<1> QED
  BY <1>1, <1>6, <1>8, PostMoves

\* The post has written: what is left to show is of the rows.
LEMMA RowWritten ==
  ASSUME TypeInv, SoundInv, NEW p \in Posts, RowsInv', FreezerInv',
         DOMAIN rows \subseteq DOMAIN rows', post' = [post EXCEPT ![p] = NoPost],
         UNCHANGED <<changes, history, page, request, releases, anchors, frozenTo, unmapped>>
  PROVE  SoundInv'
<1>1. FirebaseInv /\ Grows /\ ReleasesGrow
  BY SameGrows, StorageFacts DEF ReleasesGrow
<1>2. FirebaseInv'
  BY <1>1 DEF FirebaseInv
<1>3. AnchorsInv'
  BY <1>1, AnchorsStay, StorageFacts
<1>4. \A r \in Requests : RequestInv(request[r])'
  BY <1>1, RequestsStay DEF SoundInv
<1>5. \A i \in DOMAIN releases' : ReleaseInv(releases[i])'
  <2>1. \A r : ReleaseInv(r) => ReleaseInv(r)'
    BY <1>1, ReleasesStay
  <2> QED
    BY <2>1 DEF SoundInv
<1>6. \A c \in Pages : PageInv(page[c])'
  BY <1>1, PagesStay DEF SoundInv
<1>7. \A d \in Posts : post'[d] = NoPost \/ post'[d] = post[d]
  BY TypeFacts DEF StorageTypes
<1>8. \A d \in Posts : PostInv(post[d])'
  <2>1. \A q : PostInv(q) => PostInv(q)'
    BY <1>1, PostsStay
  <2> QED
    BY <1>7, <2>1, NothingIsSound DEF SoundInv
<1> QED
  BY <1>2, <1>3, <1>4, <1>5, <1>6, <1>8 DEF SoundInv

LEMMA CreateRowKeeps ==
  ASSUME TypeInv, SoundInv, NEW p \in Posts, CreateRow(p), Harmless'
  PROVE  SoundInv'
<1>1. PICK k, doc : /\ k \in Int /\ k = post[p].historyKey /\ doc = post[p].doc
                    /\ 0 <= k /\ k < Len(history) /\ doc = HistoryAt(k)
  BY StorageFacts DEF SoundInv, PostInv, CreateRow
<1>2. doc \in Docs /\ k \in Keys
  BY <1>1, HistoryJoins, StorageFacts DEF Keys
<1>3. PICK new : new = [NoRow EXCEPT !.historyKey = k, !.doc = doc]
  OBVIOUS
<1>4. /\ new \in Row /\ new.historyKey = k /\ new.doc = doc
      /\ new.stepMaps = <<>> /\ new.stepMapToKey = EmptyKey
  <2>1. new = [historyKey |-> k, doc |-> doc, stepMaps |-> <<>>, stepMapToKey |-> EmptyKey]
    BY <1>3 DEF NoRow
  <2> QED
    BY <1>2, <2>1 DEF Row, Docs
<1>5. rows' = Append(rows, new) /\ rows \in Seq(Row)
  BY <1>1, <1>3, TypeFacts DEF CreateRow, StorageTypes
<1>6. PICK n \in Nat : /\ n = Len(rows) /\ DOMAIN rows = 1..n /\ DOMAIN rows' = 1..n + 1
                       /\ rows'[n + 1] = new /\ Len(rows') = n + 1
                       /\ \A i \in 1..n : rows'[i] = rows[i]
  BY <1>4, <1>5
<1>7. frozenTo = EmptyKey
  <2>1. frozenTo # EmptyKey => rows # <<>>
    <3>1. frozenTo # EmptyKey => Len(rows) = 1
      BY StorageFacts DEF RowsInv
    <3>2. rows = <<>> => Len(rows) = 0
      OBVIOUS
    <3> QED
      BY <3>1, <3>2
  <2>2. harm' = {} => rows = <<>> \/ frozenTo = EmptyKey
    BY DEF CreateRow
  <2> QED
    BY <2>1, <2>2 DEF Harmless, CreateRow
<1>8. UNCHANGED <<changes, history, page, request, releases, anchors, freezer, frozenTo,
                  unmapped>> /\ harm \subseteq harm' /\ post' = [post EXCEPT ![p] = NoPost]
  BY DEF CreateRow
<1>9. FirebaseInv /\ Grows /\ ReleasesGrow /\ LatestStays
  BY <1>8, SameGrows, StorageFacts DEF ReleasesGrow, LatestStays
<1>10. Serves(new)'
  <2>1. k \in frozenTo..Len(history) - 1
    BY <1>1, <1>7, StorageFacts DEF EmptyKey
  <2> QED
    BY <1>1, <1>4, <1>8, <2>1 DEF Serves, HistoryAt
<1>11. Continues(new)'
  <2>1. LatestRelease \in Keys \cup {EmptyKey}
    BY LatestIsLargest, StorageFacts
  <2>2. frozenTo <= LatestRelease
    BY <1>7, <2>1, StorageFacts DEF Keys, EmptyKey
  <2>3. LatestRelease' = LatestRelease
    BY <1>8 DEF LatestRelease
  <2> QED
    BY <1>4, <1>8, <2>2, <2>3 DEF Continues
<1>12. RowsInv'
  <2>1. ASSUME NEW i \in 1..n
        PROVE  Serves(rows[i])' /\ Continues(rows[i])'
    <3>1. PICK row : row = rows[i] /\ row = rows'[i]
      BY <1>6
    <3>2. Serves(row) /\ Continues(row)
      BY <1>6, <3>1, StorageFacts DEF RowsInv
    <3>3. Serves(row)' /\ Continues(row)'
      BY <1>9, <3>2, ServesStays, ContinuesStays, StorageFacts
    <3> QED
      BY <3>1, <3>3
  <2>2. \A i \in 1..n + 1 : i \in 1..n \/ i = n + 1
    BY <1>6
  <2>3. Serves(rows[n + 1])' /\ Continues(rows[n + 1])'
    BY <1>6, <1>10, <1>11
  <2>4. \A i \in DOMAIN rows' : Serves(rows[i])' /\ Continues(rows[i])'
    BY <1>6, <2>1, <2>2, <2>3
  <2> QED
    BY <1>7, <1>8, <2>4 DEF RowsInv
<1>13. FreezerInv'
  <2>1. ASSUME freezer.status = "built"
        PROVE  \A i \in DOMAIN rows' : rows'[i].stepMapToKey <= freezer.key
    <3>1. freezer.key >= 0 /\ freezer.key \in Int
      BY <2>1, StorageFacts DEF Underway, StorageTypes, FreezerType, Keys, EmptyKey
    <3>2. \A i \in 1..n : rows'[i].stepMapToKey <= freezer.key
      BY <1>6, <2>1, StorageFacts DEF FreezerInv
    <3>3. rows'[n + 1].stepMapToKey <= freezer.key
      BY <1>4, <1>6, <3>1 DEF EmptyKey
    <3> QED
      BY <1>6, <3>2, <3>3
  <2>2. freezer.status = "stored" => Len(rows') # 1
    <3>1. freezer.status = "stored" => n # 0
      BY <1>6, StorageFacts, <1>5 DEF Underway
    <3> QED
      BY <1>6, <3>1
  <2> QED
    BY <1>8, <1>9, <2>1, <2>2, FreezerKeeps, StorageFacts
<1>14. DOMAIN rows \subseteq DOMAIN rows'
  <2>1. \A i \in 1..n : i \in 1..n + 1
    BY <1>6
  <2> QED
    BY <1>6, <2>1
<1> QED
  BY <1>8, <1>12, <1>13, <1>14, RowWritten

LEMMA UpdateRowKeeps ==
  ASSUME TypeInv, SoundInv, NEW p \in Posts, UpdateRow(p), Harmless'
  PROVE  SoundInv'
<1>1. PICK k, doc : /\ k \in Int /\ k = post[p].historyKey /\ doc = post[p].doc
                    /\ 0 <= k /\ k < Len(history) /\ doc = HistoryAt(k)
  BY StorageFacts DEF SoundInv, PostInv, UpdateRow
<1>2. doc \in Docs /\ k \in Keys
  BY <1>1, HistoryJoins, StorageFacts DEF Keys
<1>3. PICK i : i = post[p].found /\ i \in DOMAIN rows
  BY DEF SoundInv, PostInv, UpdateRow
<1>4. PICK n \in Nat : n = Len(rows) /\ rows \in [1..n -> Row] /\ DOMAIN rows = 1..n
  BY TypeFacts DEF StorageTypes
<1>5. UNCHANGED <<changes, history, page, request, releases, anchors, freezer, frozenTo,
                  unmapped>> /\ harm \subseteq harm' /\ post' = [post EXCEPT ![p] = NoPost]
  BY DEF UpdateRow
<1>6. FirebaseInv /\ Grows /\ ReleasesGrow /\ LatestStays
  BY <1>5, SameGrows, StorageFacts DEF ReleasesGrow, LatestStays
<1>7. CASE UNCHANGED <<rows, harm>>
  <2>1. RowsInv' /\ FreezerInv'
    BY <1>5, <1>6, <1>7, RowsStay, FreezerStays, StorageFacts
  <2> QED
    BY <1>5, <1>7, <2>1, RowWritten
<1>8. CASE /\ rows' = [rows EXCEPT ![post[p].found] =
                         WithCheckpoint(@, post[p].historyKey, post[p].doc)]
           /\ harm' = IF post[p].historyKey < FrozenKey THEN harm \cup {"rowSetBack"}
                                                        ELSE harm
  <2>1. PICK old \in Row : old = rows[i]
    BY <1>3, <1>4
  <2>2. PICK new : new = [old EXCEPT !.historyKey = k, !.doc = doc]
    OBVIOUS
  <2>3. /\ new \in Row /\ new.historyKey = k /\ new.doc = doc
        /\ new.stepMaps = old.stepMaps /\ new.stepMapToKey = old.stepMapToKey
    BY <1>2, <2>1, <2>2 DEF Row
  <2>4. rows' = [rows EXCEPT ![i] = new]
    BY <1>1, <1>3, <1>8, <2>1, <2>2 DEF WithCheckpoint
  <2>5. /\ DOMAIN rows' = DOMAIN rows /\ rows'[i] = new /\ Len(rows') = n
        /\ \A j \in 1..n : j # i => rows'[j] = rows[j]
    <3>1. DOMAIN rows' = 1..n /\ rows' \in [1..n -> Row]
      BY <1>4, <2>3, <2>4
    <3>2. Len(rows') = n
      BY <1>4, <3>1
    <3> QED
      BY <1>3, <1>4, <2>4, <3>1, <3>2
  <2>6. harm' = {} => k >= FrozenKey
    <3>1. FrozenKey \in Int
      BY StorageFacts DEF FrozenKey, StorageTypes, FreezerType, Keys, EmptyKey
    <3>2. harm' = {} => ~(post[p].historyKey < FrozenKey)
      BY <1>8, Zenon
    <3>3. PICK b \in Int : b = FrozenKey
      BY <3>1
    <3>4. harm' = {} => ~(k < b)
      BY <1>1, <3>2, <3>3
    <3> QED
      BY <1>1, <3>3, <3>4
  <2>7. k \in frozenTo..Len(history) - 1
    <3>1. CASE frozenTo = EmptyKey
      BY <1>1, <3>1, StorageFacts DEF EmptyKey
    <3>2. CASE frozenTo # EmptyKey
      <4>1. k >= FrozenKey
        BY <1>5, <2>6, <3>2 DEF Harmless
      <4>2. freezer.status = "stored" => freezer.key \in frozenTo..Len(history) - 1
        BY StorageFacts DEF FreezerInv
      <4> QED
        BY <1>1, <4>1, <4>2, StorageFacts DEF FrozenKey
    <3> QED
      BY <3>1, <3>2
  <2>8. Serves(new)'
    BY <1>1, <1>5, <2>3, <2>7 DEF Serves, HistoryAt
  <2>9. Continues(new)'
    <3>1. Continues(old)
      BY <1>3, <2>1, StorageFacts DEF RowsInv
    <3>2. Continues(new)
      BY <2>3, <3>1 DEF Continues
    <3> QED
      BY <1>6, <3>2, ContinuesStays, StorageFacts
  <2>10. RowsInv'
    <3>1. ASSUME NEW j \in 1..n, j # i
          PROVE  Serves(rows[j])' /\ Continues(rows[j])'
      <4>1. PICK row : row = rows[j] /\ row = rows'[j]
        BY <2>5, <3>1
      <4>2. Serves(row) /\ Continues(row)
        BY <1>4, <4>1, StorageFacts DEF RowsInv
      <4>3. Serves(row)' /\ Continues(row)'
        BY <1>6, <4>2, ServesStays, ContinuesStays, StorageFacts
      <4> QED
        BY <4>1, <4>3
    <3>2. Serves(rows[i])' /\ Continues(rows[i])'
      BY <2>5, <2>8, <2>9
    <3>3. \A j \in DOMAIN rows' : Serves(rows[j])' /\ Continues(rows[j])'
      BY <1>3, <1>4, <2>5, <3>1, <3>2
    <3> QED
      BY <1>4, <1>5, <2>5, <3>3, StorageFacts DEF RowsInv
  <2>11. FreezerInv'
    <3>1. \A j \in DOMAIN rows' : rows'[j].stepMapToKey = rows[j].stepMapToKey
                                  /\ rows'[j].stepMaps = rows[j].stepMaps
      BY <1>4, <2>1, <2>3, <2>5
    <3>2. freezer.status = "built" =>
             \A j \in DOMAIN rows' : rows'[j].stepMapToKey <= freezer.key
      BY <2>5, <3>1, StorageFacts DEF FreezerInv
    <3>3. ASSUME freezer.status = "stored", harm' = {}, Len(rows') = 1
          PROVE  /\ rows'[1].historyKey >= freezer.key
                 /\ rows'[1].stepMaps = freezer.stepMaps
                 /\ rows'[1].stepMapToKey = freezer.stepMapToKey
      <4>1. n = 1 /\ i = 1 /\ rows'[1] = new
        BY <1>3, <1>4, <2>5, <3>3
      <4>2. k >= freezer.key
        BY <2>6, <3>3 DEF FrozenKey
      <4>3. rows[1].stepMaps = freezer.stepMaps /\ rows[1].stepMapToKey = freezer.stepMapToKey
        BY <1>4, <1>5, <3>3, <4>1, StorageFacts DEF FreezerInv
      <4> QED
        BY <2>1, <2>3, <4>1, <4>2, <4>3
    <3> QED
      BY <1>5, <1>6, <3>2, <3>3, FreezerKeeps, StorageFacts
  <2> QED
    BY <1>5, <2>5, <2>10, <2>11, RowWritten
<1> QED
  BY <1>7, <1>8 DEF UpdateRow
----------------------------------------------------------------------------
(* The steps of a request.                                                   *)

LEMMA AskForVersionKeeps ==
  ASSUME TypeInv, SoundInv, NEW r \in Requests, AskForVersion(r)
  PROVE  SoundInv'
<1>1. PICK c \in Pages, version \in 0..MaxEdits - 1, release \in BOOLEAN, row \in RowRead :
         /\ page[c].status = "open" /\ version <= page[c].key
         /\ release => /\ version = page[c].key /\ version # LatestRelease
                       /\ Len(releases) < MaxReleases
         /\ request' = [request EXCEPT ![r] =
                          [NoRequest EXCEPT !.status = "asked", !.release = release,
                             !.version = version, !.previous = LatestRelease, !.row = row]]
  BY DEF AskForVersion
<1>2. Calm /\ UNCHANGED <<page, post, anchors, freezer>>
  BY DEF AskForVersion, Calm
<1>3. version \in 0..Len(history) - 1
  <2>1. PageInv(page[c])
    BY DEF SoundInv
  <2> QED
    BY <1>1, <2>1, StorageFacts DEF PageInv
<1>4. Serves(row)
  BY <1>1, StorageFacts, RowReadIsSound
<1>5. PICK latest \in Keys \cup {EmptyKey} :
         /\ latest = LatestRelease
         /\ latest # EmptyKey => \E i \in DOMAIN releases : releases[i].historyKey = latest
  BY LatestIsLargest, StorageFacts
<1>6. PICK q : q = [NoRequest EXCEPT !.status = "asked", !.release = release,
                      !.version = version, !.previous = latest, !.row = row]
  OBVIOUS
<1>7. request' = [request EXCEPT ![r] = q]
  BY <1>1, <1>5, <1>6
<1>8. q = [status |-> "asked", release |-> release, version |-> version,
           previous |-> latest, row |-> row, doc |-> <<>>]
  BY <1>6 DEF NoRequest
<1>9. RequestInv(q)
  BY <1>1, <1>3, <1>4, <1>5, <1>8 DEF RequestInv
<1> QED
  BY <1>2, <1>7, <1>9, RequestMoves

LEMMA ReadVersionKeeps ==
  ASSUME TypeInv, SoundInv, NEW r \in Requests, ReadVersion(r)
  PROVE  SoundInv'
<1>1. Calm /\ UNCHANGED <<page, post, anchors, freezer>>
  BY DEF ReadVersion, Calm
<1>2. request[r] \in RequestType /\ request[r].status = "asked" /\ RequestInv(request[r])
  BY TypeFacts DEF SoundInv, StorageTypes, ReadVersion
<1>3. PICK row, version : /\ row = request[r].row /\ version = request[r].version
                          /\ Serves(row) /\ version \in 0..Len(history) - 1
  BY <1>2 DEF RequestInv
<1>4. PICK doc : doc = DraftDoc(row, version).doc
  OBVIOUS
<1>5. frozenTo = EmptyKey \/ version >= row.historyKey => doc = HistoryAt(version)
  BY <1>3, <1>4, VersionIsRead, StorageFacts
<1>6. PICK q : q = [request[r] EXCEPT !.status = "read", !.doc = doc]
  OBVIOUS
<1>7. request' = [request EXCEPT ![r] = q]
  BY <1>3, <1>4, <1>6 DEF ReadVersion
<1>8. /\ q.status = "read" /\ q.doc = doc /\ q.row = row
      /\ q.version = version /\ q.release = request[r].release
      /\ q.previous = request[r].previous
  BY <1>2, <1>3, <1>6 DEF RequestType
<1>9. RequestInv(q)
  BY <1>2, <1>3, <1>5, <1>8 DEF RequestInv
<1> QED
  BY <1>1, <1>7, <1>9, RequestMoves

LEMMA FinishViewKeeps ==
  ASSUME TypeInv, SoundInv, NEW r \in Requests, FinishView(r)
  PROVE  SoundInv'
BY NothingIsSound, RequestMoves DEF FinishView, Calm

LEMMA CreateDiscussionKeeps ==
  ASSUME TypeInv, SoundInv, CreateDiscussion
  PROVE  SoundInv'
<1>1. Calm /\ UNCHANGED <<page, post, request, freezer>>
  BY DEF CreateDiscussion, Calm
<1>2. PICK i \in DOMAIN releases :
         anchors' = {[historyKey |-> releases[i].historyKey, at |-> releases[i].doc]}
  BY DEF CreateDiscussion
<1>3. PICK k, doc : /\ k = releases[i].historyKey /\ doc = releases[i].doc
                    /\ k \in 0..Len(history) - 1 /\ (frozenTo = EmptyKey => doc = HistoryAt(k))
  BY DEF SoundInv, ReleaseInv
<1>4. anchors' = {[historyKey |-> k, at |-> doc]}
  BY <1>2, <1>3
<1>5. HistoryAt(k)' = HistoryAt(k) /\ UNCHANGED <<history, frozenTo>>
  BY <1>1 DEF HistoryAt, Calm
<1>6. AnchorsInv'
  BY <1>3, <1>4, <1>5 DEF AnchorsInv, UnfrozenAnchorsHold, AnchorsHold
<1>7. \A c \in Pages : PageInv(page[c])'
  BY <1>1, CalmKeeps DEF SoundInv
<1>8. \A p \in Posts : PostInv(post[p])'
  BY <1>1, CalmKeeps DEF SoundInv
<1>9. \A r \in Requests : RequestInv(request[r])'
  BY <1>1, CalmKeeps DEF SoundInv
<1> QED
  BY <1>1, <1>6, <1>7, <1>8, <1>9, CalmKeeps DEF SoundInv, StartsInv
----------------------------------------------------------------------------
(* A release, and the anchors that are mapped to it.                         *)

\* Nothing was wiped: the steps between two releases are in Firebase.
LEMMA MappedAnchorHolds ==
  ASSUME TypeInv, SoundInv, frozenTo = EmptyKey
  PROVE  \A row : \A previous \in Nat, v \in 0..Len(history) - 1 : previous < v =>
            \A maps \in MapsForRelease(row, previous, v) : HistoryAt(previous) \o maps = HistoryAt(v)
<1> SUFFICES ASSUME NEW row, NEW previous \in Nat, NEW v \in 0..Len(history) - 1, previous < v,
                    NEW maps \in MapsForRelease(row, previous, v)
             PROVE  HistoryAt(previous) \o maps = HistoryAt(v)
  OBVIOUS
<1>1. frozenTo < previous + 1 /\ v < Len(history) /\ v \in Nat
  BY StorageFacts DEF EmptyKey
<1>2. StepsInRange(previous + 1, v) = SubSeq(history, (previous + 1) + 1, v + 1)
  BY <1>1, StepsAfter, StorageFacts
<1>3. (previous + 1) + 1 = previous + 2
  OBVIOUS
<1>4. HistoryAt(previous) \o SubSeq(history, previous + 2, v + 1) = HistoryAt(v)
  <2>1. previous \in Int /\ -1 <= previous /\ v \in Int /\ previous <= v
    BY <1>1
  <2> QED
    BY <1>1, <2>1, HistoryJoins, StorageFacts
<1>5. SubSeq(history, previous + 2, v + 1) # <<>>
  <2>1. \A i \in previous + 2..v + 1 : history[i] \in Edits
    <3>1. \A i \in previous + 2..v + 1 : i \in 1..Len(history)
      BY <1>1, StorageFacts
    <3> QED
      BY <3>1, ElementOfSeq, StorageFacts DEF Docs
  <2>2. Len(SubSeq(history, previous + 2, v + 1)) = v - previous
    <3>1. Len(SubSeq(history, previous + 2, v + 1))
            = IF previous + 2 <= v + 1 THEN (v + 1) - (previous + 2) + 1 ELSE 0
      BY <1>1, <2>1, SubSeqProperties
    <3> QED
      BY <1>1, <3>1
  <2>3. v - previous # 0 /\ Len(<<>>) = 0
    BY <1>1
  <2> QED
    BY <2>2, <2>3
<1>6. maps = SubSeq(history, previous + 2, v + 1)
  BY <1>2, <1>3, <1>5 DEF MapsForRelease
<1> QED
  BY <1>4, <1>6

LEMMA CreateReleaseKeeps ==
  ASSUME TypeInv, SoundInv, NEW r \in Requests, CreateRelease(r), Harmless'
  PROVE  SoundInv'
<1>1. /\ request[r] \in RequestType /\ request[r].status = "read" /\ request[r].release
      /\ RequestInv(request[r])
  BY TypeFacts DEF SoundInv, StorageTypes, CreateRelease
<1>2. PICK v, previous, doc :
         v = request[r].version /\ previous = request[r].previous /\ doc = request[r].doc
  OBVIOUS
<1>3. /\ v \in 0..Len(history) - 1 /\ previous # v
      /\ \/ previous = EmptyKey
         \/ previous \in Keys /\ \E i \in DOMAIN releases : releases[i].historyKey = previous
      /\ frozenTo = EmptyKey => doc = HistoryAt(v)
  BY <1>1, <1>2 DEF RequestInv, RequestType
<1>4. v \in Keys /\ v \in Int /\ doc \in Docs
  BY <1>1, <1>2, <1>3, StorageFacts DEF Keys, RequestType
<1>5. PICK new : new = [historyKey |-> v, doc |-> doc]
  OBVIOUS
<1>6. new \in ReleaseType /\ new.historyKey = v /\ ReleaseInv(new)
  BY <1>3, <1>4, <1>5 DEF ReleaseType, ReleaseInv
<1>7. PICK rs \in Seq(ReleaseType) : rs = releases
  BY TypeFacts DEF StorageTypes
<1>8. PICK n \in Nat : n = Len(rs) /\ DOMAIN rs = 1..n
  BY <1>7
<1>9. /\ releases' = Append(rs, new) /\ releases' \in Seq(ReleaseType)
      /\ DOMAIN releases' = 1..n + 1 /\ releases'[n + 1] = new
      /\ \A i \in 1..n : releases'[i] = rs[i]
  <2>1. releases' = Append(rs, new)
    BY <1>2, <1>5, <1>7 DEF CreateRelease
  <2>2. /\ Append(rs, new) \in Seq(ReleaseType) /\ DOMAIN Append(rs, new) = 1..n + 1
        /\ Append(rs, new)[n + 1] = new /\ \A i \in 1..n : Append(rs, new)[i] = rs[i]
    BY <1>6, <1>8, AppendProperties
  <2> QED
    BY <2>1, <2>2
<1>10. UNCHANGED <<changes, rows, history, latestKeyAtRecent, page, post, freezer,
                   frozenTo, unmapped>> /\ harm \subseteq harm'
  BY DEF CreateRelease
<1>11. FirebaseInv /\ Grows /\ ReleasesGrow
  <2>1. ReleasesGrow
    <3>1. \A i \in 1..n : i \in 1..n + 1
      BY <1>8
    <3> QED
      BY <1>7, <1>8, <1>9, <1>10, <3>1 DEF ReleasesGrow
  <2>2. Grows
    BY <1>10, StorageFacts, SameGrows
  <2> QED
    BY <2>1, <2>2, StorageFacts
<1>12. FirebaseInv'
  BY <1>10, <1>11 DEF FirebaseInv
<1>13. LatestRelease' \in Keys \cup {EmptyKey} /\ v <= LatestRelease'
  <2>1. PICK latest : latest = LatestRelease'
    OBVIOUS
  <2>2. PICK rs2 \in Seq(ReleaseType) : rs2 = releases'
    BY <1>9
  <2>3. latest = Largest({rs2[i].historyKey : i \in DOMAIN rs2}, EmptyKey)
    BY <2>1, <2>2 DEF LatestRelease
  <2>4. latest \in Keys \cup {EmptyKey} /\ \A i \in DOMAIN rs2 : rs2[i].historyKey <= latest
    BY <2>3, LargestOfReleases
  <2>5. n + 1 \in DOMAIN rs2 /\ rs2[n + 1].historyKey = v
    BY <1>6, <1>8, <1>9, <2>2
  <2> QED
    BY <2>1, <2>4, <2>5
\* The release is not of a key that a freeze has passed, or that is noted.
<1>14. PICK passed \in Int :
          /\ passed = IF freezer.status \in {"gathered", "stored"} THEN freezer.key ELSE frozenTo
          /\ harm' = {} => passed <= v
  <2>1. freezer.key \in Int /\ frozenTo \in Int
    BY StorageFacts DEF StorageTypes, FreezerType, Keys, EmptyKey
  <2>2. PICK b \in Int :
           b = IF freezer.status \in {"gathered", "stored"} THEN freezer.key ELSE frozenTo
    BY <2>1
  <2>3. harm' = IF v < b THEN harm \cup {"lateRelease"} ELSE harm
    BY <1>2, <2>2 DEF CreateRelease, FrozenKey
  <2>4. harm' = {} => ~(v < b)
    BY <2>3, Zenon
  <2> QED
    BY <1>4, <2>2, <2>4
<1>15. frozenTo <= passed
  BY <1>14, StorageFacts DEF FreezerInv
<1>16. LatestStays
  <2>1. frozenTo # EmptyKey => harm' = {}
    BY <1>10 DEF Harmless
  <2>2. PICK a, b \in Int : a = LatestRelease' /\ b = frozenTo
    BY <1>13, StorageFacts DEF Keys, EmptyKey
  <2>3. frozenTo # EmptyKey => b <= a
    BY <1>4, <1>13, <1>14, <1>15, <2>1, <2>2
  <2> QED
    BY <1>13, <2>2, <2>3 DEF LatestStays
<1>17. RowsInv'
  BY <1>10, <1>11, <1>16, RowsStay, StorageFacts
<1>18. FreezerInv'
  <2>1. PICK a \in Int : a = LatestRelease' /\ v <= a
    BY <1>13 DEF Keys, EmptyKey
  <2>2. freezer.status \in {"gathered", "stored"} => freezer.key <= a \/ harm' # {}
    BY <1>4, <1>14, <2>1
  <2> QED
    BY <1>10, <1>11, <2>1, <2>2, FreezerStays, StorageFacts
<1>19. \A i \in DOMAIN releases' : ReleaseInv(releases[i])'
  <2>1. \A x : ReleaseInv(x) => ReleaseInv(x)'
    BY <1>11, ReleasesStay
  <2>2. \A i \in 1..n : ReleaseInv(rs[i])
    BY <1>7, <1>8 DEF SoundInv
  <2>3. \A i \in 1..n + 1 : i \in 1..n \/ i = n + 1
    BY <1>8
  <2> QED
    BY <1>6, <1>9, <2>1, <2>2, <2>3
<1>20. \A c \in Pages : PageInv(page[c])'
  BY <1>10, <1>11, PagesStay DEF SoundInv
<1>21. \A p \in Posts : PostInv(post[p])'
  BY <1>10, <1>11, PostsStay DEF SoundInv
<1>22. \A x \in Requests : RequestInv(request[x])'
  <2>1. request \in [Requests -> RequestType] /\ request' = [request EXCEPT ![r] = NoRequest]
    BY TypeFacts DEF StorageTypes, CreateRelease
  <2>2. \A x \in Requests : request'[x] = NoRequest \/ request'[x] = request[x]
    BY <2>1
  <2>3. \A x : RequestInv(x) => RequestInv(x)'
    BY <1>11, RequestsStay
  <2> QED
    BY <2>2, <2>3, NothingIsSound DEF SoundInv
<1>23. PICK row \in RowRead : anchors' = anchors \cup MappedAnchors(row, previous, v)
  BY <1>2 DEF CreateRelease
<1>24. \A b \in anchors' : b \in anchors \/
          \E a \in anchors, maps \in MapsForRelease(row, previous, v) :
             /\ previous # EmptyKey /\ a.historyKey = previous
             /\ b = [historyKey |-> v, at |-> a.at \o maps]
  BY <1>23 DEF MappedAnchors
<1>25. ASSUME NEW b \in anchors'
       PROVE  b.historyKey \in 0..Len(history) - 1
  BY <1>3, <1>24, StorageFacts DEF AnchorsInv
<1>26. ASSUME frozenTo = EmptyKey, ReleasesInOrder', NEW b \in anchors'
       PROVE  b.at = HistoryAt(b.historyKey)
  <2>1. AnchorsHold
    <3>1. ReleasesInOrder
      <4>1. \A i \in 1..n : i \in DOMAIN releases' /\ releases'[i] = releases[i]
        BY <1>7, <1>8, <1>11 DEF ReleasesGrow
      <4> QED
        BY <1>7, <1>8, <1>26, <4>1 DEF ReleasesInOrder
    <3> QED
      BY <1>26, <3>1, StorageFacts DEF AnchorsInv, UnfrozenAnchorsHold
  <2>2. CASE b \in anchors
    BY <2>1, <2>2 DEF AnchorsHold
  <2>3. CASE \E a \in anchors, maps \in MapsForRelease(row, previous, v) :
                /\ previous # EmptyKey /\ a.historyKey = previous
                /\ b = [historyKey |-> v, at |-> a.at \o maps]
    <3>1. PICK a \in anchors, maps \in MapsForRelease(row, previous, v) :
             /\ previous # EmptyKey /\ a.historyKey = previous
             /\ b = [historyKey |-> v, at |-> a.at \o maps]
      BY <2>3
    <3>2. PICK i \in 1..n : rs[i].historyKey = previous
      BY <1>3, <1>7, <1>8, <3>1
    <3>3. i \in 1..n + 1 /\ n + 1 \in 1..n + 1 /\ i < n + 1
      BY <1>8
    <3>4. releases'[i].historyKey <= releases'[n + 1].historyKey
      BY <1>9, <1>26, <3>3 DEF ReleasesInOrder
    <3>5. previous <= v
      BY <1>6, <1>9, <3>2, <3>4
    <3>6. previous \in Nat /\ previous < v
      BY <1>3, <1>4, <3>1, <3>5 DEF Keys
    <3>7. HistoryAt(previous) \o maps = HistoryAt(v)
      <4>1. frozenTo = EmptyKey /\ v \in 0..Len(history) - 1
        BY <1>3, <1>26
      <4>2. maps \in MapsForRelease(row, previous, v)
        BY <3>1
      <4>3. \A x \in Nat, y \in 0..Len(history) - 1 : x < y =>
               \A z \in MapsForRelease(row, x, y) : HistoryAt(x) \o z = HistoryAt(y)
        BY <4>1, MappedAnchorHolds
      <4> QED
        BY <3>6, <4>1, <4>2, <4>3
    <3> QED
      BY <2>1, <3>1, <3>7 DEF AnchorsHold
  <2> QED
    BY <1>24, <2>2, <2>3
<1>27. AnchorsInv'
  BY <1>10, <1>25, <1>26 DEF AnchorsInv, UnfrozenAnchorsHold, AnchorsHold, HistoryAt
<1> QED
  BY <1>10, <1>12, <1>17, <1>18, <1>19, <1>20, <1>21, <1>22, <1>27 DEF SoundInv
----------------------------------------------------------------------------
(* The steps of a freeze.                                                    *)

LEMMA SelectDraftKeeps ==
  ASSUME TypeInv, SoundInv, SelectDraft
  PROVE  SoundInv'
<1>1. Calm /\ UNCHANGED <<page, post, request, anchors>>
  BY DEF SelectDraft, Calm
<1>2. PICK n \in 0..MaxFreezes : n = freezer.runs
  BY TypeFacts DEF StorageTypes, FreezerType
<1>3. PICK q : q = [NoFreeze EXCEPT !.status = "selected", !.runs = n]
  OBVIOUS
<1>4. q.status = "selected" /\ q.stepMapToKey = EmptyKey /\ q.stepMaps = <<>>
  BY <1>3, SelectedTyped
<1>5. freezer' = q
  BY <1>2, <1>3 DEF SelectDraft
<1>6. FreezerInv'
  BY <1>4, <1>5 DEF FreezerInv
<1> QED
  BY <1>1, <1>6, FreezerMoves

LEMMA ReadRowToFreezeKeeps ==
  ASSUME TypeInv, SoundInv, ReadRowToFreeze
  PROVE  SoundInv'
<1>1. Calm /\ UNCHANGED <<page, post, request, anchors>>
  BY DEF ReadRowToFreeze, Calm
<1>2. PICK row \in RowRead : freezer' = [freezer EXCEPT !.status = "rowRead", !.row = row]
  BY DEF ReadRowToFreeze
<1>3. Serves(row)
  BY StorageFacts, RowReadIsSound
<1>4. Serves(row)'
  BY <1>1, <1>3, SameGrows, ServesStays, StorageFacts DEF Calm
<1>5. freezer \in FreezerType /\ freezer.status = "selected"
      /\ freezer.stepMapToKey = EmptyKey /\ freezer.stepMaps = <<>>
  BY StorageFacts DEF StorageTypes, ReadRowToFreeze, FreezerInv
<1>6. /\ freezer'.status = "rowRead" /\ freezer'.row = row
      /\ freezer'.stepMapToKey = EmptyKey /\ freezer'.stepMaps = <<>>
  BY <1>2, <1>5 DEF FreezerType
<1>7. Serves(freezer.row)'
  BY <1>4, <1>6 DEF Serves
<1>8. FreezerInv'
  BY <1>6, <1>7 DEF FreezerInv
<1> QED
  BY <1>1, <1>8, FreezerMoves

LEMMA BuildDocKeeps ==
  ASSUME TypeInv, SoundInv, BuildDoc
  PROVE  SoundInv'
<1>1. Calm /\ UNCHANGED <<page, post, request, anchors>>
  BY DEF BuildDoc, Calm
<1>2. freezer \in FreezerType /\ freezer.status = "rowRead" /\ Serves(freezer.row)
      /\ freezer.stepMapToKey = EmptyKey /\ freezer.stepMaps = <<>>
  BY StorageFacts DEF StorageTypes, BuildDoc, FreezerInv
<1>3. PICK row : row = freezer.row
  OBVIOUS
<1>4. DraftDoc(row, Latest).doc = history /\ DraftDoc(row, Latest).key = Len(history) - 1
  BY <1>2, <1>3, StorageFacts, LatestIsRead
<1>5. PICK k \in Int : k = Len(history) - 1 /\ k \in frozenTo..Len(history) - 1
  BY StorageFacts
<1>6. freezer' = [freezer EXCEPT !.status = "built", !.key = k, !.doc = history]
  BY <1>3, <1>4, <1>5 DEF BuildDoc
<1>7. /\ freezer'.status = "built" /\ freezer'.key = k /\ freezer'.doc = history
      /\ freezer'.stepMapToKey = EmptyKey /\ freezer'.stepMaps = <<>>
  BY <1>2, <1>6 DEF FreezerType
<1>8. \A i \in DOMAIN rows' : rows'[i].stepMapToKey <= k
  <2>1. \A i \in DOMAIN rows : Continues(rows[i])
    BY StorageFacts DEF RowsInv
  <2>2. -1 <= k /\ \A x \in 0..Len(history) - 1 : x <= k
    BY <1>5, StorageFacts
  <2> QED
    BY <1>1, <2>1, <2>2 DEF Continues, Calm, EmptyKey
<1>9. HistoryAt(k)' = history /\ k \in frozenTo'..Len(history') - 1
  BY <1>1, <1>5, StorageFacts DEF Calm, HistoryAt
<1>10. FreezerInv'
  BY <1>7, <1>8, <1>9 DEF FreezerInv
<1> QED
  BY <1>1, <1>10, FreezerMoves

\* The step maps of a row go on to the key of the freeze; or begin again after the
\* latest release, or, when they cannot, after the wiped key that has none.
LEMMA StepMapsReach ==
  ASSUME TypeInv, SoundInv, NEW row, Continues(row), NEW k \in 0..Len(history) - 1,
         frozenTo <= k, row.stepMapToKey <= k, LatestRelease # EmptyKey, LatestRelease < k
  PROVE  MapsFrom(StepMapsFor(row, k), k)
<1>1. PICK n \in Nat : n = Len(history) /\ k < n /\ k \in Int /\ 0 <= k
  BY StorageFacts
<1>2. PICK latest \in Nat : latest = LatestRelease /\ latest < k /\ latest \in MapStarts
  BY LatestIsLargest, StorageFacts DEF Keys, MapStarts
<1>3. history \in Seq(Edits) /\ FirebaseInv /\ frozenTo \in Int
  BY StorageFacts DEF Docs
<1>4. CASE row.stepMapToKey = EmptyKey /\ row.stepMaps = <<>>
           /\ (frozenTo <= LatestRelease \/ frozenTo \in unmapped)
  <2>1. PICK steps \in Docs : steps = StepsInRange(latest + 1, k)
    BY StepsAreDocs, TypeFacts
  <2>2. StepMapsFor(row, k) = steps
    <3>1. StepMapsFor(row, k) = <<>> \o StepsInRange(latest + 1, k)
      BY <1>2, <1>4 DEF StepMapsFor
    <3> QED
      BY <2>1, <3>1, ConcatEmptySeq DEF Docs
  <2>3. steps = SubSeq(history, First(latest + 1) + 1, k + 1)
    <3>1. Last(k) = k /\ latest + 1 \in Int /\ latest + 1 >= 0
      BY <1>1, <1>2 DEF Last
    <3> QED
      BY <1>1, <1>3, <2>1, <3>1, FirebaseReads
  <2>4. CASE frozenTo <= latest
    <3>1. First(latest + 1) = latest + 1 /\ (latest + 1) + 1 = latest + 2 /\ latest <= k
      BY <1>2, <1>3, <2>4 DEF First
    <3> QED
      BY <1>2, <2>2, <2>3, <3>1 DEF MapsFrom
  <2>5. CASE ~(frozenTo <= latest)
    <3>1. PICK j \in Int : j = frozenTo /\ j \in MapStarts
      BY <1>2, <1>3, <1>4, <2>5 DEF MapStarts
    <3>2. First(latest + 1) = j + 1 /\ (j + 1) + 1 = j + 2
      BY <1>2, <2>5, <3>1 DEF First
    <3> QED
      BY <2>2, <2>3, <3>1, <3>2 DEF MapsFrom
  <2> QED
    BY <2>4, <2>5
<1>5. CASE /\ row.stepMapToKey \in 0..Len(history) - 1 /\ frozenTo <= row.stepMapToKey
           /\ MapsFrom(row.stepMaps, row.stepMapToKey)
  <2>1. PICK to \in Nat : to = row.stepMapToKey /\ frozenTo <= to /\ to < n /\ to <= k
    BY <1>1, <1>5
  <2>2. PICK j \in MapStarts : j <= to /\ row.stepMaps = SubSeq(history, j + 2, to + 1)
    BY <1>5, <2>1 DEF MapsFrom
  <2>3. j \in 0..n - 1
    BY <1>1, StartsAreKeys, StorageFacts
  <2>4. StepMapsFor(row, k) = row.stepMaps \o StepsInRange(to + 1, k)
    <3>1. to # EmptyKey
      BY DEF EmptyKey
    <3> QED
      BY <2>1, <3>1 DEF StepMapsFor
  <2>5. StepsInRange(to + 1, k) = SubSeq(history, (to + 1) + 1, k + 1)
    <3>1. frozenTo < to + 1 /\ to + 1 \in Int
      BY <1>3, <2>1
    <3> QED
      BY <1>1, <1>3, <3>1, StepsAfter
  <2>6. SubSeq(history, j + 2, to + 1) \o SubSeq(history, (to + 1) + 1, k + 1)
          = SubSeq(history, j + 2, k + 1)
    <3>1. j + 2 \in 1..Len(history) + 1 /\ to + 1 \in (j + 2) - 1..Len(history)
          /\ k + 1 \in to + 1..Len(history)
      BY <1>1, <2>1, <2>2, <2>3
    <3> QED
      BY <1>3, <3>1, ConcatAdjacentSubSeq
  <2>7. StepMapsFor(row, k) = SubSeq(history, j + 2, k + 1)
    BY <2>2, <2>4, <2>5, <2>6
  <2>8. j <= k
    BY <1>1, <2>1, <2>2, <2>3
  <2> QED
    BY <2>7, <2>8 DEF MapsFrom
<1> QED
  BY <1>4, <1>5 DEF Continues

LEMMA GatherStepMapsKeeps ==
  ASSUME TypeInv, SoundInv, GatherStepMaps
  PROVE  SoundInv'
<1>1. Calm /\ UNCHANGED <<page, post, request, anchors>>
  BY DEF GatherStepMaps, Calm
<1>2. /\ freezer \in FreezerType /\ freezer.status = "built"
      /\ freezer.stepMapToKey = EmptyKey /\ freezer.stepMaps = <<>>
      /\ freezer.key \in frozenTo..Len(history) - 1 /\ freezer.doc = HistoryAt(freezer.key)
      /\ freezer.key >= 0 /\ \A i \in DOMAIN rows : rows[i].stepMapToKey <= freezer.key
  BY StorageFacts DEF StorageTypes, GatherStepMaps, FreezerInv, Underway
<1>3. PICK k \in Int : k = freezer.key /\ k \in 0..Len(history) - 1 /\ frozenTo <= k
  BY <1>2, StorageFacts
<1>4. LatestRelease' = LatestRelease /\ LatestRelease \in Int
  BY <1>1, LatestIsLargest, StorageFacts DEF LatestRelease, Calm, Keys, EmptyKey
<1>5. HistoryAt(k)' = freezer.doc /\ k \in frozenTo'..Len(history') - 1
  BY <1>1, <1>2, <1>3 DEF Calm, HistoryAt
<1>6. ASSUME NEW row \in RowRead, LatestRelease # EmptyKey, LatestRelease < k,
             freezer' = [freezer EXCEPT !.status = "gathered", !.stepMapToKey = k,
                                        !.stepMaps = StepMapsFor(row, k)]
      PROVE  FreezerInv'
  <2>1. PICK maps : maps = StepMapsFor(row, k)
    OBVIOUS
  <2>2. MapsFrom(maps, k)
    <3>1. Continues(row)
      BY RowReadIsSound, StorageFacts
    <3>2. row.stepMapToKey <= k
      <4>1. row = NoRow \/ \E i \in DOMAIN rows : row = rows[i]
        BY DEF RowRead
      <4>2. NoRow.stepMapToKey <= k
        BY <1>3 DEF NoRow, EmptyKey
      <4> QED
        BY <1>2, <1>3, <4>1, <4>2
    <3> QED
      BY <1>3, <1>6, <2>1, <3>1, <3>2, StepMapsReach
  <2>3. MapsFrom(maps, k)'
    BY <1>1, <2>2 DEF MapsFrom, MapStarts, Calm
  <2>4. freezer' = [freezer EXCEPT !.status = "gathered", !.stepMapToKey = k, !.stepMaps = maps]
    BY <1>6, <2>1
  <2>5. /\ freezer'.status = "gathered" /\ freezer'.key = k /\ freezer'.doc = freezer.doc
        /\ freezer'.stepMapToKey = k /\ freezer'.stepMaps = maps
    BY <1>2, <1>3, <2>4 DEF FreezerType
  <2>6. GatheredInv'
    BY <2>3, <2>5 DEF GatheredInv
  <2> QED
    BY <1>5, <2>5, <2>6 DEF FreezerInv
<1>7. ASSUME freezer'.status = "gathered", freezer'.key = k, freezer'.doc = freezer.doc,
             freezer'.stepMapToKey = EmptyKey, freezer'.stepMaps = <<>>,
             freezer'.failed \/ LatestRelease = EmptyKey \/ k <= LatestRelease
      PROVE  FreezerInv'
  <2>1. GatheredInv'
    BY <1>4, <1>7 DEF GatheredInv
  <2> QED
    BY <1>5, <1>7, <2>1 DEF FreezerInv
<1>8. CASE freezer' = [freezer EXCEPT !.status = "gathered", !.failed = TRUE]
  BY <1>1, <1>2, <1>3, <1>7, <1>8, FreezerMoves DEF FreezerType
<1>9. CASE /\ ~(LatestRelease # EmptyKey /\ LatestRelease < k)
           /\ freezer' = [freezer EXCEPT !.status = "gathered"]
  <2>1. LatestRelease = EmptyKey \/ k <= LatestRelease
    BY <1>3, <1>4, <1>9
  <2>2. /\ freezer'.status = "gathered" /\ freezer'.key = k /\ freezer'.doc = freezer.doc
        /\ freezer'.stepMapToKey = EmptyKey /\ freezer'.stepMaps = <<>>
    BY <1>2, <1>3, <1>9 DEF FreezerType
  <2> QED
    BY <1>1, <1>7, <2>1, <2>2, FreezerMoves
<1> QED
  BY <1>1, <1>3, <1>6, <1>8, <1>9, FreezerMoves DEF GatherStepMaps

LEMMA FreezeFailsKeeps ==
  ASSUME TypeInv, SoundInv, FreezeFails
  PROVE  SoundInv'
<1>1. Calm /\ UNCHANGED <<page, post, request, anchors>>
  BY DEF FreezeFails, Calm
<1>2. freezer'.status = "idle"
  <2>1. PICK n \in 0..MaxFreezes : n = freezer.runs
    BY TypeFacts DEF StorageTypes, FreezerType
  <2> QED
    BY <2>1, NoFreezeTyped DEF FreezeFails
<1>3. FreezerInv'
  BY <1>2 DEF FreezerInv
<1> QED
  BY <1>1, <1>3, FreezerMoves

\* What was gathered goes into the row of the freeze, which a later one goes on from.
LEMMA FrozenRowContinues ==
  ASSUME TypeInv, SoundInv, StoreFrozen, Harmless', NEW row,
         row.stepMaps = freezer.stepMaps, row.stepMapToKey = freezer.stepMapToKey
  PROVE  Continues(row)'
<1>1. PICK maps, to, key : maps = freezer.stepMaps /\ to = freezer.stepMapToKey
                           /\ key = freezer.key
  OBVIOUS
<1>2. GatheredInv /\ key \in frozenTo..Len(history) - 1 /\ key \in 0..Len(history) - 1
  <2>1. freezer.status = "gathered"
    BY DEF StoreFrozen
  <2>2. freezer.key >= 0
    BY <2>1, StorageFacts DEF Underway
  <2> QED
    BY <1>1, <2>1, <2>2, StorageFacts DEF FreezerInv
<1>3. UNCHANGED <<history, releases, frozenTo, harm>> /\ unmapped' = unmapped \cup Unmapped(frozenTo)
  BY DEF StoreFrozen
<1>4. LatestRelease' = LatestRelease
  BY <1>3 DEF LatestRelease
<1>5. PICK a, b \in Int : a = LatestRelease /\ b = frozenTo /\ -1 <= a /\ b <= key
  BY <1>2, LatestIsLargest, StorageFacts DEF Keys, EmptyKey
<1>6. CASE to = EmptyKey /\ maps = <<>>
           /\ (freezer.failed \/ LatestRelease = EmptyKey \/ key <= LatestRelease \/ harm # {})
  <2>1. frozenTo = EmptyKey => b <= a
    BY <1>5 DEF EmptyKey
  <2>2. harm # {} => frozenTo = EmptyKey
    BY <1>3 DEF Harmless
  <2>3. key <= a => b <= a
    BY <1>2, <1>5
  <2>4. freezer.failed /\ frozenTo # EmptyKey => frozenTo \in unmapped'
    BY <1>3 DEF Unmapped
  <2>5. LatestRelease = EmptyKey \/ frozenTo <= LatestRelease \/ frozenTo \in unmapped'
    BY <1>5, <1>6, <2>1, <2>2, <2>3, <2>4
  <2> QED
    BY <1>1, <1>3, <1>4, <1>6, <2>5 DEF Continues
<1>7. CASE to = key /\ MapsFrom(maps, key)
  <2>1. Grows /\ ReleasesGrow
    BY <1>3, SameGrows, StorageFacts DEF ReleasesGrow
  <2>2. key \in -1..Len(history) - 1
    BY <1>2, StorageFacts
  <2>3. MapsFrom(maps, key)'
    BY <1>7, <2>1, <2>2, MapsStay, StorageFacts
  <2>4. key \in 0..Len(history') - 1 /\ frozenTo' <= key
    BY <1>2, <1>3, <1>5
  <2> QED
    BY <1>1, <1>7, <2>3, <2>4 DEF Continues
<1> QED
  BY <1>1, <1>2, <1>6, <1>7 DEF GatheredInv

\* What is left to show of the transaction is of the rows and the freezer.
LEMMA FrozenStored ==
  ASSUME TypeInv, SoundInv, StoreFrozen, RowsInv', FreezerInv', DOMAIN rows \subseteq DOMAIN rows'
  PROVE  SoundInv'
<1>1. /\ UNCHANGED <<changes, history, page, post, request, releases, anchors, frozenTo>>
      /\ unmapped' = unmapped \cup Unmapped(frozenTo)
  BY DEF StoreFrozen
<1>2. FirebaseInv /\ Grows /\ ReleasesGrow
  BY <1>1, SameGrows, StorageFacts DEF ReleasesGrow
<1>3. FirebaseInv'
  BY <1>1, <1>2 DEF FirebaseInv
<1>4. AnchorsInv'
  BY <1>1, <1>2, AnchorsStay, StorageFacts
<1>5. \A r \in Requests : RequestInv(request[r])'
  BY <1>1, <1>2, RequestsStay DEF SoundInv
<1>6. \A i \in DOMAIN releases' : ReleaseInv(releases[i])'
  <2>1. \A r : ReleaseInv(r) => ReleaseInv(r)'
    BY <1>2, ReleasesStay
  <2> QED
    BY <1>1, <2>1 DEF SoundInv
<1>7. \A c \in Pages : PageInv(page[c])'
  BY <1>1, <1>2, PagesStay DEF SoundInv
<1>8. \A d \in Posts : PostInv(post[d])'
  BY <1>1, <1>2, PostsStay DEF SoundInv
<1>9. unmapped' \subseteq 0..Len(history') - 1
  <2>1. Unmapped(frozenTo) \subseteq {frozenTo} /\ (frozenTo = EmptyKey => Unmapped(frozenTo) = {})
    BY DEF Unmapped
  <2>2. frozenTo # EmptyKey => frozenTo \in 0..Len(history) - 1
    BY StorageFacts DEF EmptyKey
  <2> QED
    BY <1>1, <2>1, <2>2 DEF SoundInv
<1> QED
  BY <1>3, <1>4, <1>5, <1>6, <1>7, <1>8, <1>9 DEF SoundInv

LEMMA StoreFrozenKeeps ==
  ASSUME TypeInv, SoundInv, StoreFrozen, Harmless'
  PROVE  SoundInv'
<1>1. PICK f \in FreezerType : f = freezer /\ f.status = "gathered" /\ f.key >= 0
  BY StorageFacts DEF StorageTypes, StoreFrozen, Underway
<1>2. f.key \in Keys /\ f.key \in frozenTo..Len(history) - 1 /\ f.doc = HistoryAt(f.key)
      /\ GatheredInv
  BY <1>1, StorageFacts DEF FreezerType, FreezerInv, EmptyKey
<1>3. PICK new : new = [historyKey |-> f.key, doc |-> f.doc, stepMaps |-> f.stepMaps,
                        stepMapToKey |-> f.stepMapToKey]
  OBVIOUS
<1>4. /\ new \in Row /\ new.historyKey = f.key /\ new.doc = f.doc
      /\ new.stepMaps = f.stepMaps /\ new.stepMapToKey = f.stepMapToKey
  BY <1>1, <1>2, <1>3 DEF FreezerType, Row
<1>5. UNCHANGED <<history, releases, frozenTo, harm>> /\ unmapped \subseteq unmapped'
  BY DEF StoreFrozen
<1>6. FirebaseInv /\ Grows /\ ReleasesGrow /\ LatestStays
  BY <1>5, SameGrows, StorageFacts DEF ReleasesGrow, LatestStays
<1>7. Serves(new)' /\ Continues(new)'
  <2>1. Serves(new)
    BY <1>2, <1>4 DEF Serves
  <2> QED
    BY <1>1, <1>4, <1>6, <2>1, ServesStays, FrozenRowContinues
<1>8. PICK n \in Nat : n = Len(rows) /\ rows \in [1..n -> Row] /\ DOMAIN rows = 1..n
  BY TypeFacts DEF StorageTypes
<1>9. PICK i, m : /\ i \in 1..m /\ Len(rows') = m /\ DOMAIN rows' = 1..m /\ rows'[i] = new
                  /\ \A j \in 1..m : j # i => j \in 1..n /\ rows'[j] = rows[j]
                  /\ 1..n \subseteq 1..m /\ (n = 1 => m = 1) /\ m \in Nat
  <2>1. CASE rows = <<>>
    <3>1. rows' = <<new>>
      BY <1>1, <1>3, <2>1 DEF StoreFrozen
    <3>2. n = 0 /\ Len(rows') = 1 /\ DOMAIN rows' = 1..1 /\ rows'[1] = new
      BY <1>8, <2>1, <3>1
    <3> QED
      BY <3>2
  <2>2. CASE rows # <<>>
    <3>1. PICK i \in 1..n : rows' = [rows EXCEPT ![i] = new]
      BY <1>1, <1>3, <1>8, <2>2 DEF StoreFrozen
    <3>2. rows' \in [1..n -> Row] /\ DOMAIN rows' = 1..n /\ rows'[i] = new
          /\ \A j \in 1..n : j # i => rows'[j] = rows[j]
      BY <1>4, <1>8, <3>1
    <3>3. Len(rows') = n
      BY <1>8, <3>2
    <3> QED
      BY <1>8, <3>2, <3>3
  <2> QED
    BY <2>1, <2>2
<1>10. RowsInv'
  <2>1. ASSUME NEW j \in 1..m, j # i
        PROVE  Serves(rows[j])' /\ Continues(rows[j])'
    <3>1. PICK row : row = rows[j] /\ row = rows'[j]
      BY <1>9, <2>1
    <3>2. Serves(row) /\ Continues(row)
      BY <1>8, <1>9, <2>1, <3>1, StorageFacts DEF RowsInv
    <3>3. Serves(row)' /\ Continues(row)'
      BY <1>6, <3>2, ServesStays, ContinuesStays, StorageFacts
    <3> QED
      BY <3>1, <3>3
  <2>2. Serves(rows[i])' /\ Continues(rows[i])'
    BY <1>7, <1>9
  <2>3. \A j \in DOMAIN rows' : Serves(rows[j])' /\ Continues(rows[j])'
    BY <1>9, <2>1, <2>2
  <2>4. frozenTo' # EmptyKey => Len(rows') = 1
    BY <1>5, <1>8, <1>9, StorageFacts DEF RowsInv
  <2> QED
    BY <2>3, <2>4 DEF RowsInv
<1>11. PICK q : q = [f EXCEPT !.status = "stored", !.runs = @ + 1]
  OBVIOUS
<1>12. /\ freezer' = q /\ q.status = "stored" /\ q.key = f.key /\ q.doc = f.doc
       /\ q.stepMaps = f.stepMaps /\ q.stepMapToKey = f.stepMapToKey /\ q.failed = f.failed
  <2>1. freezer' = q
    BY <1>1, <1>11 DEF StoreFrozen
  <2> QED
    BY <1>11, <2>1 DEF FreezerType
<1>13. FreezerInv'
  <2>1. q.key \in frozenTo'..Len(history') - 1 /\ q.doc = HistoryAt(q.key)'
    BY <1>2, <1>5, <1>12 DEF HistoryAt
  <2>2. GatheredInv'
    <3>1. LatestRelease' = LatestRelease
      BY <1>5 DEF LatestRelease
    <3>2. MapsFrom(f.stepMaps, f.key) => MapsFrom(f.stepMaps, f.key)'
      <4>1. f.key \in -1..Len(history) - 1
        BY <1>1, <1>2, StorageFacts DEF Keys
      <4> QED
        BY <1>6, <4>1, MapsStay, StorageFacts
    <3> QED
      BY <1>1, <1>2, <1>5, <1>12, <3>1, <3>2 DEF GatheredInv
  <2>3. Len(rows') = 1 => rows'[1] = new
    BY <1>9
  <2>4. Len(rows') = 1 => /\ rows'[1].historyKey >= q.key
                          /\ rows'[1].stepMaps = q.stepMaps
                          /\ rows'[1].stepMapToKey = q.stepMapToKey
    BY <1>2, <1>4, <1>12, <2>3, StorageFacts DEF Keys
  <2> QED
    BY <1>12, <2>1, <2>2, <2>4 DEF FreezerInv
<1>14. DOMAIN rows \subseteq DOMAIN rows'
  BY <1>8, <1>9
<1> QED
  BY <1>10, <1>13, <1>14, FrozenStored
----------------------------------------------------------------------------
(* The wipe: up to a key that the row has reached, with nobody left behind.  *)

LEMMA WipedStays ==
  ASSUME TypeInv, SoundInv, NEW k \in Int, frozenTo <= k, 0 <= k, k < Len(history),
         frozenTo' = k, UNCHANGED history
  PROVE  \A row : Serves(row) /\ row # NoRow /\ row.historyKey >= k => Serves(row)'
<1> SUFFICES ASSUME NEW row, Serves(row), row # NoRow, row.historyKey >= k PROVE Serves(row)'
  OBVIOUS
<1>1. row \in Row /\ row.historyKey \in frozenTo..Len(history) - 1
      /\ row.doc = HistoryAt(row.historyKey)
  BY DEF Serves
<1>2. row.historyKey \in frozenTo'..Len(history') - 1
  BY <1>1, StorageFacts
<1> QED
  BY <1>1, <1>2 DEF Serves, HistoryAt

LEMMA OnlyRowTyped ==
  ASSUME TypeInv, Len(rows) = 1
  PROVE  rows \in Seq(Row) /\ rows[1] \in Row
<1>1. \A s \in Seq(Row) : Len(s) = 1 => s[1] \in Row
  OBVIOUS
<1>2. rows \in Seq(Row)
  BY TypeFacts DEF StorageTypes
<1> QED
  BY <1>1, <1>2

LEMMA Wiped ==
  ASSUME TypeInv, SoundInv, freezer.status = "stored", NEW k \in Int,
         frozenTo' = k, frozenTo <= k, 0 <= k, k <= freezer.key,
         DOMAIN changes' = k + 1..Len(history) - 1,
         \A j \in DOMAIN changes' : j \in DOMAIN changes /\ changes'[j] = changes[j],
         unmapped' = unmapped \cup Unmapped(k), harm = {}, harm' = {}, ~Overtaken(k),
         Len(rows) = 1, freezer' = freezer \/ freezer'.status = "idle",
         UNCHANGED <<rows, history, page, post, request, releases, anchors>>
  PROVE  SoundInv'
<1>1. PICK n \in Nat : n = Len(history) /\ k < n
  BY StorageFacts DEF FreezerInv
<1>2. k # EmptyKey /\ frozenTo' # EmptyKey
  BY DEF EmptyKey
<1>3. FirebaseInv'
  <2>1. frozenTo' \in EmptyKey..Len(history') - 1
    BY <1>1 DEF EmptyKey
  <2>2. \A j \in DOMAIN changes' : changes'[j] = history'[j + 1]
    BY StorageFacts DEF FirebaseInv
  <2> QED
    BY <2>1, <2>2, StorageFacts DEF FirebaseInv
<1>4. \A row : Serves(row) /\ row # NoRow /\ row.historyKey >= k => Serves(row)'
  BY <1>1, WipedStays
<1>5. PICK f \in FreezerType : f = freezer /\ f.key \in Int
  BY StorageFacts DEF StorageTypes, FreezerType, Keys, EmptyKey
<1>6. /\ f.key \in frozenTo..n - 1 /\ f.doc = HistoryAt(f.key) /\ GatheredInv
      /\ rows[1].historyKey >= f.key /\ rows[1].stepMaps = f.stepMaps
      /\ rows[1].stepMapToKey = f.stepMapToKey
  BY <1>1, <1>5, StorageFacts DEF FreezerInv
<1>7. \A maps, to : MapsFrom(maps, to) => MapsFrom(maps, to)'
  BY DEF MapsFrom, MapStarts
<1>8. LatestRelease' = LatestRelease /\ LatestRelease \in Int
  BY LatestIsLargest, StorageFacts DEF LatestRelease, Keys, EmptyKey
<1>9. \/ /\ f.stepMapToKey = EmptyKey /\ f.stepMaps = <<>>
         /\ f.failed \/ LatestRelease = EmptyKey \/ f.key <= LatestRelease
      \/ f.stepMapToKey = f.key /\ MapsFrom(f.stepMaps, f.key)
  BY <1>5, <1>6 DEF GatheredInv
<1>10. PICK row \in Row : row = rows[1] /\ rows \in Seq(Row)
  BY OnlyRowTyped
<1>11. Serves(row)'
  <2>1. Serves(row) /\ row # NoRow
    BY <1>10, RowIsNotNone, StorageFacts DEF RowsInv
  <2>2. row.historyKey >= k
    BY <1>5, <1>6, <1>10 DEF Row, Keys
  <2> QED
    BY <1>4, <2>1, <2>2
<1>12. Continues(row)'
  <2>1. CASE /\ f.stepMapToKey = EmptyKey /\ f.stepMaps = <<>>
             /\ f.failed \/ LatestRelease = EmptyKey \/ f.key <= LatestRelease
    <3>1. f.failed => k \in unmapped'
      BY <1>2, <1>5 DEF Unmapped
    <3>2. f.key <= LatestRelease => k <= LatestRelease
      BY <1>5, <1>8
    <3>3. LatestRelease' = EmptyKey \/ frozenTo' <= LatestRelease' \/ frozenTo' \in unmapped'
      BY <1>8, <2>1, <3>1, <3>2
    <3> QED
      BY <1>6, <1>10, <2>1, <3>3 DEF Continues
  <2>2. CASE f.stepMapToKey = f.key /\ MapsFrom(f.stepMaps, f.key)
    <3>1. PICK maps, to : maps = f.stepMaps /\ to = f.key
      OBVIOUS
    <3>2. MapsFrom(maps, to)'
      BY <1>7, <2>2, <3>1
    <3>3. to \in 0..Len(history') - 1 /\ frozenTo' <= to
      BY <1>1, <1>5, <1>6, <3>1
    <3> QED
      BY <1>6, <1>10, <2>2, <3>1, <3>2, <3>3 DEF Continues
  <2> QED
    BY <1>9, <2>1, <2>2
<1>13. RowsInv'
  <2>1. DOMAIN rows' = 1..1 /\ Len(rows') = 1 /\ rows'[1] = row
    BY <1>10
  <2>2. \A i \in DOMAIN rows' : i = 1
    BY <2>1
  <2> QED
    BY <1>10, <1>11, <1>12, <2>1, <2>2 DEF RowsInv
<1>14. ASSUME NEW c \in Pages
       PROVE  PageInv(page[c])'
  <2>1. PICK p \in PageType : p = page[c] /\ p = page'[c]
    BY TypeFacts DEF StorageTypes
  <2>2. PageInv(p) /\ p.key \in Int
    BY <2>1 DEF SoundInv, PageType, Keys, EmptyKey
  <2>3. ASSUME p.status = "open"
        PROVE  p.key \in frozenTo'..Len(history') - 1 /\ p.doc = HistoryAt(p.key)'
    <3>1. p.key >= k
      BY <2>1, <2>2, <2>3 DEF Overtaken
    <3> QED
      BY <1>1, <2>2, <2>3, <3>1, StorageFacts DEF PageInv, HistoryAt
  <2>4. ASSUME p.status = "loading"
        PROVE  Serves(p.row)'
    <3>1. ~(p.row.historyKey < k)
      BY <2>1, <2>4 DEF Overtaken
    <3>2. p.row # NoRow
      BY <3>1 DEF NoRow, EmptyKey
    <3>3. p.row.historyKey >= k
      BY <2>1, <3>1, <3>2 DEF PageType, Row, Keys
    <3> QED
      BY <1>4, <2>2, <2>4, <3>2, <3>3 DEF PageInv
  <2> QED
    BY <2>1, <2>3, <2>4 DEF PageInv
<1>15. ASSUME NEW r \in Requests
       PROVE  RequestInv(request[r])'
  <2>1. PICK p \in RequestType : p = request[r] /\ p = request'[r]
    BY TypeFacts DEF StorageTypes
  <2>2. RequestInv(p)
    BY <2>1 DEF SoundInv
  <2>3. ASSUME p.status = "asked"
        PROVE  Serves(p.row)'
    <3>1. ~(p.row.historyKey < k)
      BY <2>1, <2>3 DEF Overtaken
    <3>2. p.row # NoRow
      BY <3>1 DEF NoRow, EmptyKey
    <3>3. p.row.historyKey >= k
      BY <2>1, <3>1, <3>2 DEF RequestType, Row, Keys
    <3> QED
      BY <1>4, <2>2, <2>3, <3>2, <3>3 DEF RequestInv
  <2>4. p.status = "read" /\ (frozenTo' = EmptyKey \/ p.version >= p.row.historyKey)
          => p.doc = HistoryAt(p.version)'
    BY <1>2, <2>2 DEF RequestInv, HistoryAt
  <2> QED
    BY <2>1, <2>2, <2>3, <2>4 DEF RequestInv
<1>16. \A p \in Posts : PostInv(post[p])'
  BY DEF SoundInv, PostInv, HistoryAt
<1>17. \A i \in DOMAIN releases' : ReleaseInv(releases[i])'
  BY <1>2 DEF SoundInv, ReleaseInv
<1>18. AnchorsInv'
  BY <1>2, StorageFacts DEF AnchorsInv, UnfrozenAnchorsHold
<1>19. unmapped' \subseteq 0..Len(history') - 1
  <2>1. k \in 0..Len(history) - 1
    BY <1>1
  <2> QED
    BY <2>1 DEF SoundInv, Unmapped
<1>20. FreezerInv'
  <2>1. CASE freezer'.status = "idle"
    BY <2>1 DEF FreezerInv
  <2>2. CASE freezer' = freezer
    <3>1. f.key \in frozenTo'..Len(history') - 1 /\ f.doc = HistoryAt(f.key)'
      BY <1>1, <1>5, <1>6 DEF HistoryAt
    <3>2. GatheredInv'
      BY <1>5, <1>7, <1>8, <1>9, <2>2 DEF GatheredInv
    <3> QED
      BY <1>5, <1>6, <2>2, <3>1, <3>2 DEF FreezerInv
  <2> QED
    BY <2>1, <2>2
<1> QED
  BY <1>3, <1>13, <1>14, <1>15, <1>16, <1>17, <1>18, <1>19, <1>20 DEF SoundInv

\* A wipe without harm.
LEMMA HarmlessWipe ==
  ASSUME TypeInv, NEW k \in Keys, NEW wiped, frozenTo' = k, harm' = harm \cup Harm(k, wiped),
         freezer.status = "stored", UNCHANGED rows, Harmless'
  PROVE  /\ harm = {} /\ harm' = {} /\ ~Overtaken(k) /\ Len(rows) = 1
         /\ \A j \in wiped : ~(j > freezer.key)
<1>1. harm' = {}
  BY DEF Harmless, Keys, EmptyKey
<1>2. harm = {} /\ Harm(k, wiped) = {}
  BY <1>1
<1>3. PICK n \in Nat : n = Len(rows) /\ n # 0
  <2>1. rows \in Seq(Row) /\ rows # <<>>
    BY TypeFacts DEF StorageTypes, Underway
  <2> QED
    BY <2>1
<1>4. ~Overtaken(k)
  BY <1>2, Zenon DEF Harm
<1>5. ~(Len(rows) > 1)
  BY <1>2, Zenon DEF Harm
<1>6. ~(\E j \in wiped : j > freezer.key)
  BY <1>2, Zenon DEF Harm
<1> QED
  BY <1>1, <1>2, <1>3, <1>4, <1>5, <1>6

LEMMA WipeBatchKeeps ==
  ASSUME TypeInv, SoundInv, WipeBatch, Harmless'
  PROVE  SoundInv'
<1>1. PICK k \in DOMAIN changes :
         /\ changes' = [j \in {i \in DOMAIN changes : i > k} |-> changes[j]]
         /\ frozenTo' = k /\ unmapped' = unmapped \cup Unmapped(k)
         /\ harm' = harm \cup Harm(k, {i \in DOMAIN changes : i <= k})
  BY DEF WipeBatch
<1>2. UNCHANGED <<rows, history, page, post, request, releases, anchors, freezer>>
      /\ freezer.status = "stored"
  BY DEF WipeBatch, WipesAt
<1>3. PICK n, f \in Int : /\ n = Len(history) /\ f = frozenTo /\ -1 <= f /\ n <= MaxEdits
                          /\ DOMAIN changes = f + 1..n - 1
  BY StorageFacts DEF FirebaseInv
<1>4. k \in Int /\ f <= k /\ 0 <= k /\ k <= n - 1 /\ k \in Keys
  BY <1>1, <1>3, StorageFacts DEF Keys
<1>5. /\ harm = {} /\ harm' = {} /\ ~Overtaken(k) /\ Len(rows) = 1
      /\ \A j \in {i \in DOMAIN changes : i <= k} : ~(j > freezer.key)
  BY <1>1, <1>2, <1>4, HarmlessWipe
<1>6. k <= freezer.key
  <2>1. ~(k > freezer.key)
    BY <1>1, <1>4, <1>5
  <2>2. freezer.key \in Int
    BY StorageFacts DEF StorageTypes, FreezerType, Keys, EmptyKey
  <2> QED
    BY <1>4, <2>1, <2>2
<1>7. DOMAIN changes' = k + 1..Len(history) - 1
  <2>1. \A j \in Int : j \in f + 1..n - 1 /\ j > k <=> j \in k + 1..n - 1
    BY <1>3, <1>4
  <2>2. DOMAIN changes' = {i \in f + 1..n - 1 : i > k}
    BY <1>1, <1>3
  <2> QED
    BY <1>3, <1>4, <2>1, <2>2
<1>8. \A j \in DOMAIN changes' : j \in DOMAIN changes /\ changes'[j] = changes[j]
  BY <1>1
<1> QED
  BY <1>1, <1>2, <1>3, <1>4, <1>5, <1>6, <1>7, <1>8, Wiped

LEMMA WipeFirebaseKeeps ==
  ASSUME TypeInv, SoundInv, WipeFirebase, Harmless'
  PROVE  SoundInv'
<1>1. /\ UNCHANGED <<rows, history, page, post, request, releases, anchors>>
      /\ freezer.status = "stored" /\ changes' = [j \in {} |-> 0]
  BY DEF WipeFirebase, WipesAt
<1>2. PICK n, f \in Int : /\ n = Len(history) /\ f = frozenTo /\ -1 <= f /\ n <= MaxEdits
                          /\ DOMAIN changes = f + 1..n - 1
  BY StorageFacts DEF FirebaseInv
<1>3. PICK k \in Int : k = freezer.key /\ f <= k /\ 0 <= k /\ k <= n - 1 /\ k \in Keys
  <2>1. freezer.key \in frozenTo..Len(history) - 1 /\ freezer.key >= 0
    BY <1>1, StorageFacts DEF FreezerInv, Underway
  <2> QED
    BY <1>2, <2>1, StorageFacts DEF Keys
<1>4. frozenTo' = k /\ unmapped' = unmapped \cup Unmapped(k)
      /\ harm' = harm \cup Harm(k, DOMAIN changes)
  BY <1>3 DEF WipeFirebase
<1>5. /\ harm = {} /\ harm' = {} /\ ~Overtaken(k) /\ Len(rows) = 1
      /\ \A j \in DOMAIN changes : ~(j > freezer.key)
  BY <1>1, <1>3, <1>4, HarmlessWipe
<1>6. k = n - 1
  <2>1. n - 1 \in f + 1..n - 1 => ~(n - 1 > k)
    BY <1>2, <1>3, <1>5
  <2> QED
    BY <1>2, <1>3, <2>1
<1>7. DOMAIN changes' = k + 1..Len(history) - 1
  <2>1. k + 1..n - 1 = {}
    BY <1>2, <1>6
  <2> QED
    BY <1>1, <1>2, <2>1
<1>8. \A j \in DOMAIN changes' : j \in DOMAIN changes /\ changes'[j] = changes[j]
  BY <1>1
<1>9. freezer'.status = "idle"
  <2>1. PICK m \in 0..MaxFreezes : m = freezer.runs
    BY TypeFacts DEF StorageTypes, FreezerType
  <2> QED
    BY <2>1, NoFreezeTyped DEF WipeFirebase
<1> QED
  BY <1>1, <1>2, <1>3, <1>4, <1>5, <1>7, <1>8, <1>9, Wiped
----------------------------------------------------------------------------
(* The invariant, and what follows from it.                                  *)

LEMMA StorageInitial ==
  ASSUME Init
  PROVE  StorageInv
<1>1. /\ history = <<>> /\ Len(history) = 0 /\ DOMAIN changes = {} /\ releases = <<>>
      /\ rows = <<>> /\ anchors = {} /\ unmapped = {} /\ frozenTo = EmptyKey
      /\ freezer.status = "idle"
  BY DEF Init, NoFreeze
<1>2. DOMAIN rows = {} /\ DOMAIN releases = {}
  BY <1>1
<1>3. FirebaseInv
  <2>1. frozenTo + 1..Len(history) - 1 = {} /\ frozenTo \in EmptyKey..Len(history) - 1
    BY <1>1 DEF EmptyKey
  <2>2. Len(history) <= MaxEdits
    BY <1>1, BoundsAssumption
  <2> QED
    BY <1>1, <2>1, <2>2 DEF FirebaseInv, Docs
<1>4. RowsInv /\ AnchorsInv /\ FreezerInv
  BY <1>1, <1>2 DEF RowsInv, AnchorsInv, UnfrozenAnchorsHold, AnchorsHold, FreezerInv
<1>5. /\ \A c \in Pages : PageInv(page[c])
      /\ \A p \in Posts : PostInv(post[p])
      /\ \A r \in Requests : RequestInv(request[r])
  BY NothingIsSound DEF Init
<1> QED
  BY <1>1, <1>2, <1>3, <1>4, <1>5, TypesInitial DEF StorageInv, SoundInv

\* What has been harmed stays so.
LEMMA HarmStays ==
  ASSUME TypeInv, [Next]_vars, Harmless'
  PROVE  Harmless
<1>1. harm \subseteq harm'
  BY DEF Next, vars, ReadRow, OpenPage, Receive, Edit, ClosePage, FindRow, CreateRow, UpdateRow,
         AskForVersion, ReadVersion, FinishView, CreateRelease, CreateDiscussion, DaysPass,
         SelectDraft, ReadRowToFreeze, BuildDoc, GatherStepMaps, StoreFrozen, WipeBatch,
         WipeFirebase, FreezeFails
<1>2. frozenTo' = EmptyKey => frozenTo = EmptyKey
  <2>1. CASE WipeBatch
    <3>1. frozenTo' \in DOMAIN changes
      BY <2>1 DEF WipeBatch
    <3>2. \A k \in 0..Len(history) - 1 : k # EmptyKey
      BY DEF EmptyKey
    <3> QED
      BY <3>1, <3>2, TypeFacts DEF KeysBounded
  <2>2. CASE WipeFirebase
    <3>1. frozenTo' >= 0
      BY <2>2, TypeFacts DEF WipeFirebase, WipesAt, Underway
    <3> QED
      BY <3>1 DEF EmptyKey
  <2>3. CASE UNCHANGED frozenTo
    BY <2>3
  <2> QED
    BY <2>1, <2>2, <2>3
    DEF Next, vars, ReadRow, OpenPage, Receive, Edit, ClosePage, FindRow, CreateRow, UpdateRow,
        AskForVersion, ReadVersion, FinishView, CreateRelease, CreateDiscussion, DaysPass,
        SelectDraft, ReadRowToFreeze, BuildDoc, GatherStepMaps, StoreFrozen, FreezeFails
<1> QED
  BY <1>1, <1>2 DEF Harmless

LEMMA SoundPreserved ==
  ASSUME TypeInv, SoundInv, [Next]_vars, Harmless'
  PROVE  SoundInv'
<1>1. CASE UNCHANGED vars
  <2>1. Calm /\ UNCHANGED <<page, post, request, anchors, freezer>>
    BY <1>1 DEF vars, Calm
  <2> QED
    BY <2>1, CalmKeeps, FreezerMoves
<1>2. ASSUME NEW c \in Pages, ReadRow(c) \/ OpenPage(c) \/ Receive(c) \/ Edit(c) \/ ClosePage(c)
      PROVE  SoundInv'
  BY <1>2, ReadRowKeeps, OpenPageKeeps, ReceiveKeeps, EditKeeps, ClosePageKeeps
<1>3. ASSUME NEW p \in Posts, FindRow(p) \/ CreateRow(p) \/ UpdateRow(p)
      PROVE  SoundInv'
  BY <1>3, FindRowKeeps, CreateRowKeeps, UpdateRowKeeps
<1>4. ASSUME NEW r \in Requests,
             AskForVersion(r) \/ ReadVersion(r) \/ FinishView(r) \/ CreateRelease(r)
      PROVE  SoundInv'
  BY <1>4, AskForVersionKeeps, ReadVersionKeeps, FinishViewKeeps, CreateReleaseKeeps
<1>5. CASE CreateDiscussion \/ DaysPass
  BY <1>5, CreateDiscussionKeeps, DaysPassKeeps
<1>6. CASE SelectDraft \/ ReadRowToFreeze \/ BuildDoc \/ GatherStepMaps
  BY <1>6, SelectDraftKeeps, ReadRowToFreezeKeeps, BuildDocKeeps, GatherStepMapsKeeps
<1>7. CASE StoreFrozen \/ WipeBatch \/ WipeFirebase \/ FreezeFails
  BY <1>7, StoreFrozenKeeps, WipeBatchKeeps, WipeFirebaseKeeps, FreezeFailsKeeps
<1> QED
  BY <1>1, <1>2, <1>3, <1>4, <1>5, <1>6, <1>7 DEF Next

\* Firebase and the row together hold every edit at every step of a freeze, and what
\* pages, posts, requests and the freezer have read stays good until they use it: in
\* every run, up to the first step that the code does not withstand.
THEOREM StorageInvariant == Spec => []StorageInv
<1>1. Init => StorageInv
  BY StorageInitial
<1>2. StorageInv /\ [Next]_vars => StorageInv'
  <2> SUFFICES ASSUME StorageInv, [Next]_vars PROVE StorageInv'
    OBVIOUS
  <2>1. TypeInv'
    BY TypesPreserved DEF StorageInv
  <2>2. Harmless' => SoundInv'
    BY HarmStays, SoundPreserved DEF StorageInv
  <2> QED
    BY <2>1, <2>2 DEF StorageInv
<1> QED
  BY <1>1, <1>2, PTL DEF Spec

\* Every variable keeps its type, in every run and whatever has been harmed: keys stay
\* within the bounds and no row, page or request holds a key without a document.
THEOREM StorageTypeCorrect == Spec => []TypeOK
<1>1. ASSUME TypeInv
      PROVE  TypeOK
  <2>1. \A n \in Nat : n <= MaxEdits => 0..n - 1 \subseteq Keys
    BY <1>1, TypeFacts DEF Keys
  <2>2. DOMAIN changes \subseteq Keys
    BY <1>1, <2>1, TypeFacts DEF KeysBounded
  <2>3. StorageTypes
    BY <1>1 DEF TypeInv
  <2> QED
    BY <2>2, <2>3
    DEF TypeOK, StorageTypes, PageType, PostType, RequestType, ReleaseType, FreezerType, Harms
<1>2. StorageInv => TypeOK
  BY <1>1 DEF StorageInv
<1> QED
  BY <1>2, StorageInvariant, PTL

\* Wherever freezes, their wipes included, were cut short, and whatever is edited,
\* posted, read and released meanwhile, the page that loads next gets every edit: until
\* one of the five things noted in harm, that cold storage does not withstand, happens.
THEOREM NothingIsLost == Spec => []NothingLost
<1>1. ASSUME StorageInv
      PROVE  NothingLost
  <2>1. ASSUME SoundInv, NEW row \in RowRead
        PROVE  DraftDoc(row, Latest).doc = history
    <3>1. Serves(row) /\ FirebaseInv
      BY <1>1, <2>1, RowReadIsSound, StorageFacts DEF StorageInv
    <3> QED
      BY <3>1, LatestIsRead
  <2> QED
    BY <1>1, <2>1 DEF StorageInv, NothingLost
<1> QED
  BY <1>1, StorageInvariant, PTL

\* Pages and rows hold the document of their key, under the same condition; several
\* posts may be under way at a time, between their read of the row and their write.
THEOREM DocumentsAreFaithful == Spec => []DocumentsFaithful
<1>1. ASSUME StorageInv
      PROVE  DocumentsFaithful
  <2>1. ASSUME SoundInv, NEW c \in Pages, page[c].status = "open"
        PROVE  page[c].doc = HistoryAt(page[c].key)
    BY <2>1 DEF SoundInv, PageInv
  <2>2. ASSUME SoundInv, NEW i \in DOMAIN rows
        PROVE  rows[i].doc = HistoryAt(rows[i].historyKey)
    <3>1. rows[i] \in Row
      <4>1. rows \in Seq(Row)
        BY <1>1, TypeFacts DEF StorageInv, StorageTypes
      <4> QED
        BY <2>2, <4>1
    <3>2. Serves(rows[i])
      BY <2>2 DEF SoundInv, RowsInv
    <3> QED
      BY <3>1, <3>2, RowIsNotNone DEF Serves
  <2> QED
    BY <1>1, <2>1, <2>2 DEF StorageInv, DocumentsFaithful
<1> QED
  BY <1>1, StorageInvariant, PTL

\* The step maps of a row are the edits after some release, each once; or, when a
\* gathering has failed and the wipe went on, the edits after what that wipe took.
THEOREM StepMapsAreContiguous == Spec => []StepMapsContiguous
<1>1. ASSUME StorageInv
      PROVE  StepMapsContiguous
  <2>1. SoundInv => \A i \in DOMAIN rows : Continues(rows[i])
    BY DEF SoundInv, RowsInv
  <2> QED
    BY <1>1, <2>1 DEF StorageInv, Continues, MapsFrom, MapStarts, StepMapsContiguous
<1> QED
  BY <1>1, StorageInvariant, PTL

\* A version from the row's key on, and any version before a wipe, is read right, also
\* when a freeze stores and wipes between the two reads; a request that the wipe leaves
\* behind is one of the harms.
THEOREM VersionsAreFaithful == Spec => []ReachableVersionsFaithful
<1>1. StorageInv => ReachableVersionsFaithful
  BY DEF StorageInv, SoundInv, RequestInv, ReachableVersionsFaithful
<1> QED
  BY <1>1, StorageInvariant, PTL

\* Until Firebase is wiped, anchors are mapped right from release to release.
THEOREM UnfrozenAnchorsAreRight == Spec => []UnfrozenAnchorsHold
<1>1. StorageInv => UnfrozenAnchorsHold
  <2>1. frozenTo = EmptyKey => Harmless
    BY DEF Harmless
  <2> QED
    BY <2>1 DEF StorageInv, SoundInv, AnchorsInv, UnfrozenAnchorsHold
<1> QED
  BY <1>1, StorageInvariant, PTL
============================================================================
