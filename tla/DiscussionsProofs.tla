-------------------------- MODULE DiscussionsProofs --------------------------
(***************************************************************************)
(* Theorems about Discussions, for every set of sessions and every number  *)
(* of edits.                                                               *)
(***************************************************************************)
EXTENDS Discussions, TLAPS

\* Every edit is in one change at most, and the changes hold edits that were typed.
ChangesDistinct ==
    /\ \A i \in DOMAIN changes : changes[i] <= typed
    /\ \A i, j \in DOMAIN changes : changes[i] = changes[j] => i = j

\* A session's edit is its own; if it is in the list, the session has yet to see it.
EditsOwned ==
    /\ \A s \in Sessions : unconfirmed[s] <= typed
    /\ \A s, r \in Sessions : unconfirmed[s] = unconfirmed[r] /\ unconfirmed[s] # 0 => s = r
    /\ \A s \in Sessions, i \in DOMAIN changes :
         unconfirmed[s] = changes[i] => i > mostRecentRemoteKey[s]

\* The keys of a session follow one another.
KeysOrdered ==
    \A s \in Sessions : /\ mostRecentRemoteKey[s] <= Len(changes)
                        /\ stateKey[s] <= mostRecentRemoteKey[s]
                        /\ historyKey[s] <= mostRecentRemoteKey[s]

\* A position that is on its way is of a document that there is, and right if true.
SoundIn(list, info) ==
    /\ info \in Infos
    /\ info.currentKey <= Len(list)
    /\ info.true => info.position = PositionIn({list[i] : i \in 1..info.currentKey})
Sound(info) == SoundIn(changes, info)

\* ... and a session's copy is right for what the session shows.
CopySound(key, document, info) ==
    /\ info \in Infos
    /\ info.currentKey = key
    /\ info.true => info.position = PositionIn(document)

InfosSound ==
    /\ stored # NoInfo => Sound(stored)
    /\ \A s \in Sessions : /\ \A i \in callbacks[s] \cup fetching[s] : Sound(i)
                           /\ discussion[s] # NoInfo =>
                               CopySound(historyKey[s], Document(s), discussion[s])

\* A session that has not loaded the draft has nothing.
ClosedHaveNothing ==
    \A s \in Sessions \ open : /\ unconfirmed[s] = 0 /\ discussion[s] = NoInfo
                               /\ callbacks[s] = {} /\ fetching[s] = {}

\* The inductive invariant.
DiscussionsInv ==
    /\ TypeOK
    /\ ChangesDistinct
    /\ EditsOwned
    /\ KeysOrdered
    /\ InfosSound
    /\ ClosedHaveNothing
----------------------------------------------------------------------------
(* Positions. *)

\* Mapping a right position through edits that are not in its document yet makes it
\* right for the document with them.
LEMMA ThroughNew ==
    ASSUME NEW A, NEW B, A \cap B = {}
    PROVE  Through(PositionIn(A), B) = PositionIn(A \cup B)
BY DEF Through, PositionIn

LEMMA ThroughType ==
    ASSUME NEW f \in [Edits -> Nat], NEW B
    PROVE  Through(f, B) \in [Edits -> Nat]
BY DEF Through

LEMMA PositionType == \A A : PositionIn(A) \in [Edits -> Nat]
BY DEF PositionIn

\* A discussion that is marked by what the screen shows when it is used.
LEMMA Marked ==
    ASSUME NEW i \in Infos, NEW b \in BOOLEAN
    PROVE  /\ [i EXCEPT !.true = @ /\ b] \in Infos
           /\ [i EXCEPT !.true = @ /\ b].currentKey = i.currentKey
           /\ [i EXCEPT !.true = @ /\ b].position = i.position
           /\ [i EXCEPT !.true = @ /\ b].true = (i.true /\ b)
BY DEF Infos

LEMMA InfoMade ==
    ASSUME NEW k \in Nat, NEW f \in [Edits -> Nat], NEW b \in BOOLEAN
    PROVE  /\ Info(k, f, b) \in Infos
           /\ Info(k, f, b).currentKey = k
           /\ Info(k, f, b).position = f
           /\ Info(k, f, b).true = b
BY DEF Info, Infos

\* The documents of the list stay as they are when it grows.
LEMMA DocumentsStay ==
    ASSUME changes \in Seq(Edits), NEW x \in Edits, changes' = Append(changes, x),
           NEW k \in Nat, k <= Len(changes)
    PROVE  EditsUpTo(k)' = EditsUpTo(k)
<1>1. \A i \in 1..k : changes'[i] = changes[i]
  OBVIOUS
<1> QED
  BY <1>1 DEF EditsUpTo

\* Catching up: a sound position becomes a sound position of the later key.
LEMMA FastForwardSound ==
    ASSUME TypeOK, ChangesDistinct, NEW info, Sound(info), NEW key \in Nat,
           info.currentKey < key, key <= Len(changes)
    PROVE  Sound(FastForwarded(info, key))
<1> DEFINE old == info.currentKey
<1>1. /\ info \in Infos /\ old \in Nat /\ info.position \in [Edits -> Nat]
      /\ info.true \in BOOLEAN
  BY DEF Sound, SoundIn, Infos
<1> DEFINE new == Through(info.position, ChangesAfter(info, key))
<1>2. new \in [Edits -> Nat]
  BY <1>1, ThroughType
<1>3. ASSUME info.true PROVE new = PositionIn(EditsUpTo(key))
  <2>1. info.position = PositionIn(EditsUpTo(old))
    BY <1>3 DEF Sound, SoundIn, EditsUpTo
  <2>2. EditsUpTo(old) \cap ChangesAfter(info, key) = {}
    <3>1. ASSUME NEW i \in 1..old, NEW j \in old + 1..key PROVE changes[i] # changes[j]
      BY <1>1, <3>1 DEF ChangesDistinct, TypeOK
    <3> QED
      BY <3>1 DEF EditsUpTo, ChangesAfter
  <2>3. EditsUpTo(old) \cup ChangesAfter(info, key) = EditsUpTo(key)
    <3>1. 1..key = (1..old) \cup (old + 1..key)
      BY <1>1
    <3> QED
      BY <3>1 DEF EditsUpTo, ChangesAfter
  <2> QED
    BY <2>1, <2>2, <2>3, ThroughNew
<1>4. FastForwarded(info, key) = Info(key, new, info.true)
  BY DEF FastForwarded
<1> HIDE DEF new
<1> DEFINE forwarded == FastForwarded(info, key)
<1>5. /\ forwarded \in Infos /\ forwarded.currentKey = key /\ forwarded.position = new
      /\ forwarded.true = info.true
  BY <1>1, <1>2, <1>4, InfoMade
<1> HIDE DEF forwarded
<1>6. forwarded.true => forwarded.position = PositionIn({changes[i] : i \in 1..key})
  BY <1>3, <1>5 DEF EditsUpTo
<1> QED
  BY <1>5, <1>6 DEF Sound, SoundIn, forwarded

LEMMA ForwardsSound ==
    ASSUME TypeOK, ChangesDistinct, NEW infos, \A i \in infos : Sound(i),
           NEW key \in Nat, key <= Len(changes)
    PROVE  \A i \in FastForwards(infos, key) : Sound(i)
BY FastForwardSound DEF FastForwards

\* A position that is taken over is of the key it is taken under, and true only if
\* the screen shows the document of that key.
LEMMA TakenSound ==
    ASSUME NEW s \in Sessions, NEW infos, \A i \in infos : Sound(i), NEW key, NEW doc
    PROVE  \/ Taken(s, infos, key, doc) = discussion[s]
           \/ \E d \in Infos : /\ Taken(s, infos, key, doc) = d
                               /\ infos # {} /\ d.currentKey = key
                               /\ d.true => d.position = PositionIn(doc)
<1> DEFINE accepted == {i \in infos : Accepts(key, i)}
<1>1. CASE accepted = {}
  BY <1>1 DEF Taken
<1>2. CASE accepted # {}
  <2>1. PICK i \in accepted : Taken(s, infos, key, doc) = [i EXCEPT !.true = @ /\ doc = EditsUpTo(key)]
    <3>1. (CHOOSE i \in accepted : TRUE) \in accepted
      BY <1>2
    <3> QED
      BY <1>2, <3>1 DEF Taken
  <2>2. i \in Infos /\ Sound(i) /\ i.currentKey = key
    BY <2>1 DEF Sound, SoundIn, Accepts
  <2>3. PICK b \in BOOLEAN : b = (doc = EditsUpTo(key))
    OBVIOUS
  <2> DEFINE d == [i EXCEPT !.true = @ /\ b]
  <2>4. d \in Infos /\ d.currentKey = key /\ d.position = i.position /\ d.true = (i.true /\ b)
    BY <2>2, Marked
  <2>5. Taken(s, infos, key, doc) = d
    BY <2>1, <2>3
  <2>6. d.true => d.position = PositionIn(doc)
    BY <2>2, <2>3, <2>4 DEF Sound, SoundIn, EditsUpTo
  <2> HIDE DEF d
  <2> QED
    BY <2>1, <2>4, <2>5, <2>6
<1> QED
  BY <1>1, <1>2

\* What is stored is the old discussion or the one sent, whichever key is later.
LEMMA SentSound ==
    ASSUME NEW info \in Infos, SendLater(info), stored # NoInfo => stored \in Infos
    PROVE  /\ stored' = stored \/ stored' = info
           /\ stored # NoInfo => stored' # NoInfo /\ stored'.currentKey >= stored.currentKey
BY NoInfoAssumption DEF SendLater, Infos
----------------------------------------------------------------------------
(* The invariant is inductive. *)

\* What one transaction of a session's editor does to its keys and positions.
LEMMA TransactionSound ==
    ASSUME DiscussionsInv, NEW s \in Sessions, NEW edits, NEW doc, NEW remoteKey \in Nat,
           edits \cap Document(s) = {}, doc = Document(s) \cup edits,
           mostRecentRemoteKey[s] <= remoteKey, remoteKey <= Len(changes),
           Transaction(s, edits, doc, remoteKey)
    PROVE  /\ \E key \in Nat :
                /\ key <= remoteKey
                /\ mostRecentRemoteKey' = [mostRecentRemoteKey EXCEPT ![s] = remoteKey]
                /\ stateKey' = [stateKey EXCEPT ![s] = remoteKey]
                /\ historyKey' = [historyKey EXCEPT ![s] = key]
                /\ \E copy \in Infos \cup {NoInfo} :
                     /\ discussion' = [discussion EXCEPT ![s] = copy]
                     /\ copy # NoInfo => CopySound(key, doc, copy)
           /\ \E waiting \in SUBSET Infos, coming \in SUBSET Infos :
                /\ callbacks' = [callbacks EXCEPT ![s] = waiting]
                /\ fetching' = [fetching EXCEPT ![s] = coming]
           /\ \A i \in callbacks'[s] \cup fetching'[s] : Sound(i)
           /\ stored' # NoInfo => Sound(stored')
           /\ stored # NoInfo => stored' # NoInfo /\ stored'.currentKey >= stored.currentKey
<1> DEFINE key   == NextKey(s)
           ready == Ready(s, key)
           copy  == Taken(s, ready, key, doc)
           isMapped == copy # NoInfo /\ copy.currentKey = historyKey[s]
           mapped == Info(key, Through(copy.position, edits), copy.true)
           sent  == [mapped EXCEPT !.true = @ /\ doc = EditsUpTo(key)]
           after == IF isMapped THEN mapped ELSE copy
<1>1. /\ TypeOK /\ ChangesDistinct /\ KeysOrdered /\ InfosSound
      /\ mostRecentRemoteKey[s] \in Nat /\ stateKey[s] \in Nat /\ historyKey[s] \in Nat
      /\ Len(changes) \in Nat
  BY DEF DiscussionsInv, TypeOK
<1>2. /\ key \in Nat /\ historyKey[s] <= key /\ key <= remoteKey /\ key <= Len(changes)
  BY <1>1 DEF NextKey, KeysOrdered
<1>3. /\ mostRecentRemoteKey' = [mostRecentRemoteKey EXCEPT ![s] = remoteKey]
      /\ stateKey' = [stateKey EXCEPT ![s] = remoteKey]
      /\ historyKey' = [historyKey EXCEPT ![s] = key]
      /\ callbacks' = [callbacks EXCEPT ![s] = callbacks[s] \ ready]
      /\ fetching' = [fetching EXCEPT ![s] = fetching[s] \cup FastForwards(ready, key)]
      /\ discussion' = [discussion EXCEPT ![s] = after]
      /\ IF isMapped /\ key > copy.currentKey THEN SendLater(sent) ELSE UNCHANGED stored
  BY DEF Transaction
<1>4. /\ ready \subseteq callbacks[s] /\ \A i \in ready : Sound(i)
      /\ ready # {} => key > historyKey[s]
  BY <1>1 DEF Ready, InfosSound
<1>5. \/ copy = NoInfo
      \/ copy \in Infos /\ copy.currentKey = historyKey[s] /\ copy = discussion[s]
      \/ /\ copy \in Infos /\ copy.currentKey = key /\ key > historyKey[s]
         /\ copy.true => copy.position = PositionIn(doc)
  <2>1. \/ copy = discussion[s]
        \/ \E d \in Infos : /\ copy = d /\ ready # {} /\ d.currentKey = key
                            /\ d.true => d.position = PositionIn(doc)
    <3>1. PICK k, r : k = key /\ r = ready
      OBVIOUS
    <3>2. copy = Taken(s, r, k, doc)
      BY <3>1
    <3> HIDE DEF ready, key, copy
    <3>3. \A i \in r : Sound(i)
      BY <1>4, <3>1
    <3>4. \/ Taken(s, r, k, doc) = discussion[s]
          \/ \E d \in Infos : /\ Taken(s, r, k, doc) = d
                              /\ r # {} /\ d.currentKey = k
                              /\ d.true => d.position = PositionIn(doc)
      BY ONLY s \in Sessions, <3>3, TakenSound
    <3> QED
      BY <3>1, <3>2, <3>4
  <2>2. discussion[s] # NoInfo => discussion[s] \in Infos /\ discussion[s].currentKey = historyKey[s]
    BY <1>1 DEF InfosSound, CopySound
  <2> HIDE DEF copy
  <2> QED
    BY <1>4, <2>1, <2>2
<1>6. ASSUME isMapped
      PROVE  /\ mapped \in Infos /\ mapped.currentKey = key
             /\ mapped.true => mapped.position = PositionIn(doc)
  <2>1. copy \in Infos /\ copy = discussion[s]
    BY <1>1, <1>5, <1>6
  <2>2. copy.position \in [Edits -> Nat] /\ copy.true \in BOOLEAN
    BY <2>1 DEF Infos
  <2>3. Through(copy.position, edits) \in [Edits -> Nat]
    BY <2>2, ThroughType
  <2>4. copy.true => Through(copy.position, edits) = PositionIn(doc)
    <3>1. copy.true => copy.position = PositionIn(Document(s))
      BY <1>1, <1>6, <2>1 DEF InfosSound, CopySound
    <3>2. PICK A : A = Document(s)
      OBVIOUS
    <3>3. A \cap edits = {} /\ doc = A \cup edits
      BY <3>2
    <3> QED
      BY <3>1, <3>2, <3>3, ThroughNew
  <2> HIDE DEF copy
  <2> QED
    BY <1>2, <2>2, <2>3, <2>4, InfoMade
<1>7. /\ after \in Infos \cup {NoInfo}
      /\ after # NoInfo => /\ after.currentKey = key
                           /\ after.true => after.position = PositionIn(doc)
  <2> HIDE DEF copy, mapped
  <2> QED
    BY <1>5, <1>6
<1>8. ASSUME isMapped PROVE Sound(sent)
  <2>1. PICK b \in BOOLEAN : b = (doc = EditsUpTo(key))
    OBVIOUS
  <2>2. sent = [mapped EXCEPT !.true = @ /\ b]
    BY <2>1
  <2> HIDE DEF mapped
  <2>3. /\ sent \in Infos /\ sent.currentKey = key /\ sent.position = mapped.position
        /\ sent.true = (mapped.true /\ b)
    BY <1>6, <1>8, <2>2, Marked
  <2> HIDE DEF sent
  <2> QED
    BY <1>2, <1>6, <1>8, <2>1, <2>3 DEF Sound, SoundIn, EditsUpTo
<1>9. stored # NoInfo => stored \in Infos /\ Sound(stored)
  BY <1>1 DEF InfosSound, Sound, SoundIn
<1>10. /\ stored' # NoInfo => Sound(stored')
       /\ stored # NoInfo => stored' # NoInfo /\ stored'.currentKey >= stored.currentKey
  <2>1. CASE isMapped /\ SendLater(sent)
    <3>1. Sound(sent) /\ sent \in Infos
      BY <1>8, <2>1 DEF Sound, SoundIn
    <3> HIDE DEF sent
    <3> QED
      BY <1>9, <2>1, <3>1, SentSound
  <2>2. CASE stored' = stored
    BY <1>9, <2>2 DEF Infos
  <2> QED
    BY <1>3, <2>1, <2>2
<1>11. /\ callbacks[s] \subseteq Infos /\ fetching[s] \subseteq Infos
       /\ \A i \in callbacks[s] \cup fetching[s] : Sound(i)
       /\ \A i \in FastForwards(ready, key) : Sound(i) /\ i \in Infos
  BY <1>1, <1>2, <1>4, ForwardsSound DEF TypeOK, InfosSound, Sound, SoundIn
<1>12. /\ callbacks[s] \ ready \in SUBSET Infos
       /\ fetching[s] \cup FastForwards(ready, key) \in SUBSET Infos
  BY <1>11
<1>13. \E waiting \in SUBSET Infos, coming \in SUBSET Infos :
         /\ callbacks' = [callbacks EXCEPT ![s] = waiting]
         /\ fetching' = [fetching EXCEPT ![s] = coming]
  <2> HIDE DEF ready, key
  <2> QED
    BY <1>3, <1>12
<1>14. \A i \in callbacks'[s] \cup fetching'[s] : Sound(i)
  <2>1. /\ callbacks'[s] = callbacks[s] \ ready
        /\ fetching'[s] = fetching[s] \cup FastForwards(ready, key)
    <3>1. s \in DOMAIN callbacks /\ s \in DOMAIN fetching
      BY <1>1 DEF TypeOK
    <3> HIDE DEF ready, key
    <3> QED
      BY <1>3, <3>1
  <2> HIDE DEF ready, key
  <2> QED
    BY <1>11, <2>1
<1>15. \E c \in Infos \cup {NoInfo} :
         /\ discussion' = [discussion EXCEPT ![s] = c]
         /\ c # NoInfo => CopySound(key, doc, c)
  <2> HIDE DEF after, key
  <2> QED
    BY <1>3, <1>7 DEF CopySound
<1> HIDE DEF after, ready, key, copy, sent, mapped
<1> QED
  BY <1>2, <1>3, <1>10, <1>13, <1>14, <1>15

\* The list only grows, and what was sound stays so.
LEMMA SoundKept ==
    ASSUME TypeOK, changes' = changes \/ \E x \in Edits : changes' = Append(changes, x),
           NEW i, SoundIn(changes, i)
    PROVE  SoundIn(changes', i)
<1>1. CASE changes' = changes
  BY <1>1
<1>2. ASSUME NEW x \in Edits, changes' = Append(changes, x) PROVE SoundIn(changes', i)
  <2>1. i \in Infos /\ i.currentKey \in Nat /\ i.currentKey <= Len(changes)
    BY DEF SoundIn, Infos
  <2>2. Len(changes') = Len(changes) + 1 /\ Len(changes) \in Nat
    BY <1>2 DEF TypeOK
  <2>3. \A n \in 1..i.currentKey : changes'[n] = changes[n]
    BY <1>2, <2>1 DEF TypeOK
  <2>4. {changes'[n] : n \in 1..i.currentKey} = {changes[n] : n \in 1..i.currentKey}
    BY <2>3
  <2>5. i.true => i.position = PositionIn({changes'[n] : n \in 1..i.currentKey})
    BY <2>4 DEF SoundIn
  <2>6. i.currentKey <= Len(changes')
    BY <2>1, <2>2
  <2> QED
    BY <2>1, <2>5, <2>6 DEF SoundIn
<1> QED
  BY <1>1, <1>2

\* A transaction of one session keeps the invariant, if it keeps its document as it
\* says and no edit gets two owners.
LEMMA TransactionStep ==
    ASSUME DiscussionsInv, NEW s \in open, NEW edits, NEW doc, NEW remoteKey \in Nat,
           edits \cap Document(s) = {}, doc = Document(s) \cup edits,
           mostRecentRemoteKey[s] <= remoteKey, remoteKey <= Len(changes),
           Transaction(s, edits, doc, remoteKey),
           UNCHANGED <<changes, open, heard>>,
           unconfirmed' \in [Sessions -> {0} \cup Edits],
           typed' \in 0..MaxEdits, typed <= typed',
           \A r \in Sessions : r # s => unconfirmed'[r] = unconfirmed[r],
           Document(s)' = doc, EditsOwned'
    PROVE  /\ DiscussionsInv'
           /\ stored # NoInfo => stored' # NoInfo /\ stored'.currentKey >= stored.currentKey
<1>1. /\ TypeOK /\ ChangesDistinct /\ EditsOwned /\ KeysOrdered /\ InfosSound
      /\ ClosedHaveNothing /\ s \in Sessions
  BY DEF DiscussionsInv, TypeOK
<1>2. PICK key \in Nat, copy \in Infos \cup {NoInfo} :
        /\ key <= remoteKey
        /\ mostRecentRemoteKey' = [mostRecentRemoteKey EXCEPT ![s] = remoteKey]
        /\ stateKey' = [stateKey EXCEPT ![s] = remoteKey]
        /\ historyKey' = [historyKey EXCEPT ![s] = key]
        /\ discussion' = [discussion EXCEPT ![s] = copy]
        /\ copy # NoInfo => CopySound(key, doc, copy)
  BY <1>1, TransactionSound
<1>3. PICK waiting \in SUBSET Infos, coming \in SUBSET Infos :
        /\ callbacks' = [callbacks EXCEPT ![s] = waiting]
        /\ fetching' = [fetching EXCEPT ![s] = coming]
  BY <1>1, TransactionSound
<1>4. /\ \A i \in callbacks'[s] \cup fetching'[s] : Sound(i)
      /\ stored' # NoInfo => Sound(stored')
      /\ stored # NoInfo => stored' # NoInfo /\ stored'.currentKey >= stored.currentKey
  <2>1. \A i \in callbacks'[s] \cup fetching'[s] : Sound(i)
    BY <1>1, TransactionSound
  <2>2. stored' # NoInfo => Sound(stored')
    BY <1>1, TransactionSound
  <2>3. stored # NoInfo => stored' # NoInfo /\ stored'.currentKey >= stored.currentKey
    BY <1>1, TransactionSound
  <2> QED
    BY <2>1, <2>2, <2>3
<1>5. TypeOK'
  <2>1. stored' \in Infos \cup {NoInfo}
    BY <1>4 DEF Sound, SoundIn
  <2>2. /\ mostRecentRemoteKey' \in [Sessions -> Nat] /\ stateKey' \in [Sessions -> Nat]
        /\ historyKey' \in [Sessions -> Nat]
        /\ discussion' \in [Sessions -> Infos \cup {NoInfo}]
    BY <1>1, <1>2 DEF TypeOK
  <2>3. callbacks' \in [Sessions -> SUBSET Infos] /\ fetching' \in [Sessions -> SUBSET Infos]
    BY <1>1, <1>3 DEF TypeOK
  <2> QED
    BY <1>1, <2>1, <2>2, <2>3 DEF TypeOK
<1>6. ChangesDistinct'
  <2>0. \A i \in DOMAIN changes : changes[i] \in Edits
    BY <1>1 DEF TypeOK
  <2>1. \A i \in DOMAIN changes : changes[i] \in Nat /\ changes[i] <= typed
    BY <1>1, <2>0, MaxEditsAssumption DEF ChangesDistinct, Edits
  <2>2. typed \in Nat /\ typed' \in Nat
    BY <1>1 DEF TypeOK
  <2>3. \A i \in DOMAIN changes : changes[i] <= typed'
    BY <2>1, <2>2
  <2> QED
    BY <1>1, <2>3 DEF ChangesDistinct
<1>7. KeysOrdered'
  BY <1>1, <1>2 DEF KeysOrdered, TypeOK
<1>8. InfosSound'
  <2>1. stored' # NoInfo => SoundIn(changes', stored')
    BY <1>4 DEF Sound
  <2>2. ASSUME NEW r \in Sessions
        PROVE  /\ \A i \in callbacks'[r] \cup fetching'[r] : SoundIn(changes', i)
               /\ discussion'[r] # NoInfo =>
                    CopySound(historyKey'[r], Document(r)', discussion'[r])
    <3>1. CASE r = s
      <4>1. discussion'[r] = copy /\ historyKey'[r] = key
        BY <1>1, <1>2, <3>1 DEF TypeOK
      <4> QED
        BY <1>2, <1>4, <3>1, <4>1 DEF Sound
    <3>2. CASE r # s
      <4>1. /\ callbacks'[r] = callbacks[r] /\ fetching'[r] = fetching[r]
            /\ discussion'[r] = discussion[r] /\ historyKey'[r] = historyKey[r]
            /\ mostRecentRemoteKey'[r] = mostRecentRemoteKey[r]
        BY <1>1, <1>2, <1>3, <3>2 DEF TypeOK
      <4>2. Document(r)' = Document(r)
        BY <3>2, <4>1 DEF Document, EditsUpTo
      <4> QED
        BY <1>1, <4>1, <4>2 DEF InfosSound, Sound
    <3> QED
      BY <3>1, <3>2
  <2> QED
    BY <2>1, <2>2 DEF InfosSound, Sound
<1>9. ClosedHaveNothing'
  <2> SUFFICES ASSUME NEW r \in Sessions \ open
               PROVE  /\ unconfirmed'[r] = 0 /\ discussion'[r] = NoInfo
                      /\ callbacks'[r] = {} /\ fetching'[r] = {}
    BY DEF ClosedHaveNothing
  <2>1. r # s
    OBVIOUS
  <2>2. /\ callbacks'[r] = callbacks[r] /\ fetching'[r] = fetching[r]
        /\ discussion'[r] = discussion[r] /\ unconfirmed'[r] = unconfirmed[r]
    BY <1>1, <1>2, <1>3, <2>1 DEF TypeOK
  <2> QED
    BY <1>1, <2>2 DEF ClosedHaveNothing
<1> QED
  BY <1>4, <1>5, <1>6, <1>7, <1>8, <1>9 DEF DiscussionsInv

LEMMA TransactionKey ==
    ASSUME TypeOK, NEW s \in Sessions, NEW edits, NEW doc, NEW remoteKey,
           Transaction(s, edits, doc, remoteKey)
    PROVE  /\ mostRecentRemoteKey'[s] = remoteKey
           /\ \A r \in Sessions : r # s => mostRecentRemoteKey'[r] = mostRecentRemoteKey[r]
BY DEF Transaction, TypeOK

\* What every edit in the list or on a screen is.
LEMMA EditsKnown ==
    ASSUME DiscussionsInv
    PROVE  /\ typed \in Nat /\ Len(changes) \in Nat /\ DOMAIN changes = 1..Len(changes)
           /\ \A i \in 1..Len(changes) : changes[i] \in Edits /\ changes[i] \in Nat
                                         /\ changes[i] <= typed /\ changes[i] # 0
           /\ \A s \in Sessions :
                /\ unconfirmed[s] \in {0} \cup Edits /\ unconfirmed[s] \in Nat
                /\ unconfirmed[s] <= typed
                /\ mostRecentRemoteKey[s] \in Nat /\ mostRecentRemoteKey[s] <= Len(changes)
<1>1. /\ TypeOK /\ ChangesDistinct /\ EditsOwned /\ KeysOrdered
      /\ changes \in Seq(Edits) /\ Len(changes) \in Nat /\ DOMAIN changes = 1..Len(changes)
  BY DEF DiscussionsInv, TypeOK
<1>2. \A e \in Edits : e \in Nat /\ e # 0
  BY MaxEditsAssumption DEF Edits
<1>3. \A i \in 1..Len(changes) : changes[i] \in Edits /\ changes[i] <= typed
  BY <1>1 DEF ChangesDistinct
<1>4. \A s \in Sessions :
        /\ unconfirmed[s] \in {0} \cup Edits /\ unconfirmed[s] <= typed
        /\ mostRecentRemoteKey[s] \in Nat /\ mostRecentRemoteKey[s] <= Len(changes)
  BY <1>1 DEF TypeOK, EditsOwned, KeysOrdered
<1>5. typed \in Nat
  BY <1>1, MaxEditsAssumption DEF TypeOK
<1> QED
  BY <1>1, <1>2, <1>3, <1>4, <1>5

\* A key is typed: the edit is new to every list and screen.
LEMMA TypeStep ==
    ASSUME DiscussionsInv, NEW s \in Sessions, Type(s)
    PROVE  /\ DiscussionsInv'
           /\ stored # NoInfo => stored' # NoInfo /\ stored'.currentKey >= stored.currentKey
<1>1. /\ TypeOK /\ EditsOwned /\ s \in open /\ unconfirmed[s] = 0 /\ typed < MaxEdits
      /\ typed' = typed + 1 /\ unconfirmed' = [unconfirmed EXCEPT ![s] = typed + 1]
      /\ UNCHANGED <<changes, open, heard>>
  BY DEF Type, DiscussionsInv
<1>2. PICK edits, doc, key : edits = {typed + 1} /\ doc = Document(s) \cup {typed + 1}
                             /\ key = mostRecentRemoteKey[s]
  OBVIOUS
<1>3. Transaction(s, edits, doc, key)
  BY <1>2 DEF Type
<1>4. /\ mostRecentRemoteKey'[s] = key
      /\ \A r \in Sessions : r # s => mostRecentRemoteKey'[r] = mostRecentRemoteKey[r]
  BY <1>1, <1>3, TransactionKey
<1>5. typed + 1 \in Edits /\ typed' \in 0..MaxEdits /\ typed <= typed'
  BY <1>1, EditsKnown, MaxEditsAssumption DEF Edits
<1>6. edits \cap Document(s) = {}
  <2>1. \A i \in 1..mostRecentRemoteKey[s] : changes[i] # typed + 1
    BY EditsKnown
  <2> QED
    BY <1>1, <1>2, <2>1 DEF Document, EditsUpTo
<1>7. Document(s)' = doc
  <2>1. unconfirmed'[s] = typed + 1 /\ typed + 1 # 0
    BY <1>1, EditsKnown DEF TypeOK
  <2> QED
    BY <1>1, <1>2, <1>4, <2>1 DEF Document, EditsUpTo
<1>8. /\ unconfirmed' \in [Sessions -> {0} \cup Edits]
      /\ \A r \in Sessions : r # s => unconfirmed'[r] = unconfirmed[r]
      /\ unconfirmed'[s] = typed + 1
  BY <1>1, <1>5 DEF TypeOK
<1>9. EditsOwned'
  <2>1. \A r \in Sessions : unconfirmed'[r] <= typed'
    BY <1>1, <1>8, EditsKnown
  <2>2. \A r, q \in Sessions :
          unconfirmed'[r] = unconfirmed'[q] /\ unconfirmed'[r] # 0 => r = q
    BY <1>1, <1>8, EditsKnown DEF EditsOwned
  <2>3. ASSUME NEW r \in Sessions, NEW i \in DOMAIN changes, unconfirmed'[r] = changes[i]
        PROVE  i > mostRecentRemoteKey'[r]
    <3>1. r # s
      BY <1>8, <2>3, EditsKnown
    <3> QED
      BY <1>1, <1>4, <1>8, <2>3, <3>1 DEF EditsOwned
  <2> QED
    BY <1>1, <2>1, <2>2, <2>3 DEF EditsOwned
<1>10. key \in Nat /\ key <= Len(changes) /\ mostRecentRemoteKey[s] <= key
  BY <1>2, EditsKnown
<1> QED
  BY <1>1, <1>2, <1>3, <1>5, <1>6, <1>7, <1>8, <1>9, <1>10, TransactionStep

\* A transaction without steps.
LEMMA SelectStep ==
    ASSUME DiscussionsInv, NEW s \in Sessions, Select(s)
    PROVE  /\ DiscussionsInv'
           /\ stored # NoInfo => stored' # NoInfo /\ stored'.currentKey >= stored.currentKey
<1>1. /\ TypeOK /\ EditsOwned /\ s \in open
      /\ UNCHANGED <<changes, typed, open, unconfirmed, heard>>
  BY DEF Select, DiscussionsInv
<1>2. PICK edits, doc, key : edits = {} /\ doc = Document(s) /\ key = mostRecentRemoteKey[s]
  OBVIOUS
<1>3. Transaction(s, edits, doc, key)
  BY <1>2 DEF Select
<1>4. /\ mostRecentRemoteKey'[s] = key
      /\ \A r \in Sessions : r # s => mostRecentRemoteKey'[r] = mostRecentRemoteKey[r]
  BY <1>1, <1>3, TransactionKey
<1>5. \A r \in Sessions : mostRecentRemoteKey'[r] = mostRecentRemoteKey[r]
  BY <1>2, <1>4
<1>6. Document(s)' = doc
  BY <1>1, <1>2, <1>5 DEF Document, EditsUpTo
<1>7. EditsOwned'
  BY <1>1, <1>5 DEF EditsOwned
<1>8. /\ unconfirmed' \in [Sessions -> {0} \cup Edits] /\ typed' \in 0..MaxEdits
      /\ typed <= typed' /\ \A r \in Sessions : unconfirmed'[r] = unconfirmed[r]
  BY <1>1, EditsKnown DEF TypeOK
<1>9. key \in Nat /\ key <= Len(changes) /\ mostRecentRemoteKey[s] <= key
  BY <1>2, EditsKnown
<1>10. edits \cap Document(s) = {} /\ doc = Document(s) \cup edits
  BY <1>2
<1> QED
  BY <1>1, <1>3, <1>6, <1>7, <1>8, <1>9, <1>10, TransactionStep

\* The next change of the list: the session's own confirms its edit, and any other
\* is new to its screen.
LEMMA ReceiveStep ==
    ASSUME DiscussionsInv, NEW s \in Sessions, ReceiveChange(s)
    PROVE  /\ DiscussionsInv'
           /\ stored # NoInfo => stored' # NoInfo /\ stored'.currentKey >= stored.currentKey
<1> DEFINE k == mostRecentRemoteKey[s] + 1
           own == changes[k] = unconfirmed[s]
<1>1. /\ TypeOK /\ EditsOwned /\ ChangesDistinct /\ s \in open
      /\ mostRecentRemoteKey[s] < Len(changes)
      /\ UNCHANGED <<changes, typed, open, heard>>
      /\ unconfirmed' = [unconfirmed EXCEPT ![s] = IF own THEN 0 ELSE unconfirmed[s]]
  BY DEF ReceiveChange, DiscussionsInv
<1>2. PICK edits, doc, key :
        /\ edits = IF own THEN {} ELSE {changes[k]}
        /\ doc = Document(s) \cup {changes[k]} /\ key = k
  OBVIOUS
<1>3. Transaction(s, edits, doc, key)
  BY <1>2 DEF ReceiveChange
<1>4. /\ mostRecentRemoteKey'[s] = key
      /\ \A r \in Sessions : r # s => mostRecentRemoteKey'[r] = mostRecentRemoteKey[r]
  BY <1>1, <1>3, TransactionKey
<1>5. /\ key \in Nat /\ key <= Len(changes) /\ mostRecentRemoteKey[s] <= key
      /\ k \in 1..Len(changes) /\ mostRecentRemoteKey[s] \in Nat
  BY <1>1, <1>2, EditsKnown
<1>6. changes[k] # 0 /\ \A i \in 1..mostRecentRemoteKey[s] : changes[i] # changes[k]
  <2>1. changes[k] # 0 /\ DOMAIN changes = 1..Len(changes)
    BY <1>5, EditsKnown
  <2> QED
    BY <1>5, <1>1, <2>1 DEF ChangesDistinct
<1>7. edits \cap Document(s) = {}
  BY <1>2, <1>6 DEF Document, EditsUpTo
<1>8. doc = Document(s) \cup edits
  <2>1. CASE own
    BY <1>2, <1>6, <2>1 DEF Document
  <2>2. CASE ~own
    BY <1>2, <2>2
  <2> QED
    BY <2>1, <2>2
<1>9. /\ unconfirmed' \in [Sessions -> {0} \cup Edits]
      /\ \A r \in Sessions : r # s => unconfirmed'[r] = unconfirmed[r]
      /\ unconfirmed'[s] = IF own THEN 0 ELSE unconfirmed[s]
  BY <1>1 DEF TypeOK
<1>10. Document(s)' = doc
  <2>1. EditsUpTo(key) = EditsUpTo(mostRecentRemoteKey[s]) \cup {changes[k]}
    <3>1. 1..key = (1..mostRecentRemoteKey[s]) \cup {k}
      BY <1>2, <1>5
    <3> QED
      BY <3>1 DEF EditsUpTo
  <2>2. Document(s)' = EditsUpTo(key) \cup ({unconfirmed'[s]} \ {0})
    BY <1>1, <1>4 DEF Document, EditsUpTo
  <2>3. CASE own
    BY <1>2, <1>6, <1>9, <2>1, <2>2, <2>3 DEF Document
  <2>4. CASE ~own
    BY <1>2, <1>9, <2>1, <2>2, <2>4 DEF Document
  <2> QED
    BY <2>3, <2>4
<1>11. EditsOwned'
  <2>1. \A r \in Sessions : unconfirmed'[r] <= typed'
    BY <1>1, <1>9, EditsKnown
  <2>2. \A r, q \in Sessions :
          unconfirmed'[r] = unconfirmed'[q] /\ unconfirmed'[r] # 0 => r = q
    BY <1>1, <1>9 DEF EditsOwned
  <2>3. ASSUME NEW r \in Sessions, NEW i \in DOMAIN changes, unconfirmed'[r] = changes[i]
        PROVE  i > mostRecentRemoteKey'[r]
    <3>1. changes[i] # 0 /\ i \in Nat
      BY EditsKnown
    <3>2. unconfirmed[r] = changes[i] /\ i > mostRecentRemoteKey[r]
      BY <1>1, <1>9, <2>3, <3>1 DEF EditsOwned
    <3>3. CASE r # s
      BY <1>4, <3>2, <3>3
    <3>4. CASE r = s
      <4>1. i # k
        BY <1>9, <2>3, <3>1, <3>2, <3>4
      <4> QED
        BY <1>2, <1>4, <1>5, <3>1, <3>2, <3>4, <4>1
    <3> QED
      BY <3>3, <3>4
  <2> QED
    BY <1>1, <2>1, <2>2, <2>3 DEF EditsOwned
<1>12. typed' \in 0..MaxEdits /\ typed <= typed'
  BY <1>1, EditsKnown DEF TypeOK
<1> QED
  BY <1>1, <1>3, <1>5, <1>7, <1>8, <1>9, <1>10, <1>11, <1>12, TransactionStep

\* The session's edit becomes the next change of the list.
LEMMA CommitStep ==
    ASSUME DiscussionsInv, NEW s \in Sessions, CommitChange(s)
    PROVE  DiscussionsInv'
<1>1. /\ TypeOK /\ ChangesDistinct /\ EditsOwned /\ KeysOrdered /\ InfosSound
      /\ ClosedHaveNothing
  BY DEF DiscussionsInv
<1>2. /\ unconfirmed[s] # 0 /\ mostRecentRemoteKey[s] = Len(changes)
      /\ UNCHANGED <<stored, typed, open, keys, unconfirmed, discussion, received>>
  BY DEF CommitChange
<1>3. PICK x \in Edits : x = unconfirmed[s]
  BY <1>2, EditsKnown
<1>4. /\ changes \in Seq(Edits) /\ changes' = Append(changes, x)
      /\ \A i \in 1..Len(changes) : changes[i] # x
  <2>1. changes \in Seq(Edits) /\ DOMAIN changes = 1..Len(changes)
    BY <1>1, EditsKnown DEF TypeOK
  <2>2. changes' = Append(changes, x) /\ x \notin Range(changes)
    BY <1>3 DEF CommitChange
  <2>3. \A i \in DOMAIN changes : changes[i] \in Range(changes)
    BY DEF Range
  <2> QED
    BY <2>1, <2>2, <2>3
<1>5. /\ changes' \in Seq(Edits) /\ Len(changes') = Len(changes) + 1
      /\ Len(changes) \in Nat
      /\ changes'[Len(changes) + 1] = x
      /\ \A i \in 1..Len(changes) : changes'[i] = changes[i]
      /\ DOMAIN changes = 1..Len(changes) /\ DOMAIN changes' = 1..Len(changes) + 1
  BY <1>4
<1>6. TypeOK'
  BY <1>1, <1>2, <1>5 DEF TypeOK, keys, received
<1>7. ChangesDistinct'
  <2>1. ASSUME NEW i \in 1..Len(changes) + 1 PROVE changes'[i] <= typed
    <3>1. x <= typed
      BY <1>3, EditsKnown
    <3>2. i \in 1..Len(changes) \/ i = Len(changes) + 1
      BY <1>5
    <3> QED
      BY <1>5, <3>1, <3>2, EditsKnown
  <2>2. ASSUME NEW i \in 1..Len(changes) + 1, NEW j \in 1..Len(changes) + 1,
               changes'[i] = changes'[j]
        PROVE  i = j
    <3>1. /\ i \in 1..Len(changes) \/ i = Len(changes) + 1
          /\ j \in 1..Len(changes) \/ j = Len(changes) + 1
      BY <1>5
    <3> QED
      BY <1>1, <1>4, <1>5, <2>2, <3>1 DEF ChangesDistinct
  <2> QED
    BY <1>2, <1>5, <2>1, <2>2 DEF ChangesDistinct
<1>8. EditsOwned'
  <2>1. ASSUME NEW r \in Sessions, NEW i \in 1..Len(changes) + 1,
               unconfirmed[r] = changes'[i]
        PROVE  i > mostRecentRemoteKey[r]
    <3>1. CASE i \in 1..Len(changes)
      BY <1>1, <1>5, <2>1, <3>1 DEF EditsOwned
    <3>2. CASE i = Len(changes) + 1
      <4>1. r = s
        BY <1>1, <1>2, <1>3, <1>5, <2>1, <3>2 DEF EditsOwned
      <4> QED
        BY <1>2, <1>5, <3>2, <4>1
    <3> QED
      BY <1>5, <3>1, <3>2
  <2> QED
    BY <1>1, <1>2, <1>5, <2>1 DEF EditsOwned, keys
<1>9. KeysOrdered'
  BY <1>1, <1>2, <1>5, EditsKnown DEF KeysOrdered, keys
<1>10. InfosSound'
  <2>1. \A i : SoundIn(changes, i) => SoundIn(changes', i)
    BY <1>1, <1>4, SoundKept
  <2>2. stored' # NoInfo => SoundIn(changes', stored')
    BY <1>1, <1>2, <2>1 DEF InfosSound, Sound
  <2>3. ASSUME NEW r \in Sessions
        PROVE  /\ \A i \in callbacks'[r] \cup fetching'[r] : SoundIn(changes', i)
               /\ discussion'[r] # NoInfo =>
                    CopySound(historyKey'[r], Document(r)', discussion'[r])
    <3>1. PICK k \in Nat : k = mostRecentRemoteKey[r] /\ k <= Len(changes)
      BY EditsKnown
    <3>2. EditsUpTo(k)' = EditsUpTo(k)
      BY <1>4, <3>1, DocumentsStay
    <3>3. Document(r)' = Document(r)
      BY <1>2, <3>1, <3>2 DEF Document, EditsUpTo, keys
    <3> QED
      BY <1>1, <1>2, <2>1, <3>3 DEF InfosSound, Sound, keys, received
  <2> QED
    BY <2>2, <2>3 DEF InfosSound, Sound
<1>11. ClosedHaveNothing'
  BY <1>1, <1>2 DEF ClosedHaveNothing, received
<1> QED
  BY <1>6, <1>7, <1>8, <1>9, <1>10, <1>11 DEF DiscussionsInv

\* A session that loads the draft has no discussion yet.
LEMMA LoadStep ==
    ASSUME DiscussionsInv, NEW s \in Sessions, LoadDocument(s)
    PROVE  DiscussionsInv'
<1>1. /\ TypeOK /\ ChangesDistinct /\ EditsOwned /\ KeysOrdered /\ InfosSound
      /\ ClosedHaveNothing
  BY DEF DiscussionsInv
<1>2. /\ s \notin open /\ open' = open \cup {s}
      /\ mostRecentRemoteKey' = [mostRecentRemoteKey EXCEPT ![s] = Len(changes)]
      /\ stateKey' = [stateKey EXCEPT ![s] = Len(changes)]
      /\ historyKey' = [historyKey EXCEPT ![s] = Len(changes)]
      /\ UNCHANGED <<changes, stored, typed, unconfirmed, discussion, received>>
  BY DEF LoadDocument
<1>3. unconfirmed[s] = 0 /\ discussion[s] = NoInfo
  BY <1>1, <1>2 DEF ClosedHaveNothing
<1>4. TypeOK'
  BY <1>1, <1>2, EditsKnown DEF TypeOK, received
<1>5. ChangesDistinct'
  BY <1>1, <1>2 DEF ChangesDistinct
<1>6. EditsOwned'
  <2>1. ASSUME NEW r \in Sessions, NEW i \in DOMAIN changes, unconfirmed[r] = changes[i]
        PROVE  i > mostRecentRemoteKey'[r]
    <3>1. changes[i] # 0
      BY EditsKnown
    <3>2. r # s
      BY <1>3, <2>1, <3>1
    <3> QED
      BY <1>1, <1>2, <2>1, <3>2 DEF EditsOwned, TypeOK
  <2> QED
    BY <1>1, <1>2, <2>1 DEF EditsOwned
<1>7. KeysOrdered'
  BY <1>1, <1>2, EditsKnown DEF KeysOrdered, TypeOK
<1>8. InfosSound'
  <2>1. ASSUME NEW r \in Sessions, discussion[r] # NoInfo
        PROVE  CopySound(historyKey'[r], Document(r)', discussion[r])
    <3>1. historyKey'[r] = historyKey[r] /\ mostRecentRemoteKey'[r] = mostRecentRemoteKey[r]
      BY <1>1, <1>2, <1>3, <2>1 DEF TypeOK
    <3>2. Document(r)' = Document(r)
      BY <1>2, <3>1 DEF Document, EditsUpTo
    <3> QED
      BY <1>1, <2>1, <3>1, <3>2 DEF InfosSound
  <2>2. stored' # NoInfo => SoundIn(changes', stored')
    BY <1>1, <1>2 DEF InfosSound, Sound
  <2>3. \A r \in Sessions : \A i \in callbacks'[r] \cup fetching'[r] : SoundIn(changes', i)
    BY <1>1, <1>2 DEF InfosSound, Sound, received
  <2> QED
    BY <1>2, <2>1, <2>2, <2>3 DEF InfosSound, Sound
<1>9. ClosedHaveNothing'
  BY <1>1, <1>2 DEF ClosedHaveNothing, received
<1> QED
  BY <1>4, <1>5, <1>6, <1>7, <1>8, <1>9 DEF DiscussionsInv

\* A step of one session that leaves the documents alone, but not its positions.
LEMMA PositionsStep ==
    ASSUME DiscussionsInv, NEW s \in open,
           UNCHANGED <<changes, typed, open, mostRecentRemoteKey, historyKey, unconfirmed>>,
           stateKey' \in {stateKey, [stateKey EXCEPT ![s] = mostRecentRemoteKey[s]]},
           heard' \in [Sessions -> 0..2],
           stored' # NoInfo => Sound(stored'),
           NEW copy \in Infos \cup {NoInfo}, discussion' = [discussion EXCEPT ![s] = copy],
           copy # NoInfo => CopySound(historyKey[s], Document(s), copy),
           NEW waiting \in SUBSET Infos, callbacks' = [callbacks EXCEPT ![s] = waiting],
           NEW coming \in SUBSET Infos, fetching' = [fetching EXCEPT ![s] = coming],
           \A i \in waiting \cup coming : Sound(i)
    PROVE  DiscussionsInv'
<1>1. /\ TypeOK /\ ChangesDistinct /\ EditsOwned /\ KeysOrdered /\ InfosSound
      /\ ClosedHaveNothing /\ s \in Sessions
  BY DEF DiscussionsInv, TypeOK
<1>2. TypeOK'
  <2>1. stored' \in Infos \cup {NoInfo}
    BY DEF Sound, SoundIn
  <2>2. stateKey' \in [Sessions -> Nat] /\ discussion' \in [Sessions -> Infos \cup {NoInfo}]
    BY <1>1 DEF TypeOK
  <2>3. callbacks' \in [Sessions -> SUBSET Infos] /\ fetching' \in [Sessions -> SUBSET Infos]
    BY <1>1 DEF TypeOK
  <2> QED
    BY <1>1, <2>1, <2>2, <2>3 DEF TypeOK
<1>3. ChangesDistinct' /\ EditsOwned'
  BY <1>1 DEF ChangesDistinct, EditsOwned
<1>4. KeysOrdered'
  <2>1. \A r \in Sessions : stateKey'[r] <= mostRecentRemoteKey[r]
    <3>1. CASE stateKey' = stateKey
      BY <1>1, <3>1 DEF KeysOrdered
    <3>2. CASE stateKey' = [stateKey EXCEPT ![s] = mostRecentRemoteKey[s]]
      BY <1>1, <3>2, EditsKnown DEF KeysOrdered, TypeOK
    <3> QED
      BY <3>1, <3>2
  <2> QED
    BY <1>1, <2>1 DEF KeysOrdered
<1>5. InfosSound'
  <2>1. \A r \in Sessions : Document(r)' = Document(r)
    BY DEF Document, EditsUpTo
  <2>2. ASSUME NEW r \in Sessions
        PROVE  /\ \A i \in callbacks'[r] \cup fetching'[r] : SoundIn(changes', i)
               /\ discussion'[r] # NoInfo =>
                    CopySound(historyKey'[r], Document(r)', discussion'[r])
    <3>1. CASE r = s
      <4>1. discussion'[r] = copy /\ callbacks'[r] = waiting /\ fetching'[r] = coming
        BY <1>1, <3>1 DEF TypeOK
      <4> QED
        BY <2>1, <3>1, <4>1 DEF Sound
    <3>2. CASE r # s
      <4>1. /\ discussion'[r] = discussion[r] /\ callbacks'[r] = callbacks[r]
            /\ fetching'[r] = fetching[r]
        BY <1>1, <3>2 DEF TypeOK
      <4> QED
        BY <1>1, <2>1, <4>1 DEF InfosSound, Sound
    <3> QED
      BY <3>1, <3>2
  <2>3. stored' # NoInfo => SoundIn(changes', stored')
    BY DEF Sound
  <2> QED
    BY <2>2, <2>3 DEF InfosSound, Sound
<1>6. ClosedHaveNothing'
  BY <1>1 DEF ClosedHaveNothing, TypeOK
<1> QED
  BY <1>2, <1>3, <1>4, <1>5, <1>6 DEF DiscussionsInv

\* A session takes over one of the positions it is handed, or keeps its copy.
LEMMA TakenOver ==
    ASSUME DiscussionsInv, NEW s \in Sessions, NEW infos, \A i \in infos : Sound(i),
           TakeUpdate(s, infos)
    PROVE  /\ stateKey' = [stateKey EXCEPT ![s] = mostRecentRemoteKey[s]]
           /\ \E copy \in Infos \cup {NoInfo} :
                /\ discussion' = [discussion EXCEPT ![s] = copy]
                /\ copy # NoInfo => CopySound(historyKey[s], Document(s), copy)
<1>1. TypeOK /\ InfosSound
  BY DEF DiscussionsInv
<1>2. PICK key, doc : key = historyKey[s] /\ doc = Document(s)
  OBVIOUS
<1>3. /\ stateKey' = [stateKey EXCEPT ![s] = mostRecentRemoteKey[s]]
      /\ discussion' = [discussion EXCEPT ![s] = Taken(s, infos, key, doc)]
  BY <1>2 DEF TakeUpdate
<1>4. \/ Taken(s, infos, key, doc) = discussion[s]
      \/ \E d \in Infos : /\ Taken(s, infos, key, doc) = d
                          /\ infos # {} /\ d.currentKey = key
                          /\ d.true => d.position = PositionIn(doc)
  BY ONLY s \in Sessions, \A i \in infos : Sound(i), TakenSound
<1>5. CASE Taken(s, infos, key, doc) = discussion[s]
  <2>1. discussion[s] \in Infos \cup {NoInfo}
    BY <1>1 DEF TypeOK
  <2>2. discussion[s] # NoInfo => CopySound(historyKey[s], Document(s), discussion[s])
    BY <1>1 DEF InfosSound
  <2> QED
    BY <1>3, <1>5, <2>1, <2>2
<1>6. CASE \E d \in Infos : /\ Taken(s, infos, key, doc) = d
                            /\ infos # {} /\ d.currentKey = key
                            /\ d.true => d.position = PositionIn(doc)
  <2>1. PICK d \in Infos : /\ Taken(s, infos, key, doc) = d /\ d.currentKey = key
                           /\ d.true => d.position = PositionIn(doc)
    BY <1>6
  <2>2. CopySound(historyKey[s], Document(s), d)
    BY <1>2, <2>1 DEF CopySound
  <2> QED
    BY <1>3, <2>1, <2>2
<1> QED
  BY <1>4, <1>5, <1>6

\* A session adds the discussion, right for what it shows.
LEMMA AddStep ==
    ASSUME DiscussionsInv, NEW s \in Sessions, AddDiscussion(s)
    PROVE  DiscussionsInv'
<1>1. /\ TypeOK /\ InfosSound /\ KeysOrdered /\ s \in open /\ stored = NoInfo
      /\ UNCHANGED <<changes, typed, open, mostRecentRemoteKey, historyKey, unconfirmed>>
      /\ UNCHANGED <<callbacks, fetching, heard>>
  BY DEF DiscussionsInv, AddDiscussion, received
<1>2. PICK key \in Nat : key = historyKey[s] /\ key <= Len(changes)
  BY <1>1, EditsKnown DEF KeysOrdered, TypeOK
<1>3. PICK position \in [Edits -> Nat] : position = PositionIn(Document(s))
  BY PositionType
<1>4. PICK b \in BOOLEAN : b = (Document(s) = EditsUpTo(historyKey[s]))
  OBVIOUS
<1>5. PICK info \in Infos : /\ info = Info(key, position, TRUE) /\ info.currentKey = key
                            /\ info.position = position /\ info.true = TRUE
  BY InfoMade
<1>6. PICK sent \in Infos : /\ sent = [info EXCEPT !.true = @ /\ b]
                            /\ sent.currentKey = info.currentKey
                            /\ sent.position = info.position /\ sent.true = (info.true /\ b)
  BY ONLY info \in Infos, b \in BOOLEAN, Marked
<1>7. /\ discussion' = [discussion EXCEPT ![s] = info]
      /\ stateKey' = [stateKey EXCEPT ![s] = mostRecentRemoteKey[s]]
      /\ SendLater(sent)
  BY <1>2, <1>3, <1>4, <1>5, <1>6 DEF AddDiscussion
<1>8. CopySound(historyKey[s], Document(s), info)
  BY <1>2, <1>3, <1>5 DEF CopySound
<1>9. Sound(sent)
  <2>1. sent.currentKey = key /\ sent.position = position
    BY <1>5, <1>6
  <2>2. sent.true => Document(s) = {changes[i] : i \in 1..key}
    BY <1>2, <1>4, <1>6 DEF EditsUpTo
  <2>3. sent.true => sent.position = PositionIn({changes[i] : i \in 1..sent.currentKey})
    BY <1>3, <2>1, <2>2
  <2> QED
    BY <1>2, <2>1, <2>3 DEF Sound, SoundIn
<1>10. stored' # NoInfo => Sound(stored')
  BY <1>1, <1>7, <1>9, SentSound
<1>11. PICK waiting \in SUBSET Infos, coming \in SUBSET Infos :
         waiting = callbacks[s] /\ coming = fetching[s]
  BY <1>1 DEF TypeOK
<1>12. /\ callbacks' = [callbacks EXCEPT ![s] = waiting]
       /\ fetching' = [fetching EXCEPT ![s] = coming]
  BY <1>1, <1>11 DEF TypeOK
<1>13. \A i \in waiting \cup coming : Sound(i)
  BY <1>1, <1>11 DEF InfosSound
<1>14. heard' \in [Sessions -> 0..2]
  BY <1>1 DEF TypeOK
<1> QED
  BY <1>1, <1>7, <1>8, <1>10, <1>12, <1>13, <1>14, PositionsStep

\* What is stored is handed to a session, which takes it over, catches it up or
\* keeps it for its key.
LEMMA ReceiveDiscussionStep ==
    ASSUME DiscussionsInv, NEW s \in Sessions, ReceiveDiscussion(s)
    PROVE  DiscussionsInv'
<1>1. /\ TypeOK /\ ChangesDistinct /\ InfosSound /\ KeysOrdered /\ s \in open
      /\ stored # NoInfo /\ heard[s] < 2 /\ heard' = [heard EXCEPT ![s] = heard[s] + 1]
      /\ UNCHANGED <<changes, stored, typed, open, mostRecentRemoteKey, historyKey, unconfirmed>>
  BY DEF DiscussionsInv, ReceiveDiscussion
<1>2. PICK infos : infos = {stored} /\ \A i \in infos : Sound(i)
  BY <1>1 DEF InfosSound
<1>3. stored \in Infos /\ (stored' # NoInfo => Sound(stored'))
  BY <1>1 DEF InfosSound, TypeOK, Sound
<1>4. heard' \in [Sessions -> 0..2]
  <2>1. heard \in [Sessions -> 0..2]
    BY <1>1 DEF TypeOK
  <2>2. heard[s] \in 0..2 /\ heard[s] < 2
    BY <1>1, <2>1
  <2>3. heard[s] + 1 \in 0..2
    BY ONLY <2>2
  <2> QED
    BY <1>1, <2>1, <2>3
<1>5. PICK key \in Nat : key = historyKey[s] /\ key <= Len(changes)
  BY <1>1, EditsKnown DEF KeysOrdered, TypeOK
<1>6. /\ callbacks[s] \in SUBSET Infos /\ fetching[s] \in SUBSET Infos
      /\ \A i \in callbacks[s] \cup fetching[s] : Sound(i)
  BY <1>1 DEF InfosSound, TypeOK
<1>7. CASE historyKey[s] >= stored.currentKey
  <2>1. /\ TakeUpdate(s, infos)
        /\ fetching' = [fetching EXCEPT ![s] = fetching[s] \cup FastForwards(infos, key)]
        /\ UNCHANGED callbacks
    BY <1>2, <1>5, <1>7 DEF ReceiveDiscussion
  <2>2. \A i \in FastForwards(infos, key) : Sound(i) /\ i \in Infos
    BY <1>1, <1>2, <1>5, ForwardsSound DEF Sound, SoundIn
  <2>3. PICK waiting \in SUBSET Infos, coming \in SUBSET Infos :
          waiting = callbacks[s] /\ coming = fetching[s] \cup FastForwards(infos, key)
    BY <1>6, <2>2
  <2>4. /\ callbacks' = [callbacks EXCEPT ![s] = waiting]
        /\ fetching' = [fetching EXCEPT ![s] = coming]
    BY <1>1, <2>1, <2>3 DEF TypeOK
  <2>5. \A i \in waiting \cup coming : Sound(i)
    BY <1>6, <2>2, <2>3
  <2>6. /\ stateKey' = [stateKey EXCEPT ![s] = mostRecentRemoteKey[s]]
        /\ \E copy \in Infos \cup {NoInfo} :
             /\ discussion' = [discussion EXCEPT ![s] = copy]
             /\ copy # NoInfo => CopySound(historyKey[s], Document(s), copy)
    BY <1>2, <2>1, TakenOver
  <2>7. PICK copy \in Infos \cup {NoInfo} :
          /\ discussion' = [discussion EXCEPT ![s] = copy]
          /\ copy # NoInfo => CopySound(historyKey[s], Document(s), copy)
    BY <2>6
  <2> QED
    BY <1>1, <1>3, <1>4, <2>4, <2>5, <2>6, <2>7, PositionsStep
<1>8. CASE ~(historyKey[s] >= stored.currentKey)
  <2>1. /\ callbacks' = [callbacks EXCEPT ![s] = callbacks[s] \cup {stored}]
        /\ UNCHANGED <<discussion, stateKey, fetching>>
    BY <1>8 DEF ReceiveDiscussion
  <2>2. PICK waiting \in SUBSET Infos, coming \in SUBSET Infos :
          waiting = callbacks[s] \cup {stored} /\ coming = fetching[s]
    BY <1>3, <1>6
  <2>3. /\ callbacks' = [callbacks EXCEPT ![s] = waiting]
        /\ fetching' = [fetching EXCEPT ![s] = coming]
    BY <1>1, <2>1, <2>2 DEF TypeOK
  <2>4. \A i \in waiting \cup coming : Sound(i)
    BY <1>2, <1>6, <2>2
  <2>5. PICK copy \in Infos \cup {NoInfo} : copy = discussion[s]
    BY <1>1 DEF TypeOK
  <2>6. /\ discussion' = [discussion EXCEPT ![s] = copy]
        /\ copy # NoInfo => CopySound(historyKey[s], Document(s), copy)
    BY <1>1, <2>1, <2>5 DEF TypeOK, InfosSound
  <2> QED
    BY <1>1, <1>3, <1>4, <2>1, <2>3, <2>4, <2>6, PositionsStep
<1> QED
  BY <1>7, <1>8

\* A position comes back caught up; it is stored if the session had an older copy.
LEMMA ArrivesStep ==
    ASSUME DiscussionsInv, NEW s \in Sessions, NEW info \in fetching[s],
           FastForwardArrives(s, info)
    PROVE  /\ DiscussionsInv'
           /\ stored # NoInfo => stored' # NoInfo /\ stored'.currentKey >= stored.currentKey
<1>1. /\ TypeOK /\ InfosSound /\ KeysOrdered /\ ClosedHaveNothing
      /\ fetching' = [fetching EXCEPT ![s] = fetching[s] \ {info}]
      /\ UNCHANGED <<changes, typed, open, mostRecentRemoteKey, historyKey, unconfirmed,
                     callbacks, heard>>
  BY DEF DiscussionsInv, FastForwardArrives
<1>2. s \in open
  BY <1>1 DEF ClosedHaveNothing
<1>3. /\ callbacks[s] \in SUBSET Infos /\ fetching[s] \in SUBSET Infos
      /\ \A i \in callbacks[s] \cup fetching[s] : Sound(i)
  BY <1>1 DEF InfosSound, TypeOK
<1>4. info \in Infos /\ Sound(info) /\ info.currentKey \in Nat
  BY <1>3 DEF Infos
<1>5. PICK infos : infos = {info} /\ (\A i \in infos : Sound(i)) /\ TakeUpdate(s, infos)
  BY <1>4 DEF FastForwardArrives
<1>6. /\ stateKey' = [stateKey EXCEPT ![s] = mostRecentRemoteKey[s]]
      /\ \E copy \in Infos \cup {NoInfo} :
           /\ discussion' = [discussion EXCEPT ![s] = copy]
           /\ copy # NoInfo => CopySound(historyKey[s], Document(s), copy)
  BY <1>5, TakenOver
<1>7. PICK copy \in Infos \cup {NoInfo} :
        /\ discussion' = [discussion EXCEPT ![s] = copy]
        /\ copy # NoInfo => CopySound(historyKey[s], Document(s), copy)
  BY <1>6
<1>8. PICK b \in BOOLEAN : b = (Document(s) = EditsUpTo(historyKey[s]))
  OBVIOUS
<1>9. PICK sent \in Infos : /\ sent = [info EXCEPT !.true = @ /\ b]
                            /\ sent.currentKey = info.currentKey
                            /\ sent.position = info.position /\ sent.true = (info.true /\ b)
  BY <1>4, Marked
<1>10. Sound(sent)
  BY <1>4, <1>9 DEF Sound, SoundIn
<1>11. SendLater(sent) \/ stored' = stored
  BY <1>8, <1>9 DEF FastForwardArrives
<1>12. /\ stored \in Infos \cup {NoInfo}
       /\ stored # NoInfo => stored \in Infos /\ Sound(stored) /\ stored.currentKey \in Nat
  BY <1>1 DEF TypeOK, InfosSound, Infos
<1>13. /\ stored' # NoInfo => Sound(stored')
       /\ stored # NoInfo => stored' # NoInfo /\ stored'.currentKey >= stored.currentKey
  <2>1. CASE SendLater(sent)
    BY <1>10, <1>12, <2>1, SentSound
  <2>2. CASE stored' = stored
    BY <1>12, <2>2
  <2> QED
    BY <1>11, <2>1, <2>2
<1>14. PICK waiting \in SUBSET Infos, coming \in SUBSET Infos :
         waiting = callbacks[s] /\ coming = fetching[s] \ {info}
  BY <1>3
<1>15. /\ callbacks' = [callbacks EXCEPT ![s] = waiting]
       /\ fetching' = [fetching EXCEPT ![s] = coming]
  BY <1>1, <1>14 DEF TypeOK
<1>16. \A i \in waiting \cup coming : Sound(i)
  BY <1>3, <1>14
<1>17. heard' \in [Sessions -> 0..2]
  BY <1>1 DEF TypeOK
<1>18. DiscussionsInv'
  BY <1>1, <1>2, <1>6, <1>7, <1>13, <1>15, <1>16, <1>17, PositionsStep
<1> QED
  BY <1>13, <1>18
----------------------------------------------------------------------------
LEMMA DiscussionsInvInit == Init => DiscussionsInv
<1> SUFFICES ASSUME Init PROVE DiscussionsInv
  OBVIOUS
<1>1. changes \in Seq(Edits) /\ Len(changes) = 0 /\ DOMAIN changes = {}
  BY DEF Init
<1>2. TypeOK
  BY <1>1, MaxEditsAssumption DEF Init, TypeOK
<1>3. ChangesDistinct /\ EditsOwned /\ KeysOrdered /\ ClosedHaveNothing
  BY <1>1 DEF Init, ChangesDistinct, EditsOwned, KeysOrdered, ClosedHaveNothing
<1>4. InfosSound
  BY DEF Init, InfosSound
<1> QED
  BY <1>2, <1>3, <1>4 DEF DiscussionsInv

LEMMA DiscussionsInvStep ==
    ASSUME DiscussionsInv, [Next]_vars
    PROVE  /\ DiscussionsInv'
           /\ stored # NoInfo => stored' # NoInfo /\ stored'.currentKey >= stored.currentKey
<1>1. stored # NoInfo => stored.currentKey \in Nat
  BY DEF DiscussionsInv, TypeOK, Infos
<1>2. CASE UNCHANGED vars
  <2>1. /\ UNCHANGED <<changes, stored, typed, open, mostRecentRemoteKey, stateKey, historyKey>>
        /\ UNCHANGED <<unconfirmed, discussion, callbacks, fetching, heard>>
    BY <1>2 DEF vars, keys, received
  <2>2. TypeOK' /\ ChangesDistinct' /\ EditsOwned' /\ KeysOrdered' /\ ClosedHaveNothing'
    BY <2>1 DEF DiscussionsInv, TypeOK, ChangesDistinct, EditsOwned, KeysOrdered,
       ClosedHaveNothing
  <2>3. InfosSound'
    <3>1. \A s : Document(s)' = Document(s)
      BY <2>1 DEF Document, EditsUpTo
    <3> QED
      BY <2>1, <3>1 DEF DiscussionsInv, InfosSound, Sound
  <2> QED
    BY <1>1, <2>1, <2>2, <2>3 DEF DiscussionsInv
<1>3. ASSUME NEW s \in Sessions, LoadDocument(s)
      PROVE  /\ DiscussionsInv'
             /\ stored # NoInfo => stored' # NoInfo /\ stored'.currentKey >= stored.currentKey
  <2>1. stored' = stored
    BY <1>3 DEF LoadDocument
  <2> QED
    BY <1>1, <1>3, <2>1, LoadStep
<1>4. ASSUME NEW s \in Sessions, CommitChange(s)
      PROVE  /\ DiscussionsInv'
             /\ stored # NoInfo => stored' # NoInfo /\ stored'.currentKey >= stored.currentKey
  <2>1. stored' = stored
    BY <1>4 DEF CommitChange
  <2> QED
    BY <1>1, <1>4, <2>1, CommitStep
<1>5. ASSUME NEW s \in Sessions, AddDiscussion(s)
      PROVE  DiscussionsInv' /\ stored = NoInfo
  BY <1>5, AddStep DEF AddDiscussion
<1>6. ASSUME NEW s \in Sessions, ReceiveDiscussion(s)
      PROVE  DiscussionsInv' /\ stored' = stored
  BY <1>6, ReceiveDiscussionStep DEF ReceiveDiscussion
<1> QED
  BY <1>1, <1>2, <1>3, <1>4, <1>5, <1>6, TypeStep, SelectStep, ReceiveStep, ArrivesStep DEF Next
----------------------------------------------------------------------------
(* Theorems. *)

LEMMA InvariantHolds == Spec => []DiscussionsInv
<1>1. DiscussionsInv /\ [Next]_vars => DiscussionsInv'
  BY DiscussionsInvStep
<1> QED
  BY DiscussionsInvInit, <1>1, PTL DEF Spec

\* The discussions plugins, and what they have stored, keep their types.
THEOREM DiscussionsTypeCorrect == Spec => []TypeOK
<1>1. DiscussionsInv => TypeOK
  BY DEF DiscussionsInv
<1> QED
  BY InvariantHolds, <1>1, PTL

\* handleTransaction (discussionsState.ts) maps a session's copy in every transaction,
\* so that the copy is always of the key of the session's history.
THEOREM CopiesStayCurrent == Spec => []CopiesAreCurrent
<1>1. DiscussionsInv => CopiesAreCurrent
  BY DEF DiscussionsInv, InfosSound, CopySound, CopiesAreCurrent
<1> QED
  BY InvariantHolds, <1>1, PTL

\* Mapping, fast-forwarding and waiting for a key keep a position right; it is lost
\* only where it is used under a key whose document is not on the screen.
THEOREM TruePositionsStay == Spec => []TruePositionsHold
<1>1. DiscussionsInv => TruePositionsHold
  BY DEF DiscussionsInv, InfosSound, Sound, SoundIn, CopySound, TruePositionsHold, Right, EditsUpTo
<1> QED
  BY InvariantHolds, <1>1, PTL

\* The transaction of sendDiscussions (firebase.ts) keeps the later of two keys,
\* whichever session is late.
THEOREM StoredKeyNeverFalls == Spec => StoredKeyGrows
<1>1. DiscussionsInv /\ [Next]_vars => [stored # NoInfo => stored'.currentKey >= stored.currentKey]_stored
  BY DiscussionsInvStep
<1> QED
  BY InvariantHolds, <1>1, PTL DEF Spec, StoredKeyGrows
============================================================================
