---------------------------- MODULE QueueLemmas ----------------------------
(***************************************************************************)
(* Lemmas about the queue: every method of src/Queue.cxx keeps the queue's *)
(* three arrays consistent, and what each of them does to the songs and to *)
(* their order.                                                            *)
(***************************************************************************)
EXTENDS Queue, WellFoundedInduction, FiniteSetTheorems, TLAPS

-----------------------------------------------------------------------------
(* Numbers and ids.                                                        *)

\* Every non-empty set of natural numbers has a least element: Min() of the
\* community modules finds it, and the loops below are proved with it.
LEMMA LeastNatural ==
  ASSUME NEW S, S \subseteq Nat, S # {}
  PROVE  \E x \in S : \A y \in S : x <= y
<1>1. IsWellFoundedOn(OpToRel(<, Nat), Nat)
  BY NatLessThanWellFounded
<1>2. PICK x \in S : \A y \in S : <<y, x>> \notin OpToRel(<, Nat)
  BY <1>1, WFMin
<1>3. ASSUME NEW y \in S
      PROVE  x <= y
  <2>1. <<y, x>> \notin OpToRel(<, Nat)
    BY <1>2
  <2> QED BY <2>1 DEF OpToRel
<1> QED BY <1>3

\* The least number of a non-empty set is an element of it.
LEMMA MinIsLeast ==
  ASSUME NEW S, S \subseteq Nat, S # {}
  PROVE  Min(S) \in S /\ \A y \in S : Min(S) <= y
BY LeastNatural DEF Min

\* There are more ids than positions.
LEMMA SizeOfIds ==
  /\ IdSize \in Nat
  /\ IdSize - 1 >= MaxLength
  /\ 1 \in Ids
  /\ IsFiniteSet(Ids)
  /\ Cardinality(Ids) = IdSize - 1
<1>1. IdSize \in Nat /\ IdSize >= 2 * MaxLength
  BY QueueAssumption DEF IdSize
<1>2. IsFiniteSet(Ids) /\ Cardinality(Ids) = IdSize - 1
  BY <1>1, QueueAssumption, FS_Interval DEF Ids
<1> QED BY <1>1, <1>2, QueueAssumption DEF Ids

\* GenerateId() (src/IdTable.hxx) finds an unused id for as long as the queue
\* is not full: its loop ends.
LEMMA FreeIdExists ==
  ASSUME NEW r, QueueOK(r), ~IsFull(r)
  PROVE  FreeIds(r) # {}
<1> SUFFICES ASSUME FreeIds(r) = {} PROVE FALSE
  OBVIOUS
<1>1. r.length \in Nat /\ r.length < MaxLength /\ MaxLength \in Nat
  BY QueueAssumption DEF QueueOK, QueueTypeOK, IsFull
<1>2. r.data \in [Ids -> Positions(r)]
  BY DEF FreeIds, QueueOK, QueueTypeOK, IdTableMatches
<1>3. IsFiniteSet(Positions(r)) /\ Cardinality(Positions(r)) = r.length
  <2>1. 0 \in Int /\ r.length - 1 \in Int
    BY <1>1
  <2>2. /\ IsFiniteSet(0 .. (r.length - 1))
        /\ Cardinality(0 .. (r.length - 1)) = IF 0 > r.length - 1 THEN 0
                                              ELSE (r.length - 1) - 0 + 1
    BY <2>1, FS_Interval
  <2> QED BY <1>1, <2>2 DEF Positions
<1>4. PICK i \in Ids, j \in Ids : i # j /\ r.data[i] = r.data[j]
  <2>1. Cardinality(Positions(r)) < Cardinality(Ids)
    BY <1>1, <1>3, SizeOfIds
  <2> QED BY <1>2, <1>3, <2>1, SizeOfIds, FS_PigeonHole
<1> QED BY <1>2, <1>4 DEF QueueOK, IdTableMatches, Positions

(* GenerateId returns an id within the table that no song in the queue has. *)
LEMMA GenerateIdIsFree ==
  ASSUME NEW r, QueueOK(r), ~IsFull(r)
  PROVE  GenerateId(r) \in Ids /\ r.data[GenerateId(r)] < 0
<1> DEFINE ahead == {i \in FreeIds(r) : i >= r.next}
           choices == IF ahead # {} THEN ahead ELSE FreeIds(r)
<1>1. choices \subseteq FreeIds(r) /\ choices # {}
  BY FreeIdExists
<1>2. choices \subseteq Nat
  BY <1>1, SizeOfIds DEF FreeIds, Ids
<1>3. Min(choices) \in FreeIds(r)
  BY <1>1, <1>2, MinIsLeast
<1> QED BY <1>3 DEF GenerateId, FreeIds

-----------------------------------------------------------------------------
(* Every method keeps the queue consistent (QueueOK) and stamps what it    *)
(* changes (Edits).                                                         *)

\* A position of s that is not stamped with the version is as it was in r.
Stamps(r, s) ==
  /\ s.version = r.version
  /\ \A p \in Positions(s) :
       \/ s.items[p].version = r.version
       \/ p \in Positions(r) /\ s.items[p] = r.items[p]

\* The song and the id of item are those of an item of r.
From(r, item) ==
  \E t \in Positions(r) : item.id = r.items[t].id /\ item.song = r.items[t].song

\* s comes from r by an edit that is not published yet and adds no songs.
Edits(r, s) == Stamps(r, s) /\ \A p \in Positions(s) : From(r, s.items[p])

\* The same, but with songs that have got ids no song of r had
Change(r, s) ==
  /\ Stamps(r, s)
  /\ \A p \in Positions(s) :
       From(r, s.items[p]) \/ r.data[s.items[p].id] < 0

\* The fields an edit of the order alone leaves as they are.
SameButOrder(r, s) ==
  /\ DOMAIN s = QueueFields
  /\ s.length = r.length /\ s.items = r.items /\ s.data = r.data
  /\ s.next = r.next /\ s.version = r.version /\ s.random = r.random
  /\ s.repeat = r.repeat /\ s.single = r.single /\ s.consume = r.consume

\* Every position keeps its song, and the queue its options.
SamePlaces(r, s) ==
  /\ s.length = r.length /\ s.random = r.random /\ s.repeat = r.repeat
  /\ \A p \in Positions(r) : s.items[p].id = r.items[p].id

(* Doing nothing is an edit: every position shows what it showed. *)
LEMMA EditRefl == ASSUME NEW r PROVE Edits(r, r) /\ Change(r, r)
BY DEF Edits, Change, Stamps, From

(* Two edits in a row are an edit. *)
LEMMA EditTrans ==
  ASSUME NEW r, NEW s, NEW t, Edits(r, s), Edits(s, t)
  PROVE  Edits(r, t)
BY DEF Edits, Stamps, From

(* So are songs that are added and an edit after that. *)
LEMMA ChangeTrans ==
  ASSUME NEW r, NEW s, NEW t, Change(r, s), Edits(s, t)
  PROVE  Change(r, t)
<1>1. Stamps(r, t)
  BY DEF Edits, Change, Stamps
<1>2. ASSUME NEW p \in Positions(t)
      PROVE  From(r, t.items[p]) \/ r.data[t.items[p].id] < 0
  <2>1. PICK k \in Positions(s) : /\ t.items[p].id = s.items[k].id
                                  /\ t.items[p].song = s.items[k].song
    BY DEF Edits, From
  <2> QED BY <2>1 DEF Change, From
<1> QED BY <1>1, <1>2 DEF Change

(* An edit is a change that adds nothing. *)
LEMMA EditIsChange ==
  ASSUME NEW r, NEW s, Edits(r, s)
  PROVE  Change(r, s)
BY DEF Edits, Change

(* The queue the constructor builds is consistent. *)
LEMMA EmptyQueueOK == QueueOK(EmptyQueue)
<1>1. QueueTypeOK(EmptyQueue)
  BY QueueAssumption, SizeOfIds DEF QueueTypeOK, EmptyQueue, QueueFields, Positions
<1>2. Positions(EmptyQueue) = {}
  BY DEF Positions, EmptyQueue
<1>3. \A i \in Ids : EmptyQueue.data[i] = -1
  BY DEF EmptyQueue
<1> QED
  BY <1>1, <1>2, <1>3
  DEF QueueOK, OrderIsPermutation, IdTableMatches, OrderIsPosition

\* IncrementVersion() changes nothing but versions.
LEMMA IncrementVersionOK ==
  ASSUME NEW r, QueueOK(r)
  PROVE  QueueOK(IncrementVersion(r))
<1> DEFINE s == IncrementVersion(r)
<1>1. /\ DOMAIN s = QueueFields
      /\ s.length = r.length /\ s.order = r.order /\ s.data = r.data
      /\ s.next = r.next /\ s.random = r.random
      /\ s.repeat = r.repeat /\ s.single = r.single /\ s.consume = r.consume
  BY DEF IncrementVersion, QueueOK, QueueTypeOK, QueueFields
<1>2. s.version \in 1 .. (VersionMax - 1)
  BY QueueAssumption DEF IncrementVersion, QueueOK, QueueTypeOK, QueueFields
<1>3. \/ s.items = r.items
      \/ s.items = [p \in Positions(r) |-> [r.items[p] EXCEPT !.version = 0]]
  BY DEF IncrementVersion, QueueOK, QueueTypeOK, QueueFields
<1>4. /\ s.items \in [Positions(r) -> Item]
      /\ \A p \in Positions(r) : s.items[p].id = r.items[p].id
  <2>1. r.items \in [Positions(r) -> Item]
    BY DEF QueueOK, QueueTypeOK
  <2>2. ASSUME NEW x \in Item
        PROVE  /\ [x EXCEPT !.version = 0] \in Item
               /\ [x EXCEPT !.version = 0].id = x.id
    BY QueueAssumption DEF Item, Versions
  <2> HIDE DEF s
  <2>3. CASE s.items = r.items
    BY <2>1, <2>3
  <2>4. CASE s.items = [p \in Positions(r) |-> [r.items[p] EXCEPT !.version = 0]]
    <3>1. ASSUME NEW p \in Positions(r)
          PROVE  /\ s.items[p] = [r.items[p] EXCEPT !.version = 0]
                 /\ r.items[p] \in Item
      BY <2>1, <2>4
    <3>2. \A p \in Positions(r) : /\ s.items[p] \in Item
                                  /\ s.items[p].id = r.items[p].id
      <4> TAKE p \in Positions(r)
      <4> DEFINE x == r.items[p]
      <4>1. s.items[p] = [x EXCEPT !.version = 0] /\ x \in Item
        BY <3>1
      <4> HIDE DEF x
      <4>2. s.items[p] \in Item /\ s.items[p].id = x.id
        BY <4>1, <2>2
      <4> QED BY <4>2 DEF x
    <3>3. /\ DOMAIN s.items = Positions(r)
          /\ s.items = [p \in DOMAIN s.items |-> s.items[p]]
      BY <2>4
    <3> QED BY <3>2, <3>3
  <2> QED BY <1>3, <2>3, <2>4
<1>5. Positions(s) = Positions(r)
  BY <1>1 DEF Positions
<1> HIDE DEF s
<1>6. QueueTypeOK(s)
  BY <1>1, <1>2, <1>4, <1>5 DEF QueueOK, QueueTypeOK
<1>7. OrderIsPermutation(s) /\ OrderIsPosition(s)
  BY <1>1, <1>5 DEF QueueOK, OrderIsPermutation, OrderIsPosition
<1>8. IdTableMatches(s)
  BY <1>1, <1>4, <1>5 DEF QueueOK, IdTableMatches
<1> QED BY <1>6, <1>7, <1>8 DEF QueueOK, s

\* Append()
LEMMA AppendItemOK ==
  ASSUME NEW r, QueueOK(r), ~IsFull(r), NEW song \in Songs,
         NEW priority \in Priorities
  PROVE  /\ QueueOK(AppendItem(r, song, priority))
         /\ Change(r, AppendItem(r, song, priority))
         /\ AppendItem(r, song, priority).length = r.length + 1
         /\ AppendItem(r, song, priority).random = r.random
<1> DEFINE s == AppendItem(r, song, priority)
           id == GenerateId(r)
           n == r.length
           item == [song |-> song, id |-> id, version |-> r.version,
                    priority |-> priority]
<1>1. id \in Ids /\ r.data[id] < 0
  BY GenerateIdIsFree
<1>2. n \in Nat /\ n < MaxLength /\ MaxLength \in Nat
  BY QueueAssumption DEF QueueOK, QueueTypeOK, IsFull
<1>3. item \in Item
  BY <1>1, QueueAssumption DEF Item, Versions, QueueOK, QueueTypeOK
<1>4. IdAfter(id) \in Ids
  BY <1>1, SizeOfIds DEF IdAfter, Ids
<1> HIDE DEF id
<1>5. /\ DOMAIN s = QueueFields
      /\ s.length = n + 1
      /\ s.items = [p \in 0 .. n |-> IF p = n THEN item ELSE r.items[p]]
      /\ s.order = [o \in 0 .. n |-> IF o = n THEN n ELSE r.order[o]]
      /\ s.data = [r.data EXCEPT ![id] = n]
      /\ s.next = IdAfter(id)
      /\ s.version = r.version /\ s.random = r.random
      /\ s.repeat = r.repeat /\ s.single = r.single /\ s.consume = r.consume
  BY DEF AppendItem, QueueOK, QueueTypeOK, QueueFields, id
<1> HIDE DEF s, item
<1>6. Positions(s) = 0 .. n /\ Positions(r) = 0 .. (n - 1)
  BY <1>2, <1>5 DEF Positions
<1>7. r.items \in [Positions(r) -> Item] /\ r.order \in [Positions(r) -> Positions(r)]
  BY DEF QueueOK, QueueTypeOK
<1>8. QueueTypeOK(s)
  <2>1. s.items \in [Positions(s) -> Item]
    BY <1>2, <1>3, <1>5, <1>6, <1>7
  <2>2. s.order \in [Positions(s) -> Positions(s)]
    BY <1>2, <1>5, <1>6, <1>7, SMTT(40)
  <2>3. s.data \in [Ids -> -1 .. (MaxLength - 1)]
    BY <1>1, <1>2, <1>5 DEF QueueOK, QueueTypeOK
  <2> QED BY <1>2, <1>4, <1>5, <2>1, <2>2, <2>3 DEF QueueOK, QueueTypeOK
<1>9. OrderIsPermutation(s)
  <2>1. ASSUME NEW o \in Positions(s), NEW k \in Positions(s),
               s.order[o] = s.order[k]
        PROVE  o = k
    <3>1. ASSUME NEW j \in Positions(r)
          PROVE  j \in Positions(s) /\ j # n /\ s.order[j] = r.order[j]
                 /\ r.order[j] \in Int /\ r.order[j] < n
      BY <1>2, <1>5, <1>6, <1>7
    <3>2. s.order[n] = n /\ \A j \in Positions(s) : j = n \/ j \in Positions(r)
      BY <1>2, <1>5, <1>6
    <3>3. CASE o \in Positions(r) /\ k \in Positions(r)
      BY <2>1, <3>1, <3>3 DEF QueueOK, OrderIsPermutation
    <3> QED BY <1>2, <2>1, <3>1, <3>2, <3>3
  <2>2. ASSUME NEW p \in Positions(s)
        PROVE  \E o \in Positions(s) : s.order[o] = p
    <3>1. CASE p = n
      BY <1>2, <1>5, <1>6, <3>1
    <3>2. CASE p # n
      <4>1. p \in Positions(r)
        BY <1>2, <1>6, <3>2
      <4>2. PICK o \in Positions(r) : r.order[o] = p
        BY <4>1 DEF QueueOK, OrderIsPermutation
      <4> QED BY <1>2, <1>5, <1>6, <4>2
    <3> QED BY <3>1, <3>2
  <2> QED BY <2>1, <2>2 DEF OrderIsPermutation
<1>10. IdTableMatches(s)
  <2>1. item.id = id
    BY DEF item
  <2>2. ASSUME NEW p \in Positions(r)
        PROVE  /\ r.items[p].id \in Ids /\ r.items[p].id # id
               /\ r.data[r.items[p].id] = p
    BY <1>1, <1>2, <1>6, <1>7 DEF QueueOK, IdTableMatches, Item
  <2>3. ASSUME NEW p \in Positions(s)
        PROVE  s.data[s.items[p].id] = p
    <3>1. CASE p = n
      BY <1>1, <1>2, <1>5, <1>6, <2>1, <3>1 DEF QueueOK, QueueTypeOK
    <3>2. CASE p # n
      <4>1. p \in Positions(r) /\ s.items[p] = r.items[p]
        BY <1>2, <1>5, <1>6, <3>2
      <4> QED BY <1>5, <2>2, <4>1 DEF QueueOK, QueueTypeOK
    <3> QED BY <3>1, <3>2
  <2>4. ASSUME NEW i \in Ids, s.data[i] >= 0
        PROVE  s.data[i] \in Positions(s) /\ s.items[s.data[i]].id = i
    <3>1. CASE i = id
      BY <1>1, <1>2, <1>5, <1>6, <2>1, <3>1 DEF QueueOK, QueueTypeOK
    <3>2. CASE i # id
      <4>1. s.data[i] = r.data[i]
        BY <1>5, <3>2 DEF QueueOK, QueueTypeOK
      <4>2. r.data[i] \in Positions(r) /\ r.items[r.data[i]].id = i
        BY <2>4, <4>1 DEF QueueOK, IdTableMatches
      <4> QED BY <1>2, <1>5, <1>6, <4>1, <4>2
    <3> QED BY <3>1, <3>2
  <2> QED BY <2>3, <2>4 DEF IdTableMatches
<1>11. OrderIsPosition(s)
  BY <1>2, <1>5, <1>6 DEF QueueOK, OrderIsPosition
<1>12. Change(r, s)
  <2>1. item.version = r.version /\ item.id = id
    BY DEF item
  <2>2. Stamps(r, s)
    BY <1>2, <1>5, <1>6, <2>1 DEF Stamps
  <2>3. ASSUME NEW p \in Positions(s)
        PROVE  From(r, s.items[p]) \/ r.data[s.items[p].id] < 0
    <3>1. CASE p = n
      BY <1>1, <1>5, <1>6, <2>1, <3>1
    <3>2. CASE p # n
      <4>1. p \in Positions(r) /\ s.items[p] = r.items[p]
        BY <1>2, <1>5, <1>6, <3>2
      <4> QED BY <4>1 DEF From
    <3> QED BY <3>1, <3>2
  <2> QED BY <2>2, <2>3 DEF Change
<1> QED BY <1>5, <1>8, <1>9, <1>10, <1>11, <1>12 DEF QueueOK, s

\* MoveItemTo() for a set of positions: when the positions in moved exchange
\* their items among themselves, the id table follows.
LEMMA RearrangeOK ==
  ASSUME NEW r, QueueOK(r),
         NEW moved, moved \subseteq Positions(r),
         NEW source \in [Positions(r) -> Positions(r)],
         \A p \in moved : source[p] \in moved,
         \A p, t \in moved : source[p] = source[t] => p = t,
         \A t \in moved : \E p \in moved : source[p] = t
  PROVE  /\ QueueOK(Rearrange(r, source, moved))
         /\ Edits(r, Rearrange(r, source, moved))
         /\ Rearrange(r, source, moved).length = r.length
         /\ Rearrange(r, source, moved).random = r.random
         /\ Rearrange(r, source, moved).order = r.order
<1> DEFINE s == Rearrange(r, source, moved)
           items == [p \in Positions(r) |->
                       IF p \in moved THEN Stamp(r, r.items[source[p]])
                                      ELSE r.items[p]]
<1>1. /\ DOMAIN s = QueueFields
      /\ s.length = r.length /\ s.items = items /\ s.order = r.order
      /\ s.data = MoveIds(r.data, items, moved)
      /\ s.next = r.next /\ s.version = r.version /\ s.random = r.random
      /\ s.repeat = r.repeat /\ s.single = r.single /\ s.consume = r.consume
  BY DEF Rearrange, QueueOK, QueueTypeOK, QueueFields
<1> HIDE DEF s
<1>2. Positions(s) = Positions(r)
  BY <1>1 DEF Positions
<1>3. r.items \in [Positions(r) -> Item]
  BY DEF QueueOK, QueueTypeOK
<1>4. ASSUME NEW x \in Item
      PROVE  /\ Stamp(r, x) \in Item
             /\ Stamp(r, x).id = x.id /\ Stamp(r, x).song = x.song
             /\ Stamp(r, x).version = r.version
  BY QueueAssumption DEF Stamp, Item, Versions, QueueOK, QueueTypeOK
<1>5. /\ items \in [Positions(r) -> Item]
      /\ \A p \in moved : /\ items[p].id = r.items[source[p]].id
                          /\ items[p].song = r.items[source[p]].song
                          /\ items[p].version = r.version
      /\ \A p \in Positions(r) \ moved : items[p] = r.items[p]
  BY <1>3, <1>4
<1> HIDE DEF items
<1>6. \A p, t \in Positions(r) : r.items[p].id = r.items[t].id => p = t
  BY DEF QueueOK, IdTableMatches
<1>7. ASSUME NEW p \in moved
      PROVE  items[p].id \in Ids /\ s.data[items[p].id] = p
  <2>1. items[p].id \in Ids
    BY <1>5 DEF Item
  <2>2. \A t \in moved : items[t].id = items[p].id => t = p
    BY <1>5, <1>6
  <2> QED BY <1>1, <2>1, <2>2 DEF MoveIds
<1>8. ASSUME NEW i \in Ids, \A p \in moved : items[p].id # i
      PROVE  s.data[i] = r.data[i]
  BY <1>1, <1>8 DEF MoveIds
<1>9. QueueTypeOK(s)
  <2>1. s.data \in [Ids -> -1 .. (MaxLength - 1)]
    <3>1. s.data = [i \in Ids |-> s.data[i]]
      BY <1>1 DEF MoveIds
    <3>2. moved \subseteq -1 .. (MaxLength - 1)
      BY QueueAssumption DEF QueueOK, QueueTypeOK, Positions
    <3>3. ASSUME NEW i \in Ids
          PROVE  s.data[i] \in -1 .. (MaxLength - 1)
      <4>1. CASE \E p \in moved : items[p].id = i
        BY <1>7, <3>2, <4>1
      <4>2. CASE \A p \in moved : items[p].id # i
        BY <1>8, <4>2 DEF QueueOK, QueueTypeOK
      <4> QED BY <4>1, <4>2
    <3> QED BY <3>1, <3>3
  <2> QED BY <1>1, <1>2, <1>5, <2>1 DEF QueueOK, QueueTypeOK
<1>10. OrderIsPermutation(s) /\ OrderIsPosition(s)
  BY <1>1, <1>2 DEF QueueOK, OrderIsPermutation, OrderIsPosition
<1>11. IdTableMatches(s)
  <2>1. ASSUME NEW p \in Positions(r), p \notin moved
        PROVE  s.data[items[p].id] = p
    <3>1. items[p] = r.items[p] /\ r.items[p].id \in Ids
      BY <1>3, <1>5, <2>1 DEF Item
    <3>2. \A t \in moved : items[t].id # r.items[p].id
      BY <1>5, <1>6, <2>1
    <3> QED BY <1>8, <3>1, <3>2 DEF QueueOK, IdTableMatches
  <2>2. ASSUME NEW i \in Ids, s.data[i] >= 0
        PROVE  s.data[i] \in Positions(r) /\ items[s.data[i]].id = i
    <3>1. CASE \E p \in moved : items[p].id = i
      BY <1>7, <3>1
    <3>2. CASE \A p \in moved : items[p].id # i
      <4>1. s.data[i] = r.data[i]
        BY <1>8, <3>2
      <4>2. r.data[i] \in Positions(r) /\ r.items[r.data[i]].id = i
        BY <2>2, <4>1 DEF QueueOK, IdTableMatches
      <4>3. r.data[i] \notin moved
        <5> SUFFICES ASSUME r.data[i] \in moved PROVE FALSE
          OBVIOUS
        <5>1. PICK p \in moved : source[p] = r.data[i]
          OBVIOUS
        <5> QED BY <1>5, <3>2, <4>2, <5>1
      <4> QED BY <1>5, <4>1, <4>2, <4>3
    <3> QED BY <3>1, <3>2
  <2> QED BY <1>1, <1>2, <1>7, <2>1, <2>2 DEF IdTableMatches
<1>12. Edits(r, s)
  <2>1. Stamps(r, s)
    BY <1>1, <1>2, <1>5 DEF Stamps
  <2>2. ASSUME NEW p \in Positions(s)
        PROVE  From(r, s.items[p])
    BY <1>1, <1>2, <1>5, <2>2 DEF From
  <2> QED BY <2>1, <2>2 DEF Edits
<1> QED BY <1>1, <1>9, <1>10, <1>11, <1>12 DEF QueueOK, s

\* SwapPositions()
LEMMA SwapPositionsOK ==
  ASSUME NEW r, QueueOK(r), NEW p1 \in Positions(r), NEW p2 \in Positions(r)
  PROVE  LET s == SwapPositions(r, p1, p2)
         IN  /\ QueueOK(s) /\ Edits(r, s)
             /\ s.length = r.length /\ s.random = r.random
<1> DEFINE source == [p \in Positions(r) |-> IF p = p1 THEN p2
                                             ELSE IF p = p2 THEN p1 ELSE p]
<1>1. source \in [Positions(r) -> Positions(r)]
  OBVIOUS
<1>2. \A p \in {p1, p2} : source[p] \in {p1, p2}
  OBVIOUS
<1>3. \A p, t \in {p1, p2} : source[p] = source[t] => p = t
  OBVIOUS
<1>4. \A t \in {p1, p2} : \E p \in {p1, p2} : source[p] = t
  OBVIOUS
<1>5. {p1, p2} \subseteq Positions(r)
  OBVIOUS
<1>6. SwapPositions(r, p1, p2) = Rearrange(r, source, {p1, p2})
  BY DEF SwapPositions
<1> HIDE DEF source
<1> QED BY <1>1, <1>2, <1>3, <1>4, <1>5, <1>6, RearrangeOK

\* An edit of the order alone only has to keep it a permutation.
LEMMA OrderEditOK ==
  ASSUME NEW r, QueueOK(r), NEW s, SameButOrder(r, s),
         s.order \in [Positions(r) -> Positions(r)],
         \A o, k \in Positions(r) : s.order[o] = s.order[k] => o = k,
         \A p \in Positions(r) : \E o \in Positions(r) : s.order[o] = p,
         r.random \/ \A o \in Positions(r) : s.order[o] = o
  PROVE  QueueOK(s) /\ Edits(r, s)
<1>1. Positions(s) = Positions(r)
  BY DEF SameButOrder, Positions
<1>2. QueueTypeOK(s)
  BY <1>1 DEF SameButOrder, QueueOK, QueueTypeOK
<1>3. OrderIsPermutation(s) /\ OrderIsPosition(s)
  BY <1>1 DEF SameButOrder, OrderIsPermutation, OrderIsPosition
<1>4. IdTableMatches(s) /\ Edits(r, s)
  BY <1>1 DEF SameButOrder, QueueOK, IdTableMatches, Edits, Stamps, From
<1> QED BY <1>2, <1>3, <1>4 DEF QueueOK

\* PositionToOrder() finds the order of every position.
LEMMA PositionToOrderOK ==
  ASSUME NEW r, QueueOK(r), NEW p \in Positions(r)
  PROVE  /\ PositionToOrder(r, p) \in Positions(r)
         /\ r.order[PositionToOrder(r, p)] = p
BY DEF PositionToOrder, QueueOK, OrderIsPermutation

\* SwapOrders()
LEMMA SwapOrdersOK ==
  ASSUME NEW r, QueueOK(r), r.random,
         NEW o1 \in Positions(r), NEW o2 \in Positions(r)
  PROVE  LET s == SwapOrders(r, o1, o2)
         IN  QueueOK(s) /\ Edits(r, s) /\ SameButOrder(r, s)
<1> DEFINE s == SwapOrders(r, o1, o2)
<1>1. SameButOrder(r, s)
  BY DEF SwapOrders, SameButOrder, QueueOK, QueueTypeOK, QueueFields
<1>2. s.order = [o \in Positions(r) |->
                   IF o = o1 THEN r.order[o2]
                   ELSE IF o = o2 THEN r.order[o1] ELSE r.order[o]]
  BY DEF SwapOrders, QueueOK, QueueTypeOK, QueueFields
<1> HIDE DEF s
<1>3. r.order \in [Positions(r) -> Positions(r)]
  BY DEF QueueOK, QueueTypeOK
<1>4. \A o, k \in Positions(r) : r.order[o] = r.order[k] => o = k
  BY DEF QueueOK, OrderIsPermutation
<1>5. s.order \in [Positions(r) -> Positions(r)]
  BY <1>2, <1>3
<1>6. \A o, k \in Positions(r) : s.order[o] = s.order[k] => o = k
  BY <1>2, <1>4
<1>7. ASSUME NEW p \in Positions(r)
      PROVE  \E o \in Positions(r) : s.order[o] = p
  <2>1. PICK o \in Positions(r) : r.order[o] = p
    BY DEF QueueOK, OrderIsPermutation
  <2>2. CASE o = o1
    BY <1>2, <2>1, <2>2
  <2>3. CASE o = o2
    BY <1>2, <2>1, <2>3
  <2>4. CASE o # o1 /\ o # o2
    BY <1>2, <2>1, <2>4
  <2> QED BY <2>2, <2>3, <2>4
<1> QED BY <1>1, <1>5, <1>6, <1>7, OrderEditOK DEF s

\* MoveOrder()
LEMMA MoveOrderOK ==
  ASSUME NEW r, QueueOK(r), r.random,
         NEW from \in Positions(r), NEW to \in Positions(r)
  PROVE  LET s == MoveOrder(r, from, to)
         IN  QueueOK(s) /\ Edits(r, s) /\ SameButOrder(r, s)
<1> DEFINE s == MoveOrder(r, from, to)
           old(o) == IF o = to THEN from
                     ELSE IF from <= o /\ o < to THEN o + 1
                     ELSE IF to < o /\ o <= from THEN o - 1 ELSE o
           new(o) == IF o = from THEN to
                     ELSE IF from < o /\ o <= to THEN o - 1
                     ELSE IF to <= o /\ o < from THEN o + 1 ELSE o
<1>1. SameButOrder(r, s)
  BY DEF MoveOrder, SameButOrder, QueueOK, QueueTypeOK, QueueFields
<1>2. r.length \in Nat /\ Positions(r) = 0 .. (r.length - 1)
  BY QueueAssumption DEF QueueOK, QueueTypeOK, Positions
<1>3. s.order = [o \in Positions(r) |-> r.order[old(o)]]
  <2>1. s.order = [o \in Positions(r) |->
                     IF o = to THEN r.order[from]
                     ELSE IF from <= o /\ o < to THEN r.order[o + 1]
                     ELSE IF to < o /\ o <= from THEN r.order[o - 1]
                     ELSE r.order[o]]
    BY DEF MoveOrder, QueueOK, QueueTypeOK, QueueFields
  <2> QED BY <2>1
<1>4. ASSUME NEW o \in Positions(r)
      PROVE  /\ old(o) \in Positions(r) /\ new(o) \in Positions(r)
             /\ old(new(o)) = o /\ new(old(o)) = o
  BY <1>2, SMTT(40)
<1> HIDE DEF s, old, new
<1>5. r.order \in [Positions(r) -> Positions(r)]
  BY DEF QueueOK, QueueTypeOK
<1>6. s.order \in [Positions(r) -> Positions(r)]
  BY <1>3, <1>4, <1>5
<1>7. ASSUME NEW o \in Positions(r), NEW k \in Positions(r),
             s.order[o] = s.order[k]
      PROVE  o = k
  <2>1. old(o) = old(k)
    BY <1>3, <1>4, <1>7 DEF QueueOK, OrderIsPermutation
  <2> QED BY <1>4, <2>1
<1>8. ASSUME NEW p \in Positions(r)
      PROVE  \E o \in Positions(r) : s.order[o] = p
  <2>1. PICK o \in Positions(r) : r.order[o] = p
    BY DEF QueueOK, OrderIsPermutation
  <2>2. new(o) \in Positions(r) /\ s.order[new(o)] = p
    BY <1>3, <1>4, <2>1
  <2> QED BY <2>2
<1> QED BY <1>1, <1>6, <1>7, <1>8, OrderEditOK DEF s

\* Leaving random mode: the order is the identity again.
LEMMA RestoreOrderOK ==
  ASSUME NEW r, QueueOK(r)
  PROVE  LET s == RestoreOrder([r EXCEPT !.random = FALSE])
         IN  /\ QueueOK(s) /\ Edits(r, s) /\ ~s.random
             /\ s.length = r.length /\ s.repeat = r.repeat /\ s.items = r.items
             /\ s.order = [o \in Positions(r) |-> o]
<1> DEFINE s == RestoreOrder([r EXCEPT !.random = FALSE])
<1>1. /\ DOMAIN s = QueueFields
      /\ s.length = r.length /\ s.items = r.items /\ s.data = r.data
      /\ s.next = r.next /\ s.version = r.version /\ s.random = FALSE
      /\ s.repeat = r.repeat /\ s.single = r.single /\ s.consume = r.consume
      /\ s.order = [o \in Positions(r) |-> o]
  BY DEF RestoreOrder, QueueOK, QueueTypeOK, QueueFields, Positions
<1> HIDE DEF s
<1>2. Positions(s) = Positions(r)
  BY <1>1 DEF Positions
<1>3. QueueTypeOK(s)
  BY <1>1, <1>2 DEF QueueOK, QueueTypeOK
<1>4. OrderIsPermutation(s) /\ OrderIsPosition(s) /\ IdTableMatches(s)
  BY <1>1, <1>2 DEF QueueOK, OrderIsPermutation, OrderIsPosition, IdTableMatches
<1>5. Edits(r, s)
  BY <1>1, <1>2 DEF Edits, Stamps, From
<1> QED BY <1>1, <1>3, <1>4, <1>5 DEF QueueOK, s

\* ShuffleOrder()
LEMMA ShuffledOrderOK ==
  ASSUME NEW t, QueueOK(t), t.random, NEW s \in ShuffleOrder(t)
  PROVE  QueueOK(s) /\ Edits(t, s) /\ SameButOrder(t, s)
<1>1. t.length \in Nat /\ 0 .. (t.length - 1) = Positions(t) /\ DOMAIN t = QueueFields
  BY QueueAssumption DEF QueueOK, QueueTypeOK, Positions
<1>2. PICK f \in [Positions(t) -> Positions(t)] :
        /\ s = [t EXCEPT !.order = f]
        /\ \A o, k \in Positions(t) : f[o] = f[k] => o = k
        /\ \A k \in Positions(t) : \E o \in Positions(t) : f[o] = t.order[k]
  <2>1. s \in ShuffleOrderRangeWithPriority(t, 0, t.length)
    BY DEF ShuffleOrder
  <2>2. PICK f \in [Positions(t) -> Positions(t)] :
        /\ s = [t EXCEPT !.order = f]
        /\ \A o, k \in 0 .. (t.length - 1) : f[o] = f[k] => o = k
        /\ \A k \in 0 .. (t.length - 1) :
             \E o \in 0 .. (t.length - 1) : f[o] = t.order[k]
    BY <2>1, Zenon DEF ShuffleOrderRangeWithPriority
  <2>3. /\ \A o, k \in Positions(t) : f[o] = f[k] => o = k
        /\ \A k \in Positions(t) : \E o \in Positions(t) : f[o] = t.order[k]
    BY <1>1, <2>2, Zenon
  <2> QED BY <2>2, <2>3, Zenon
<1>3. SameButOrder(t, s) /\ s.order = f
  BY <1>1, <1>2 DEF SameButOrder, QueueFields
<1>4. ASSUME NEW p \in Positions(t)
      PROVE  \E o \in Positions(t) : s.order[o] = p
  <2>1. PICK k \in Positions(t) : t.order[k] = p
    BY DEF QueueOK, OrderIsPermutation
  <2> QED BY <1>2, <1>3, <2>1, ZenonT(60)
<1>5. \A o, k \in Positions(t) : s.order[o] = s.order[k] => o = k
  BY <1>2, <1>3, Zenon
<1>6. s.order \in [Positions(t) -> Positions(t)]
  BY <1>2, <1>3, Zenon
<1> QED BY <1>3, <1>4, <1>5, <1>6, OrderEditOK, Zenon

\* Random mode is switched on.
LEMMA RandomOnOK ==
  ASSUME NEW r, QueueOK(r)
  PROVE  LET t == [r EXCEPT !.random = TRUE]
         IN  /\ QueueOK(t) /\ Edits(r, t) /\ t.random
             /\ t.length = r.length /\ t.repeat = r.repeat
             /\ t.items = r.items /\ t.order = r.order
<1> DEFINE t == [r EXCEPT !.random = TRUE]
<1>1. /\ DOMAIN t = QueueFields
      /\ t.length = r.length /\ t.items = r.items /\ t.data = r.data
      /\ t.next = r.next /\ t.version = r.version /\ t.random = TRUE
      /\ t.repeat = r.repeat /\ t.single = r.single /\ t.consume = r.consume
      /\ t.order = r.order
  BY DEF QueueOK, QueueTypeOK, QueueFields
<1> HIDE DEF t
<1>2. Positions(t) = Positions(r)
  BY <1>1 DEF Positions
<1>3. QueueTypeOK(t)
  BY <1>1, <1>2 DEF QueueOK, QueueTypeOK
<1>4. OrderIsPermutation(t) /\ OrderIsPosition(t) /\ IdTableMatches(t)
  BY <1>1, <1>2 DEF QueueOK, OrderIsPermutation, OrderIsPosition, IdTableMatches
<1>5. Edits(r, t)
  BY <1>1, <1>2 DEF Edits, Stamps, From
<1>6. QueueOK(t)
  BY <1>3, <1>4 DEF QueueOK
<1> QED BY <1>1, <1>5, <1>6 DEF t

\* ShuffleOrder(), with which random mode begins
LEMMA ShuffleOrderOK ==
  ASSUME NEW r, QueueOK(r),
         NEW s \in ShuffleOrder([r EXCEPT !.random = TRUE])
  PROVE  QueueOK(s) /\ Edits(r, s)
<1> DEFINE t == [r EXCEPT !.random = TRUE]
<1>1. QueueOK(t) /\ Edits(r, t) /\ t.random
  BY RandomOnOK
<1>2. s \in ShuffleOrder(t)
  OBVIOUS
<1> HIDE DEF t
<1>3. QueueOK(s) /\ Edits(t, s)
  BY <1>1, <1>2, ShuffledOrderOK
<1> QED BY <1>1, <1>3, EditTrans

\* ShuffleRange()
LEMMA ShuffleRangeOK ==
  ASSUME NEW r, QueueOK(r), NEW start \in Positions(r), NEW end \in Int,
         end <= r.length, NEW s \in ShuffleRange(r, start, end)
  PROVE  QueueOK(s) /\ Edits(r, s)
<1> DEFINE range == start .. (end - 1)
<1>1. range \subseteq Positions(r)
  BY QueueAssumption DEF QueueOK, QueueTypeOK, Positions
<1>2. PICK f \in [Positions(r) -> Positions(r)] :
        /\ s = Rearrange(r, f, range)
        /\ \A p \in range : f[p] \in range
        /\ \A p, t \in range : f[p] = f[t] => p = t
        /\ \A t \in range : \E p \in range : f[p] = t
  BY DEF ShuffleRange
<1> HIDE DEF range
<1> QED BY <1>1, <1>2, RearrangeOK

\* Clear()
LEMMA ClearQueueOK ==
  ASSUME NEW r, QueueOK(r)
  PROVE  QueueOK(ClearQueue(r)) /\ Edits(r, ClearQueue(r))
<1> DEFINE s == ClearQueue(r)
<1>1. /\ DOMAIN s = QueueFields
      /\ s.length = 0
      /\ s.items = [p \in {} |-> p] /\ s.order = [o \in {} |-> o]
      /\ s.data = [i \in Ids |-> IF \E p \in Positions(r) : r.items[p].id = i
                                 THEN -1 ELSE r.data[i]]
      /\ s.next = r.next /\ s.version = r.version /\ s.random = r.random
      /\ s.repeat = r.repeat /\ s.single = r.single /\ s.consume = r.consume
  BY DEF ClearQueue, QueueOK, QueueTypeOK, QueueFields
<1> HIDE DEF s
<1>2. Positions(s) = {}
  BY <1>1 DEF Positions
<1>3. \A i \in Ids : s.data[i] < 0 /\ s.data[i] \in -1 .. (MaxLength - 1)
  BY <1>1, QueueAssumption DEF QueueOK, QueueTypeOK, IdTableMatches
<1>4. QueueTypeOK(s)
  <2>1. s.data \in [Ids -> -1 .. (MaxLength - 1)]
    BY <1>1, <1>3
  <2>2. s.items \in [{} -> Item] /\ s.order \in [{} -> {}]
    BY <1>1
  <2> QED BY <1>1, <1>2, <2>1, <2>2, QueueAssumption DEF QueueOK, QueueTypeOK
<1>5. OrderIsPermutation(s) /\ OrderIsPosition(s) /\ IdTableMatches(s)
  BY <1>2, <1>3 DEF OrderIsPermutation, OrderIsPosition, IdTableMatches
<1> QED BY <1>1, <1>2, <1>4, <1>5 DEF QueueOK, Edits, Stamps, s

\* Where a block moves: source and target are inverse to each other, stay
\* inside the queue, and only disturb the positions in the hull.
LEMMA MoveIsPermutation ==
  ASSUME NEW n \in Nat, NEW start \in Int, NEW end \in Int, NEW to \in Int,
         0 <= start, start < end, end <= n, 0 <= to, to + end - start <= n,
         NEW p \in 0 .. (n - 1)
  PROVE  /\ MoveSource(start, end, to, p) \in 0 .. (n - 1)
         /\ MoveTarget(start, end, to, p) \in 0 .. (n - 1)
         /\ MoveSource(start, end, to, MoveTarget(start, end, to, p)) = p
         /\ MoveTarget(start, end, to, MoveSource(start, end, to, p)) = p
         /\ MoveHull(start, end, to) \subseteq 0 .. (n - 1)
         /\ p \in MoveHull(start, end, to) =>
              /\ MoveSource(start, end, to, p) \in MoveHull(start, end, to)
              /\ MoveTarget(start, end, to, p) \in MoveHull(start, end, to)
<1> DEFINE S(x) == MoveSource(start, end, to, x)
           T(x) == MoveTarget(start, end, to, x)
           hull == MoveHull(start, end, to)
<1>1. S(p) \in 0 .. (n - 1) /\ T(p) \in 0 .. (n - 1)
  BY DEF MoveSource, MoveTarget
<1>2. S(T(p)) = p
  BY DEF MoveSource, MoveTarget
<1>3. T(S(p)) = p
  BY DEF MoveSource, MoveTarget
<1>4. hull \subseteq 0 .. (n - 1)
  BY DEF MoveHull
<1>5. p \in hull => S(p) \in hull
  BY DEF MoveHull, MoveSource
<1>6. p \in hull => T(p) \in hull
  BY DEF MoveHull, MoveTarget
<1> QED BY <1>1, <1>2, <1>3, <1>4, <1>5, <1>6

\* MoveRange()
LEMMA MoveRangeOK ==
  ASSUME NEW r, QueueOK(r), NEW start \in Positions(r), NEW end \in Int,
         start < end, end <= r.length,
         NEW to \in Positions(r), to + end - start <= r.length
  PROVE  QueueOK(MoveRange(r, start, end, to))
         /\ Edits(r, MoveRange(r, start, end, to))
<1> DEFINE n == r.length
           S(x) == MoveSource(start, end, to, x)
           T(x) == MoveTarget(start, end, to, x)
           hull == MoveHull(start, end, to)
           source == [p \in Positions(r) |-> S(p)]
           moved == Rearrange(r, source, hull)
           s == MoveRange(r, start, end, to)
<1>1. /\ n \in Nat /\ Positions(r) = 0 .. (n - 1)
      /\ start \in Int /\ to \in Int /\ 0 <= start /\ 0 <= to
  BY QueueAssumption DEF QueueOK, QueueTypeOK, Positions
<1>2. ASSUME NEW p \in Positions(r)
      PROVE  /\ S(p) \in Positions(r) /\ T(p) \in Positions(r)
             /\ S(T(p)) = p /\ T(S(p)) = p
             /\ hull \subseteq Positions(r)
             /\ p \in hull => S(p) \in hull /\ T(p) \in hull
  <2>1. /\ p \in 0 .. (n - 1) /\ 0 <= start /\ start < end /\ end <= n
        /\ 0 <= to /\ to + end - start <= n
    BY <1>1
  <2> HIDE DEF n
  <2>2. /\ S(p) \in 0 .. (n - 1) /\ T(p) \in 0 .. (n - 1)
        /\ S(T(p)) = p /\ T(S(p)) = p
        /\ hull \subseteq 0 .. (n - 1)
        /\ p \in hull => S(p) \in hull /\ T(p) \in hull
    <3> HIDE DEF S, T, hull
    <3>1. /\ n \in Nat /\ start \in Int /\ end \in Int /\ to \in Int
          /\ 0 <= start /\ start < end /\ end <= n
          /\ 0 <= to /\ to + end - start <= n /\ p \in 0 .. (n - 1)
      BY <1>1, <2>1
    <3> QED BY <3>1, MoveIsPermutation, ZenonT(60) DEF S, T, hull
  <2> QED BY <1>1, <2>2, Zenon
<1>3. s = IF r.random
          THEN [moved EXCEPT !.order = [o \in Positions(r) |-> T(r.order[o])]]
          ELSE moved
  BY DEF MoveRange
<1> HIDE DEF S, T, hull, s
<1>4. hull \subseteq Positions(r) /\ source \in [Positions(r) -> Positions(r)]
  BY <1>2
<1>5. QueueOK(moved) /\ Edits(r, moved) /\ moved.length = r.length
      /\ moved.random = r.random /\ moved.order = r.order
  <2>1. \A p \in hull : source[p] \in hull
    BY <1>2, <1>4
  <2>2. \A p, t \in hull : source[p] = source[t] => p = t
    BY <1>2, <1>4
  <2>3. ASSUME NEW t \in hull
        PROVE  \E p \in hull : source[p] = t
    <3>1. T(t) \in hull /\ source[T(t)] = t
      BY <1>2, <1>4
    <3> QED BY <3>1
  <2> HIDE DEF source
  <2> QED BY <1>4, <2>1, <2>2, <2>3, RearrangeOK
<1> HIDE DEF moved
<1>6. CASE ~r.random
  BY <1>3, <1>5, <1>6 DEF s
<1>7. CASE r.random
  <2> DEFINE order == [o \in Positions(r) |-> T(r.order[o])]
  <2>1. SameButOrder(moved, s) /\ s.order = order
    BY <1>3, <1>5, <1>7 DEF SameButOrder, QueueOK, QueueTypeOK, QueueFields
  <2>2. Positions(moved) = Positions(r)
    BY <1>5 DEF Positions
  <2>3. r.order \in [Positions(r) -> Positions(r)]
    BY DEF QueueOK, QueueTypeOK
  <2>4. order \in [Positions(r) -> Positions(r)]
    BY <1>2, <2>3
  <2>5. ASSUME NEW o \in Positions(r), NEW k \in Positions(r),
               order[o] = order[k]
        PROVE  o = k
    <3>1. r.order[o] = r.order[k]
      BY <1>2, <2>3, <2>5
    <3> QED BY <3>1 DEF QueueOK, OrderIsPermutation
  <2>6. ASSUME NEW p \in Positions(r)
        PROVE  \E o \in Positions(r) : order[o] = p
    <3>1. PICK o \in Positions(r) : r.order[o] = S(p)
      BY <1>2 DEF QueueOK, OrderIsPermutation
    <3>2. order[o] = p
      BY <1>2, <3>1
    <3> QED BY <3>2
  <2> HIDE DEF order
  <2>7. QueueOK(s) /\ Edits(moved, s)
    <3>1. /\ s.order \in [Positions(moved) -> Positions(moved)]
          /\ \A o, k \in Positions(moved) : s.order[o] = s.order[k] => o = k
          /\ \A p \in Positions(moved) :
               \E o \in Positions(moved) : s.order[o] = p
      BY <2>1, <2>2, <2>4, <2>5, <2>6
    <3> QED BY <1>5, <1>7, <2>1, <3>1, OrderEditOK
  <2> QED BY <1>5, <2>7, EditTrans DEF s
<1> QED BY <1>6, <1>7

\* DeletePosition()
LEMMA DeletePositionOK ==
  ASSUME NEW r, QueueOK(r), NEW position \in Positions(r)
  PROVE  /\ QueueOK(DeletePosition(r, position))
         /\ Edits(r, DeletePosition(r, position))
         /\ DeletePosition(r, position).length = r.length - 1
<1> DEFINE s == DeletePosition(r, position)
           n == r.length - 1
           d == PositionToOrder(r, position)
           items == [p \in 0 .. (n - 1) |->
                       IF p < position THEN r.items[p]
                                       ELSE Stamp(r, r.items[p + 1])]
           Old(k) == IF k < d THEN k ELSE k + 1
           order == [k \in 0 .. (n - 1) |->
                       IF r.order[Old(k)] > position THEN r.order[Old(k)] - 1
                                                     ELSE r.order[Old(k)]]
           id == r.items[position].id
           tail == position .. (n - 1)
<1>1. /\ n \in Nat /\ n + 1 <= MaxLength /\ MaxLength \in Nat
      /\ Positions(r) = 0 .. n /\ position \in Int
      /\ 0 <= position /\ position <= n
  BY QueueAssumption DEF QueueOK, QueueTypeOK, Positions
<1>2. d \in 0 .. n /\ r.order[d] = position
  BY <1>1, PositionToOrderOK
<1>3. /\ r.items \in [0 .. n -> Item] /\ r.order \in [0 .. n -> 0 .. n]
      /\ r.data \in [Ids -> -1 .. (MaxLength - 1)]
  BY <1>1 DEF QueueOK, QueueTypeOK
<1>4. /\ DOMAIN s = QueueFields
      /\ s.length = n /\ s.items = items /\ s.order = order
      /\ s.data = MoveIds(EraseId(r.data, id), items, tail)
      /\ s.next = r.next /\ s.version = r.version /\ s.random = r.random
      /\ s.repeat = r.repeat /\ s.single = r.single /\ s.consume = r.consume
  <2>1. s.order = [k \in 0 .. (n - 1) |->
          IF [j \in 0 .. (n - 1) |-> r.order[Old(j)]][k] > position
          THEN [j \in 0 .. (n - 1) |-> r.order[Old(j)]][k] - 1
          ELSE [j \in 0 .. (n - 1) |-> r.order[Old(j)]][k]]
    BY DEF DeletePosition, QueueOK, QueueTypeOK, QueueFields
  <2>2. s.order = order
    BY <2>1
  <2> QED BY <2>2 DEF DeletePosition, QueueOK, QueueTypeOK, QueueFields
<1> HIDE DEF s, d, n
<1>5. Positions(s) = 0 .. (n - 1)
  BY <1>4 DEF Positions
<1>6. ASSUME NEW x \in Item
      PROVE  /\ Stamp(r, x) \in Item
             /\ Stamp(r, x).id = x.id /\ Stamp(r, x).song = x.song
             /\ Stamp(r, x).version = r.version
  BY QueueAssumption DEF Stamp, Item, Versions, QueueOK, QueueTypeOK
<1>7. /\ items \in [0 .. (n - 1) -> Item]
      /\ \A p \in 0 .. (n - 1) :
           \/ p < position /\ items[p] = r.items[p]
           \/ /\ p >= position /\ items[p].id = r.items[p + 1].id
              /\ items[p].song = r.items[p + 1].song
              /\ items[p].version = r.version
  <2>1. ASSUME NEW p \in 0 .. (n - 1)
        PROVE  /\ items[p] \in Item
               /\ \/ p < position /\ items[p] = r.items[p]
                  \/ /\ p >= position /\ items[p].id = r.items[p + 1].id
                     /\ items[p].song = r.items[p + 1].song
                     /\ items[p].version = r.version
    <3>1. p \in 0 .. n /\ p + 1 \in 0 .. n
      BY <1>1
    <3>2. r.items[p] \in Item /\ r.items[p + 1] \in Item
      BY <1>3, <3>1
    <3> QED BY <1>1, <1>6, <3>2
  <2> QED BY <2>1
<1> HIDE DEF items
<1>8. order \in [0 .. (n - 1) -> 0 .. (n - 1)]
  <2>1. ASSUME NEW k \in 0 .. (n - 1)
        PROVE  order[k] \in 0 .. (n - 1)
    <3>1. Old(k) \in 0 .. n /\ Old(k) # d
      BY <1>1, <1>2
    <3>2. r.order[Old(k)] \in 0 .. n /\ r.order[Old(k)] # position
      BY <1>1, <1>2, <1>3, <3>1 DEF QueueOK, OrderIsPermutation
    <3> QED BY <1>1, <3>2
  <2> QED BY <2>1
<1>9. ASSUME NEW o \in 0 .. (n - 1), NEW k \in 0 .. (n - 1),
             order[o] = order[k]
      PROVE  o = k
  <2>1. /\ Old(o) \in 0 .. n /\ Old(o) # d
        /\ Old(k) \in 0 .. n /\ Old(k) # d
    BY <1>1, <1>2
  <2>2. /\ r.order[Old(o)] \in 0 .. n /\ r.order[Old(o)] # position
        /\ r.order[Old(k)] \in 0 .. n /\ r.order[Old(k)] # position
    BY <1>1, <1>2, <1>3, <2>1 DEF QueueOK, OrderIsPermutation
  <2>3. r.order[Old(o)] = r.order[Old(k)]
    <3> DEFINE x == r.order[Old(o)]
               y == r.order[Old(k)]
    <3>1. (IF x > position THEN x - 1 ELSE x) = (IF y > position THEN y - 1 ELSE y)
      BY <1>9, Zenon
    <3>2. x \in Int /\ y \in Int /\ x # position /\ y # position
      BY <1>1, <2>2
    <3> HIDE DEF x, y
    <3>3. x = y
      BY <1>1, <3>1, <3>2
    <3> QED BY <3>3 DEF x, y
  <2>4. Old(o) = Old(k)
    BY <1>1, <2>1, <2>3 DEF QueueOK, OrderIsPermutation
  <2> QED BY <1>1, <1>2, <2>4
<1>10. ASSUME NEW p \in 0 .. (n - 1)
       PROVE  \E k \in 0 .. (n - 1) : order[k] = p
  <2> DEFINE old == IF p < position THEN p ELSE p + 1
  <2>1. old \in 0 .. n /\ old # position
    BY <1>1
  <2>2. PICK o \in 0 .. n : r.order[o] = old
    BY <1>1, <2>1 DEF QueueOK, OrderIsPermutation
  <2> DEFINE k == IF o < d THEN o ELSE o - 1
  <2>3. o # d
    BY <1>2, <2>1, <2>2
  <2>4. k \in 0 .. (n - 1) /\ Old(k) = o
    BY <1>1, <1>2, <2>3
  <2>5. order[k] = IF old > position THEN old - 1 ELSE old
    BY <2>2, <2>4
  <2>6. order[k] = p
    BY <1>1, <2>5
  <2> QED BY <2>4, <2>6
<1>11. ASSUME ~r.random
       PROVE  \A k \in 0 .. (n - 1) : order[k] = k
  <2>1. \A o \in 0 .. n : r.order[o] = o
    BY <1>1, <1>11 DEF QueueOK, OrderIsPosition
  <2> QED BY <1>1, <1>2, <2>1
<1> HIDE DEF order
<1>12. OrderIsPermutation(s) /\ OrderIsPosition(s)
  BY <1>4, <1>5, <1>9, <1>10, <1>11, ZenonT(60) DEF OrderIsPermutation, OrderIsPosition
<1>13. /\ id \in Ids
       /\ \A p \in 0 .. n : /\ r.items[p].id \in Ids
                            /\ r.data[r.items[p].id] = p
       /\ \A i \in Ids : r.data[i] >= 0 =>
            r.data[i] \in 0 .. n /\ r.items[r.data[i]].id = i
  BY <1>1, <1>3 DEF QueueOK, IdTableMatches, Item
<1>14. ASSUME NEW p \in tail
       PROVE  items[p].id \in Ids /\ s.data[items[p].id] = p
  <2>1. p \in 0 .. (n - 1) /\ p + 1 \in 0 .. n /\ items[p].id = r.items[p + 1].id
    BY <1>1, <1>7
  <2>2. ASSUME NEW t \in tail, items[t].id = items[p].id
        PROVE  t = p
    <3>1. t \in 0 .. (n - 1) /\ t + 1 \in 0 .. n
          /\ items[t].id = r.items[t + 1].id
      BY <1>1, <1>7
    <3>2. t + 1 = p + 1
      BY <1>13, <2>1, <2>2, <3>1
    <3> QED BY <2>1, <3>1, <3>2
  <2>3. items[p].id \in Ids
    BY <1>13, <2>1
  <2> QED BY <1>4, <2>2, <2>3 DEF MoveIds
<1>15. ASSUME NEW i \in Ids, \A p \in tail : items[p].id # i
       PROVE  s.data[i] = IF i = id THEN -1 ELSE r.data[i]
  BY <1>3, <1>4, <1>13, <1>15 DEF MoveIds, EraseId
<1>16. s.data \in [Ids -> -1 .. (MaxLength - 1)]
  <2>1. s.data = [i \in Ids |-> s.data[i]]
    BY <1>4 DEF MoveIds
  <2>2. ASSUME NEW i \in Ids
        PROVE  s.data[i] \in -1 .. (MaxLength - 1)
    <3>1. CASE \E p \in tail : items[p].id = i
      BY <1>1, <1>14, <3>1
    <3>2. CASE \A p \in tail : items[p].id # i
      <4>1. s.data[i] = -1 \/ s.data[i] = r.data[i]
        BY <1>15, <3>2
      <4>2. r.data[i] \in -1 .. (MaxLength - 1) /\ -1 \in -1 .. (MaxLength - 1)
        BY <1>1, <1>3
      <4> QED BY <4>1, <4>2
    <3> QED BY <3>1, <3>2
  <2> QED BY <2>1, <2>2
<1>17. IdTableMatches(s)
  <2>1. ASSUME NEW p \in 0 .. (n - 1), p < position
        PROVE  s.data[items[p].id] = p
    <3>1. items[p].id = r.items[p].id /\ p \in 0 .. n /\ items[p].id \in Ids
      BY <1>1, <1>7, <1>13, <2>1
    <3>2. items[p].id # id
      BY <1>1, <1>13, <2>1, <3>1
    <3>3. ASSUME NEW t \in tail
          PROVE  items[t].id # items[p].id
      <4>1. t \in 0 .. (n - 1) /\ t + 1 \in 0 .. n /\ t >= position
            /\ items[t].id = r.items[t + 1].id
        BY <1>1, <1>7
      <4>2. t + 1 # p
        BY <1>1, <2>1, <4>1
      <4> QED BY <1>13, <3>1, <4>1, <4>2
    <3> QED BY <1>13, <1>15, <3>1, <3>2, <3>3
  <2>2. ASSUME NEW p \in 0 .. (n - 1)
        PROVE  s.data[items[p].id] = p
    BY <1>1, <1>14, <2>1
  <2>3. ASSUME NEW i \in Ids, s.data[i] >= 0
        PROVE  s.data[i] \in 0 .. (n - 1) /\ items[s.data[i]].id = i
    <3>1. CASE \E p \in tail : items[p].id = i
      <4>1. PICK p \in tail : items[p].id = i
        BY <3>1
      <4>2. s.data[i] = p
        BY <1>14, <4>1
      <4> QED BY <1>1, <4>1, <4>2
    <3>2. CASE \A p \in tail : items[p].id # i
      <4>1. i # id /\ s.data[i] = r.data[i]
        BY <1>15, <2>3, <3>2
      <4>2. r.data[i] \in 0 .. n /\ r.items[r.data[i]].id = i
        BY <1>13, <2>3, <4>1
      <4>3. r.data[i] < position
        <5>1. r.data[i] # position
          BY <4>1, <4>2
        <5>2. ASSUME r.data[i] > position
              PROVE  FALSE
          <6>1. r.data[i] - 1 \in tail /\ (r.data[i] - 1) + 1 = r.data[i]
            BY <1>1, <4>2, <5>2
          <6>2. items[r.data[i] - 1].id = r.items[r.data[i]].id
            BY <1>1, <1>7, <6>1
          <6> QED BY <3>2, <4>2, <6>1, <6>2
        <5> QED BY <1>1, <4>2, <5>1, <5>2
      <4>4. r.data[i] \in 0 .. (n - 1)
        BY <1>1, <4>2, <4>3
      <4> QED BY <1>1, <1>7, <4>1, <4>2, <4>3, <4>4
    <3> QED BY <3>1, <3>2
  <2> QED BY <1>4, <1>5, <2>2, <2>3 DEF IdTableMatches
<1>18. QueueTypeOK(s)
  <2>1. s.length \in 0 .. MaxLength
    BY <1>1, <1>4
  <2>2. /\ s.items \in [Positions(s) -> Item]
        /\ s.order \in [Positions(s) -> Positions(s)]
    BY <1>4, <1>5, <1>7, <1>8, Zenon
  <2> QED BY <1>4, <1>16, <2>1, <2>2, Zenon DEF QueueOK, QueueTypeOK
<1>19. Edits(r, s)
  <2>1. Stamps(r, s)
    BY <1>1, <1>4, <1>5, <1>7 DEF Stamps
  <2>2. ASSUME NEW p \in Positions(s)
        PROVE  From(r, s.items[p])
    <3>1. p \in 0 .. (n - 1) /\ p \in Positions(r) /\ p + 1 \in Positions(r)
      BY <1>1, <1>5
    <3> QED BY <1>4, <1>7, <3>1 DEF From
  <2> QED BY <2>1, <2>2 DEF Edits
<1> QED BY <1>4, <1>12, <1>17, <1>18, <1>19 DEF QueueOK, s, n

-----------------------------------------------------------------------------
(* Priorities.                                                             *)

\* ShuffleOrderFirst() and ShuffleOrderLast() swap two orders of the range.
LEMMA ShuffleOrderFirstOK ==
  ASSUME NEW r, QueueOK(r), r.random, NEW start \in Positions(r),
         NEW end \in Int, end <= r.length, NEW s \in ShuffleOrderFirst(r, start, end)
  PROVE  QueueOK(s) /\ Edits(r, s) /\ SameButOrder(r, s)
<1>1. PICK o \in start .. (end - 1) : s = SwapOrders(r, start, o)
  BY DEF ShuffleOrderFirst
<1>2. o \in Positions(r)
  BY QueueAssumption DEF Positions, QueueOK, QueueTypeOK
<1> QED BY <1>1, <1>2, SwapOrdersOK DEF SameButOrder

(* ShuffleOrderLast only permutes the order array. *)
LEMMA ShuffleOrderLastOK ==
  ASSUME NEW r, QueueOK(r), r.random, r.length > 0, NEW start \in Positions(r),
         NEW s \in ShuffleOrderLast(r, start, r.length)
  PROVE  QueueOK(s) /\ Edits(r, s)
<1>1. PICK o \in start .. (r.length - 1) : s = SwapOrders(r, r.length - 1, o)
  BY DEF ShuffleOrderLast
<1>2. o \in Positions(r) /\ r.length - 1 \in Positions(r)
  BY QueueAssumption DEF Positions, QueueOK, QueueTypeOK
<1> QED BY <1>1, <1>2, SwapOrdersOK

\* The order a song moves to, and the end of its priority group
LEMMA FindPriorityOrderOK ==
  ASSUME NEW r, QueueOK(r), NEW start \in Nat, start <= r.length,
         NEW priority, NEW exclude
  PROVE  FindPriorityOrder(r, start, priority, exclude) \in start .. r.length
<1> DEFINE S == {o \in start .. (r.length - 1) :
                   OrderItem(r, o).priority <= priority /\ o # exclude}
                \cup {r.length}
<1>1. r.length \in Nat
  BY QueueAssumption DEF QueueOK, QueueTypeOK
<1>2. S \subseteq Nat /\ S # {} /\ S \subseteq start .. r.length
  BY <1>1
<1>3. FindPriorityOrder(r, start, priority, exclude) = Min(S)
  BY DEF FindPriorityOrder
<1> HIDE DEF S
<1> QED BY <1>2, <1>3, MinIsLeast

(* CountSamePriority stays within the songs that are left in the order. *)
LEMMA CountSamePriorityOK ==
  ASSUME NEW r, QueueOK(r), NEW start \in Positions(r), NEW priority
  PROVE  /\ CountSamePriority(r, start, priority) \in Int
         /\ start + CountSamePriority(r, start, priority) <= r.length
<1> DEFINE S == {o \in start .. (r.length - 1) :
                   OrderItem(r, o).priority # priority} \cup {r.length}
<1>1. r.length \in Nat /\ start \in Nat
  BY QueueAssumption DEF QueueOK, QueueTypeOK, Positions
<1>2. S \subseteq Nat /\ S # {} /\ r.length \in S
  BY <1>1
<1>3. CountSamePriority(r, start, priority) = Min(S) - start
  BY DEF CountSamePriority
<1> HIDE DEF S
<1>4. Min(S) \in Nat /\ Min(S) <= r.length
  BY <1>2, MinIsLeast
<1> QED BY <1>1, <1>3, <1>4

\* SetPriority(): the song moves to its priority group, behind after_order.
LEMMA SetPriorityOK ==
  ASSUME NEW r, QueueOK(r), NEW position \in Positions(r),
         NEW priority \in Priorities, NEW after \in -1 .. (r.length - 1),
         NEW s \in SetPriority(r, position, priority, after)
  PROVE  QueueOK(s) /\ Edits(r, s) /\ SamePlaces(r, s)
<1> DEFINE item == [Stamp(r, r.items[position]) EXCEPT !.priority = priority]
           t == [r EXCEPT !.items[position] =
                            [Stamp(r, @) EXCEPT !.priority = priority]]
           o == PositionToOrder(r, position)
<1>1. /\ r.items[position] \in Item
      /\ r.items \in [Positions(r) -> Item]
      /\ r.length \in Nat /\ Positions(r) = 0 .. (r.length - 1)
  <2>1. /\ r.items \in [Positions(r) -> Item] /\ r.length \in 0 .. MaxLength
        /\ Positions(r) = 0 .. (r.length - 1)
    BY DEF QueueOK, QueueTypeOK, Positions
  <2>2. r.length \in Nat
    BY <2>1, QueueAssumption
  <2> QED BY <2>1, <2>2
<1>2. ASSUME NEW x \in Item
      PROVE  LET y == [Stamp(r, x) EXCEPT !.priority = priority]
             IN  /\ y \in Item /\ y.version = r.version
                 /\ y.id = x.id /\ y.song = x.song
  <2>1. r.version \in Versions
    BY QueueAssumption DEF Versions, QueueOK, QueueTypeOK
  <2>2. /\ Stamp(r, x) \in Item /\ Stamp(r, x).version = r.version
        /\ Stamp(r, x).id = x.id /\ Stamp(r, x).song = x.song
    BY <2>1 DEF Stamp, Item
  <2> QED BY <2>2 DEF Item
<1>3. /\ item \in Item /\ item.version = r.version
      /\ item.id = r.items[position].id /\ item.song = r.items[position].song
  BY <1>1, <1>2
<1>4. /\ DOMAIN t = QueueFields
      /\ t.items = [r.items EXCEPT ![position] = item]
      /\ t.length = r.length /\ t.order = r.order /\ t.data = r.data
      /\ t.next = r.next /\ t.version = r.version /\ t.random = r.random
      /\ t.repeat = r.repeat /\ t.single = r.single /\ t.consume = r.consume
  BY DEF QueueOK, QueueTypeOK, QueueFields
<1>5. \/ s = r \/ s = t
      \/ r.random /\ s \in Reprioritize(t, o, priority, after)
  BY DEF SetPriority
<1> HIDE DEF t, item, o
<1>6. Positions(t) = Positions(r)
  BY <1>4 DEF Positions
<1>7. QueueOK(t) /\ Edits(r, t) /\ SamePlaces(r, t)
  <2>1. QueueTypeOK(t)
    BY <1>1, <1>3, <1>4, <1>6 DEF QueueOK, QueueTypeOK
  <2>2. OrderIsPermutation(t) /\ OrderIsPosition(t)
    BY <1>4, <1>6 DEF QueueOK, OrderIsPermutation, OrderIsPosition
  <2>3. \A p \in Positions(r) : t.items[p].id = r.items[p].id
    BY <1>1, <1>3, <1>4
  <2>4. IdTableMatches(t)
    BY <1>4, <1>6, <2>3 DEF QueueOK, IdTableMatches
  <2>5. Stamps(r, t)
    BY <1>1, <1>3, <1>4, <1>6 DEF Stamps
  <2>6. \A p \in Positions(t) : From(r, t.items[p])
    BY <1>1, <1>3, <1>4, <1>6 DEF From
  <2>7. SamePlaces(r, t)
    BY <1>4, <2>3 DEF SamePlaces
  <2> QED BY <2>1, <2>2, <2>4, <2>5, <2>6, <2>7 DEF QueueOK, Edits
<1>8. CASE r.random /\ s \in Reprioritize(t, o, priority, after)
  <2> DEFINE before == FindPriorityOrder(t, after + 1, priority, o)
             new == IF before > o THEN before - 1 ELSE before
             moved == MoveOrder(t, o, new)
             count == CountSamePriority(moved, new, priority)
  <2>1. o \in Positions(r)
    BY PositionToOrderOK DEF o
  <2>2. before \in (after + 1) .. t.length
    <3>1. after + 1 \in Nat /\ after + 1 <= t.length
      BY <1>1, <1>4
    <3> QED BY <1>7, <3>1, FindPriorityOrderOK
  <2>3. s \in ShuffleOrderFirst(moved, new, new + count)
    BY <1>8 DEF Reprioritize
  <2> HIDE DEF before, moved, count
  <2>4. new \in Positions(t)
    BY <1>1, <1>4, <1>6, <2>1, <2>2
  <2> HIDE DEF new
  <2>5. QueueOK(moved) /\ Edits(t, moved) /\ SameButOrder(t, moved)
    BY <1>4, <1>6, <1>7, <1>8, <2>1, <2>4, MoveOrderOK DEF moved
  <2>6. moved.length = t.length /\ moved.random /\ Positions(moved) = Positions(t)
    BY <1>4, <1>8, <2>5 DEF SameButOrder, Positions
  <2>7. count \in Int /\ new + count <= moved.length
    BY <2>4, <2>5, <2>6, CountSamePriorityOK DEF count
  <2>8. new + count \in Int
    BY <1>1, <1>6, <2>4, <2>7
  <2>9. QueueOK(s) /\ Edits(moved, s) /\ SameButOrder(moved, s)
    BY <2>3, <2>4, <2>5, <2>6, <2>7, <2>8, ShuffleOrderFirstOK
  <2>10. Edits(r, s)
    BY <1>7, <2>5, <2>9, EditTrans
  <2>11. SamePlaces(r, s)
    BY <1>6, <1>7, <2>5, <2>9 DEF SameButOrder, SamePlaces
  <2> QED BY <2>9, <2>10, <2>11
<1> QED BY <1>5, <1>7, <1>8, EditRefl DEF SamePlaces

\* The iterations of SetPriorityRange() up to position m
PriorityLoop(r, start, m, priority, after_position, f) ==
  f = [i \in start .. m |->
         IF i = start THEN {r}
         ELSE UNION {SetPriority(x, i - 1, priority,
                                 AfterOrder(x, after_position)) :
                       x \in f[i - 1]}]

(* SetPriorityRange's loop has a value at every step it takes. *)
LEMMA PriorityLoopExists ==
  ASSUME NEW r, NEW start \in Nat, NEW priority, NEW after_position,
         NEW end \in Nat, start <= end
  PROVE  \E f : PriorityLoop(r, start, end, priority, after_position, f)
<1> DEFINE Has(k) ==
             \E f : PriorityLoop(r, start, k, priority, after_position, f)
           bad == {k \in Nat : k >= start /\ ~Has(k)}
           Step(x, i) == UNION {SetPriority(y, i - 1, priority,
                                            AfterOrder(y, after_position)) :
                                  y \in x}
<1> SUFFICES ASSUME bad # {} PROVE FALSE
  OBVIOUS
<1>1. PICK k \in bad : \A j \in bad : k <= j
  BY LeastNatural
<1>2. CASE k = start
  <2> DEFINE g == [i \in start .. start |-> {r}]
  <2>1. PriorityLoop(r, start, start, priority, after_position, g)
    <3>1. start .. start = {start}
      OBVIOUS
    <3> QED BY <3>1 DEF PriorityLoop
  <2> QED BY <1>2, <2>1
<1>3. CASE k # start
  <2>1. k \in Nat /\ k > start /\ k - 1 \in Nat /\ k - 1 >= start
        /\ k - 1 \notin bad
    BY <1>1, <1>3
  <2>2. PICK f : PriorityLoop(r, start, k - 1, priority, after_position, f)
    BY <2>1
  <2>3. f = [i \in start .. (k - 1) |-> IF i = start THEN {r}
                                        ELSE Step(f[i - 1], i)]
    BY <2>2 DEF PriorityLoop
  <2> DEFINE g == [i \in start .. k |-> IF i = k THEN Step(f[k - 1], k)
                                        ELSE f[i]]
  <2>4. ASSUME NEW i \in start .. k
        PROVE  g[i] = IF i = start THEN {r} ELSE Step(g[i - 1], i)
    <3> HIDE DEF Step
    <3>1. CASE i = k
      <4>1. i # start /\ i - 1 \in start .. k /\ i - 1 # k
        BY <2>1, <3>1
      <4> QED BY <3>1, <4>1
    <3>2. CASE i # k
      <4>1. i \in start .. (k - 1) /\ g[i] = f[i]
        BY <2>1, <3>2
      <4>2. i # start => i - 1 \in start .. k /\ i - 1 # k /\ g[i - 1] = f[i - 1]
        BY <2>1, <4>1
      <4>3. f[i] = IF i = start THEN {r} ELSE Step(f[i - 1], i)
        BY <2>3, <4>1
      <4> QED BY <4>1, <4>2, <4>3
    <3> QED BY <3>1, <3>2
  <2>5. PriorityLoop(r, start, k, priority, after_position, g)
    <3>1. g = [i \in start .. k |-> g[i]]
      OBVIOUS
    <3>2. g = [i \in start .. k |-> IF i = start THEN {r} ELSE Step(g[i - 1], i)]
      <4> HIDE DEF g, Step
      <4> QED BY <2>4, <3>1
    <3> HIDE DEF g
    <3> QED BY <3>2 DEF PriorityLoop
  <2> QED BY <2>1, <2>5
<1> QED BY <1>2, <1>3

\* SetPriorityRange()
LEMMA SetPriorityRangeOK ==
  ASSUME NEW r, QueueOK(r), NEW start \in Positions(r), NEW end \in Int,
         start < end, end <= r.length, NEW priority \in Priorities,
         NEW after \in -1 .. (r.length - 1),
         NEW s \in SetPriorityRange(r, start, end, priority, after)
  PROVE  QueueOK(s) /\ Edits(r, s) /\ SamePlaces(r, s)
<1> DEFINE position == IF after >= 0 THEN r.order[after] ELSE -1
<1>1. /\ r.length \in Nat /\ Positions(r) = 0 .. (r.length - 1)
      /\ start \in Nat /\ end \in Nat /\ start <= end
  BY QueueAssumption DEF QueueOK, QueueTypeOK, Positions
<1>2. position = -1 \/ position \in Positions(r)
  BY <1>1 DEF QueueOK, QueueTypeOK
<1>3. \E f : PriorityLoop(r, start, end, priority, position, f)
  <2> HIDE DEF position
  <2> QED BY <1>1, PriorityLoopExists, Zenon
<1>4. PICK f : /\ PriorityLoop(r, start, end, priority, position, f)
               /\ SetPriorityRange(r, start, end, priority, after) = f[end]
  BY <1>3 DEF SetPriorityRange, PriorityLoop
<1> HIDE DEF position
<1> DEFINE Good(x) == QueueOK(x) /\ Edits(r, x) /\ SamePlaces(r, x)
           bad == {i \in start .. end : ~\A x \in f[i] : Good(x)}
<1>5. bad = {}
  <2> SUFFICES ASSUME bad # {} PROVE FALSE
    OBVIOUS
  <2>1. bad \subseteq Nat
    BY <1>1
  <2>2. PICK i \in bad : \A j \in bad : i <= j
    BY <2>1, LeastNatural
  <2>3. i \in start .. end /\ i \in Nat
    BY <1>1, <2>2
  <2>4. CASE i = start
    <3>1. f[i] = {r}
      BY <1>4, <2>3, <2>4 DEF PriorityLoop
    <3>2. Good(r)
      BY EditRefl DEF SamePlaces
    <3> QED BY <2>2, <3>1, <3>2
  <2>5. CASE i # start
    <3>1. i - 1 \in start .. end /\ i - 1 \notin bad
      BY <1>1, <2>2, <2>3, <2>5
    <3>2. \A x \in f[i - 1] : Good(x)
      BY <3>1
    <3>3. f[i] = UNION {SetPriority(x, i - 1, priority,
                                    AfterOrder(x, position)) : x \in f[i - 1]}
      BY <1>4, <2>3, <2>5 DEF PriorityLoop
    <3>4. ASSUME NEW y \in f[i]
          PROVE  Good(y)
      <4>1. PICK x \in f[i - 1] :
              y \in SetPriority(x, i - 1, priority, AfterOrder(x, position))
        BY <3>3
      <4>2. Good(x) /\ x.length = r.length /\ Positions(x) = Positions(r)
        BY <3>2 DEF Positions, SamePlaces
      <4>3. i - 1 \in Positions(x)
        BY <1>1, <2>3, <2>5, <4>2
      <4>4. AfterOrder(x, position) \in -1 .. (x.length - 1)
        <5>1. CASE position = -1
          BY <1>1, <4>2, <5>1 DEF AfterOrder
        <5>2. CASE position \in Positions(r)
          <6>1. PositionToOrder(x, position) \in Positions(r)
            BY <4>2, <5>2, PositionToOrderOK
          <6> QED BY <1>1, <4>2, <5>2, <6>1 DEF AfterOrder
        <5> QED BY <1>2, <5>1, <5>2
      <4>5. QueueOK(y) /\ Edits(x, y) /\ SamePlaces(x, y)
        BY <4>1, <4>2, <4>3, <4>4, SetPriorityOK
      <4>6. SamePlaces(r, y)
        BY <4>2, <4>5 DEF SamePlaces
      <4> QED BY <4>2, <4>5, <4>6, EditTrans
    <3> QED BY <2>2, <3>4
  <2> QED BY <2>4, <2>5
<1>6. end \in start .. end
  BY <1>1
<1>7. Good(s)
  BY <1>4, <1>5, <1>6
<1> QED BY <1>7


-----------------------------------------------------------------------------
(* Where the songs are after an edit: what the playlist must know to keep  *)
(* its current song.                                                       *)

\* The id of the song at an order number
IdAt(r, o) == OrderItem(r, o).id

\* s has only songs of r, or new ones with ids no song of r had
Keeps(r, s) == \A p \in Positions(s) : From(r, s.items[p])
Grows(r, s) ==
  \A p \in Positions(s) : From(r, s.items[p]) \/ r.data[s.items[p].id] < 0

SameOptions(r, s) == s.random = r.random /\ s.repeat = r.repeat

(* What is added and then edited is still added. *)
LEMMA GrowsTrans ==
  ASSUME NEW q, NEW r, NEW s, Grows(q, r), Keeps(r, s)
  PROVE  Grows(q, s)
<1> SUFFICES ASSUME NEW p \in Positions(s)
             PROVE  From(q, s.items[p]) \/ q.data[s.items[p].id] < 0
  BY DEF Grows
<1>1. PICK k \in Positions(r) : /\ s.items[p].id = r.items[k].id
                                /\ s.items[p].song = r.items[k].song
  BY DEF Keeps, From
<1> QED BY <1>1 DEF Grows, From

(* The types of a queue that every edit needs. *)
LEMMA QueueTypes ==
  ASSUME NEW r, QueueOK(r)
  PROVE  /\ r.length \in Nat /\ r.length <= MaxLength /\ MaxLength \in Nat
         /\ Positions(r) = 0 .. (r.length - 1) /\ Positions(r) \subseteq Nat
         /\ r.order \in [Positions(r) -> Positions(r)]
         /\ r.items \in [Positions(r) -> Item]
         /\ r.random \in BOOLEAN /\ r.repeat \in BOOLEAN
         /\ \A o \in Positions(r) : IdAt(r, o) \in Ids
<1>1. /\ r.length \in Nat /\ r.length <= MaxLength /\ MaxLength \in Nat
      /\ Positions(r) = 0 .. (r.length - 1)
      /\ r.order \in [Positions(r) -> Positions(r)]
      /\ r.items \in [Positions(r) -> Item]
      /\ r.random \in BOOLEAN /\ r.repeat \in BOOLEAN
  BY QueueAssumption DEF QueueOK, QueueTypeOK, Positions
<1>2. ASSUME NEW o \in Positions(r)
      PROVE  IdAt(r, o) \in Ids
  <2>1. r.items[r.order[o]] \in Item
    BY <1>1
  <2> QED BY <2>1 DEF Item, IdAt, OrderItem
<1> QED BY <1>1, <1>2

(* An id is that of one position only. *)
LEMMA IdsDiffer ==
  ASSUME NEW r, QueueOK(r), NEW p \in Positions(r), NEW k \in Positions(r),
         r.items[p].id = r.items[k].id
  PROVE  p = k
BY DEF QueueOK, IdTableMatches

(* Where a song is found again whose position keeps it. *)
LEMMA FoundAgain ==
  ASSUME NEW r, QueueOK(r), NEW s, QueueOK(s), SamePlaces(r, s),
         NEW o \in Positions(r)
  PROVE  LET k == PositionToOrder(s, r.order[o])
         IN  k \in Positions(s) /\ IdAt(s, k) = IdAt(r, o)
<1>1. r.order[o] \in Positions(r) /\ Positions(s) = Positions(r)
  BY QueueTypes DEF SamePlaces, Positions
<1> DEFINE k == PositionToOrder(s, r.order[o])
<1>2. k \in Positions(s) /\ s.order[k] = r.order[o]
  BY <1>1, PositionToOrderOK
<1> HIDE DEF k
<1>3. IdAt(s, k) = IdAt(r, o)
  BY <1>1, <1>2 DEF IdAt, OrderItem, SamePlaces
<1> QED BY <1>2, <1>3 DEF k

(* IncrementVersion() leaves everything where it is. *)
LEMMA IncrementVersionKeeps ==
  ASSUME NEW r, QueueOK(r)
  PROVE  LET s == IncrementVersion(r)
         IN  /\ QueueOK(s) /\ Keeps(r, s) /\ SamePlaces(r, s) /\ s.order = r.order
             /\ \A o \in Positions(r) : IdAt(s, o) = IdAt(r, o)
<1> DEFINE s == IncrementVersion(r)
<1>1. /\ s.length = r.length /\ s.order = r.order
      /\ s.random = r.random /\ s.repeat = r.repeat
  BY DEF IncrementVersion, QueueOK, QueueTypeOK, QueueFields
<1>2. \/ s.items = r.items
      \/ s.items = [p \in Positions(r) |-> [r.items[p] EXCEPT !.version = 0]]
  BY DEF IncrementVersion, QueueOK, QueueTypeOK, QueueFields
<1>3. QueueOK(s)
  BY IncrementVersionOK
<1> HIDE DEF s
<1>4. ASSUME NEW x \in Item
      PROVE  /\ [x EXCEPT !.version = 0].id = x.id
             /\ [x EXCEPT !.version = 0].song = x.song
  BY DEF Item
<1>5. ASSUME NEW p \in Positions(r)
      PROVE  s.items[p].id = r.items[p].id /\ s.items[p].song = r.items[p].song
  <2>1. r.items[p] \in Item
    BY QueueTypes
  <2>2. s.items[p] = r.items[p] \/ s.items[p] = [r.items[p] EXCEPT !.version = 0]
    BY <1>2
  <2> QED BY <1>4, <2>1, <2>2
<1>6. Positions(s) = Positions(r)
  BY <1>1 DEF Positions
<1>7. Keeps(r, s) /\ SamePlaces(r, s)
  BY <1>1, <1>5, <1>6 DEF Keeps, From, SamePlaces
<1>8. ASSUME NEW o \in Positions(r)
      PROVE  IdAt(s, o) = IdAt(r, o)
  <2>1. r.order[o] \in Positions(r)
    BY QueueTypes
  <2> QED BY <1>1, <1>5, <2>1 DEF IdAt, OrderItem
<1> QED BY <1>1, <1>3, <1>7, <1>8 DEF s

(* Append() leaves the songs before the new one where they are. *)
LEMMA AppendItemKeeps ==
  ASSUME NEW r, QueueOK(r), ~IsFull(r), NEW song \in Songs,
         NEW priority \in Priorities
  PROVE  LET s == AppendItem(r, song, priority)
         IN  /\ QueueOK(s) /\ Grows(r, s) /\ SameOptions(r, s)
             /\ s.length = r.length + 1
             /\ \A o \in Positions(r) : IdAt(s, o) = IdAt(r, o)
<1> DEFINE s == AppendItem(r, song, priority)
           item == [song |-> song, id |-> GenerateId(r), version |-> r.version,
                    priority |-> priority]
<1>1. /\ s.items = [p \in 0 .. r.length |-> IF p = r.length THEN item ELSE r.items[p]]
      /\ s.order = [o \in 0 .. r.length |-> IF o = r.length THEN r.length ELSE r.order[o]]
      /\ s.random = r.random /\ s.repeat = r.repeat
  BY DEF AppendItem, QueueOK, QueueTypeOK, QueueFields
<1>2. QueueOK(s) /\ Change(r, s) /\ s.length = r.length + 1
  BY AppendItemOK
<1> HIDE DEF s, item
<1>3. ASSUME NEW o \in Positions(r)
      PROVE  IdAt(s, o) = IdAt(r, o)
  <2>1. r.length \in Nat /\ r.order[o] \in 0 .. (r.length - 1) /\ o \in 0 .. (r.length - 1)
    BY QueueTypes
  <2>2. s.order[o] = r.order[o]
    BY <1>1, <2>1
  <2>3. s.items[r.order[o]] = r.items[r.order[o]]
    BY <1>1, <2>1
  <2> QED BY <2>2, <2>3 DEF IdAt, OrderItem
<1>4. Grows(r, s)
  BY <1>2 DEF Change, Grows
<1> QED BY <1>1, <1>2, <1>3, <1>4 DEF s, item, SameOptions

(* Rearrange(): the item of every moved position comes from its source. *)
LEMMA RearrangeKeeps ==
  ASSUME NEW r, QueueOK(r), NEW moved, NEW source \in [Positions(r) -> Positions(r)]
  PROVE  LET s == Rearrange(r, source, moved)
         IN  /\ s.length = r.length /\ SameOptions(r, s) /\ s.order = r.order
             /\ \A p \in Positions(r) :
                  s.items[p].id = r.items[IF p \in moved THEN source[p] ELSE p].id
<1> DEFINE s == Rearrange(r, source, moved)
           items == [p \in Positions(r) |->
                       IF p \in moved THEN Stamp(r, r.items[source[p]])
                                      ELSE r.items[p]]
<1>1. /\ s.length = r.length /\ s.items = items /\ s.order = r.order
      /\ s.random = r.random /\ s.repeat = r.repeat
  BY DEF Rearrange, QueueOK, QueueTypeOK, QueueFields
<1> HIDE DEF s
<1>2. ASSUME NEW x \in Item
      PROVE  Stamp(r, x).id = x.id
  BY DEF Stamp, Item
<1>3. ASSUME NEW p \in Positions(r)
      PROVE  items[p].id = r.items[IF p \in moved THEN source[p] ELSE p].id
  <2>1. r.items[source[p]] \in Item
    BY QueueTypes
  <2> QED BY <1>2, <2>1
<1> HIDE DEF items
<1> QED BY <1>1, <1>3 DEF s, SameOptions

\* Swapping two positions
LEMMA SwapPositionsKeeps ==
  ASSUME NEW r, QueueOK(r), NEW p1 \in Positions(r), NEW p2 \in Positions(r)
  PROVE  LET s == SwapPositions(r, p1, p2)
         IN  /\ QueueOK(s) /\ Keeps(r, s) /\ SameOptions(r, s)
             /\ s.length = r.length /\ s.order = r.order
             /\ s.items[p1].id = r.items[p2].id /\ s.items[p2].id = r.items[p1].id
             /\ \A p \in Positions(r) \ {p1, p2} : s.items[p].id = r.items[p].id
<1> DEFINE source == [p \in Positions(r) |-> IF p = p1 THEN p2
                                             ELSE IF p = p2 THEN p1 ELSE p]
           s == Rearrange(r, source, {p1, p2})
<1>1. s = SwapPositions(r, p1, p2)
  BY DEF SwapPositions
<1>2. source \in [Positions(r) -> Positions(r)] /\ source[p1] = p2 /\ source[p2] = p1
  OBVIOUS
<1> HIDE DEF source
<1>3. /\ s.length = r.length /\ SameOptions(r, s) /\ s.order = r.order
      /\ \A p \in Positions(r) :
           s.items[p].id = r.items[IF p \in {p1, p2} THEN source[p] ELSE p].id
  BY <1>2, RearrangeKeeps
<1>4. QueueOK(s) /\ Edits(r, s)
  BY <1>1, SwapPositionsOK
<1> HIDE DEF s
<1>5. /\ s.items[p1].id = r.items[p2].id /\ s.items[p2].id = r.items[p1].id
      /\ \A p \in Positions(r) \ {p1, p2} : s.items[p].id = r.items[p].id
  BY <1>2, <1>3
<1> QED BY <1>1, <1>3, <1>4, <1>5 DEF Edits, Keeps

\* An edit of the order alone
LEMMA OrderEditKeeps ==
  ASSUME NEW r, NEW s, QueueOK(s), Edits(r, s), SameButOrder(r, s)
  PROVE  /\ Keeps(r, s) /\ SameOptions(r, s) /\ SamePlaces(r, s)
         /\ s.length = r.length /\ s.items = r.items /\ Positions(s) = Positions(r)
  BY DEF Edits, Keeps, SameButOrder, SameOptions, SamePlaces, Positions

\* SwapOrders()
LEMMA SwapOrdersKeeps ==
  ASSUME NEW r, QueueOK(r), r.random,
         NEW o1 \in Positions(r), NEW o2 \in Positions(r)
  PROVE  LET s == SwapOrders(r, o1, o2)
         IN  /\ QueueOK(s) /\ Keeps(r, s) /\ SameOptions(r, s)
             /\ s.length = r.length
             /\ IdAt(s, o1) = IdAt(r, o2) /\ IdAt(s, o2) = IdAt(r, o1)
             /\ \A o \in Positions(r) \ {o1, o2} : IdAt(s, o) = IdAt(r, o)
<1> DEFINE s == SwapOrders(r, o1, o2)
<1>1. s.order = [o \in Positions(r) |-> IF o = o1 THEN r.order[o2]
                                        ELSE IF o = o2 THEN r.order[o1] ELSE r.order[o]]
  BY DEF SwapOrders, QueueOK, QueueTypeOK, QueueFields
<1>2. QueueOK(s) /\ Edits(r, s) /\ SameButOrder(r, s)
  BY SwapOrdersOK
<1> HIDE DEF s
<1>3. Keeps(r, s) /\ SameOptions(r, s) /\ s.length = r.length /\ s.items = r.items
  BY <1>2, OrderEditKeeps
<1>4. /\ IdAt(s, o1) = IdAt(r, o2) /\ IdAt(s, o2) = IdAt(r, o1)
      /\ \A o \in Positions(r) \ {o1, o2} : IdAt(s, o) = IdAt(r, o)
  BY <1>1, <1>3 DEF IdAt, OrderItem
<1> QED BY <1>2, <1>3, <1>4 DEF s

\* ShuffleOrderLast(): the orders before start keep their songs.
LEMMA ShuffleOrderLastKeeps ==
  ASSUME NEW r, QueueOK(r), r.random, NEW start \in Positions(r),
         NEW s \in ShuffleOrderLast(r, start, r.length)
  PROVE  /\ QueueOK(s) /\ Keeps(r, s) /\ SameOptions(r, s)
         /\ s.length = r.length
         /\ \A o \in Positions(r) : o < start => IdAt(s, o) = IdAt(r, o)
<1>1. PICK o \in start .. (r.length - 1) : s = SwapOrders(r, r.length - 1, o)
  BY DEF ShuffleOrderLast
<1>2. /\ o \in Positions(r) /\ r.length - 1 \in Positions(r)
      /\ o >= start /\ r.length - 1 >= start /\ start \in Nat /\ o \in Nat /\ r.length \in Nat
  BY QueueTypes
<1>3. /\ QueueOK(s) /\ Keeps(r, s) /\ SameOptions(r, s) /\ s.length = r.length
      /\ \A k \in Positions(r) \ {r.length - 1, o} : IdAt(s, k) = IdAt(r, k)
  BY <1>1, <1>2, SwapOrdersKeeps
<1>4. \A k \in Positions(r) : k < start => k \notin {r.length - 1, o}
  BY <1>2, QueueTypes
<1> QED BY <1>3, <1>4

\* ShuffleRange(): the positions outside of the range keep their songs.
LEMMA ShuffleRangeKeeps ==
  ASSUME NEW r, QueueOK(r), NEW start \in Positions(r), NEW end \in Int,
         end <= r.length, NEW s \in ShuffleRange(r, start, end)
  PROVE  /\ QueueOK(s) /\ Keeps(r, s) /\ SameOptions(r, s)
         /\ s.length = r.length /\ s.order = r.order
         /\ \A p \in Positions(r) \ (start .. (end - 1)) : s.items[p].id = r.items[p].id
<1> DEFINE range == start .. (end - 1)
<1>1. PICK f \in [Positions(r) -> Positions(r)] : s = Rearrange(r, f, range)
  BY DEF ShuffleRange
<1>2. /\ s.length = r.length /\ SameOptions(r, s) /\ s.order = r.order
      /\ \A p \in Positions(r) : s.items[p].id = r.items[IF p \in range THEN f[p] ELSE p].id
  <2> HIDE DEF range
  <2> QED BY <1>1, RearrangeKeeps
<1>3. QueueOK(s) /\ Keeps(r, s)
  BY ShuffleRangeOK DEF Edits, Keeps
<1> QED BY <1>2, <1>3

\* MoveRange(): in random mode every order keeps its song.
LEMMA MoveRangeKeeps ==
  ASSUME NEW r, QueueOK(r), NEW start \in Positions(r), NEW end \in Int,
         start < end, end <= r.length,
         NEW to \in Positions(r), to + end - start <= r.length
  PROVE  LET s == MoveRange(r, start, end, to)
         IN  /\ QueueOK(s) /\ Keeps(r, s) /\ SameOptions(r, s)
             /\ s.length = r.length
             /\ r.random => \A o \in Positions(r) : IdAt(s, o) = IdAt(r, o)
             /\ ~r.random => /\ s.order = r.order
                             /\ \A p \in Positions(r) :
                                  s.items[MoveTarget(start, end, to, p)].id = r.items[p].id
<1> DEFINE n == r.length
           S(x) == MoveSource(start, end, to, x)
           T(x) == MoveTarget(start, end, to, x)
           hull == MoveHull(start, end, to)
           source == [p \in Positions(r) |-> S(p)]
           moved == Rearrange(r, source, hull)
           s == MoveRange(r, start, end, to)
<1>1. /\ n \in Nat /\ Positions(r) = 0 .. (n - 1)
      /\ start \in Int /\ to \in Int /\ 0 <= start /\ 0 <= to
  BY QueueTypes
<1>2. ASSUME NEW p \in Positions(r)
      PROVE  /\ S(p) \in Positions(r) /\ T(p) \in Positions(r) /\ S(T(p)) = p
             /\ p \notin hull => S(p) = p
  <2>1. /\ p \in 0 .. (n - 1) /\ n \in Nat /\ start \in Int /\ end \in Int /\ to \in Int
        /\ 0 <= start /\ start < end /\ end <= n
        /\ 0 <= to /\ to + end - start <= n
    BY <1>1
  <2>2. p \notin hull => S(p) = p
    BY <2>1 DEF MoveHull, MoveSource
  <2> HIDE DEF n, S, T, hull
  <2>3. S(p) \in 0 .. (n - 1) /\ T(p) \in 0 .. (n - 1) /\ S(T(p)) = p
    BY <2>1, MoveIsPermutation, ZenonT(60) DEF S, T
  <2> QED BY <1>1, <2>2, <2>3
<1>3. s = IF r.random
          THEN [moved EXCEPT !.order = [o \in Positions(r) |-> T(r.order[o])]]
          ELSE moved
  BY DEF MoveRange
<1>4. QueueOK(s) /\ Keeps(r, s)
  BY MoveRangeOK DEF Edits, Keeps
<1> HIDE DEF S, T, hull, s
<1>5. source \in [Positions(r) -> Positions(r)]
  BY <1>2
<1>6. /\ moved.length = r.length /\ SameOptions(r, moved) /\ moved.order = r.order
      /\ \A p \in Positions(r) :
           moved.items[p].id = r.items[IF p \in hull THEN source[p] ELSE p].id
  <2> HIDE DEF source
  <2> QED BY <1>5, RearrangeKeeps
<1>7. \A p \in Positions(r) : moved.items[p].id = r.items[S(p)].id
  BY <1>2, <1>6
<1>8. DOMAIN moved = QueueFields
  BY DEF Rearrange, QueueOK, QueueTypeOK, QueueFields
<1> HIDE DEF moved
<1>9. \A p \in Positions(r) : T(p) \in Positions(r) /\ moved.items[T(p)].id = r.items[p].id
  BY <1>2, <1>7
<1>10. CASE ~r.random
  BY <1>3, <1>4, <1>6, <1>9, <1>10 DEF s, T
<1>11. CASE r.random
  <2>1. /\ s.order = [o \in Positions(r) |-> T(r.order[o])]
        /\ s.items = moved.items /\ s.length = r.length /\ SameOptions(r, s)
    BY <1>3, <1>6, <1>8, <1>11 DEF QueueFields, SameOptions
  <2>2. ASSUME NEW o \in Positions(r)
        PROVE  IdAt(s, o) = IdAt(r, o)
    <3>1. r.order[o] \in Positions(r) /\ s.order[o] = T(r.order[o])
      BY <2>1, QueueTypes
    <3> QED BY <1>9, <2>1, <3>1 DEF IdAt, OrderItem
  <2> QED BY <1>4, <1>11, <2>1, <2>2 DEF s
<1> QED BY <1>10, <1>11

\* DeletePosition(): the orders behind the deleted one move up.
LEMMA DeletePositionKeeps ==
  ASSUME NEW r, QueueOK(r), NEW position \in Positions(r)
  PROVE  LET s == DeletePosition(r, position)
             d == PositionToOrder(r, position)
         IN  /\ QueueOK(s) /\ Keeps(r, s) /\ SameOptions(r, s)
             /\ s.length = r.length - 1
             /\ \A k \in Positions(s) :
                  IdAt(s, k) = IdAt(r, IF k < d THEN k ELSE k + 1)
<1> DEFINE s == DeletePosition(r, position)
           d == PositionToOrder(r, position)
           n == r.length - 1
           Old(k) == IF k < d THEN k ELSE k + 1
           items == [p \in 0 .. (n - 1) |->
                       IF p < position THEN r.items[p]
                                       ELSE Stamp(r, r.items[p + 1])]
<1>1. /\ n \in Nat /\ Positions(r) = 0 .. n /\ position \in 0 .. n
      /\ r.order \in [0 .. n -> 0 .. n] /\ r.items \in [0 .. n -> Item]
  BY QueueTypes
<1>1a. n \in Nat /\ position \in Int
  BY <1>1
<1>2. d \in 0 .. n /\ r.order[d] = position
  BY <1>1, PositionToOrderOK
<1>3. /\ s.length = n /\ s.items = items /\ s.random = r.random /\ s.repeat = r.repeat
      /\ s.order = [k \in 0 .. (n - 1) |->
                      IF [j \in 0 .. (n - 1) |-> r.order[Old(j)]][k] > position
                      THEN [j \in 0 .. (n - 1) |-> r.order[Old(j)]][k] - 1
                      ELSE [j \in 0 .. (n - 1) |-> r.order[Old(j)]][k]]
  BY DEF DeletePosition, QueueOK, QueueTypeOK, QueueFields
<1>4. QueueOK(s) /\ Keeps(r, s)
  BY DeletePositionOK DEF Edits, Keeps
<1> HIDE DEF s, d, n
<1>5. Positions(s) = 0 .. (n - 1)
  BY <1>3 DEF Positions
<1>6. ASSUME NEW x \in Item
      PROVE  Stamp(r, x).id = x.id
  BY DEF Stamp, Item
<1>7. ASSUME NEW p \in 0 .. (n - 1)
      PROVE  items[p].id = IF p < position THEN r.items[p].id ELSE r.items[p + 1].id
  <2>1. p + 1 \in 0 .. n
    BY <1>1a
  <2>2. r.items[p + 1] \in Item
    BY <1>1, <2>1
  <2> QED BY <1>6, <2>2
<1> HIDE DEF items
<1>8. ASSUME NEW k \in Positions(s)
      PROVE  IdAt(s, k) = IdAt(r, Old(k))
  <2>1. k \in 0 .. (n - 1) /\ Old(k) \in 0 .. n /\ Old(k) # d
    BY <1>1, <1>2, <1>5
  <2> HIDE DEF Old
  <2>2. r.order[Old(k)] \in 0 .. n /\ r.order[Old(k)] # position
    BY <1>1, <1>2, <2>1 DEF QueueOK, OrderIsPermutation
  <2>3. s.order[k] = IF r.order[Old(k)] > position THEN r.order[Old(k)] - 1
                                                   ELSE r.order[Old(k)]
    BY <1>3, <2>1
  <2> DEFINE x == r.order[Old(k)]  p == s.order[k]
  <2>4. /\ p \in 0 .. (n - 1)
        /\ x > position => p = x - 1 /\ p >= position /\ p + 1 = x
        /\ x <= position => p = x /\ p < position
    <3>1. x \in 0 .. n /\ x # position /\ p = IF x > position THEN x - 1 ELSE x
      BY <2>2, <2>3
    <3>2. position >= 0 /\ position <= n
      BY <1>1
    <3> HIDE DEF x, p
    <3> QED BY <1>1a, <3>1, <3>2
  <2>5. items[p].id = r.items[x].id
    <3> HIDE DEF x, p
    <3>1. x \in Int /\ position \in Int
      BY <1>1, <2>2 DEF x
    <3> QED BY <1>7, <2>4, <3>1
  <2> QED BY <1>3, <2>5 DEF IdAt, OrderItem
<1> QED BY <1>3, <1>4, <1>8 DEF s, d, n, SameOptions

\* Clear()
LEMMA ClearQueueKeeps ==
  ASSUME NEW r, QueueOK(r)
  PROVE  LET s == ClearQueue(r)
         IN  QueueOK(s) /\ Keeps(r, s) /\ SameOptions(r, s) /\ s.length = 0
<1>1. LET s == ClearQueue(r) IN s.length = 0 /\ SameOptions(r, s)
  BY DEF ClearQueue, QueueOK, QueueTypeOK, QueueFields, SameOptions
<1> QED BY <1>1, ClearQueueOK DEF Edits, Keeps
=============================================================================
