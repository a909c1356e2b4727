---------------------------- MODULE QueueProofs -----------------------------
(***************************************************************************)
(* Proofs about the queue: every method of src/Queue.cxx keeps the queue's *)
(* three arrays consistent, and a client that follows the version numbers  *)
(* misses no change.                                                       *)
(***************************************************************************)
EXTENDS QueueChanges, QueueLemmas

-----------------------------------------------------------------------------
(* The loops.  Each is a recursive function: that it exists, and that the  *)
(* queue stays consistent in every iteration, follows from LeastNatural,   *)
(* applied to the iterations where it would be otherwise.                  *)

\* The first m iterations of the loop in playlist::DeleteRange()
DeleteLoop(r, end, m, f) ==
  f = [n \in 0 .. m |-> IF n = 0 THEN r
                        ELSE DeletePosition(f[n - 1], end - n)]

(* DeleteRange's loop has a value at every step it takes. *)
LEMMA DeleteLoopExists ==
  ASSUME NEW r, NEW end \in Int, NEW m \in Nat
  PROVE  \E f : DeleteLoop(r, end, m, f)
<1> DEFINE bad == {k \in Nat : ~\E f : DeleteLoop(r, end, k, f)}
<1> SUFFICES ASSUME bad # {} PROVE FALSE
  OBVIOUS
<1>1. PICK k \in bad : \A j \in bad : k <= j
  BY LeastNatural
<1>2. CASE k = 0
  <2>1. DeleteLoop(r, end, 0, [n \in 0 .. 0 |-> r])
    BY DEF DeleteLoop
  <2> QED BY <1>2, <2>1
<1>3. CASE k # 0
  <2>1. k \in Nat /\ k - 1 \in Nat /\ k - 1 \notin bad
    BY <1>1, <1>3
  <2>2. PICK f : DeleteLoop(r, end, k - 1, f)
    BY <2>1
  <2> DEFINE g == [n \in 0 .. k |-> IF n = k
                                    THEN DeletePosition(f[k - 1], end - k)
                                    ELSE f[n]]
  <2>3. ASSUME NEW n \in 0 .. k
        PROVE  g[n] = IF n = 0 THEN r ELSE DeletePosition(g[n - 1], end - n)
    <3>1. CASE n = k
      <4>1. n # 0 /\ n - 1 \in 0 .. k /\ n - 1 # k
        BY <2>1, <3>1, <1>3
      <4> QED BY <3>1, <4>1
    <3>2. CASE n # k
      <4>1. n \in 0 .. (k - 1) /\ g[n] = f[n]
        BY <2>1, <3>2
      <4>2. n # 0 => n - 1 \in 0 .. k /\ n - 1 # k /\ g[n - 1] = f[n - 1]
        BY <2>1, <4>1
      <4>3. f[n] = IF n = 0 THEN r ELSE DeletePosition(f[n - 1], end - n)
        BY <2>2, <4>1 DEF DeleteLoop
      <4> QED BY <4>1, <4>2, <4>3
    <3> QED BY <3>1, <3>2
  <2>4. DeleteLoop(r, end, k, g)
    <3>1. g = [n \in 0 .. k |-> g[n]]
      OBVIOUS
    <3> HIDE DEF g
    <3> QED BY <2>3, <3>1 DEF DeleteLoop
  <2> QED BY <2>1, <2>4
<1> QED BY <1>2, <1>3

\* playlist::DeleteRange() deletes the range from its end.
LEMMA DeletedRangeOK ==
  ASSUME QueueOK(q), NEW start \in Positions(q), NEW end \in Int,
         start < end, end <= q.length
  PROVE  QueueOK(DeletedRange(start, end)) /\ Edits(q, DeletedRange(start, end))
<1>1. /\ q.length \in Nat /\ Positions(q) = 0 .. (q.length - 1)
      /\ start \in Int /\ 0 <= start /\ end - start \in Nat
  BY QueueAssumption DEF QueueOK, QueueTypeOK, Positions
<1>2. \E f : DeleteLoop(q, end, end - start, f)
  BY <1>1, DeleteLoopExists
<1>3. PICK f : /\ DeleteLoop(q, end, end - start, f)
               /\ DeletedRange(start, end) = f[end - start]
  BY <1>2 DEF DeletedRange, DeleteLoop
<1> DEFINE Good(n) == /\ QueueOK(f[n]) /\ Edits(q, f[n])
                      /\ f[n].length = q.length - n
           bad == {n \in 0 .. (end - start) : ~Good(n)}
<1>4. bad = {}
  <2> SUFFICES ASSUME bad # {} PROVE FALSE
    OBVIOUS
  <2>1. bad \subseteq Nat
    BY <1>1
  <2>2. PICK n \in bad : \A j \in bad : n <= j
    BY <2>1, LeastNatural
  <2>3. n \in 0 .. (end - start) /\ n \in Nat
    BY <1>1, <2>2
  <2>4. CASE n = 0
    <3>1. f[0] = q
      BY <1>1, <1>3, <2>3, <2>4 DEF DeleteLoop
    <3> QED BY <1>1, <2>2, <2>4, <3>1, EditRefl
  <2>5. CASE n # 0
    <3>1. n - 1 \in 0 .. (end - start) /\ n - 1 \notin bad
      BY <1>1, <2>2, <2>3, <2>5
    <3>2. Good(n - 1)
      BY <3>1
    <3>3. f[n] = DeletePosition(f[n - 1], end - n)
      BY <1>3, <2>3, <2>5 DEF DeleteLoop
    <3>4. end - n \in Positions(f[n - 1])
      BY <1>1, <2>3, <2>5, <3>2 DEF Positions
    <3>5. QueueOK(f[n]) /\ Edits(f[n - 1], f[n])
          /\ f[n].length = f[n - 1].length - 1
      BY <3>2, <3>3, <3>4, DeletePositionOK
    <3>6. Edits(q, f[n])
      BY <3>2, <3>5, EditTrans
    <3>7. f[n].length = q.length - n
      <4> DEFINE a == f[n].length
                 b == f[n - 1].length
                 c == q.length
      <4>1. a = b - 1 /\ b = c - (n - 1) /\ c \in Int /\ n \in Int
        BY <1>1, <2>3, <3>2, <3>5
      <4> HIDE DEF a, b, c
      <4>2. a = c - n
        BY <4>1
      <4> QED BY <4>2 DEF a, c
    <3> QED BY <2>2, <3>5, <3>6, <3>7
  <2> QED BY <2>4, <2>5
<1>5. end - start \in 0 .. (end - start)
  BY <1>1
<1>6. Good(end - start)
  BY <1>4, <1>5
<1> QED BY <1>3, <1>6

-----------------------------------------------------------------------------
(* The steps of the state machine.                                         *)

Bulks == {"none", "open", "modified"}

\* What the positions in changed have in common after the edit from q to r.
Stamped(r, changed) ==
  /\ changed \subseteq AllPositions
  /\ \A p \in changed \cap Positions(r) : r.items[p].version = q.version

\* A change that is published, or postponed to the end of the bulk edit
PublishStep == \E r, changed : /\ QueueOK(r) /\ Change(q, r) /\ Stamped(r, changed)
                               /\ Publish(r, changed)

PostponeStep == \E r : QueueOK(r) /\ Change(q, r) /\ Stamped(r, Changed(q, r))
                       /\ Postpone(r)

\* A step no client is told of
SilentStep == QueueOK(q') /\ Change(q, q') /\ client' = client

StepShape ==
  /\ bulk' \in Bulks
  /\ PublishStep \/ PostponeStep \/ SilentStep \/ Status \/ PlChanges

\* A position that looks different after an edit has been stamped.
LEMMA ChangedIsStamped ==
  ASSUME NEW r, Change(q, r)
  PROVE  Stamped(r, Changed(q, r))
BY DEF Change, Stamps, Stamped, Changed, View

(* OnModified either postpones the version or increments it, and touches no song. *)
LEMMA OnModifiedShape ==
  ASSUME bulk \in Bulks, NEW r, QueueOK(r), Change(q, r), OnModified(r)
  PROVE  StepShape
<1>1. Stamped(r, Changed(q, r))
  BY ChangedIsStamped
<1>2. CASE bulk = "none" /\ Publish(r, Changed(q, r)) /\ UNCHANGED bulk
  <2>1. PublishStep
    BY <1>1, <1>2, Zenon DEF PublishStep
  <2> QED BY <1>2, <2>1 DEF StepShape
<1>3. CASE Postpone(r) /\ bulk' = "modified"
  <2>1. PostponeStep
    BY <1>1, <1>3, Zenon DEF PostponeStep
  <2> QED BY <1>3, <2>1 DEF StepShape, Bulks
<1> QED BY <1>2, <1>3 DEF OnModified

(* The ranges the commands take lie within the queue. *)
LEMMA RangesOK ==
  ASSUME QueueOK(q), NEW range \in Ranges(q)
  PROVE  /\ range[1] \in Positions(q) /\ range[2] \in Int
         /\ range[1] < range[2] /\ range[2] <= q.length
BY QueueAssumption DEF Ranges, QueueOK, QueueTypeOK, Positions

\* Every action is one of the steps above.
LEMMA NextShape ==
  ASSUME QueueInvariant, [Next]_vars
  PROVE  StepShape
<1> USE DEF Bulks
<1>1. QueueOK(q) /\ bulk \in Bulks
  BY DEF QueueInvariant
<1>2. ASSUME NEW song \in Songs, AppendSong(song)
      PROVE  StepShape
  <2> DEFINE r == AppendItem(q, song, 0)
  <2>1. QueueOK(r) /\ Change(q, r) /\ r.length = q.length + 1 /\ r.random = q.random
    BY <1>1, <1>2, QueueAssumption, AppendItemOK DEF AppendSong
  <2>2. CASE q.random
    <3>1. PICK start \in 0 .. q.length : \E s \in ShuffleOrderLast(r, start, r.length) :
            OnModified(s)
      BY <1>2, <2>2 DEF AppendSong
    <3> HIDE DEF r
    <3>2. PICK s \in ShuffleOrderLast(r, start, r.length) : OnModified(s)
      BY <3>1
    <3>3. start \in Positions(r) /\ r.length > 0
      <4> DEFINE n == q.length
      <4>1. n \in Nat /\ start \in 0 .. n /\ r.length = n + 1
        BY <1>1, <2>1, QueueAssumption DEF QueueOK, QueueTypeOK
      <4> HIDE DEF n
      <4>2. start \in 0 .. (n + 1 - 1) /\ n + 1 > 0
        BY <4>1
      <4> QED BY <4>1, <4>2 DEF Positions
    <3>4. QueueOK(s) /\ Edits(r, s)
      BY <2>1, <2>2, <3>3, ShuffleOrderLastOK
    <3> QED BY <1>1, <2>1, <3>2, <3>4, ChangeTrans, OnModifiedShape
  <2>3. CASE ~q.random
    <3>1. OnModified(r)
      BY <1>2, <2>3 DEF AppendSong
    <3> QED BY <1>1, <2>1, <3>1, OnModifiedShape
  <2> QED BY <2>2, <2>3
<1>3. ASSUME BeginBulk
      PROVE  StepShape
  BY <1>1, <1>3, EditRefl DEF BeginBulk, StepShape, SilentStep
<1>4. ASSUME CommitBulk
      PROVE  StepShape
  <2>1. CASE bulk = "modified"
    <3>1. Publish(q, {}) /\ bulk' = "none"
      BY <1>4, <2>1 DEF CommitBulk
    <3>2. Stamped(q, {})
      BY DEF Stamped
    <3>3. PublishStep
      BY <1>1, <3>1, <3>2, EditRefl, Zenon DEF PublishStep
    <3> QED BY <3>1, <3>3 DEF StepShape
  <2>2. CASE bulk # "modified"
    BY <1>1, <1>4, <2>2, EditRefl DEF CommitBulk, StepShape, SilentStep
  <2> QED BY <2>1, <2>2
<1>5. ASSUME NEW p1 \in Positions(q), NEW p2 \in Positions(q), Swap(p1, p2)
      PROVE  StepShape
  <2> DEFINE r == SwapPositions(q, p1, p2)
             o1 == PositionToOrder(r, p1)
             o2 == PositionToOrder(r, p2)
  <2>1. QueueOK(r) /\ Edits(q, r) /\ r.length = q.length /\ r.random = q.random
    BY <1>1, SwapPositionsOK
  <2>2. OnModified(IF q.random THEN SwapOrders(r, o1, o2) ELSE r)
    BY <1>5 DEF Swap
  <2> HIDE DEF r
  <2>3. Positions(r) = Positions(q)
    BY <2>1 DEF Positions
  <2>4. o1 \in Positions(r) /\ o2 \in Positions(r)
    BY <2>1, <2>3, PositionToOrderOK
  <2> HIDE DEF o1, o2
  <2>5. CASE q.random
    <3>1. QueueOK(SwapOrders(r, o1, o2)) /\ Edits(r, SwapOrders(r, o1, o2))
      BY <2>1, <2>4, <2>5, SwapOrdersOK
    <3> QED BY <1>1, <2>1, <2>2, <2>5, <3>1, EditTrans, EditIsChange, OnModifiedShape
  <2>6. CASE ~q.random
    BY <1>1, <2>1, <2>2, <2>6, EditIsChange, OnModifiedShape
  <2> QED BY <2>5, <2>6
<1>6. ASSUME NEW range \in Ranges(q), NEW to \in Positions(q),
             to + range[2] - range[1] <= q.length, Move(range[1], range[2], to)
      PROVE  StepShape
  <2> DEFINE r == MoveRange(q, range[1], range[2], to)
  <2>1. QueueOK(r) /\ Edits(q, r)
    BY <1>1, <1>6, RangesOK, MoveRangeOK
  <2>2. OnModified(r)
    BY <1>6 DEF Move
  <2> HIDE DEF r
  <2> QED BY <1>1, <2>1, <2>2, EditIsChange, OnModifiedShape
<1>7. ASSUME NEW range \in Ranges(q), DeleteRange(range[1], range[2])
      PROVE  StepShape
  <2> DEFINE r == DeletedRange(range[1], range[2])
  <2>1. QueueOK(r) /\ Edits(q, r)
    BY <1>1, RangesOK, DeletedRangeOK
  <2>2. OnModified(r)
    BY <1>7 DEF DeleteRange
  <2> HIDE DEF r
  <2> QED BY <1>1, <2>1, <2>2, EditIsChange, OnModifiedShape
<1>8. ASSUME Clear
      PROVE  StepShape
  BY <1>1, <1>8, ClearQueueOK, EditIsChange, OnModifiedShape DEF Clear
<1>9. ASSUME NEW range \in Ranges(q), Shuffle(range[1], range[2])
      PROVE  StepShape
  <2>1. PICK r \in ShuffleRange(q, range[1], range[2]) : OnModified(r)
    BY <1>9 DEF Shuffle
  <2>2. QueueOK(r) /\ Edits(q, r)
    BY <1>1, <2>1, RangesOK, ShuffleRangeOK
  <2> QED BY <1>1, <2>1, <2>2, EditIsChange, OnModifiedShape
<1>10. ASSUME NEW range \in Ranges(q), NEW priority \in Priorities,
              NEW current \in -1 .. (q.length - 1),
              SetPrio(range[1], range[2], priority, current)
       PROVE  StepShape
  <2>1. PICK r \in SetPriorityRange(q, range[1], range[2], priority, current) :
          OnModified(r)
    BY <1>10 DEF SetPrio
  <2>2. QueueOK(r) /\ Edits(q, r)
    BY <1>1, <2>1, RangesOK, SetPriorityRangeOK
  <2> QED BY <1>1, <2>1, <2>2, EditIsChange, OnModifiedShape
<1>11. ASSUME NEW status \in BOOLEAN, SetRandom(status)
       PROVE  StepShape
  <2>1. QueueOK(q') /\ Edits(q, q')
    <3>1. CASE status
      <4>1. q' \in ShuffleOrder([q EXCEPT !.random = TRUE])
        BY <1>11, <3>1 DEF SetRandom
      <4> QED BY <1>1, <4>1, ShuffleOrderOK
    <3>2. CASE ~status
      <4>1. q' = RestoreOrder([q EXCEPT !.random = FALSE])
        BY <1>11, <3>2 DEF SetRandom
      <4> QED BY <1>1, <4>1, RestoreOrderOK
    <3> QED BY <3>1, <3>2
  <2> QED BY <1>1, <1>11, <2>1, EditIsChange DEF SetRandom, StepShape, SilentStep
<1>12. ASSUME NEW positions \in SUBSET Positions(q), UpdateTags(positions)
       PROVE  StepShape
  <2> DEFINE items == [p \in Positions(q) |->
                         IF p \in positions THEN Stamp(q, q.items[p])
                                            ELSE q.items[p]]
             r == [q EXCEPT !.items = items]
  <2>1. Publish(r, positions) /\ bulk' = bulk
    BY <1>12 DEF UpdateTags
  <2>2. /\ DOMAIN r = QueueFields /\ r.items = items
        /\ r.length = q.length /\ r.order = q.order /\ r.data = q.data
        /\ r.next = q.next /\ r.version = q.version /\ r.random = q.random
        /\ r.repeat = q.repeat /\ r.single = q.single /\ r.consume = q.consume
    BY <1>1 DEF QueueOK, QueueTypeOK, QueueFields
  <2>3. ASSUME NEW x \in Item
        PROVE  /\ Stamp(q, x) \in Item
               /\ Stamp(q, x).id = x.id /\ Stamp(q, x).song = x.song
               /\ Stamp(q, x).version = q.version
    BY <1>1, QueueAssumption DEF Stamp, Item, Versions, QueueOK, QueueTypeOK
  <2>4. q.items \in [Positions(q) -> Item]
    BY <1>1 DEF QueueOK, QueueTypeOK
  <2>5. /\ items \in [Positions(q) -> Item]
        /\ \A p \in Positions(q) : /\ items[p].id = q.items[p].id
                                   /\ items[p].song = q.items[p].song
        /\ \A p \in positions : items[p].version = q.version
        /\ \A p \in Positions(q) \ positions : items[p] = q.items[p]
    BY <2>3, <2>4
  <2> HIDE DEF items, r
  <2>6. Positions(r) = Positions(q)
    BY <2>2 DEF Positions
  <2>7. QueueTypeOK(r)
    BY <1>1, <2>2, <2>5, <2>6 DEF QueueOK, QueueTypeOK
  <2>8. OrderIsPermutation(r) /\ OrderIsPosition(r)
    BY <1>1, <2>2, <2>6 DEF QueueOK, OrderIsPermutation, OrderIsPosition
  <2>9. IdTableMatches(r)
    BY <1>1, <2>2, <2>5, <2>6 DEF QueueOK, IdTableMatches
  <2>10. Change(q, r)
    BY <2>2, <2>5, <2>6 DEF Change, Stamps, From
  <2>11. Stamped(r, positions)
    <3>1. Positions(q) \subseteq AllPositions
      BY <1>1, QueueAssumption
      DEF QueueOK, QueueTypeOK, Positions, AllPositions
    <3> QED BY <2>2, <2>5, <3>1 DEF Stamped
  <2>12. PublishStep
    BY <2>1, <2>7, <2>8, <2>9, <2>10, <2>11, Zenon DEF PublishStep, QueueOK
  <2> QED BY <1>1, <2>1, <2>12 DEF StepShape
<1>13. ASSUME Status
       PROVE  StepShape
  BY <1>1, <1>13 DEF Status, StepShape
<1>14. ASSUME PlChanges
       PROVE  StepShape
  BY <1>1, <1>14 DEF PlChanges, StepShape
<1>15. CASE UNCHANGED vars
  BY <1>1, <1>15, EditRefl DEF vars, StepShape, SilentStep
<1> QED
  BY <1>2, <1>3, <1>4, <1>5, <1>6, <1>7, <1>8, <1>9, <1>10, <1>11, <1>12,
     <1>13, <1>14, <1>15 DEF Next

-----------------------------------------------------------------------------
(* The invariants.                                                         *)

\* QueueInvariant does not bound the age of the answer by itself.
AnswerIsYounger == client.answer.age <= client.known.age

QInv == QueueInvariant /\ AnswerIsYounger

\* The records that Status and Older() make
LEMMA OlderOK ==
  ASSUME NEW a \in Answer, a.age < MaxAge
  PROVE  /\ Older(a) \in Answer
         /\ Older(a).version = a.version
         /\ Older(a).age = a.age + 1
BY MaxAgeAssumption DEF Older, Answer

(* The placeholder for "no answer yet" is an answer of age 0. *)
LEMMA NoAnswerOK == NoAnswer \in Answer /\ NoAnswer.age = 0 /\ NoAnswer.version = 0
BY QueueAssumption, MaxAgeAssumption DEF NoAnswer, Answer

\* The client after an edit that is published
LEMMA PublishedClient ==
  ASSUME QInv, NEW r, NEW changed, changed \subseteq AllPositions,
         Publish(r, changed)
  PROVE  /\ client' \in [known : Answer, answer : Answer,
                         stale : SUBSET AllPositions]
         /\ client'.known.version = client.known.version
         /\ client'.known.age = client.known.age + 1
         /\ \/ client.answer = NoAnswer /\ client'.answer = NoAnswer
            \/ /\ client'.answer.version = client.answer.version
               /\ client'.answer.age = client.answer.age + 1
         /\ client'.stale = client.stale \cup changed
<1>1. /\ client.known \in Answer /\ client.answer \in Answer
      /\ client.stale \subseteq AllPositions
  BY DEF QInv, QueueInvariant
<1>2. client.known.age < MaxAge /\ client.answer.age < MaxAge
  BY <1>1, MaxAgeAssumption DEF QInv, AnswerIsYounger, Publish, CanAge, Answer
<1>3. /\ client'.known = Older(client.known)
      /\ client'.answer = IF client.answer = NoAnswer THEN NoAnswer
                                                      ELSE Older(client.answer)
      /\ client'.stale = client.stale \cup changed
  BY DEF Publish
<1>4. client' = [known |-> client'.known, answer |-> client'.answer,
                 stale |-> client'.stale]
  BY DEF Publish
<1>5. client'.known \in Answer /\ client'.answer \in Answer
  BY <1>1, <1>2, <1>3, OlderOK, NoAnswerOK
<1> QED BY <1>1, <1>2, <1>3, <1>4, <1>5, OlderOK

\* The first invariant is inductive.
LEMMA QInvStep ==
  ASSUME QInv, [Next]_vars
  PROVE  QInv'
<1>1. StepShape
  BY NextShape DEF QInv
<1>2. /\ QueueOK(q)
      /\ client \in [known : Answer, answer : Answer, stale : SUBSET AllPositions]
      /\ client.answer.age <= client.known.age
  BY DEF QInv, QueueInvariant, AnswerIsYounger
<1> DEFINE Goal == /\ QueueOK(q')
                   /\ client' \in [known : Answer, answer : Answer,
                                   stale : SUBSET AllPositions]
                   /\ client'.answer.age <= client'.known.age
<1> SUFFICES Goal
  BY <1>1 DEF QInv, QueueInvariant, AnswerIsYounger, StepShape, Bulks
<1>3. CASE PublishStep
  <2>1. PICK r, changed : QueueOK(r) /\ Stamped(r, changed) /\ Publish(r, changed)
    BY <1>3 DEF PublishStep
  <2>2. QueueOK(q')
    BY <2>1, IncrementVersionOK DEF Publish
  <2>3. changed \subseteq AllPositions
    BY <2>1 DEF Stamped
  <2>4. client.known.age \in Nat /\ client.answer.age \in Nat
    BY <1>2, MaxAgeAssumption DEF Answer
  <2>5. /\ client' \in [known : Answer, answer : Answer,
                        stale : SUBSET AllPositions]
        /\ client'.known.age = client.known.age + 1
        /\ \/ client.answer = NoAnswer /\ client'.answer = NoAnswer
           \/ client'.answer.age = client.answer.age + 1
    BY <2>1, <2>3, PublishedClient
  <2> QED BY <1>2, <2>2, <2>4, <2>5, NoAnswerOK
<1>4. CASE PostponeStep
  <2>1. PICK r : QueueOK(r) /\ Stamped(r, Changed(q, r)) /\ Postpone(r)
    BY <1>4 DEF PostponeStep
  <2>2. q' = r /\ client' = [client EXCEPT !.stale = @ \cup Changed(q, r)]
    BY <2>1 DEF Postpone
  <2>3. Changed(q, r) \subseteq AllPositions
    BY <2>1 DEF Stamped
  <2> QED BY <1>2, <2>1, <2>2, <2>3
<1>5. CASE SilentStep
  BY <1>2, <1>5 DEF SilentStep
<1>6. CASE Status
  <2>1. [version |-> q.version, age |-> 0] \in Answer
    BY <1>2, QueueAssumption, MaxAgeAssumption DEF Answer, QueueOK, QueueTypeOK
  <2>2. /\ q' = q
        /\ client' = [client EXCEPT !.answer = [version |-> q.version, age |-> 0]]
    BY <1>6 DEF Status
  <2>3. client.known.age >= 0
    BY <1>2, MaxAgeAssumption DEF Answer
  <2> QED BY <1>2, <2>1, <2>2, <2>3
<1>7. CASE PlChanges
  <2>1. /\ q' = q
        /\ client'.known = client.answer /\ client'.answer = NoAnswer
        /\ client'.stale \subseteq client.stale
        /\ client' = [known |-> client'.known, answer |-> client'.answer,
                      stale |-> client'.stale]
    BY <1>7 DEF PlChanges
  <2>2. client.answer.age >= 0 /\ client.answer \in Answer
    BY <1>2, MaxAgeAssumption DEF Answer
  <2> QED BY <1>2, <2>1, <2>2, NoAnswerOK
<1> QED BY <1>1, <1>3, <1>4, <1>5, <1>6, <1>7 DEF StepShape

(* An empty queue and a client that has just connected are a good start. *)
LEMMA QInvInit == Init => QInv
<1> SUFFICES ASSUME Init PROVE QInv
  OBVIOUS
<1>1. [version |-> 1, age |-> 0] \in Answer
  BY QueueAssumption, MaxAgeAssumption DEF Answer
<1>2. QueueOK(q) /\ bulk = "none"
  BY EmptyQueueOK DEF Init
<1>3. client = [known |-> [version |-> 1, age |-> 0], answer |-> NoAnswer,
                stale |-> {}]
  BY DEF Init
<1> QED BY <1>1, <1>2, <1>3, NoAnswerOK DEF QInv, QueueInvariant, AnswerIsYounger

\* Whatever the edits and however they interleave with bulk edits, the order
\* stays a permutation of the positions (the identity outside random mode)
\* and the id table of src/IdTable.hxx finds exactly the queued items, for
\* every length of the queue, number of ids and limit of the versions.
THEOREM QueueIsConsistent == Spec => []QueueInvariant
<1>1. Init => QInv
  BY QInvInit
<1>2. QInv /\ [Next]_vars => QInv'
  BY QInvStep
<1>3. QInv => QueueInvariant
  BY DEF QInv
<1> QED BY <1>1, <1>2, <1>3, PTL DEF Spec

-----------------------------------------------------------------------------
(* No missed change.                                                       *)

\* The version that the client heard of answer.age changes ago, before or
\* after the last wrap-around of the queue's version
InStep(answer) ==
  \/ q.version = answer.version + answer.age
  \/ q.version + VersionMax - 1 = answer.version + answer.age

\* The positions in stale are newer than version, by the item's own stamp.
Newer(r, stale, version) ==
  \A p \in stale \cap Positions(r) :
    r.items[p].version >= version \/ r.items[p].version = 0

\* A stale position is newer than the known version as long as the version
\* has not wrapped; after that, every position is.
StaleIsNewer ==
  q.version = client.known.version + client.known.age =>
    Newer(q, client.stale, client.known.version)

VInv ==
  /\ client.known.version >= 1
  /\ InStep(client.known)
  /\ client.answer = NoAnswer \/ InStep(client.answer)
  /\ StaleIsNewer

\* A client that asks before the version has gone around misses nothing.
LEMMA VInvIsEnough ==
  ASSUME QInv, VInv, MaxAge <= VersionMax - 2
  PROVE  NoMissedChange
<1>1. client.known.version \in Nat /\ client.known.age \in 0 .. MaxAge
  BY QueueAssumption, MaxAgeAssumption DEF QInv, QueueInvariant, Answer
<1>2. q.version \in Nat
  BY QueueAssumption DEF QInv, QueueInvariant, QueueOK, QueueTypeOK
<1>3. CASE q.version = client.known.version + client.known.age
  BY <1>3 DEF VInv, StaleIsNewer, Newer, NoMissedChange, IsNewerAtPosition
<1>4. CASE q.version + VersionMax - 1 = client.known.version + client.known.age
  <2>1. client.known.version > q.version
    BY <1>1, <1>2, <1>4, QueueAssumption, MaxAgeAssumption
  <2> QED BY <2>1 DEF NoMissedChange, IsNewerAtPosition
<1> QED BY <1>3, <1>4 DEF VInv, InStep

\* IncrementVersion() either leaves the items as they are or wraps and sets
\* all their versions to 0.
LEMMA IncrementVersionShape ==
  ASSUME NEW r, QueueOK(r)
  PROVE  LET s == IncrementVersion(r)
         IN  /\ Positions(s) = Positions(r)
             /\ \/ s.version = r.version + 1 /\ s.items = r.items
                \/ /\ r.version = VersionMax - 1 /\ s.version = 1
                   /\ \A p \in Positions(r) : s.items[p].version = 0
<1> DEFINE s == IncrementVersion(r)
<1>1. s.length = r.length
  BY DEF IncrementVersion, QueueOK, QueueTypeOK, QueueFields
<1>2. CASE r.version + 1 >= VersionMax
  <2>1. /\ s.version = 1
        /\ s.items = [p \in Positions(r) |-> [r.items[p] EXCEPT !.version = 0]]
    BY <1>2 DEF IncrementVersion, QueueOK, QueueTypeOK, QueueFields
  <2>2. r.version = VersionMax - 1
    BY <1>2, QueueAssumption DEF QueueOK, QueueTypeOK
  <2>3. ASSUME NEW p \in Positions(r)
        PROVE  s.items[p].version = 0
    <3>1. r.items[p] \in Item
      BY DEF QueueOK, QueueTypeOK
    <3>2. s.items[p] = [r.items[p] EXCEPT !.version = 0]
      BY <2>1
    <3> QED BY <3>1, <3>2 DEF Item
  <2> QED BY <1>1, <2>1, <2>2, <2>3 DEF Positions
<1>3. CASE ~(r.version + 1 >= VersionMax)
  <2>1. s.version = r.version + 1 /\ s.items = r.items
    BY <1>3 DEF IncrementVersion, QueueOK, QueueTypeOK, QueueFields
  <2> QED BY <1>1, <2>1 DEF Positions
<1> QED BY <1>2, <1>3

\* An edit keeps every stale position newer than a known version.
LEMMA EditKeepsStale ==
  ASSUME NEW r, Change(q, r), NEW stale, NEW changed, Stamped(r, changed),
         NEW version \in Nat, q.version \in Nat, q.version >= version,
         Newer(q, stale, version)
  PROVE  Newer(r, stale \cup changed, version)
<1> SUFFICES ASSUME NEW p \in Positions(r), p \in stale \cup changed
             PROVE  r.items[p].version >= version \/ r.items[p].version = 0
  BY DEF Newer
<1>1. CASE r.items[p].version = q.version
  BY <1>1
<1>2. CASE p \in Positions(q) /\ r.items[p] = q.items[p]
  <2>1. CASE p \in stale
    BY <1>2, <2>1 DEF Newer
  <2>2. CASE p \in changed
    BY <1>2, <2>2 DEF Stamped
  <2> QED BY <2>1, <2>2
<1> QED BY <1>1, <1>2 DEF Change, Stamps

\* The second invariant is inductive, relative to the first.
LEMMA VInvStep ==
  ASSUME QInv, VInv, MaxAge <= VersionMax - 2, [Next]_vars
  PROVE  VInv'
<1>1. StepShape
  BY NextShape DEF QInv
<1>2. /\ q.version \in 1 .. (VersionMax - 1) /\ VersionMax \in Nat /\ MaxAge \in Nat
      /\ client.known.version \in 1 .. (VersionMax - 1)
      /\ client.known.age \in 0 .. MaxAge
      /\ client.answer.version \in 0 .. (VersionMax - 1)
      /\ client.answer.age \in 0 .. MaxAge
      /\ client.answer.age <= client.known.age
  BY QueueAssumption, MaxAgeAssumption
  DEF QInv, QueueInvariant, QueueOK, QueueTypeOK, Answer, AnswerIsYounger, VInv
<1> DEFINE known == client.known
           known1 == client'.known
<1>3. ASSUME NEW r, NEW changed, QueueOK(r), Change(q, r), Stamped(r, changed),
             q.version = known.version + known.age
      PROVE  Newer(r, client.stale \cup changed, known.version)
  <2>1. Newer(q, client.stale, known.version)
    BY <1>3 DEF VInv, StaleIsNewer
  <2>2. known.version \in Nat /\ q.version \in Nat /\ q.version >= known.version
    BY <1>2, <1>3
  <2> QED BY <1>3, <2>1, <2>2, EditKeepsStale, Zenon
<1>4. CASE PublishStep
  <2>1. PICK r, changed : /\ QueueOK(r) /\ Change(q, r) /\ Stamped(r, changed)
                          /\ Publish(r, changed)
    BY <1>4 DEF PublishStep
  <2>2. q' = IncrementVersion(r) /\ r.version = q.version /\ known.age < MaxAge
    BY <2>1 DEF Publish, Change, Stamps, CanAge
  <2>3. /\ known1.version = known.version /\ known1.age = known.age + 1
        /\ \/ client.answer = NoAnswer /\ client'.answer = NoAnswer
           \/ /\ client'.answer.version = client.answer.version
              /\ client'.answer.age = client.answer.age + 1
        /\ client'.stale = client.stale \cup changed
    BY <2>1, PublishedClient DEF Stamped
  <2>4. /\ Positions(q') = Positions(r)
        /\ \/ q'.version = q.version + 1 /\ q'.items = r.items
           \/ /\ q.version = VersionMax - 1 /\ q'.version = 1
              /\ \A p \in Positions(r) : q'.items[p].version = 0
    BY <2>1, <2>2, IncrementVersionShape
  <2>5. ASSUME NEW a, NEW b, a.version \in 0 .. (VersionMax - 1),
               a.age \in 0 .. MaxAge, a.age < MaxAge, InStep(a),
               b.version = a.version, b.age = a.age + 1
        PROVE  \/ q'.version = b.version + b.age
               \/ q'.version + VersionMax - 1 = b.version + b.age
    <3>1. CASE q'.version = q.version + 1
      BY <1>2, <2>5, <3>1 DEF InStep
    <3>2. CASE q.version = VersionMax - 1 /\ q'.version = 1
      BY <1>2, <2>5, <3>2 DEF InStep
    <3> QED BY <2>4, <3>1, <3>2
  <2>6. \/ q'.version = known1.version + known1.age
        \/ q'.version + VersionMax - 1 = known1.version + known1.age
    BY <1>2, <2>2, <2>3, <2>5 DEF VInv
  <2>7. \/ client'.answer = NoAnswer
        \/ q'.version = client'.answer.version + client'.answer.age
        \/ q'.version + VersionMax - 1 = client'.answer.version + client'.answer.age
    <3>1. CASE client.answer = NoAnswer
      BY <2>1, <3>1 DEF Publish
    <3>2. CASE client.answer # NoAnswer
      <4>1. InStep(client.answer)
        BY <3>2 DEF VInv
      <4>2. client.answer.age < MaxAge
        BY <1>2, <2>2
      <4> QED BY <1>2, <2>3, <2>5, <3>2, <4>1, <4>2
    <3> QED BY <3>1, <3>2
  <2>8. ASSUME q'.version = known1.version + known1.age
        PROVE  Newer(q', client'.stale, known1.version)
    <3>1. CASE q'.version = q.version + 1 /\ q'.items = r.items
      <4>1. q.version = known.version + known.age
        BY <1>2, <2>3, <2>8, <3>1
      <4>2. Newer(r, client.stale \cup changed, known.version)
        BY <1>3, <2>1, <4>1, Zenon
      <4> QED BY <2>3, <2>4, <3>1, <4>2 DEF Newer
    <3>2. CASE \A p \in Positions(r) : q'.items[p].version = 0
      BY <2>4, <3>2 DEF Newer
    <3> QED BY <2>4, <3>1, <3>2
  <2> QED BY <1>2, <2>3, <2>6, <2>7, <2>8 DEF VInv, InStep, StaleIsNewer
<1>5. CASE PostponeStep
  <2>1. PICK r : /\ QueueOK(r) /\ Change(q, r) /\ Stamped(r, Changed(q, r))
                 /\ Postpone(r)
    BY <1>5 DEF PostponeStep
  <2>2. /\ q' = r /\ q'.version = q.version
        /\ client' = [client EXCEPT !.stale = @ \cup Changed(q, r)]
    BY <2>1 DEF Postpone, Change, Stamps
  <2>3. /\ client'.known = client.known /\ client'.answer = client.answer
        /\ client'.stale = client.stale \cup Changed(q, r)
    BY <2>2 DEF QInv, QueueInvariant
  <2>4. ASSUME q.version = known.version + known.age
        PROVE  Newer(r, client.stale \cup Changed(q, r), known.version)
    BY <1>3, <2>1, <2>4
  <2> QED BY <2>2, <2>3, <2>4 DEF VInv, InStep, StaleIsNewer
<1>6. CASE SilentStep
  <2>1. Change(q, q') /\ QueueOK(q') /\ client' = client /\ q'.version = q.version
    BY <1>6 DEF SilentStep, Change, Stamps
  <2>2. Stamped(q', {})
    BY DEF Stamped
  <2>3. ASSUME q.version = known.version + known.age
        PROVE  Newer(q', client.stale \cup {}, known.version)
    BY <1>3, <2>1, <2>2, <2>3
  <2> QED BY <2>1, <2>3 DEF VInv, InStep, StaleIsNewer
<1>7. CASE Status
  <2>1. /\ q' = q /\ client'.known = client.known
        /\ client'.answer = [version |-> q.version, age |-> 0]
        /\ client'.stale = client.stale
    BY <1>7 DEF Status, QInv, QueueInvariant
  <2> QED BY <1>2, <2>1 DEF VInv, InStep, StaleIsNewer
<1>8. CASE PlChanges
  <2>1. /\ q' = q /\ client'.known = client.answer /\ client'.answer = NoAnswer
        /\ client'.stale = {p \in client.stale \cap Positions(q) :
                              ~IsNewerAtPosition(q, p, client.known.version)}
        /\ client.answer.version # 0
    BY <1>8 DEF PlChanges
  <2>2. client'.stale = {}
    BY <2>1, VInvIsEnough DEF NoMissedChange
  <2>3. client.answer # NoAnswer
    BY <2>1, NoAnswerOK
  <2> QED BY <1>2, <2>1, <2>2, <2>3 DEF VInv, InStep, StaleIsNewer, Newer
<1> QED BY <1>1, <1>4, <1>5, <1>6, <1>7, <1>8 DEF StepShape

\* A client that mirrors the queue with "status" and "plchanges" hears of
\* every position that changed, whatever edits, bulk edits and reshuffles
\* happen between its commands, and although Queue::IncrementVersion()
\* (src/Queue.cxx) wraps - provided that fewer than VersionMax - 1 changes
\* fall between two of its requests.
THEOREM ClientsMissNothing ==
  ASSUME MaxAge <= VersionMax - 2
  PROVE  Spec => []NoMissedChange
<1>1. Init => QInv /\ VInv
  <2> SUFFICES ASSUME Init PROVE QInv /\ VInv
    OBVIOUS
  <2>1. QueueOK(q) /\ bulk = "none" /\ q.version = 1
    BY EmptyQueueOK DEF Init, EmptyQueue
  <2>2. client = [known |-> [version |-> 1, age |-> 0], answer |-> NoAnswer,
                  stale |-> {}]
    BY DEF Init
  <2>3. [version |-> 1, age |-> 0] \in Answer
    BY QueueAssumption, MaxAgeAssumption DEF Answer
  <2>4. QInv
    BY <2>1, <2>2, <2>3, NoAnswerOK DEF QInv, QueueInvariant, AnswerIsYounger
  <2>5. VInv
    BY <2>1, <2>2 DEF VInv, InStep, StaleIsNewer, Newer
  <2> QED BY <2>4, <2>5
<1>2. QInv /\ VInv /\ [Next]_vars => (QInv /\ VInv)'
  BY QInvStep, VInvStep
<1>3. QInv /\ VInv => NoMissedChange
  BY VInvIsEnough
<1> QED BY <1>1, <1>2, <1>3, PTL DEF Spec
-----------------------------------------------------------------------------
(* The ids.                                                                *)

\* IncrementVersion() keeps every song at its id.
LEMMA IncrementVersionKeepsIds ==
  ASSUME NEW r, QueueOK(r)
  PROVE  LET s == IncrementVersion(r)
         IN  /\ s.data = r.data
             /\ \A p \in Positions(r) : s.items[p].song = r.items[p].song
<1> DEFINE s == IncrementVersion(r)
<1>1. s.data = r.data
  BY DEF IncrementVersion, QueueOK, QueueTypeOK, QueueFields
<1>2. CASE r.version + 1 >= VersionMax
  <2>1. s.items = [p \in Positions(r) |-> [r.items[p] EXCEPT !.version = 0]]
    BY <1>2 DEF IncrementVersion, QueueOK, QueueTypeOK, QueueFields
  <2>2. ASSUME NEW p \in Positions(r)
        PROVE  s.items[p].song = r.items[p].song
    <3>1. r.items[p] \in Item
      BY DEF QueueOK, QueueTypeOK
    <3>2. s.items[p] = [r.items[p] EXCEPT !.version = 0]
      BY <2>1
    <3> QED BY <3>1, <3>2 DEF Item
  <2> QED BY <1>1, <2>2
<1>3. CASE ~(r.version + 1 >= VersionMax)
  <2>1. s.items = r.items
    BY <1>3 DEF IncrementVersion, QueueOK, QueueTypeOK, QueueFields
  <2> QED BY <1>1, <2>1
<1> QED BY <1>2, <1>3

\* An id that is in use before and after a change has the same song: nothing
\* but a song that is added gets an id, and that one was free.
LEMMA ChangeKeepsIds ==
  ASSUME NEW r, QueueOK(q), QueueOK(r), Change(q, r),
         NEW id \in Ids, q.data[id] >= 0, r.data[id] >= 0
  PROVE  IdOf(r, id) = IdOf(q, id)
<1> DEFINE p == r.data[id]
<1>1. p \in Positions(r) /\ r.items[p].id = id
  BY DEF QueueOK, IdTableMatches
<1>2. ~(q.data[r.items[p].id] < 0)
  <2>1. q.data[id] \in Int
    BY QueueAssumption DEF QueueOK, QueueTypeOK
  <2> QED BY <1>1, <2>1
<1>3. From(q, r.items[p])
  BY <1>1, <1>2 DEF Change
<1>4. PICK t \in Positions(q) : /\ id = q.items[t].id
                                /\ r.items[p].song = q.items[t].song
  BY <1>1, <1>3 DEF From
<1>5. q.data[id] = t
  BY <1>4 DEF QueueOK, IdTableMatches
<1> QED BY <1>4, <1>5 DEF IdOf

\* Every step keeps the ids.
LEMMA IdsStep ==
  ASSUME QInv, [Next]_vars
  PROVE  \A id \in Ids : q.data[id] >= 0 /\ q'.data[id] >= 0 =>
           IdOf(q', id) = IdOf(q, id)
<1> SUFFICES ASSUME NEW id \in Ids, q.data[id] >= 0, q'.data[id] >= 0
             PROVE  IdOf(q', id) = IdOf(q, id)
  OBVIOUS
<1>1. QueueOK(q) /\ StepShape
  BY NextShape DEF QInv, QueueInvariant
<1>2. CASE PublishStep
  <2>1. PICK r : QueueOK(r) /\ Change(q, r) /\ q' = IncrementVersion(r)
    BY <1>2 DEF PublishStep, Publish
  <2>2. /\ q'.data = r.data
        /\ \A p \in Positions(r) : q'.items[p].song = r.items[p].song
    BY <2>1, IncrementVersionKeepsIds
  <2>3. IdOf(r, id) = IdOf(q, id)
    BY <1>1, <2>1, <2>2, ChangeKeepsIds
  <2>4. r.data[id] \in Positions(r)
    BY <2>1, <2>2 DEF QueueOK, IdTableMatches
  <2> QED BY <2>2, <2>3, <2>4 DEF IdOf
<1>3. CASE PostponeStep
  <2>1. PICK r : QueueOK(r) /\ Change(q, r) /\ q' = r
    BY <1>3 DEF PostponeStep, Postpone
  <2> QED BY <1>1, <2>1, ChangeKeepsIds
<1>4. CASE SilentStep
  BY <1>1, <1>4, ChangeKeepsIds DEF SilentStep
<1>5. CASE Status \/ PlChanges
  BY <1>5 DEF Status, PlChanges
<1> QED BY <1>1, <1>2, <1>3, <1>4, <1>5 DEF StepShape

\* "the unique id (which stays the same, regardless of moves)"
\* (src/Queue.hxx): no edit, in bulk or not, lets an id that is in use change
\* hands, though IdTable::GenerateId() wraps around and gives out again the
\* ids of deleted songs.
THEOREM IdsStayStable == Spec => IdsAreStable
<1>1. Init => QInv
  BY QInvInit
<1>2. QInv /\ [Next]_vars => QInv'
  BY QInvStep
<1>3. QInv /\ [Next]_vars =>
        [\A id \in Ids : q.data[id] >= 0 /\ q'.data[id] >= 0 =>
           IdOf(q', id) = IdOf(q, id)]_vars
  BY IdsStep
<1> QED BY <1>1, <1>2, <1>3, PTL DEF Spec, IdsAreStable
=============================================================================
