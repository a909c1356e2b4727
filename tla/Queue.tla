------------------------------- MODULE Queue -------------------------------
(***************************************************************************)
(* The play queue (src/Queue.cxx, src/Queue.hxx, src/IdTable.hxx).         *)
(*                                                                         *)
(* A queue is a record, and every method of the C++ class is an operator   *)
(* from queues to queues (to sets of queues when the method draws random   *)
(* numbers), because the playlist calls several of them in one operation.  *)
(* Module QueueChanges turns them into a state machine, module Playlist    *)
(* uses them for the playlist's own operations.                            *)
(*                                                                         *)
(*   length             number of songs                                    *)
(*   items              position -> [song, id, version, priority]          *)
(*   order              order number -> position                           *)
(*   data, next         the IdTable: id -> position (or -1), next id       *)
(*   version            the queue's version number                         *)
(*   repeat, single, consume, random                                       *)
(*                                                                         *)
(* Every queued item owns a private copy of its Song (DupDetached), so the *)
(* id of an item also stands for the Song pointers the playlist compares.  *)
(***************************************************************************)
EXTENDS Integers, FiniteSetsExt

CONSTANTS
  Songs,       \* what an item plays: URI and tag
  Priorities,  \* the priorities in use, a part of 0..255
  MaxLength,   \* max_playlist_length
  HashMult,    \* Queue::HASH_MULT
  VersionMax   \* the limit of IncrementVersion(), 2^31 - 1 in the code

ASSUME QueueAssumption ==
  /\ MaxLength \in Nat \ {0}
  /\ HashMult \in Nat \ {0, 1}
  /\ VersionMax \in Nat \ {0, 1}
  /\ Priorities \subseteq 0..255
  /\ 0 \in Priorities

IdSize == MaxLength * HashMult

Ids == 1 .. (IdSize - 1)

Versions == 0 .. (VersionMax - 1)

Item == [song : Songs, id : Ids, version : Versions, priority : Priorities]

Positions(q) == 0 .. (q.length - 1)

IsFull(q) == q.length >= MaxLength

EmptyQueue ==
  [length |-> 0, items |-> [p \in {} |-> p], order |-> [o \in {} |-> o],
   data |-> [i \in Ids |-> -1], next |-> 1, version |-> 1,
   repeat |-> FALSE, single |-> FALSE, consume |-> FALSE, random |-> FALSE]

-----------------------------------------------------------------------------
(* Lookups.                                                                *)

IdToPosition(q, id) == IF id \in Ids THEN q.data[id] ELSE -1

PositionToOrder(q, position) ==
  CHOOSE o \in Positions(q) : q.order[o] = position

OrderItem(q, o) == q.items[q.order[o]]

\* Mutant: a version from before the wrap-around is not recognised.
IsNewerNoWrap(q, position, version) ==
  \/ q.items[position].version >= version
  \/ q.items[position].version = 0

\* Where plchanges looks: is this position newer than the client's version?
IsNewerAtPosition(q, position, version) ==
  \/ version > q.version
  \/ q.items[position].version >= version
  \/ q.items[position].version = 0

GetNextOrder(q, o) ==
  IF q.single /\ q.repeat /\ ~q.consume THEN o
  ELSE IF o + 1 < q.length THEN o + 1
  ELSE IF q.repeat /\ (o > 0 \/ ~q.consume) THEN 0
  ELSE -1

-----------------------------------------------------------------------------
(* Version numbers.                                                        *)

IncrementVersion(q) ==
  IF q.version + 1 >= VersionMax
  THEN [q EXCEPT !.version = 1,
                 !.items = [p \in Positions(q) |->
                              [q.items[p] EXCEPT !.version = 0]]]
  ELSE [q EXCEPT !.version = @ + 1]

Stamp(q, item) == [item EXCEPT !.version = q.version]

-----------------------------------------------------------------------------
(* Ids.  GenerateId() walks from next over the ids in use, and wraps from  *)
(* the last id to 1.                                                       *)

FreeIds(q) == {i \in Ids : q.data[i] < 0}

\* Mutant: the next id is taken without a look at the table.
GenerateIdUnchecked(q) == q.next

GenerateId(q) ==
  LET ahead == {i \in FreeIds(q) : i >= q.next}
  IN  Min(IF ahead # {} THEN ahead ELSE FreeIds(q))

IdAfter(id) == IF id + 1 = IdSize THEN 1 ELSE id + 1

\* Mutant: Erase() is forgotten.
EraseIdForgotten(data, id) == data

EraseId(data, id) == [data EXCEPT ![id] = -1]

\* id_table.Move() for the items that now stand at the positions in moved.
MoveIds(data, items, moved) ==
  [i \in Ids |-> IF \E p \in moved : items[p].id = i
                 THEN CHOOSE p \in moved : items[p].id = i
                 ELSE data[i]]

-----------------------------------------------------------------------------
(* Editing the positions.                                                  *)

AppendItem(q, song, priority) ==
  LET id == GenerateId(q)
      item == [song |-> song, id |-> id, version |-> q.version,
               priority |-> priority]
  IN  [q EXCEPT !.length = @ + 1,
                !.items = [p \in 0 .. q.length |->
                             IF p = q.length THEN item ELSE q.items[p]],
                !.order = [o \in 0 .. q.length |->
                             IF o = q.length THEN q.length ELSE q.order[o]],
                !.data[id] = q.length,
                !.next = IdAfter(id)]

\* The items of the positions in moved are replaced by those at source[p].
Rearrange(q, source, moved) ==
  LET items == [p \in Positions(q) |->
                  IF p \in moved THEN Stamp(q, q.items[source[p]])
                                 ELSE q.items[p]]
  IN  [q EXCEPT !.items = items, !.data = MoveIds(@, items, moved)]

SwapPositions(q, p1, p2) ==
  Rearrange(q, [p \in Positions(q) |-> IF p = p1 THEN p2
                                       ELSE IF p = p2 THEN p1 ELSE p],
            {p1, p2})

\* Moving the block start .. end - 1 to to: the positions it disturbs, where
\* each of them gets its item from, and where a position goes.
MoveHull(start, end, to) ==
  IF to < start THEN to .. (end - 1) ELSE start .. (to + end - start - 1)

MoveSource(start, end, to, p) ==
  IF to <= p /\ p < to + (end - start) THEN p + start - to
  ELSE IF start <= p /\ p < to THEN p + (end - start)
  ELSE IF to + (end - start) <= p /\ p < end THEN p - (end - start)
  ELSE p

MoveTarget(start, end, to, p) ==
  IF end <= p /\ p < to + end - start THEN p - (end - start)
  ELSE IF p < start /\ to <= p THEN p + (end - start)
  ELSE IF start <= p /\ p < end THEN p + (to - start)
  ELSE p

MoveRange(q, start, end, to) ==
  LET moved == Rearrange(q, [p \in Positions(q) |->
                               MoveSource(start, end, to, p)],
                         MoveHull(start, end, to))
  IN  IF q.random
      THEN [moved EXCEPT !.order = [o \in Positions(q) |->
                           MoveTarget(start, end, to, q.order[o])]]
      ELSE moved

DeletePosition(q, position) ==
  LET n == q.length - 1
      o == PositionToOrder(q, position)
      items == [p \in 0 .. (n - 1) |->
                  IF p < position THEN q.items[p]
                                  ELSE Stamp(q, q.items[p + 1])]
      order == [k \in 0 .. (n - 1) |->
                  q.order[IF k < o THEN k ELSE k + 1]]
  IN  [q EXCEPT !.length = n,
                !.items = items,
                !.data = MoveIds(EraseId(@, q.items[position].id), items,
                                position .. (n - 1)),
                !.order = [k \in 0 .. (n - 1) |->
                             IF order[k] > position THEN order[k] - 1
                                                    ELSE order[k]]]

ClearQueue(q) ==
  [q EXCEPT !.length = 0,
            !.items = [p \in {} |-> p],
            !.order = [o \in {} |-> o],
            !.data = [i \in Ids |->
                        IF \E p \in Positions(q) : q.items[p].id = i
                        THEN -1 ELSE q.data[i]]]

\* ShuffleRange(): random swaps inside the range reach every permutation.
ShuffleRange(q, start, end) ==
  LET range == start .. (end - 1)
      sources == {s \in [Positions(q) -> Positions(q)] :
                    /\ \A p \in Positions(q) \ range : s[p] = p
                    /\ \A p \in range : s[p] \in range
                    /\ \A p, r \in range : s[p] = s[r] => p = r
                    /\ \A r \in range : \E p \in range : s[p] = r}
  IN  {Rearrange(q, s, range) : s \in sources}

-----------------------------------------------------------------------------
(* Editing the order.                                                      *)

RestoreOrder(q) == [q EXCEPT !.order = [o \in Positions(q) |-> o]]

SwapOrders(q, o1, o2) ==
  [q EXCEPT !.order = [o \in Positions(q) |->
                         IF o = o1 THEN q.order[o2]
                         ELSE IF o = o2 THEN q.order[o1] ELSE q.order[o]]]

MoveOrder(q, from, to) ==
  [q EXCEPT !.order = [o \in Positions(q) |->
                         IF o = to THEN q.order[from]
                         ELSE IF from <= o /\ o < to THEN q.order[o + 1]
                         ELSE IF to < o /\ o <= from THEN q.order[o - 1]
                         ELSE q.order[o]]]

\* Sorted by priority, and every group of equal priority shuffled.
ShuffleOrderRangeWithPriority(q, start, end) ==
  LET range == start .. (end - 1)
      orders == {f \in [Positions(q) -> Positions(q)] :
                   /\ \A o \in Positions(q) \ range : f[o] = q.order[o]
                   /\ \A o \in range : \E k \in range : f[o] = q.order[k]
                   /\ \A o, k \in range : f[o] = f[k] => o = k
                   /\ \A k \in range : \E o \in range : f[o] = q.order[k]
                   /\ \A o, k \in range :
                        o < k => q.items[f[o]].priority
                                   >= q.items[f[k]].priority}
  IN  {[q EXCEPT !.order = f] : f \in orders}

ShuffleOrder(q) == ShuffleOrderRangeWithPriority(q, 0, q.length)

ShuffleOrderFirst(q, start, end) ==
  {SwapOrders(q, start, o) : o \in start .. (end - 1)}

ShuffleOrderLast(q, start, end) ==
  {SwapOrders(q, end - 1, o) : o \in start .. (end - 1)}

-----------------------------------------------------------------------------
(* Priorities.                                                             *)

FindPriorityOrder(q, start, priority, exclude) ==
  Min({o \in start .. (q.length - 1) :
         OrderItem(q, o).priority <= priority /\ o # exclude}
      \cup {q.length})

CountSamePriority(q, start, priority) ==
  Min({o \in start .. (q.length - 1) : OrderItem(q, o).priority # priority}
      \cup {q.length}) - start

\* The song at order o moves behind after_order into its priority group.
Reprioritize(q, o, priority, after_order) ==
  LET before == FindPriorityOrder(q, after_order + 1, priority, o)
      new_order == IF before > o THEN before - 1 ELSE before
      moved == MoveOrder(q, o, new_order)
      count == CountSamePriority(moved, new_order, priority)
  IN  ShuffleOrderFirst(moved, new_order, new_order + count)

\* A song already played is enqueued again only if its priority has just
\* become bigger than the current song's.
PlayedAndNotRaised(q, o, old, priority, after_order) ==
  /\ o < after_order
  /\ LET after == OrderItem(q, after_order).priority
     IN  old > after \/ priority <= after

SetPriority(q, position, priority, after_order) ==
  LET old == q.items[position].priority
      set == [q EXCEPT !.items[position] =
                         [Stamp(q, @) EXCEPT !.priority = priority]]
      o == PositionToOrder(q, position)
  IN  IF old = priority THEN {q}
      ELSE IF \/ ~q.random
              \/ o = after_order
              \/ PlayedAndNotRaised(set, o, old, priority, after_order)
      THEN {set}
      ELSE Reprioritize(set, o, priority, after_order)

\* after_order is looked up again for every song, since the calls move it.
AfterOrder(q, after_position) ==
  IF after_position >= 0 THEN PositionToOrder(q, after_position) ELSE -1

SetPriorityRange(q, start, end, priority, after_order) ==
  LET after_position == IF after_order >= 0 THEN q.order[after_order] ELSE -1
      result[i \in start .. end] ==
        IF i = start THEN {q}
        ELSE UNION {SetPriority(r, i - 1, priority,
                                AfterOrder(r, after_position)) :
                      r \in result[i - 1]}
  IN  result[end]

-----------------------------------------------------------------------------
(* The structural invariant, in parts.                                     *)

QueueFields == {"length", "items", "order", "data", "next", "version",
                "repeat", "single", "consume", "random"}

QueueTypeOK(q) ==
  /\ DOMAIN q = QueueFields
  /\ q.length \in 0 .. MaxLength
  /\ q.items \in [Positions(q) -> Item]
  /\ q.order \in [Positions(q) -> Positions(q)]
  /\ q.data \in [Ids -> -1 .. (MaxLength - 1)]
  /\ q.next \in Ids
  /\ q.version \in 1 .. (VersionMax - 1)
  /\ q.repeat \in BOOLEAN /\ q.single \in BOOLEAN
  /\ q.consume \in BOOLEAN /\ q.random \in BOOLEAN

\* order maps the order numbers one to one onto the positions.
OrderIsPermutation(q) ==
  /\ \A o, k \in Positions(q) : q.order[o] = q.order[k] => o = k
  /\ \A p \in Positions(q) : \E o \in Positions(q) : q.order[o] = p

\* The IdTable finds every item, and nothing but the items.
IdTableMatches(q) ==
  /\ \A p \in Positions(q) : q.data[q.items[p].id] = p
  /\ \A i \in Ids : q.data[i] >= 0 =>
       /\ q.data[i] \in Positions(q)
       /\ q.items[q.data[i]].id = i

\* "order number (which only differs from position in random mode)"
OrderIsPosition(q) == q.random \/ \A o \in Positions(q) : q.order[o] = o

QueueOK(q) ==
  /\ QueueTypeOK(q)
  /\ OrderIsPermutation(q)
  /\ IdTableMatches(q)
  /\ OrderIsPosition(q)
=============================================================================
