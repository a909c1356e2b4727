---------------------------- MODULE QueueChanges ----------------------------
(***************************************************************************)
(* The queue's version numbers, and the clients that follow them.          *)
(*                                                                         *)
(* Every edit of the queue stamps the positions it changed with the        *)
(* queue's version and increments the version (playlist::OnModified(), at  *)
(* the end of a bulk edit in CommitBulk()).  A client that wants to mirror *)
(* the queue asks "status" for the version and "plchanges VERSION" for the *)
(* positions that changed since the version it knows; other clients may    *)
(* edit the queue between the two commands.  The server keeps nothing      *)
(* about the client: the client's knowledge is a set of stale positions,   *)
(* the ones whose song, id or priority changed since it last heard of them.*)
(*                                                                         *)
(* Playback is not modelled here (module Playlist does that): the order    *)
(* numbers the playlist passes to the queue are arbitrary.                 *)
(***************************************************************************)
EXTENDS Queue

CONSTANT MaxAge   \* changes a client may miss before it asks again

ASSUME MaxAgeAssumption == MaxAge \in Nat

VARIABLES
  q,       \* the queue
  bulk,    \* bulk_edit and bulk_modified: "none", "open" or "modified"
  client   \* the version it knows and how many changes ago that was, the
           \* same for the answer to "status", and its stale positions

vars == <<q, bulk, client>>

AllPositions == 0 .. (MaxLength - 1)

NoAnswer == [version |-> 0, age |-> 0]

Init ==
  /\ q = EmptyQueue
  /\ bulk = "none"
  /\ client = [known |-> [version |-> 1, age |-> 0], answer |-> NoAnswer,
               stale |-> {}]

-----------------------------------------------------------------------------
(* What a client sees of a position.                                       *)
View(r, p) ==
  IF p \in Positions(r)
  THEN <<r.items[p].song, r.items[p].id, r.items[p].priority>>
  ELSE <<>>

Changed(r, s) == {p \in AllPositions : View(r, p) # View(s, p)}

Older(answer) == [answer EXCEPT !.age = @ + 1]

CanAge == client.known.age < MaxAge

\* The queue goes to r, where changed differs, and to the next version.
Publish(r, changed) ==
  /\ CanAge
  /\ q' = IncrementVersion(r)
  /\ client' = [known |-> Older(client.known),
                answer |-> IF client.answer = NoAnswer THEN NoAnswer
                                                       ELSE Older(client.answer),
                stale |-> client.stale \cup changed]

\* The queue goes to r inside a bulk edit.
Postpone(r) ==
  /\ q' = r
  /\ client' = [client EXCEPT !.stale = @ \cup Changed(q, r)]

OnModified(r) ==
  \/ /\ bulk = "none"
     /\ Publish(r, Changed(q, r))
     /\ UNCHANGED bulk
  \/ /\ bulk # "none"
     /\ Postpone(r)
     /\ bulk' = "modified"

-----------------------------------------------------------------------------
(* The edits.                                                              *)

\* The new song is shuffled into the orders from start on.
AppendSong(song) ==
  /\ ~IsFull(q)
  /\ LET r == AppendItem(q, song, 0)
     IN  IF q.random
         THEN \E start \in 0 .. q.length :
                \E s \in ShuffleOrderLast(r, start, r.length) : OnModified(s)
         ELSE OnModified(r)

\* Only "add", "findadd", "searchadd" and "load" edit in bulk.
BeginBulk ==
  /\ bulk = "none"
  /\ CanAge
  /\ bulk' = "open"
  /\ UNCHANGED <<q, client>>

CommitBulk ==
  /\ bulk # "none"
  /\ bulk' = "none"
  /\ IF bulk = "modified" THEN Publish(q, {}) ELSE UNCHANGED <<q, client>>

Swap(p1, p2) ==
  /\ bulk = "none"
  /\ LET r == SwapPositions(q, p1, p2)
     IN  OnModified(IF q.random
                    THEN SwapOrders(r, PositionToOrder(r, p1),
                                       PositionToOrder(r, p2))
                    ELSE r)

Move(start, end, to) ==
  /\ bulk = "none"
  /\ to # start
  /\ OnModified(MoveRange(q, start, end, to))

DeletedRange(start, end) ==
  LET left[n \in 0 .. (end - start)] ==
        IF n = 0 THEN q ELSE DeletePosition(left[n - 1], end - n)
  IN  left[end - start]

DeleteRange(start, end) ==
  /\ bulk = "none"
  /\ OnModified(DeletedRange(start, end))

Clear ==
  /\ bulk = "none"
  /\ OnModified(ClearQueue(q))

Shuffle(start, end) ==
  /\ bulk = "none"
  /\ start + 1 < end
  /\ \E r \in ShuffleRange(q, start, end) : OnModified(r)

SetPrio(start, end, priority, current) ==
  /\ bulk = "none"
  /\ \E r \in SetPriorityRange(q, start, end, priority, current) :
       OnModified(r)

SetRandom(status) ==
  /\ bulk = "none"
  /\ status # q.random
  /\ LET r == [q EXCEPT !.random = status]
     IN  q' \in IF status THEN ShuffleOrder(r) ELSE {RestoreOrder(r)}
  /\ UNCHANGED <<bulk, client>>

\* New tags, from a stream (TagModified) or from the database
\* (DatabaseModified).  They are not part of the state: the positions become
\* stale.
UpdateTags(positions) ==
  /\ bulk = "none"
  /\ positions # {}
  /\ LET r == [q EXCEPT !.items =
                 [p \in Positions(q) |->
                    IF p \in positions THEN Stamp(q, q.items[p])
                                       ELSE q.items[p]]]
     IN  Publish(r, positions)
  /\ UNCHANGED bulk

-----------------------------------------------------------------------------
(* The client.                                                             *)

Status ==
  /\ bulk = "none"
  /\ client.answer = NoAnswer
  /\ client' = [client EXCEPT !.answer = [version |-> q.version, age |-> 0]]
  /\ UNCHANGED <<q, bulk>>

\* It hears of every position that is newer than the version it knows.
PlChanges ==
  /\ bulk = "none"
  /\ client.answer.version # 0
  /\ client' = [known |-> client.answer, answer |-> NoAnswer,
                stale |-> {p \in client.stale \cap Positions(q) :
                   ~IsNewerAtPosition(q, p, client.known.version)}]
  /\ UNCHANGED <<q, bulk>>

Ranges(r) == {range \in Positions(r) \X (1 .. r.length) : range[1] < range[2]}

Next ==
  \/ \E song \in Songs : AppendSong(song)
  \/ BeginBulk
  \/ CommitBulk
  \/ \E p1, p2 \in Positions(q) : Swap(p1, p2)
  \/ \E range \in Ranges(q), to \in Positions(q) :
       /\ to + range[2] - range[1] <= q.length
       /\ Move(range[1], range[2], to)
  \/ \E range \in Ranges(q) : DeleteRange(range[1], range[2])
  \/ Clear
  \/ \E range \in Ranges(q) : Shuffle(range[1], range[2])
  \/ \E range \in Ranges(q), priority \in Priorities,
        current \in -1 .. (q.length - 1) :
       SetPrio(range[1], range[2], priority, current)
  \/ \E status \in BOOLEAN : SetRandom(status)
  \/ \E positions \in SUBSET Positions(q) : UpdateTags(positions)
  \/ Status
  \/ PlChanges

Spec == Init /\ [][Next]_vars

-----------------------------------------------------------------------------
Answer == [version : 0 .. (VersionMax - 1), age : 0 .. MaxAge]

\* Every variable keeps its type and the queue its shape: order is a
\* permutation of the positions (of which the identity is the only one
\* outside random mode), and the id table knows exactly the queued items.
\* Every edit of src/Queue.cxx rearranges all three arrays.
QueueInvariant ==
  /\ QueueOK(q)
  /\ bulk \in {"none", "open", "modified"}
  /\ client \in [known : Answer, answer : Answer, stale : SUBSET AllPositions]

\* A position the client has not heard of is one that plchanges reports
\* (IsNewerAtPosition() in src/Queue.hxx), whatever the edits and the
\* wrap-arounds of the version in between.
NoMissedChange ==
  \A p \in client.stale \cap Positions(q) :
    IsNewerAtPosition(q, p, client.known.version)

\* "the unique id (which stays the same, regardless of moves)"
\* (src/Queue.hxx): an id that is in use before and after an edit stands for
\* the same song, though IdTable::GenerateId() wraps and reuses the ids of
\* deleted songs.
IdOf(r, id) == r.items[r.data[id]].song

IdsAreStable ==
  [][\A id \in Ids : q.data[id] >= 0 /\ q'.data[id] >= 0 =>
       IdOf(q', id) = IdOf(q, id)]_vars
=============================================================================
