------------------------------ MODULE Playlist ------------------------------
(***************************************************************************)
(* The playlist and the player it drives (src/Playlist.cxx,                *)
(* src/PlaylistControl.cxx, src/PlaylistEdit.cxx, src/PlayerControl.cxx).  *)
(*                                                                         *)
(* Two threads: the main thread runs one client command or event handler   *)
(* at a time to its end; the player thread plays.  A handler talks to the  *)
(* player through synchronous calls of PlayerControl, and between two of   *)
(* them the player goes on by itself: it starts the queued song, runs dry, *)
(* fails, pauses.  It reports that with the PLAYLIST event, which the main *)
(* thread sees only after the handler it is in.                            *)
(*                                                                         *)
(* A handler is an operator from playlists to sets of playlists (the       *)
(* queue's shuffles are random); it appends the calls it makes to          *)
(* pl.calls, and the next handler waits until all of them are done.  The   *)
(* player thread is modelled by what its calls and its loop promise.       *)
(***************************************************************************)
EXTENDS Queue, Sequences

CONSTANTS
  Loaded,       \* the songs in the queue at the start (the state file)
  Bad,          \* the songs no decoder can play
  Commands,     \* the client commands of this instance
  MaxBlock,     \* the largest block of songs a "move" command moves
  MaxAppends,   \* how many songs clients may add
  Forgetful     \* whether the songs tried are left out of the state

ASSUME PlaylistAssumption ==
  /\ Loaded \in Seq(Songs) /\ Len(Loaded) \in 1 .. MaxLength
  /\ Bad \subseteq Songs
  /\ MaxBlock \in Nat /\ MaxAppends \in Nat
  /\ Forgetful \in BOOLEAN

VARIABLES
  pl,        \* struct playlist, and the calls its handler has yet to make
  player,    \* what PlayerControl shows of the player thread
  event,     \* is GlobalEvents::PLAYLIST pending?
  tried      \* the songs that were started since a client asked for one

vars == <<pl, player, event, tried>>

None == 0   \* no song; a song is the id of its queue item

QueueOf(songs) ==
  LET q[n \in 0 .. Len(songs)] ==
        IF n = 0 THEN EmptyQueue ELSE AppendItem(q[n - 1], songs[n], 0)
  IN  q[Len(songs)]

Init ==
  /\ pl = [queue |-> QueueOf(Loaded), playing |-> FALSE, current |-> -1,
           queued |-> -1, stop_on_error |-> FALSE, error_count |-> 0,
           bulk_edit |-> FALSE, bulk_modified |-> FALSE,
           appended |-> 0, calls |-> <<>>, ok |-> TRUE]
  /\ player = [state |-> "STOP", song |-> None, next |-> None,
               error |-> "NONE", border_pause |-> FALSE]
  /\ event = FALSE
  /\ tried = {}

-----------------------------------------------------------------------------
(* Handlers call PlayerControl, check their assertions, and go on from     *)
(* every outcome of a random choice.                                       *)

Call(s, cmd, song) ==
  [s EXCEPT !.calls = Append(@, [cmd |-> cmd, song |-> song])]

Assert(s, condition) == [s EXCEPT !.ok = @ /\ condition]

Then(states, Step(_)) == UNION {Step(s) : s \in states}

SongAt(s, o) == OrderItem(s.queue, o).id

GetQueuedSong(s) ==
  IF s.playing /\ s.queued >= 0 THEN SongAt(s, s.queued) ELSE None

GetCurrentPosition(s) ==
  IF s.current >= 0 THEN s.queue.order[s.current] ELSE -1

OnModified(s) ==
  IF s.bulk_edit THEN [s EXCEPT !.bulk_modified = TRUE]
                 ELSE [s EXCEPT !.queue = IncrementVersion(@)]

\* Mutant: current stays where it was.
FollowCurrentForgotten(s, q) == s.current

\* The order of the current song after the order has become that of q.
FollowCurrent(s, q) ==
  IF s.current >= 0 THEN PositionToOrder(q, GetCurrentPosition(s))
                    ELSE s.current

Reshuffled(s) ==
  {[s EXCEPT !.queue = q, !.current = FollowCurrent(s, q)] :
     q \in ShuffleOrder(s.queue)}

QueueSongOrder(s, o) ==
  Call([s EXCEPT !.queued = o], "ENQUEUE", SongAt(s, o))

\* Mutant: the old queued song is not cancelled.
RequeueWithoutCancel(s, prev, next_order) ==
  IF next_order < 0 THEN s ELSE QueueSongOrder(s, next_order)

\* Cancel the queued song if another one comes next, and queue that one.
Requeue(s, prev, next_order) ==
  LET next == IF next_order >= 0 THEN SongAt(s, next_order) ELSE None
      t == IF prev # None /\ next # prev
           THEN Call([s EXCEPT !.queued = -1], "CANCEL", None) ELSE s
  IN  IF next_order < 0 THEN t
      ELSE IF next # prev THEN QueueSongOrder(t, next_order)
      ELSE [t EXCEPT !.queued = next_order]

UpdateQueuedSong(s, prev) ==
  LET next_order == IF s.current >= 0 THEN GetNextOrder(s.queue, s.current)
                                      ELSE 0
      again == next_order = 0 /\ s.queue.random /\ ~s.queue.single
      t == Assert(s, /\ s.queue.length > 0
                     /\ (s.queued < 0) = (prev = None)
                     /\ again => s.current >= 0)
  IN  IF ~s.playing \/ (prev = None /\ s.bulk_edit) THEN {s}
      ELSE IF ~t.ok THEN {t}
      ELSE {Requeue(u, prev, next_order) :
              u \in IF again THEN Reshuffled(s) ELSE {s}}

PlayOrder(s, o) ==
  Call([s EXCEPT !.playing = TRUE, !.queued = -1, !.current = o],
       "PLAY", SongAt(s, o))

Stop(s) ==
  LET t == Call([s EXCEPT !.queued = -1, !.playing = FALSE], "STOP", None)
  IN  IF ~s.playing THEN {s}
      ELSE IF s.current < 0 THEN {Assert(s, FALSE)}
      ELSE IF s.queue.random THEN Reshuffled(t) ELSE {t}

-----------------------------------------------------------------------------
(* Deleting songs.                                                         *)

\* Is the player paused?  Certain only before the handler's first call.
Paused(s) == IF s.calls = <<>> THEN {player.state = "PAUSE"} ELSE BOOLEAN

\* The playlist before the song at order o is removed: it moves on to the
\* next song, or stops.
LeaveCurrent(s, o, paused) ==
  LET next == GetNextOrder(s.queue, o)
      current == IF next = o THEN -1 ELSE next
  IN  IF current >= 0 /\ ~paused THEN PlayOrder(s, current)
      ELSE Call([s EXCEPT !.current = current, !.playing = FALSE],
                "STOP", None)

CurrentAfterDelete(current, o) == IF current > o THEN current - 1 ELSE current

DeleteInternal(s, position, paused) ==
  LET o == PositionToOrder(s.queue, position)
      t == IF s.current # o THEN s
           ELSE IF s.playing THEN LeaveCurrent(s, o, paused)
           ELSE [s EXCEPT !.current = -1]
  IN  [t EXCEPT !.queue = DeletePosition(@, position),
                !.current = CurrentAfterDelete(@, o)]

\* The positions start .. end - 1, from the last one.  A song that was left
\* because it is being deleted leaves no queued song behind.
DeleteRange(s, start, end) ==
  LET left[n \in 0 .. (end - start)] ==
        IF n = 0 THEN {[pl |-> s, prev |-> GetQueuedSong(s)]}
        ELSE UNION {
          {LET t == DeleteInternal(d.pl, end - n, paused)
           IN  [pl |-> t,
                prev |-> IF Len(t.calls) > Len(d.pl.calls) THEN None
                         ELSE d.prev] : paused \in Paused(d.pl)} :
          d \in left[n - 1]}
  IN  {OnModified(t) :
         t \in UNION {UpdateQueuedSong(d.pl, d.prev) : d \in left[end - start]}}

DeleteOrder(s, o) ==
  LET position == s.queue.order[o] IN DeleteRange(s, position, position + 1)

Clear(s) ==
  {OnModified([t EXCEPT !.queue = ClearQueue(@), !.current = -1]) :
     t \in Stop(s)}

-----------------------------------------------------------------------------
(* Adding and moving songs.                                                *)

\* Mutant: a new song may come before the songs that were played.
AppendStartAnywhere(s) == 0

\* In random mode, new songs are shuffled in behind the queued song.
AppendStart(s) == (IF s.queued >= 0 THEN s.queued ELSE s.current) + 1

AppendSong(s, song) ==
  LET start == AppendStart(s)
      q == AppendItem(s.queue, song, 0)
      queues == IF s.queue.random /\ start < q.length
                THEN ShuffleOrderLast(q, start, q.length) ELSE {q}
  IN  {OnModified(t) :
         t \in UNION {UpdateQueuedSong([s EXCEPT !.queue = r,
                                                 !.appended = @ + 1],
                                       GetQueuedSong(s)) : r \in queues}}

CommitBulk(s) ==
  LET t == [s EXCEPT !.bulk_edit = FALSE]
  IN  IF ~s.bulk_modified THEN {t}
      ELSE {OnModified(u) : u \in IF s.queued < 0
                                  THEN UpdateQueuedSong(t, None) ELSE {t}}

\* Edit the queue, put current at its new place, and queue the next song.
Edited(s, q, current) ==
  {OnModified(t) :
     t \in UpdateQueuedSong([s EXCEPT !.queue = q, !.current = current],
                            GetQueuedSong(s))}

\* Mutant: only one of the two positions is looked at.
CurrentAfterSwapOneWay(current, p1, p2) == IF current = p1 THEN p2 ELSE current

CurrentAfterSwap(current, p1, p2) ==
  IF current = p1 THEN p2 ELSE IF current = p2 THEN p1 ELSE current

Swap(s, p1, p2) ==
  LET q == SwapPositions(s.queue, p1, p2)
  IN  IF s.queue.random
      THEN Edited(s, SwapOrders(q, PositionToOrder(q, p1),
                                   PositionToOrder(q, p2)), s.current)
      ELSE Edited(s, q, CurrentAfterSwap(s.current, p1, p2))

\* Where a "move" goes; to < 0 counts from the current song.
MoveTo(s, start, to) ==
  LET absolute == (GetCurrentPosition(s) - to) % s.queue.length
  IN  IF to >= 0 THEN to
      ELSE IF start < absolute THEN absolute - 1 ELSE absolute

MoveAccepted(s, start, end, to) ==
  /\ to # start
  /\ to >= 0 => to + end - start <= s.queue.length
  /\ to < 0 => /\ -to <= s.queue.length
               /\ GetCurrentPosition(s) >= 0
               /\ GetCurrentPosition(s) \notin start .. (end - 1)

\* Mutant: a song that moves over the current one does not move it.
CurrentAfterMoveOver(current, start, end, to) ==
  IF start <= current /\ current < end THEN current + to - start ELSE current

\* The new current order of a sequential playlist.
CurrentAfterMove(current, start, end, to) ==
  IF start <= current /\ current < end THEN current + to - start
  ELSE IF current >= end /\ current <= to THEN current - (end - start)
  ELSE IF current >= to /\ current < start THEN current + (end - start)
  ELSE current

Move(s, start, end, to) ==
  Edited(s, MoveRange(s.queue, start, end, to),
         IF s.queue.random THEN s.current
         ELSE CurrentAfterMove(s.current, start, end, to))

\* The current song goes first, and the rest of the range is shuffled.
Shuffle(s, start, end) ==
  LET position == GetCurrentPosition(s)
      first == s.playing /\ position \in start .. (end - 1)
      q == IF first THEN SwapPositions(s.queue, start, position) ELSE s.queue
      current == IF first
                 THEN IF q.random THEN PositionToOrder(q, start) ELSE start
                 ELSE IF s.playing THEN s.current ELSE -1
  IN  UNION {Edited(s, r, current) :
               r \in ShuffleRange(q, IF first THEN start + 1 ELSE start, end)}

SetPrio(s, start, end, priority) ==
  UNION {Edited(s, r, FollowCurrent(s, r)) :
           r \in SetPriorityRange(s.queue, start, end, priority, s.current)}

-----------------------------------------------------------------------------
(* Playback.                                                               *)

\* "play" without a position: the current song or the first one.
PlayAny(s) ==
  LET t == Call(s, "CLEAR_ERROR", None)
      u == [t EXCEPT !.stop_on_error = FALSE, !.error_count = 0]
      i == IF s.current >= 0 THEN s.current ELSE 0
  IN  IF s.queue.length = 0 THEN {t}
      ELSE IF s.playing THEN {Call(t, "UNPAUSE", None)}
      ELSE IF s.queue.random
      THEN {PlayOrder([u EXCEPT !.queue = SwapOrders(@, i, 0)], 0)}
      ELSE {PlayOrder(u, i)}

PlayPosition(s, position) ==
  LET t == [Call(s, "CLEAR_ERROR", None)
              EXCEPT !.stop_on_error = FALSE, !.error_count = 0]
      i == PositionToOrder(s.queue, position)
      current == IF s.playing THEN s.current ELSE 0
  IN  IF s.queue.random
      THEN {PlayOrder([t EXCEPT !.queue = SwapOrders(@, i, current)], current)}
      ELSE {PlayOrder(t, position)}

\* The old current song is consumed after the player has moved on.
Consume(s, o) == IF s.queue.consume THEN DeleteOrder(s, o) ELSE {s}

PlayNext(s) ==
  LET next_order == GetNextOrder(s.queue, s.current)
      t == [s EXCEPT !.stop_on_error = FALSE]
      next == IF next_order < 0
              THEN {[u EXCEPT !.current = -1] : u \in Stop(t)}
              ELSE {PlayOrder([t EXCEPT !.queue = q], next_order) :
                      q \in IF next_order = 0 /\ s.queue.random
                            THEN ShuffleOrder(s.queue) ELSE {s.queue}}
  IN  IF ~s.playing THEN {s}
      ELSE IF s.current \notin Positions(s.queue) THEN {Assert(s, FALSE)}
      ELSE UNION {Consume(u, s.current) : u \in next}

PlayPrevious(s) ==
  LET o == IF s.current > 0 THEN s.current - 1
           ELSE IF s.queue.repeat THEN s.queue.length - 1 ELSE s.current
  IN  IF s.playing THEN {PlayOrder(s, o)} ELSE {s}

SeekSongOrder(s, o) ==
  LET t == [Call(s, "CLEAR_ERROR", None)
              EXCEPT !.stop_on_error = TRUE, !.error_count = 0,
                     !.playing = TRUE, !.current = o]
  IN  UpdateQueuedSong([Call(t, "SEEK", SongAt(s, o)) EXCEPT !.queued = -1],
                       None)

-----------------------------------------------------------------------------
(* Options.                                                                *)

BorderPause(s) ==
  Call(s, IF s.queue.single /\ ~s.queue.repeat THEN "BORDER_PAUSE"
                                               ELSE "NO_BORDER_PAUSE", None)

SetRepeat(s) ==
  LET t == [s EXCEPT !.queue.repeat = ~@]
  IN  UpdateQueuedSong(BorderPause(t), GetQueuedSong(s))

SetSingle(s) ==
  LET t == [s EXCEPT !.queue.single = ~@]
  IN  UpdateQueuedSong(BorderPause(t), GetQueuedSong(s))

SetConsume(s) == {[s EXCEPT !.queue.consume = ~@]}

\* The current song becomes the first of the new order.
RandomOn(s) ==
  LET position == IF s.playing THEN GetCurrentPosition(s) ELSE -1
      First(q) == IF position >= 0
                  THEN SwapOrders(q, 0, PositionToOrder(q, position)) ELSE q
  IN  {[s EXCEPT !.queue = First(q), !.current = IF position >= 0 THEN 0
                                                                  ELSE -1] :
         q \in ShuffleOrder([s.queue EXCEPT !.random = TRUE])}

RandomOff(s) ==
  {[s EXCEPT !.queue = RestoreOrder([@ EXCEPT !.random = FALSE]),
             !.current = GetCurrentPosition(s)]}

SetRandom(s) ==
  LET Update(t) == UpdateQueuedSong(t, GetQueuedSong(s))
  IN  Then(IF s.queue.random THEN RandomOff(s) ELSE RandomOn(s), Update)

-----------------------------------------------------------------------------
(* The PLAYLIST event.                                                     *)

\* Mutant: the wrong song is consumed.
SongStartedConsumesNew(s) ==
  Consume([s EXCEPT !.current = s.queued, !.queued = -1], s.queued)

\* The player has started the queued song.
SongStarted(s) ==
  Consume([s EXCEPT !.current = s.queued, !.queued = -1], s.current)

\* The player has stopped: stop too, or go on with the next song.
ResumePlayback(s) ==
  LET count == IF player.error = "NONE" THEN 0 ELSE s.error_count + 1
      t == [s EXCEPT !.error_count = count]
  IN  IF \/ s.stop_on_error /\ player.error # "NONE"
         \/ player.error = "OUTPUT"
         \/ count >= s.queue.length
      THEN Stop(t) ELSE PlayNext(t)

\* Reads the player's state before it makes a call; next_song can only have
\* become null since.
SyncWithPlayer(s) ==
  LET Fill(t) == IF player.next = None /\ t.queued < 0
                 THEN UpdateQueuedSong(t, None) ELSE {t}
  IN  IF ~s.playing THEN {s}
      ELSE IF player.state = "STOP" THEN ResumePlayback(s)
      ELSE Then(IF player.next = None /\ s.queued # -1
                THEN SongStarted(s) ELSE {s}, Fill)

-----------------------------------------------------------------------------
(* The main thread.                                                        *)

Idle == pl.calls = <<>> /\ pl.ok

\* The user asks for a song: only then the error is cleared before the call (a
\* delete that removes the current song twice calls PLAY twice, too).
Restarted(calls) ==
  /\ Len(calls) > 1 /\ calls[1].cmd = "CLEAR_ERROR"
  /\ calls[2].cmd \in {"PLAY", "SEEK"}

Handler(states) ==
  /\ Idle
  /\ pl' \in states
  /\ UNCHANGED <<player, event>>
  /\ tried' = IF Restarted(pl'.calls) THEN {} ELSE tried

Command(name, states) ==
  /\ name \in Commands
  /\ ~pl.bulk_edit
  /\ Handler(states)

Ranges == {r \in Positions(pl.queue) \X (1 .. pl.queue.length) : r[1] < r[2]}

Blocks == {r \in Ranges : r[2] - r[1] <= MaxBlock}

Edit ==
  \/ \E song \in Songs :
       /\ "add" \in Commands
       /\ ~IsFull(pl.queue) /\ pl.appended < MaxAppends
       /\ Handler(AppendSong(pl, song))
  \/ Command("add", {[pl EXCEPT !.bulk_edit = TRUE, !.bulk_modified = FALSE]})
  \/ /\ pl.bulk_edit
     /\ Handler(CommitBulk(pl))
  \/ \E p1, p2 \in Positions(pl.queue) : Command("swap", Swap(pl, p1, p2))
     \* A block that would reach behind the last song: see MoveInBounds.
  \/ \E r \in Blocks, to \in -(pl.queue.length) .. (pl.queue.length - 1) :
       /\ MoveAccepted(pl, r[1], r[2], to)
       /\ MoveTo(pl, r[1], to) + r[2] - r[1] <= pl.queue.length
       /\ Command("move", Move(pl, r[1], r[2], MoveTo(pl, r[1], to)))
  \/ \E r \in Ranges : Command("delete", DeleteRange(pl, r[1], r[2]))
  \/ Command("clear", Clear(pl))
  \/ \E r \in Ranges : /\ r[1] + 1 < r[2]
                       /\ Command("shuffle", Shuffle(pl, r[1], r[2]))
  \/ \E r \in Ranges, priority \in Priorities :
       Command("prio", SetPrio(pl, r[1], r[2], priority))

\* "next" ignores single mode: it is off while the handler runs.
NextCommand ==
  Command("next", {[s EXCEPT !.queue.single = pl.queue.single] :
                     s \in PlayNext([pl EXCEPT !.queue.single = FALSE])})

Control ==
  \/ Command("play", PlayAny(pl))
  \/ \E p \in Positions(pl.queue) : Command("playpos", PlayPosition(pl, p))
  \/ Command("stop", Stop(pl))
  \/ NextCommand
  \/ Command("previous", PlayPrevious(pl))
  \/ \E o \in Positions(pl.queue) : Command("seek", SeekSongOrder(pl, o))
  \/ Command("pause", {Call(pl, "PAUSE", None)})
  \/ Command("clearerror", {Call(pl, "CLEAR_ERROR", None)})
  \/ Command("repeat", SetRepeat(pl))
  \/ Command("single", SetSingle(pl))
  \/ Command("consume", SetConsume(pl))
  \/ Command("random", SetRandom(pl))

Sync ==
  /\ event /\ Idle /\ ~pl.bulk_edit
  /\ event' = FALSE
  /\ pl' \in SyncWithPlayer(pl)
  /\ UNCHANGED <<player, tried>>

-----------------------------------------------------------------------------
(* The player thread.                                                      *)

SongsOf(id) ==
  {pl.queue.items[p].song : p \in {p \in Positions(pl.queue) :
                                     pl.queue.items[p].id = id}}

\* A song that left the queue meanwhile may or may not be playable.
CanPlay(id) == SongsOf(id) \cap Bad = {}
CanFail(id) == SongsOf(id) \ Bad = {}

Remember(id) == tried' = IF Forgetful THEN {} ELSE tried \cup {id}

\* WaitForDecoder(): the song starts, unless its decoder has failed already.
StartSong(id) ==
  /\ \/ player' = [player EXCEPT !.state = "PLAY", !.song = id, !.next = None]
     \/ /\ CanFail(id)
        /\ player' = [player EXCEPT !.state = "STOP", !.song = None,
                                    !.next = None, !.error = "DECODER"]
  /\ Remember(id)
  /\ event' = TRUE

Stopped == [player EXCEPT !.state = "STOP", !.song = None, !.next = None]

\* The calls of PlayerControl, each with the command that the player thread
\* executes for it.
DoPlay(c) == c.cmd = "PLAY" /\ StartSong(c.song)

DoEnqueue(c) ==
  /\ c.cmd = "ENQUEUE"
  /\ IF player.state = "STOP" THEN StartSong(c.song)
     ELSE /\ player' = [player EXCEPT !.next = c.song]
          /\ UNCHANGED <<event, tried>>

\* A cancelled song that has already started stops the player.
DoCancel(c) ==
  /\ c.cmd = "CANCEL"
  /\ IF player.state # "STOP" /\ player.next = None
     THEN player' = Stopped /\ event' = TRUE
     ELSE player' = [player EXCEPT !.next = None] /\ UNCHANGED event
  /\ UNCHANGED tried

DoStop(c) ==
  /\ c.cmd = "STOP"
  /\ player' = Stopped
  /\ event' = (event \/ player.state # "STOP")
  /\ UNCHANGED tried

\* Seeking in a song the decoder is not at restarts the decoder.  If that
\* fails, the old song is kept, without its data, and nobody is told; the
\* player stops at once, or when it runs dry: not as long as it is paused.
DoSeek(c) ==
  /\ c.cmd = "SEEK"
  /\ \/ player.state = "STOP" /\ StartSong(c.song)
     \/ /\ player.state # "STOP"
        /\ player' = [player EXCEPT !.song = c.song, !.next = None]
        /\ event' \in IF player.song = c.song THEN {event, TRUE} ELSE {TRUE}
        /\ Remember(c.song)
     \/ /\ player.state # "STOP" /\ CanFail(c.song)
        /\ player' = [player EXCEPT !.next = None, !.error = "DECODER"]
        /\ UNCHANGED event
        /\ Remember(c.song)
     \/ /\ player.state # "STOP" /\ CanFail(c.song)
        /\ player' = [Stopped EXCEPT !.error = "DECODER"]
        /\ event' = TRUE
        /\ Remember(c.song)

\* Resuming opens the outputs, which may fail.
Resume ==
  \/ player' = [player EXCEPT !.state = "PLAY"]
  \/ player' = [player EXCEPT !.error = "OUTPUT"]

DoPause(c) ==
  /\ c.cmd \in {"PAUSE", "UNPAUSE"}
  /\ \/ /\ player.state = "PAUSE"
        /\ Resume
     \/ /\ player.state = "PLAY" /\ c.cmd = "PAUSE"
        /\ player' = [player EXCEPT !.state = "PAUSE"]
     \/ /\ player.state = "STOP" \/ (player.state = "PLAY" /\ c.cmd = "UNPAUSE")
        /\ UNCHANGED player
  /\ UNCHANGED <<event, tried>>

DoSet(c) ==
  /\ c.cmd \in {"CLEAR_ERROR", "BORDER_PAUSE", "NO_BORDER_PAUSE"}
  /\ player' = IF c.cmd = "CLEAR_ERROR" THEN [player EXCEPT !.error = "NONE"]
               ELSE [player EXCEPT !.border_pause = (c.cmd = "BORDER_PAUSE")]
  /\ UNCHANGED <<event, tried>>

\* EnqueueSongLocked() and Play() assert that there is no next song.
CallAssertion(c) ==
  \/ c.cmd \notin {"ENQUEUE", "PLAY"}
  \/ player.next = None
  \/ c.cmd = "PLAY" /\ player.state # "STOP"

PlayerCall ==
  /\ pl.calls # <<>>
  /\ LET c == Head(pl.calls)
     IN  /\ pl' = Assert([pl EXCEPT !.calls = Tail(@)], CallAssertion(c))
         /\ \/ DoPlay(c) \/ DoEnqueue(c) \/ DoCancel(c) \/ DoStop(c)
            \/ DoSeek(c) \/ DoPause(c) \/ DoSet(c)

\* SongBorder(): the queued song follows the current one, or its decoder
\* has failed by then.
SongBorder ==
  /\ player.state = "PLAY" /\ player.next # None /\ CanPlay(player.song)
  /\ \/ player' = [player EXCEPT !.song = player.next, !.next = None,
                     !.state = IF player.border_pause THEN "PAUSE" ELSE @]
     \/ /\ CanFail(player.next)
        /\ player' = [Stopped EXCEPT !.error = "DECODER"]
  /\ Remember(player.next)
  /\ event' = TRUE
  /\ UNCHANGED pl

\* Mutant: nobody is told.
SongEndSilent ==
  /\ player.state = "PLAY" /\ CanPlay(player.song)
  /\ player' = Stopped
  /\ UNCHANGED <<pl, event, tried>>

\* The song ends, and no decoder is at the next one: none was queued in
\* time, or the decoder was stopped in between.
SongEnd ==
  /\ player.state = "PLAY" /\ CanPlay(player.song)
  /\ player' = Stopped
  /\ event' = TRUE
  /\ UNCHANGED <<pl, tried>>

\* CheckDecoderStartup() fails: the queued song is lost, too.
DecoderFailure ==
  /\ player.state # "STOP" /\ CanFail(player.song)
  /\ player' = [Stopped EXCEPT !.error = "DECODER"]
  /\ event' = TRUE
  /\ UNCHANGED <<pl, tried>>

\* No output accepts the audio data: the player pauses.
OutputFailure ==
  /\ player.state = "PLAY" /\ CanPlay(player.song)
  /\ player' = [player EXCEPT !.state = "PAUSE", !.error = "OUTPUT"]
  /\ UNCHANGED <<pl, event, tried>>

PlayerStep == SongBorder \/ SongEnd \/ DecoderFailure \/ OutputFailure

Next == Edit \/ Control \/ Sync \/ PlayerCall \/ PlayerStep

\* The event loop serves the PLAYLIST event however many client commands
\* arrive, the player thread serves its commands, and no song lasts forever.
Fairness ==
  /\ SF_vars(Sync)
  /\ WF_vars(PlayerCall)
  /\ WF_vars(pl.bulk_edit /\ Handler(CommitBulk(pl)))
  /\ WF_vars(SongBorder \/ SongEnd \/ DecoderFailure)

Spec == Init /\ [][Next]_vars

FairSpec == Spec /\ Fairness

-----------------------------------------------------------------------------
\* The shape of the queue, and the ranges of the playlist's own variables:
\* whatever the handlers do, playing means that there is a current song.
PlaylistTypeOK ==
  /\ QueueOK(pl.queue)
  /\ pl.current \in -1 .. (pl.queue.length - 1)
  /\ pl.queued \in -1 .. (MaxLength - 1)
  /\ pl.playing => pl.current >= 0 /\ pl.queued < pl.queue.length
  /\ pl.error_count \in 0 .. MaxLength

\* No assertion of the handlers or of PlayerControl fails.
AssertionsHold == pl.ok

Synced == pl.calls = <<>> /\ ~event

CurrentSong == IF pl.playing THEN SongAt(pl, pl.current) ELSE None

\* Between two handlers and with no event pending, the player plays the
\* playlist's current song, and will play the queued one after it.
PlayerFollows ==
  Synced => /\ pl.playing <=> player.state # "STOP"
            /\ player.song = CurrentSong
            /\ player.next = GetQueuedSong(pl)

\* Even before the playlist has heard of a song border, what the player
\* plays is the current song or the queued one; only if the playlist has made
\* a song current that cannot be decoded, a failed seek may leave the old one.
PlaysCurrentOrQueued ==
  pl.calls = <<>> /\ player.state # "STOP" =>
    \/ player.song \in {CurrentSong, GetQueuedSong(pl)} \ {None}
    \/ CurrentSong # None /\ CanFail(CurrentSong)

QueuedIds == {pl.queue.items[p].id : p \in Positions(pl.queue)}

AsksForSong == \E i \in DOMAIN pl.calls : pl.calls[i].cmd \in {"PLAY", "SEEK"}

\* An edit or an option never makes the playlist point at another song than
\* the one that is playing: current changes its song only with a call that
\* makes the player play that song, or after the player has gone on itself.
CurrentSongKept ==
  [][pl.playing /\ pl'.playing /\ ~AsksForSong' /\ ~(event /\ ~event')
       => CurrentSong' = CurrentSong]_vars

\* "When consume is activated, each song played is removed from playlist":
\* whenever playback leaves a song by itself or with "next", that song is
\* removed, and no other.
ConsumeRemovesPlayed ==
  [][/\ Sync \/ NextCommand
     /\ pl.playing /\ pl.queue.consume /\ player.error = "NONE"
     /\ CurrentSong' # CurrentSong
     => QueuedIds \ QueuedIds' = {CurrentSong}]_vars

\* Playback in random mode ends after every song of the queue was played,
\* though songs are added, deleted, prioritised and the order is shuffled
\* meanwhile.
RandomPlaysAll ==
  [][/\ Sync /\ pl.queue.random /\ ~pl.queue.single
     /\ pl.playing /\ ~pl'.playing /\ player.error = "NONE"
     => QueuedIds \subseteq tried]_vars

\* Every move a client may ask for stays inside the queue.
MoveInBounds ==
  \A r \in Blocks, to \in -(pl.queue.length) .. (pl.queue.length - 1) :
    MoveAccepted(pl, r[1], r[2], to) =>
      MoveTo(pl, r[1], to) + r[2] - r[1] <= pl.queue.length

\* A stopped player is noticed: the playlist tries another song or stops,
\* too.  A lost PLAYLIST event would leave it "playing" forever.
StopIsNoticed ==
  pl.playing /\ player.state = "STOP"
    ~> \/ player.state # "STOP" \/ ~pl.playing
       \/ \E i \in DOMAIN pl.calls :
            pl.calls[i].cmd \in {"PLAY", "SEEK", "ENQUEUE"}
=============================================================================
