------------------------------ MODULE StateFile ------------------------------
(***************************************************************************)
(* The state file (StateFile.cxx, PlaylistState.cxx, QueueSave.cxx): the   *)
(* playlist is written some time after it was modified and on shutdown,    *)
(* and read on start-up.  MPD may be killed at any moment, in the middle   *)
(* of a write, too, which truncates the file and writes it in place; and   *)
(* the file may not open, for writing or for reading.                      *)
(*                                                                         *)
(* A file is a sequence of lines, each with a key and a value; a line that *)
(* a crash has cut in two is taken for lost.  Volume and outputs, which    *)
(* are saved in the same file, are left out.                               *)
(***************************************************************************)
EXTENDS Playlist

CONSTANTS LoadedPrio,     \* the priorities of the songs in Loaded
          Vanishing,      \* songs that may be gone from the database on start
          Losses,         \* how many lines a write that was cut short may lack
          RestorePaused   \* restore_paused

\* More than two versions: IncrementVersion() changes the version.
ASSUME StateFileAssumption ==
  /\ VersionMax > 2
  /\ LoadedPrio \in Seq(Priorities) /\ Len(LoadedPrio) = Len(Loaded)
  /\ Vanishing \subseteq Songs /\ Losses \subseteq Nat /\ RestorePaused \in BOOLEAN

VARIABLES
  file,          \* the state file's lines
  prev_version,  \* prev_playlist_version
  timer,         \* is the write scheduled?
  notice,        \* is one of the idle events pending that CheckModified() is for?
  failed,        \* has the file failed to open, and no such event come since?
  phase          \* "run", or "remember" before RememberVersions()

stateVars == <<file, prev_version, timer, notice, failed, phase>>
allVars == <<vars, stateVars>>

Line(key, value) == [key |-> key, value |-> value]

------------------------------------------------------------------------------
(* Writing.                                                                *)

\* queue_save()
QueueLines(q) ==
  [i \in 1 .. q.length |->
     Line("song", <<q.items[i - 1].song, q.items[i - 1].priority>>)]

\* Mutant: the order number is saved.
CurrentOrderLine(s) == Line("current", s.current)

CurrentLine(s) == Line("current", GetCurrentPosition(s))

\* playlist_state_save(), without the elapsed time.
Saved(s, state) ==
  (IF s.playing
   THEN <<Line("state", IF state = "PAUSE" THEN "pause" ELSE "play"), CurrentLine(s)>>
   ELSE <<Line("state", "stop")>>
        \o (IF s.current >= 0 THEN <<CurrentLine(s)>> ELSE <<>>))
  \o <<Line("random", s.queue.random), Line("repeat", s.queue.repeat),
       Line("single", s.queue.single), Line("consume", s.queue.consume),
       Line("playlist_begin", "")>>
  \o QueueLines(s.queue)
  \o <<Line("playlist_end", "")>>

SavedNow == Saved(pl, player.state)

\* Mutant: the queue is not looked at.
HashOfPlayback ==
  <<player.state, GetCurrentPosition(pl), pl.queue.random, pl.queue.repeat,
    pl.queue.single, pl.queue.consume>>

\* playlist_state_get_hash(), without the collisions of its XOR.
Hash ==
  <<pl.queue.version, player.state, GetCurrentPosition(pl), pl.queue.random,
    pl.queue.repeat, pl.queue.single, pl.queue.consume>>

------------------------------------------------------------------------------
(* Reading.                                                                *)

FreshPlaylist ==
  [queue |-> EmptyQueue, playing |-> FALSE, current |-> -1, queued |-> -1,
   stop_on_error |-> FALSE, error_count |-> 0, bulk_edit |-> FALSE,
   bulk_modified |-> FALSE, appended |-> 0, calls |-> <<>>, ok |-> TRUE]

FreshPlayer ==
  [state |-> "STOP", song |-> None, next |-> None, error |-> "NONE",
   border_pause |-> FALSE]

\* What playlist_state_restore() keeps in its variables while it reads.
Unread == [pl |-> FreshPlaylist, state |-> "stop", current |-> -1, random |-> FALSE]

\* Nothing is playing, so that an option has one outcome.
The(states) == CHOOSE s \in states : TRUE
Switch(t, on, states) == IF on THEN [t EXCEPT !.pl = The(states)] ELSE t

\* queue_load_song()
LoadSong(q, song, priority, gone) ==
  IF IsFull(q) \/ song \in gone THEN q ELSE AppendItem(q, song, priority)

ReadLine(t, line, gone) ==
  CASE line.key = "state" -> [t EXCEPT !.state = line.value]
    [] line.key = "current" -> [t EXCEPT !.current = line.value]
    [] line.key = "random" -> [t EXCEPT !.random = line.value]
    [] line.key = "repeat" -> Switch(t, line.value, SetRepeat(t.pl))
    [] line.key = "single" -> Switch(t, line.value, SetSingle(t.pl))
    [] line.key = "consume" -> Switch(t, line.value, SetConsume(t.pl))
    [] line.key = "song" ->
         [t EXCEPT !.pl.queue = LoadSong(@, line.value[1], line.value[2], gone)]
    [] OTHER -> t

\* The current song that is restored.
RestoredPosition(s, current) ==
  IF current \in Positions(s.queue) THEN current ELSE 0

\* playlist_state_load() ends with a new version, unless there is no line at all.
ReadPlaylist(lines, gone) ==
  LET read[n \in 0 .. Len(lines)] ==
        IF n = 0 THEN Unread ELSE ReadLine(read[n - 1], lines[n], gone)
      t == read[Len(lines)]
  IN  IF lines # <<>> /\ lines[Len(lines)].key \in {"song", "playlist_end"}
      THEN [t EXCEPT !.pl.queue = IncrementVersion(@)] ELSE t

\* The rest of playlist_state_restore(): random mode, and playback goes on,
\* from the start of the song or from the time in the file.
GoOn(s, state, position) ==
  IF state = "stop" THEN {[s EXCEPT !.current = position]}
  ELSE {IF state = "pause" THEN Call(u, "PAUSE", None) ELSE u :
          u \in PlayPosition(s, position)
                \cup SeekSongOrder(s, PositionToOrder(s.queue, position))}

Restored(lines, gone) ==
  LET t == ReadPlaylist(lines, gone)
      state == IF t.state = "play" /\ RestorePaused THEN "pause" ELSE t.state
      Play(s) == IF s.queue.length = 0 THEN {s}
                   ELSE GoOn(s, state, RestoredPosition(s, t.current))
  IN  Then(IF t.random THEN SetRandom(t.pl) ELSE {t.pl}, Play)

------------------------------------------------------------------------------
(* The process.                                                            *)

\* The main loop is in no callback: a bulk edit is one.
InMainLoop == Idle /\ ~pl.bulk_edit

\* A handler of the playlist, while the version does not start over.
\* IncrementVersion() is always followed by idle_add(IDLE_PLAYLIST).
Handle ==
  /\ phase = "run"
  /\ Edit \/ Control \/ Sync
  /\ pl'.queue.version >= pl.queue.version
  /\ notice' = (notice \/ pl'.queue.version # pl.queue.version)
  /\ UNCHANGED <<file, prev_version, timer, failed, phase>>

\* The player thread; it announces (IDLE_PLAYER) what GetStatus() shows.
Player ==
  /\ PlayerCall \/ PlayerStep
  /\ notice' = (notice \/ player'.state # player.state \/ player'.song # player.song)
  /\ UNCHANGED <<file, prev_version, timer, failed, phase>>

\* StateFile::CheckModified(), called by idle_event_emitted().
CheckModified ==
  /\ phase = "run" /\ InMainLoop
  /\ notice
  /\ notice' = FALSE
  /\ timer' = (timer \/ Hash # prev_version)
  /\ failed' = FALSE
  /\ UNCHANGED <<vars, file, prev_version, phase>>

\* StateFile::OnTimeout(): Write() asks the player for its status ...  If the
\* file cannot be opened, it gives up, and the timer is not set again.
OnTimeout ==
  /\ phase = "run" /\ InMainLoop
  /\ timer
  /\ timer' = FALSE
  /\ \/ file' = SavedNow /\ phase' = "remember" /\ UNCHANGED failed
     \/ failed' = TRUE /\ UNCHANGED <<file, phase>>
  /\ UNCHANGED <<vars, prev_version, notice>>

\* ... and RememberVersions() asks it again.
RememberVersions ==
  /\ phase = "remember" /\ Idle
  /\ prev_version' = Hash
  /\ phase' = "run"
  /\ UNCHANGED <<vars, file, timer, notice, failed>>

\* A write that was cut short: the lines that are there.
Prefixes(lines) ==
  {SubSeq(lines, 1, IF n < Len(lines) THEN Len(lines) - n ELSE 0) : n \in Losses}

\* MPD is killed; or it is terminated, or killed as it writes: the new file is
\* there up to some line.  MPD starts again with what it reads, or with nothing
\* (and with no version to remember) if the file cannot be opened.
Restart ==
  /\ \/ UNCHANGED file
     \/ InMainLoop /\ file' \in Prefixes(SavedNow)
  /\ \/ /\ \E gone \in SUBSET Vanishing : pl' \in Restored(file', gone)
        /\ failed' = FALSE /\ phase' = "remember"
     \/ pl' = FreshPlaylist /\ failed' = TRUE /\ phase' = "run"
  /\ player' = FreshPlayer
  /\ event' = FALSE /\ tried' = {}
  /\ prev_version' = <<>>
  /\ timer' = FALSE /\ notice' = FALSE

\* The first start, with a file of the songs in Loaded.
LoadedQueue ==
  LET q == QueueOf(Loaded)
  IN  [q EXCEPT !.items = [p \in Positions(q) |->
                             [@[p] EXCEPT !.priority = LoadedPrio[p + 1]]]]

StateInit ==
  /\ file = Saved([FreshPlaylist EXCEPT !.queue = LoadedQueue], "STOP")
  /\ pl \in Restored(file, {})
  /\ player = FreshPlayer
  /\ event = FALSE /\ tried = {}
  /\ prev_version = <<>>
  /\ timer = FALSE /\ notice = FALSE /\ failed = FALSE /\ phase = "remember"

StateNext ==
  Handle \/ Player \/ CheckModified \/ OnTimeout \/ RememberVersions \/ Restart

StateSpec == StateInit /\ [][StateNext]_allVars

------------------------------------------------------------------------------
Options(q) == <<q.random, q.repeat, q.single, q.consume>>

\* What is saved now is restored: the songs in their positions with their
\* priorities, the options, whether it plays, and the current song (but see
\* StoppedSongKept) - in random mode, too, whose order is not saved.
RestoredAsSaved ==
  Idle => \A s \in Restored(SavedNow, {}) :
    /\ QueueLines(s.queue) = QueueLines(pl.queue)
    /\ Options(s.queue) = Options(pl.queue)
    /\ s.playing = pl.playing
    /\ s.current >= 0 /\ pl.current >= 0 /\ (pl.playing \/ ~pl.queue.random)
         => GetCurrentPosition(s) = GetCurrentPosition(pl)

\* "restore the state of mpd (including the playlist)" (doc/mpd.conf.5:64):
\* the current song of a stopped playlist is restored in random mode, too.
StoppedSongKept ==
  Idle => \A s \in Restored(SavedNow, {}) :
    s.current >= 0 /\ pl.current >= 0
      => GetCurrentPosition(s) = GetCurrentPosition(pl)

\* The songs that are read from the file.
SongsIn(lines, gone) ==
  LET songs[n \in 0 .. Len(lines)] ==
        IF n = 0 THEN <<>>
        ELSE IF lines[n].key = "song" /\ lines[n].value[1] \notin gone
        THEN Append(songs[n - 1], lines[n]) ELSE songs[n - 1]
  IN  songs[Len(lines)]

\* No edit is forgotten: a queue that differs from the one that was written or
\* read is going to be written, or an idle event that leads to it is pending.
\* If the file has failed to open, nothing is scheduled; but the next idle event
\* schedules what has not been written.
EditsAreWritten ==
  phase = "run" /\ InMainLoop /\ ~timer /\ ~notice =>
    \/ \E gone \in SUBSET Vanishing : QueueLines(pl.queue) = SongsIn(file, gone)
    \/ failed /\ Hash # prev_version
=============================================================================
