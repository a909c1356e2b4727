# A TLA+ model of the Music Player Daemon

This directory holds TLA+ modules that model the core of MPD 0.18 (the sources
under `src/src/`), the TLC configurations that check them on small instances,
and proofs for TLAPS. `PROJECT.json` lists the components, the runs, the lines
of code behind each definition, the hazards and the theorems; this file says
what they mean.

## The system and its parts

MPD is a server. Clients connect over a socket and send commands that edit a
queue of songs and control playback. It has one main thread and several helper
threads:

| Part | State | Operations | Talks to |
|---|---|---|---|
| Queue (`Queue`, `IdTable`) | items by position, the order array (playback order), id table, version, the modes | append, swap, move, delete, shuffle, set priority, increment version | the playlist; clients that ask `plchanges` |
| Playlist (`Playlist*.cxx`) | queue, `current` and `queued` (order numbers), `playing`, error counter, bulk edit flags | one handler per client command; `SyncWithPlayer` for the PLAYLIST event | PlayerControl (synchronous commands) |
| PlayerControl | command, state, `next_song`, error, `border_pause` | Play, Cancel, Stop, Seek, Pause, EnqueueSong | the player thread, through a mutex and two condition variables |
| Player thread | current song, pipe, `queued`, `buffering`, `decoder_starting`, `paused` | start/stop/seek the decoder, feed the outputs, song border | decoder (DecoderControl), outputs, GlobalEvents |
| Decoder thread | command, state, pipe, current chunk | run a song, flush chunks, seek, stop | player, music buffer |
| Music buffer and pipe | free chunks; linked list of chunks | allocate, return, push, shift, clear | decoder, player, outputs |
| Audio outputs (`OutputAll`, `OutputControl`, `OutputThread`) | per output: command, open, pause, current chunk, wake-up flags; one shared pipe and one shared notification | enable, open, play, pause, drain, cancel, close | player thread |
| Global events, idle | a set of idle flags, a set of events, a deferred monitor; flags and a mask per client | emit, deliver, idle | every thread to the main loop |
| Clients and commands | input, output, command list, idle flags, messages, a timer | read a line, dispatch, answer, flush, expire | playlist, database, global events |
| Event loop | timers, idle monitors, sockets | run what is due, one callback at a time | all of the main thread |
| State file | a file, a timer, the hash of what was written | save, restore | playlist, player, outputs, volume |
| Database update | job queue, walk, removed song | start job, walk, hand over removed songs, save | main thread, database, playlist |
| Database | directories and songs | look up, modify under a lock, save | update thread, main thread |
| Inotify | a queue of paths, a timer | merge paths, ask for updates, try again | database update |
| Input streams | per stream: buffers, flags, a stored error | open, read, seek, close; receive, pause, resume | decoder thread and I/O thread |
| Plugins, PCM, tags, stickers, zeroconf, configuration | — | I/O, codecs, arithmetic | third-party libraries |

What is hard here is concurrency. The main thread acts on what it believes the
player to be doing, while the player goes on by itself and reports with an
event that is seen later. The player drives several output threads that walk
along one list of chunks at their own pace and may fail at any moment, and
frees the chunks when they are all past them. The update thread frees songs
that the main thread may be looking at, and every thread has news for a main
loop that sleeps, passed on without a lock. And the queue keeps three arrays
that every edit has to keep consistent, with a version number that lets
clients ask for "what changed since".

`PROJECT.json` lists the hazards one by one, with the line where each bites
and the property that would catch it.

## The modules

* **`Queue`** — `Queue.cxx`, `Queue.hxx`, `IdTable.hxx` as operators on a record
  with the fields of the C++ class. Shuffles return the set of all queues that
  can result. `QueueOK` is the consistency of the three arrays.
* **`QueueChanges`** — a state machine of edits on one queue and a client that
  asks for the version (`Status`) and for what changed since (`PlChanges`),
  with bulk edits, which modify items at once and publish the new version
  later. The version is bounded by `VersionMax` (2^31 - 1 in the code) and
  wraps around. `known` is what the client holds, `answer` the request in
  flight, `stale` the positions that look different from what it has.
* **`QueueLemmas`**, **`QueueProofs`** — what each method of the queue keeps and
  changes, and the proofs about the two modules above that rest on it.
* **`Playlist`** (with `MCPlaylist`) — the playlist and, opposite to it, the
  player as `PlayerControl` shows it. A handler of the main thread is an
  operator from a playlist to the set of playlists it may leave behind,
  together with the list of synchronous calls it makes (`pl.calls`). The calls
  are then executed one by one, and between two of them the player thread may
  take its own steps: the next song starts, the song ends, its decoder or an
  output fails. `event` is the pending PLAYLIST event, which the main loop
  serves only when no handler is running. Songs of the player are identified by
  the id of the queue item; in the code they are detached copies.
* **`PlaylistProofs`** — the proofs about it, with the lemmas of `QueueLemmas`.
* **`Outputs`** — the output threads and the player thread that drives them. A
  step is what a thread does while it holds `ao->mutex`; a plugin call is made
  without the mutex and is a place a thread rests at (`ao[o].pc`), where it may
  fail. An operation of the player (`audio_output_all_open`, `_play`,
  `_check`, `_pause`, `_drain`, `_cancel`, `_release`, enable/disable) is the
  list of steps it has left to do, so that output steps come between them.
  `player.mode` is where the player thread is: outside `Run()`, opening the outputs,
  playing, or paused; a seek checks the pipe and cancels while it is paused, too.
  Assertions of the code are not assumed: a failed one is recorded in
  `asserts`. `Toggle` is the main thread, which changes `ao->enabled`.
* **`OutputsProofs`** — the proofs about it.
* **`PlayerThread`** — the player thread and the decoder thread with the code
  that `Playlist` takes as an abstract player. `pc` and `dc` are the two control
  structures, `player` and `decoder` the two threads, each with the place it is
  at (`at`) and whether it sleeps on its condition variable (`asleep`). A step
  is what a thread does between two places where another thread can come in:
  where it releases the mutex, or waits. A signal wakes a sleeping thread and is
  lost on any other. The main thread (`Play`, `EnqueueSong`, `Cancel`, `Stop`,
  `Pause`, `Seek`, `GetStatus`, `SetBorderPause`) sends a command and waits
  until the player has finished it; the player does the same with the decoder.
  The chunks of the two pipes are sequences (each chunk has its song and whether
  it was decoded before the last seek), those of the outputs are
  counts, and `free` is what is left in the music buffer. The outputs are one
  thing here that plays, pauses, fails and closes; `Outputs` has their threads.
* **`Player`** — the abstract specification of the player: what its callers may
  rely on, in seven variables (the pending command and the song it is about,
  what is played, what is next, the state). The player takes a command when it
  gets to it, and goes on by itself meanwhile. `PlayerThread` implements it:
  `P == INSTANCE Player WITH ...` maps the control structures to it, where a
  player that has left its loop and only gives back what it holds counts as
  stopped, and a song that was sent with a command as part of the command.
* **`PlayerProofs`** — the proofs about `PlayerThread` in three parts, each on top of
  the one before: where the chunks of the buffer are; what is played; that `Player`
  is implemented.
* **`GlobalEvents`** — `idle_add()`, `GlobalEvents::Emit()` and
  `DeferredMonitor::Schedule()` in any thread, and the main loop that takes
  their flags in the opposite order. Each atomic operation is a step: `pc` is
  what a thread is about to do, `loop` what the main loop is about to do.
* **`Clients`** (with `MCClients`) — extends `GlobalEvents` by the connections.
  A callback of the event loop is a step: a line that is read is processed with
  all it does to the client, to other clients (messages) and to the output
  buffer, which may overflow in the middle of a response. The peer sends what
  it likes, reads or not, and hangs up. `owed` counts the responses that the
  client is still to get.
* **`ClientsProofs`** — the proofs about `GlobalEvents` and `Clients`.
* **`Update`** (with `MCUpdate`) — the update thread with its stack of calls
  (`work`), the database, the database file, the jobs, the hand-over of removed
  songs (`victim`, `removed`), the inotify queue and its timer, and in the main
  thread a play queue that gets songs from the database in two steps, as the
  code does (`GetSong` with the lock, `AppendSong` without). The environment
  writes, changes and deletes files at any moment.
* **`UpdateProofs`** — the proofs about it.
* **`HttpStream`** — the curl input plugin: the decoder thread in `read`, `seek`
  and `close` (`reader` is the place where it waits), the I/O thread with the
  functions it runs for the decoder and with libcurl, which receives, pauses
  and fails. A byte is its position in the resource.
* **`HttpStreamProofs`** — the proofs about it.
* **`StateFile`** (with `MCStateFile`) — extends `Playlist` by the state file. A
  file is a sequence of lines; `Saved` writes it and `Restored` replays it with
  the playlist's own handlers. `Restart` is a kill at any moment, also inside a
  write, and the start that follows. The file may not open, for writing or for
  reading (`failed`). What the main loop does between handlers waits
  for the end of a bulk edit (`InMainLoop`), which is one handler of several steps.
  The proofs about it are the second part of `PlaylistProofs`.

Each definition names in `PROJECT.json` the lines it stands for. Definitions
that precede another one of the same shape and are not used (`FreeAtOnce` and
the like; most say "Mutant" or carry the changed name of the one they precede)
are plausible mistakes, one for each checked property, which the property
refutes when they take the place of the original.

## What the runs check

| Run | Instance | Properties |
|---|---|---|
| `queue_changes` | capacity 2, 2 songs, 2 priorities, `VersionMax` 4, a client at most 2 changes behind | `QueueInvariant`, `NoMissedChange`, `IdsAreStable` |
| `playlist_sequential` | 3 songs, one of them unplayable, all edits and playback commands without random mode | `AssertionsHold`, `PlaysCurrentOrQueued`, `CurrentSongKept`, `ConsumeRemovesPlayed` |
| `playlist_random` | 2 songs and one added later, one by one or in bulk, random mode, priorities, deletes; fair scheduling | `CurrentSongKept`, `RandomPlaysAll`, `StopIsNoticed` |
| `outputs_two` | 2 outputs, one switched on and off, 2 chunks, no failures | `ChunkInPipe`, `NoSleepWithWork`, `AssertionsHold`, `PlayedBeforeRemoved` |
| `outputs_fail` | 1 output that may fail and is switched on and off, 2 formats, 2 chunks, fair scheduling | `PipeAssertionsHold`, `OperationsEnd` |
| `player_safe` | 2 songs, one that may fail to decode, 2 chunks, outputs that may fail, every window open, every command but REFRESH and border pauses | `NoChunkLost`, `AssertionsHold`, `PlaysItsSong`, `OldChunksAreDropped`, `ImplementsPlayer` |
| `player_live` | 1 song, 3 chunks, every command, no failures, fair scheduling | `CommandsEnd` |
| `clients` | 1 connection, 8 lines it may send, 1 thread with news, output buffer of 2 lines, fair scheduling | `NoLostWakeup`, `AssertionsHold`, `OutputIsScheduled`, `OneResponse`, `WaitersAreTold`, `ExpiredIsRemoved` |
| `update` | directories `m` and `m/d` with a song each, 2 changes of files, 1 rescan, job queue of 1, ids 1 and 2, fair scheduling | `NoDanglingSong`, `AssertionsHold`, `QueueFollowsDatabase`, `ChangesAreSaved`, `JobIdsAreDistinct`, `DatabaseFollowsFiles`, `EventuallyQuiet` |
| `http_stream` | 6 bytes, at most 5 buffered, resumed below 3, seeks to 0, 3 and 6, failures, fair scheduling | `BytesInOrder`, `EndIsEnd`, `CallsEnd` |
| `state_file` | 2 songs of different priorities, random mode, one song that may be gone on start, writes cut at three places, a file that may not open | `RestoredAsSaved`, `EditsAreWritten` |
| `player_seek_paused` | 1 song, 3 chunks, only play, pause and seek; outputs that support pause | `CommandsEnd` is violated |

*The queue.* `QueueInvariant`: the order array is a permutation of the
positions, the id table is the inverse of the items, and nothing refers to a
position beyond the length. `NoMissedChange`: whoever asks for the changes
since the version it holds is told every position that looks different to it,
though positions move, versions wrap around and edits are published late.
`IdsAreStable`: an id names the same song as long as the song is in the queue.

*The playlist.* `PlaysCurrentOrQueued`: even before the playlist has heard of a
song border, what the player plays is the current song or the queued one,
whatever was cancelled too late or started meanwhile; only where the playlist
has made a song current that cannot be decoded, a failed seek may leave the old
one playing. `AssertionsHold`: no assertion of a handler or of PlayerControl
fails, of which the interesting one is that a song is enqueued only if no next
song is left. `CurrentSongKept`: no edit or option makes `current` name another
song. `ConsumeRemovesPlayed` and `RandomPlaysAll` are about the modes: consume
removes the song that was left and no other, and random playback ends only
after every song was tried. `StopIsNoticed`: no lost event leaves the playlist
"playing" with a stopped player.

*The outputs.* `ChunkInPipe`: no chunk is freed while an open output refers to
it. `PlayedBeforeRemoved`: the head of the pipe goes back to the buffer only
after every open output has played it to its end. There is one exception: a chunk
that a command has interrupted is marked as finished, and a seek checks the pipe
while playback is paused (`CheckDecoderStartup()`, `PlayerThread.cxx:447`), so that the
last chunk of the pipe may go if a pause has interrupted it. `NoSleepWithWork`: no
lost wake-up. `PipeAssertionsHold` has the assertions about the shared pipe, with
failures; `AssertionsHold` has every one that the output threads and the player's steps
make, without. (That the chunks left in the pipe have the format of the next song is
`FormatIsKept`, which does not hold: `OutputsFormat.cfg` below.) `OperationsEnd`: every
operation of the player ends, whichever output fails when, with one notification flag
shared by all of them.

*The player.* `NoChunkLost`: the chunks of the music buffer are free, in one of
the pipes, at the outputs or in the decoder's hands: none is lost and none is
returned twice, whatever command, failure or song border comes when.
`PlaysItsSong`: a chunk that is sent to the outputs is one of the player's
current song, though the decoder writes ahead into a second pipe and the two are
swapped. `OldChunksAreDropped`:
once a seek has been done, nothing decoded before it is played.
`ImplementsPlayer`: seen from the main thread, the threads do what `Player`
says: the song that is played is left only for the next one, the one sought or
none; a paused player neither goes on nor resumes by itself; a song that was
cancelled does not start; and a command has taken effect when it is finished.
This is what `Playlist` assumes of its player: its `player` record has the same
fields, and its `PlayerCall` and `PlayerStep` take a command and its effect in
one step, which the synchronous handshake allows (the main thread waits).
`AssertionsHold`: no assertion fails, except the one at `DecoderControl.cxx:115`
(see below). `CommandsEnd`: every synchronous command of the main thread ends,
though player, decoder and outputs wait for each other and for chunks.

*The clients.* `NoLostWakeup`: whatever news there is, a flag that leads the main
loop to it is set or about to be, however the lock-free steps of the threads and
the loop mix. `OneResponse`: every request gets exactly one response, though a
notification may cross the `noidle` that was to prevent it, and a command list
ends early. `OutputIsScheduled`: a response never stays in the buffer with
nobody registered to send it. `AssertionsHold`: a client that idles has no
timer, and no socket is registered twice for its output. `WaitersAreTold` and
`ExpiredIsRemoved`: news from any thread reaches whoever waits for it, and a
connection that broke inside some callback is removed.

*The update.* `NoDanglingSong`: a song of the database that the main thread reads
without the lock is not freed under it. `AssertionsHold`: each event finds the
job or the song it is about. `QueueFollowsDatabase`, `ChangesAreSaved`,
`DatabaseFollowsFiles`: once no update is running, the play queue and the
database file have each song as the database has it, and once inotify has nothing
left either, the database is what the files are, though they changed while
directories were being read. `EventuallyQuiet`: that state is always reached
again — the two threads do not lock each other out over a removed song, and a
full job queue delays a path but does not lose it. `JobIdsAreDistinct`: ids start
again, and still no two jobs have the same one.

*The HTTP stream.* `BytesInOrder`: what is read is the resource from the offset
on, without a gap or a repetition, across blocks, refused blocks, pauses and new
connections. `EndIsEnd`: a failure is never taken for the end of the stream
(except once it was reported, or in the moment before the I/O thread has stored
it). `CallsEnd`: no read, seek or close blocks for ever.

*The state file.* `RestoredAsSaved`: reading what would be written now gives the
same songs, priorities, options and current song, in random mode too, whose order
is not saved. `EditsAreWritten`: a queue that differs from the file is going to
be written, though several edits share one write, and a kill may leave half a
file to start from. `StateFile::Write()` gives up if the file does not open, and
nothing tries again by itself; then the property says that the remembered versions
differ, so that the next idle event schedules the write.

### Bounds

Songs, positions and outputs come in ones, twos and threes: the code distinguishes
the current song, the queued song and one other; the output that is ahead and
the one that is behind. Three songs are enough for a song to be moved over the
current one and for the order to differ from the positions in more than a swap.
`VersionMax` 4 lets the version wrap around several times. `MaxAge` bounds how
many changes a client may be behind; it is `VersionMax - 2`, the largest value
for which the property holds, and the theorem has it as its assumption.
`MaxChunks` bounds the chunks the player sends in a behaviour, `MaxAppends`
the songs that are added, `MaxBlock` the length of a moved block. `Commands`
selects the client commands of an instance, so that the passing runs together
take every one of them. `Forgetful` leaves out the record of the songs tried,
which only `RandomPlaysAll` needs.

In `PlayerThread`, `BufferSize`, `OutputsFull` and `SilenceBelow` stand for about
1024, 64 and 4 chunks. What matters for `CommandsEnd` is their order: the buffer
is larger than what is sent ahead to the outputs, which is more than what keeps
them from running dry; 3, 2 and 1 keep that order and let the buffer be
exhausted. `player_safe` makes do with 2 chunks, which is harder on the
bookkeeping; the theorem holds for any number. A song has any number of chunks.
`SeekQueued` lets a seek come while a next song is queued (only
`PlayerSeekQueued.cfg` does, see below; `ImplementsPlayer` is checked without). `Windows` lets another thread come in
between the player's last look at the pipe and `WaitForDecoder`, where the code
says "XXX race condition". They are open in `player_safe`, whose deadlock check
is off because that race really stops the threads, and closed in `player_live`,
which asks whether anything else does. `PauseCloses` says whether the outputs
close when they are paused (plugins without a pause method) or stay open.

In `Outputs`, `OtherFormat` lets an output that is paused be opened again with another
format, as it is if playback is paused at the beginning of a song; it is FALSE in the
runs that pass and in the theorems, because `ao_open()` may then find no pipe
(`OutputsResume.cfg`). `Open` does not open the outputs with a format that the chunks
left in the pipe do not have: an assertion stops the program there, which
`FormatIsKept` asks about.

In `Clients`, two lines of output and two of a command list are enough to
overflow in the middle of a response; one connection suffices because clients
meet only in messages and events, which `OthersSendMessage` and `OthersChange`
bring in from any other one. In `Update`, two changes let a file change again
after the walk has passed it; `MaxQueue` 1 makes the job queue refuse; ids 1 and 2
start again at once (`MaxQueue < MaxId` is assumed, 32 < 32768 in the code).
Modification times 1, 2 and 3 stand for readable contents and, by `Unknown`, for a
file without a decoder. `Unreadable` would be those without permission; it is empty in
the run, so that a file that is there but cannot be read is covered by the theorem
(`ChangesAreFollowed`) alone. In
`HttpStream`, `MaxWrite` 2 against `MaxBuffered` 5 and `ResumeAt` 3 lets a block be
refused with some room left and resumed with something buffered; the assumption
`ResumeAt + MaxWrite <= MaxBuffered` is the one of the code's constants (384 KiB,
16 KiB, 512 KiB). In `StateFile`, `Losses` is how many lines a write that was
cut short lacks (none, two, or all), and the version does not wrap around.

### Fairness

`Playlist!FairSpec`: the player thread executes a command it was sent (weak
fairness: it waits on the condition variable that is signalled with the
command); no song lasts forever; a client that has begun a bulk edit is inside
one command, which ends; and the main loop serves the PLAYLIST event though
clients keep sending commands (strong fairness: a GLib source that is ready
is dispatched in each iteration of the loop, while commands disable it only
for as long as they run). `Outputs!FairSpec`: every thread that can take a
step takes one, and plugin calls return. `PlayerThread!FairSpec`: the player, the
decoder and the outputs each take a step if they can (weak fairness; a sleeping
thread cannot until it is signalled); nothing is assumed of the clients.
`Clients!Fairness`: every thread that has begun to announce something goes on,
and the main loop comes to each callback that is due, because `EventLoop::Run()`
invokes all timers that have expired, then all idle monitors, then every socket
that was ready (strong fairness for the wake-up and for the timer of an expired
client, which other callbacks disable only while they run). The peer and other
clients are not assumed to do anything. `Update!Fairness`: both threads run, a
handler that has begun goes on, and events and the inotify timer come to their
turn in the same loop (strong fairness). `HttpStream!Fairness`: the decoder
thread returns from what it waits for, the I/O thread runs, and the server goes
on sending; failures are never forced.

## What is proved

`QueueProofs` proves, for every capacity, set of songs, set of priorities,
hash multiplier and version maximum that satisfy `QueueAssumption`:

* **`QueueIsConsistent`**: `Spec => []QueueInvariant`. The inductive invariant
  `QInv` adds `AnswerIsYounger` (an answer in flight is not older than the
  change it describes). Each method of the queue has a lemma: it keeps
  `QueueOK` and it is an *edit*, that is, every position it changed carries the
  current version. The lemmas about the loops (`DeleteRange`,
  `SetPriorityRange`) go over the least step that fails, because the library's
  induction rule takes an operator as a parameter, which the provers cannot
  instantiate.
* **`ClientsMissNothing`**: if `MaxAge <= VersionMax - 2`, then
  `Spec => []NoMissedChange`. `NoMissedChange` is not inductive. `VInv` says how
  the version a client holds and the queue's version relate (`InStep`: they are
  `age` increments apart, counting the wrap-around), and that every stale
  position carries a version at least as new as the client's, or the version
  has wrapped around since (`StaleIsNewer`). An edit keeps it because it stamps
  what it changes; `IncrementVersion` keeps it because it either leaves the
  stamps alone or resets all of them to 0.
* **`IdsStayStable`**: `Spec => IdsAreStable`, an action property: over any step, an
  id that names a song before and after it names the same one, though positions
  are swapped, blocks rotated and ids handed out again. It rests on the same lemmas
  about the methods: each one also says that every item it leaves behind was one of
  the items before, with its id and its song (`From`), or was put in with an id that
  was free; and such changes compose (`ChangeTrans`), as the bulk edits need.

`PlaylistProofs`, for every capacity, set of songs and commands that satisfy
`QueueAssumption` and `PlaylistAssumption`, and whichever songs cannot be decoded:

* **`PlaylistAssertionsHold`** (`[]AssertionsHold`) and **`PlaylistTypeCorrect`**
  (`[]PlaylistTypeOK`). `AssertionsHold` alone says nothing of why the player has no
  next song when one is enqueued: while a handler's calls are carried out, the player
  starts, finishes or loses songs, and may have stopped, and what the playlist
  believes is true only after the last call. The inductive invariant `PlInv` says that
  there is a *view* of the player, the song it plays and the next one, which agrees
  with the player (`Agrees`: it may already have gone on to the next song, lost it, or
  stopped) and from which the pending calls lead to what the playlist believes
  (`Leads`), each of them in a view that allows it (`Allowed`: only behind a song that
  plays is one enqueued, and only if there is no next one). A call of PlayerControl
  takes the first call from the list and changes the view as it says (`CallAgrees`); a
  step of the player changes no view; a handler appends calls that continue the chain
  (`LeadsOn`), which is one lemma for each handler, over the lemmas about what the
  queue's methods do to positions, ids and order.
* **`CurrentOrQueuedPlays`** (`[]PlaysCurrentOrQueued`) and **`CurrentSongIsKept`**
  (`CurrentSongKept`, an action property), if `Exact`: no block of two or more songs is
  moved (`MaxBlock <= 1`), and "add", "random" and "repeat" are not all among the
  commands. Without either, `current` may come to name another song, as the next
  section says. Here the views say which song is current, and each edit is shown to keep
  it: deleting before it, swapping, moving over it, shuffling the rest, in the order of
  the queue and in random order.
* **`ConsumeRemovesThePlayed`** (`ConsumeRemovesPlayed`, an action property), if
  "random" is not among the commands: in random mode it is false, as the next section
  says. From `PlInv`, the song that is current stands at its order number; then
  `DeleteRange()` with one position takes away one id and no other (`DeletedIds`,
  `ConsumedIds`), and nothing that happens around it - the next song is played, queued
  or cancelled, the playlist stops, the version is incremented or wraps around - changes
  the set of ids (`PlayNextIds`, `SyncIds`, `NextCommandIds`). Its proof is the last part
  of the module.

`PlaylistProofs` (its second part, about `StateFile`), for every instance as above
that also satisfies `StateFileAssumption` (with only two versions, `IncrementVersion()`
would leave the version as it is), whichever songs vanish and however many lines a
write that was cut short lacks:

* **`SavedIsRestored`**: `StateSpec => []RestoredAsSaved`. `Written` says line by line
  what `playlist_state_save()` writes (`SavedLines`), `Sum` what has been read after
  each of these lines (`WrittenRead`, over the least line at which it would differ),
  and `Reads` that the playlist is quiet meanwhile, so that its handlers have one
  outcome and make no call that starts the player (`ReadLineOK`). What follows the last
  line - random mode, which reshuffles the order, and playback from the position that
  was read - keeps the songs and their positions (`Restores`, `RestoredOK`).
* **`EditsWillBeWritten`**: `StateSpec => []EditsAreWritten`. The inductive invariant
  is `FileInv`: the file, or what a crash has left of it, can be read and has room for
  its songs (`FileOK`, `PrefixesOK`); between a write and `RememberVersions()` no handler
  runs, so that the queue is the one that was written; and from then on, while the
  version is the remembered one and no bulk edit has changed the queue without telling
  so, it still is; and if neither a write nor an idle event is to come, the version is
  the remembered one unless the file has failed to open (`Remembered`). The step that matters is a handler: `HandlerNoticed` goes through
  every command and `SyncWithPlayer()` and finds that whatever changes a song, its
  position or its priority also increments the version, or leaves that to
  `CommitBulk()` (`Untold`).
* **`RestoredPlaylistAssertionsHold`**: `StateSpec => []AssertionsHold`. `FileInv`
  contains `PlInv`: a restart leaves a playlist whose calls lead from the view of a
  player that has just been created to what it shows.

`ClientsProofs` (its first part, about `GlobalEvents`), for any threads, idle events and global events that satisfy
`GlobalEventsAssumption`:

* **`EventsTypeCorrect`** and **`NoWakeupIsLost`**: `EventsSpec` implies
  `[]EventsTypeOK` and `[]NoLostWakeup`. Their conjunction is inductive. Each step
  of a thread hands the news on to the next of the three flags before it lets go
  of the one before; the loop takes them back in the opposite order. `EventsSpec`
  lets every thread have any news at any time.

`ClientsProofs`, for every set of connections, whatever their peers send, every size
of the output buffer, the command list and the queue of messages that satisfy
`ClientsAssumption` (the idle events are finitely many, "player" and "message" among
them, and a client can wait only for those):

* **`RequestsAreAnswered`** (`[]OneResponse`), **`ResponsesAreSent`**
  (`[]OutputIsScheduled`) and **`ClientAssertionsHold`** (`[]AssertionsHold`). Between
  two lines every client is `Resting`: what is in its buffer is registered to be sent
  by one callback (`Sound`, which also says that an expired client has no output), and
  it is owed a response exactly if it waits. That is not what holds while its line is
  processed: then the client is `Serving`, owed one response and not waiting, even if
  it sends a message to itself. `Progress` says so of the intermediate states: a command
  that returns "OK" or "FINISH" has not responded, one that returns "ERROR" or "IDLE"
  has, or waits; every command keeps it (`ExecuteOK`), hence the loop over a command
  list, which ends with the first one that has responded (`ExecuteListOK`, over the
  least step that would fail), and the end of the line responds for the rest
  (`AnsweredOK`, `ProcessLineOK`). Wherever the buffer overflows in between, the client
  has expired and owes nothing.
* **`ClientsAreWoken`** (`[]NoLostWakeup`): the invariant of `GlobalEvents` with
  the connections taking part. A command list may have several pieces of news to add at
  once, so `Clients` is not literally an instance of `EventsSpec`; it uses the lemmas.
* **`ClientsKeepTypes`**: `[]ClientsTypeOK`.

`UpdateProofs`, for every directory tree, job queue and id range that satisfies
`UpdateAssumption` and `TreeAssumption`:

* **`NoSongDangles`**: `Spec => []NoDanglingSong`. `SongInv` adds that the song
  the thread waits for is the one it has handed over and is out of the database,
  and that the main thread can hold only a song that is in it or handed over:
  the main thread does not answer while it holds one, because a handler runs to
  its end.
* **`JobIdsDiffer`**: `Spec => []JobIdsAreDistinct`. The ids of the jobs are
  consecutive, modulo the wrap-around, and the queue is shorter than the cycle.
* **`AssertionsNeverFail`**: `Spec => []AssertionsHold`. The call stack ends in
  "save", "done", "emit" for as long as there is a job, so the event comes after
  `progress` is set and once per job.
* **`QueueIsUpToDate`**: `Spec => []QueueFollowsDatabase`. A song that the play
  queue holds and the database no longer has is the one that is handed over, and one
  that differs from the database is queued only while an update runs and `modified`
  is set (`DataInv`), so that its end refreshes the queue.
* **`UpdatesAreSaved`**: `Spec => []ChangesAreSaved`. Between the first change of
  the database and the save, `modified` is set and there are calls on the stack above
  "save" (`Len(work) > 2` in `DataInv`).
* **`ChangesAreFollowed`**: `Spec => []DatabaseFollowsFiles`, if no song is in the
  music directory itself (with one it is false, see `UpdateRoot.cfg` below) and the
  database starts with no file that cannot be read (the walk adds none). `FollowInv`
  says of each song that either a directory it is in is asked for (by an event, a path
  of the inotify queue or a job), or the database has it as it should be or a call on
  the stack is going to see to it (`Mends`), and then no call is about to do the wrong
  thing with it for what it read before the last change (`Spoils`: a deletion of what
  is there again, a time that is no longer the file's). It rests on three groups of
  lemmas: `Path` is what its definition says, by the depth of the tree (`PathFacts`);
  `Enqueue()` loses no path that no other covers (`EnqueuedOK`); each call is replaced
  by calls that see to the same songs (`FollowCalls`). TLC checked `FollowInv` on two
  instances before it was proved.

`OutputsProofs`, for every finite set of outputs and formats, every number of
chunks, whichever outputs are switched on and off and with or without failures, if no
output is `always_on` (`AlwaysOn = {}`, the default of that option; with it, a
pointer to a deleted pipe survives, see below) and no paused output is opened again
with another format (`OtherFormat = FALSE`; with it, `OpensClosed` is a counterexample):

* **`OutputsKeepInv`**: `Spec => []OutputsInv`. An operation of the player is a list
  of steps that output steps come between, so the invariant has to say what every
  position in that list relies on. It ranks the steps (`TodoOK`: what is left is in
  the order of the code, and each step appears for the outputs that are not done
  yet) and ties them to each thread: where it may be (`ThreadOK`), which command may
  be pending at it (`CommandOK`), which pipe it may refer to (`PipeOK`), who may be
  waited for (`AwaitOK`), what will be done to an output whose pipe is about to go
  (`PlanOK`, `ShiftOK`), what a sleeping thread knows (`SleepOK`), which chunks are
  behind the one it plays (`ChunksOK`). TLC checked it on three instances (1 output
  that may fail; 2 outputs without and with failures) before it was proved.
* **`OutputsKeepTypes`**, **`ChunksStayInPipe`** (`[]ChunkInPipe`),
  **`PipeIsSound`** (`[]PipeAssertionsHold`), **`WakeUpsAreNotLost`**
  (`[]NoSleepWithWork`) and **`ChunksArePlayed`** (`PlayedBeforeRemoved`, an action
  property: the head of the pipe is freed only when every open output has played it
  to its end, or if it is the last chunk and a pause has interrupted it) follow from it.
* **`AssertionsAreTrue`**: `Spec => []AssertionsHold`, with `CanFail = FALSE` besides:
  a CLOSE that reaches an output after it has failed does meet
  `assert(ao->open)` (see below). `PipeIsSound` has the assertions about the pipe,
  with failures. `FormatIsKept` is not among them.

`PlayerProofs`, for every set of songs, buffer size and threshold that satisfy
`PlayerAssumption`, and for every setting of `SeekQueued`, `PauseCloses`, `CanFail`
and `Windows`:

* **`NoChunkIsLost`**: `Spec => []NoChunkLost`: free chunks, both pipes, the
  outputs and the decoder's chunk add up to the buffer. The sum alone is not
  inductive: the player clears or swaps pipes and forgets the second one, which is
  right only if the decoder is where the player believes it to be. The inductive
  invariant `IInv` says this in four parts: `Types`; `DecoderPlace` (an idle
  decoder thread holds no chunk); `Handshake` (a decoder command is pending only
  while the player waits for it, and a player that waits for STOP goes on only
  with an idle decoder); and `Quiet` (where in the player nobody writes to a pipe,
  and that there is nothing in the second one unless the decoder is at the next
  song).
* **`OneCommandAtATime`**: `Handshake` and `DecoderPlace` in plain words, which is
  what every line of the player that touches a pipe after a synchronous command
  relies on.

The other two parts of `PlayerProofs`, for the same constants but
`SeekQueued = FALSE`: no song is sought while another one is queued. Without that
they are false: a seek replaces `next_song` before the player has seen the command
(`PlayerControl.cxx:237`, `NextSongIsThere` below).

* **`PlayerAssertionsHold`** (`[]AssertionsHold`), **`OwnSongIsPlayed`**
  (`[]PlaysItsSong`), **`OldChunksGo`** (`[]OldChunksAreDropped`). All three follow
  from `Safe`, which adds `SafetyInv` to `IInv`: with two pipes, a song in the
  player, one in the decoder and one in the control structure, it says which of them
  belong together at each place of the player (`Place`, where it is or will be when
  the decoder has answered). `States`: which fields of the player the reported state
  and the command go with. `NextSong`: `queued` says whether there is a next song,
  except while QUEUE or SEEK is pending. `DecoderSong`: whose song the decoder has,
  and in which pipe; a decoder that was just started has the song that is not yet
  the player's (`Fresh`). `ChunkSongs`: the chunks of a pipe are of the song it
  stands for. `Unwritten`: a decoder that has not begun, or has failed, has written
  nothing, so that the pipe of a new song is empty. `NoneOld`: chunks from before a
  seek are there only while the decoder has not answered it. TLC checked `SafetyInv`
  as an invariant on two instances (2 songs, a buffer of 1 and of 2 chunks, all
  commands) before it was proved; there is one lemma per action.
* **`ThreadsImplementPlayer`**: `Spec => ImplementsPlayer`, the refinement. `Shows`
  says what the mapping gives in terms of the fields: those of the control structure
  as long as the player has not left its loop, "STOP" and no song from then on. For
  each action there is a lemma that names the actions of `Player` it may be, or says
  that it changes nothing of what is shown. The steps that needed an invariant are
  those that change a mapped value in silence: `SeekSong` takes `next_song` while the
  request goes on being shown (the decoder has that song), `RunStopped` keeps the
  song of a command that has come too late, a decoder that fails may only be that
  of the song that is played or sought.

`HttpStreamProofs`, for every size of the resource, of the buffer and of a block that
satisfies `HttpAssumption`, whether connections fail or not, and also for the seeks
that `SeekExactly` adds:

* **`BytesStayInOrder`**: `Spec => []BytesInOrder`. `Chain(buffers, offset)` says that
  the buffers go on from the offset without a gap and that only the first one is begun;
  `StreamInv` adds that an open connection goes on where they end, that a connection
  which is not started yet begins at the offset of an empty buffer, and that the
  handle is gone while the decoder replaces it. Taking bytes is the lemma `ConsumeOK`
  (the chain moves on, its end stays), which rests on what the recursive function
  `Unread` counts (`UnreadIs`, over the least index where it would differ) and on which
  buffers are used up (`EmptiedIs`); receiving a block is `AppendOK`.
* **`EndIsTheEnd`**: `Spec => EndIsEnd`, an action property. `StreamInv` says of a
  connection that is gone, unless a seek or the decoder itself has closed it: its bytes
  have all come, or it has failed and the error is stored, told, or about to be stored
  (`io = "done"`). Only `FillNothing` can return the end, and with nothing buffered the
  offset is the end of the chain.
* **`HttpStreamKeepsTypes`**: `[]HttpTypeOK`, in which `consumed < size` is the
  assertion of `CurlInputBuffer::Consume()`.

Only model-checked: `RandomPlaysAll` of `Playlist`, which needs a history of the
order through every reshuffle and is no claim about every set of `Commands`: a
seek or a song asked for by its position jumps over a part of the order, "shuffle"
moves songs under it, and "previous" goes round when "repeat" is set, so the run
takes the commands that let the order be played through; the properties of `PlayerThread` with `SeekQueued =
TRUE`; and liveness, which is out of the prover's reach.

## Where the code and its documentation disagree

One of these is a run:

* `player_seek_paused`: a seek that has to start a new decoder while playback is
  paused waits for the outputs to play what they have, which outputs that support
  pause do not do; the command never ends (`PlayerThread.cxx:448`).

The others have a configuration each, kept beside the runs: TLC finds the property
violated with `tlc -config <cfg> <module>`.

| Configuration, module | Violated property | What the code does |
|---|---|---|
| `PlaylistMoveBlock.cfg`, `MCPlaylist` | `CurrentSongKept` | Moving a block of two or more songs over the current one leaves `current` at another song (`PlaylistEdit.cxx:404`). |
| `PlaylistConsumeRandom.cfg`, `MCPlaylist` | `ConsumeRemovesPlayed` | With consume and random, a song that was not played may be removed, because `old_current` is an order number from before the reshuffle (`PlaylistControl.cxx:163`; `doc/protocol.xml:631`: "each song played is removed from playlist"). |
| `PlayerSeekQueued.cfg`, `PlayerThread` | `NextSongIsThere` | A seek replaces `next_song` before the player has seen the command; a player that is just passing to the next song takes it, and the seek finds none (`PlayerThread.cxx:346`, the assertion at 520). |
| `OutputsFormat.cfg`, `Outputs` | `FormatIsKept` | `Run()` ends without `audio_output_all_cancel()` if the decoder of a song that was sought does not start (`PlayerThread.cxx:976`; `SeekDecoder()` returned before its cancel) or no silence can be sent (960). The chunks it has sent stay in the outputs' pipe, and the playlist, which finds the player stopped, starts the next song with QUEUE alone; if that song has another audio format, `audio_output_all_open()` meets them (`OutputAll.cxx:318-325`: "if the pipe hasn't been cleared, the the audio format must not have changed"). |
| `OutputsResume.cfg`, `Outputs` | `OpensClosed` | If playback is paused at the beginning of a song, its format becomes known while the outputs are paused, and each gets a REOPEN when playback is resumed. One that fails in `ao_pause()` before it has seen the command gives up its pipe (`OutputThread.cxx:572`), and `ao_reopen()` then opens an output that has none (`assert(ao->pipe != nullptr)`, `OutputThread.cxx:136`). `OtherFormat` is FALSE in the runs. |
| `ClientsPending.cfg`, `MCClients` | `PendingIsSent` | `IdleNotify()` forgets all pending flags, also those the client has not subscribed to (`ClientIdle.cxx:32-33`; `Client.hxx:59`: "to be sent as soon as the client enters "idle""). |
| `UpdateRoot.cfg`, `MCUpdate` | `DatabaseFollowsFiles` | A change in the music directory itself is not queued while any other path is: `path_in()` takes the empty path for one that every other covers (`InotifyQueue.cxx:62`, against the comment at 81-83). |
| `UpdateDelete.cfg`, `MCUpdate` | `DeletionsAreTold` | A song or directory that vanishes between the listing and its being read is deleted without `modified`: no "database" event, no save (`UpdateWalk.cxx:252-256`, `UpdateSong.cxx:45-53`; `doc/protocol.xml:311`). |
| `HttpErrorTwice.cfg`, `HttpStream` | `NoErrorTwice` | A seek does not clear a stored error, and the next failure meets `assert(!c->postponed_error.IsDefined())` (`CurlInputPlugin.cxx:502`). |
| `HttpMutex.cfg`, `HttpStream` | `MutexIsLocked` | A seek to the end, or one whose connection cannot be started, returns with the mutex unlocked, which its caller then unlocks (`CurlInputPlugin.cxx:1087-1115`; `InputStream.hxx:207`). |
| `HttpSeekHang.cfg`, `HttpStream` | `CallsEnd` | A seek to exactly where the buffer ends empties it while the connection is paused; nobody resumes it, and the next read waits for ever (`CurlInputPlugin.cxx:1082`). `SeekExactly` is FALSE in the run. |
| `HttpResumeNone.cfg`, `HttpStream` | `HandleIsResumed` | `paused` outlives the connection, which may end while it is paused; a read then calls `curl_easy_pause()` without a handle (`CurlInputPlugin.cxx:345-347`; line 149: "Is the connection currently paused?"). Libcurl is taken to return an error, as later versions do. |
| `StateFileStopped.cfg`, `MCStateFile` | `StoppedSongKept` | In random mode a stopped playlist is restored with the saved position as an order number (`PlaylistState.cxx:211`; `doc/mpd.conf.5:62-65`). |

`PlaylistRandom.cfg` is one more instance of `MCPlaylist` that holds: three songs
in random mode with shuffles, swaps, seeks and priorities, and the type invariant,
`PlayerFollows` (in every quiet state the player plays the playlist's current song
and has its queued song as the next one) and `MoveInBounds` besides.

Found on the way, without a configuration of their own:

* With random and repeat, the queued song may be at order 0 after the order was
  reshuffled at its end; `AppendSong` then shuffles a new song into everything
  behind it, the current song's order included, and `current` names another song
  (`PlaylistEdit.cxx:125`; `PlaylistAdd.cfg` with "repeat" violates
  `CurrentSongKept`).
* A seek to another song that fails while playback goes on leaves the player at the
  old song, or stops it, with the playlist's `current` at the new one
  (`PlayerThread.cxx:533-540`).
* `IdleNotify()` schedules the client's timeout after the notification has
  overflowed the output and expired the client: it is removed a minute later
  instead of at once (`ClientIdle.cxx:45`).
* "close" discards what was not yet sent if the socket is not writable
  (`ClientRead.cxx:60-63`).
* `Song::UpdateFile()` changes the time and then the tag of a song without the
  database lock (`SongUpdate.cxx:105-108`).
* On shutdown the database is closed while an update thread may be running
  (`Main.cxx:533`, before `update_global_finish()` at 551).
* The state file's hash does not include `playing`, and a change of options does
  not call `CheckModified()`: they are written with the next edit or on exit
  (`PlaylistState.cxx:230`, `Main.cxx:326`).
* `StateFile::Write()` checks neither `fprintf()` nor `fclose()`: if the disk is full, a
  file that was cut short is remembered as written (`StateFile.cxx:77-83`).
* If the state file cannot be opened for writing, the failed write is tried again only
  after another idle event, and if it cannot be opened for reading, MPD starts with an
  empty queue, which the first idle event may write (`StateFile.cxx:71`, 94).
* Single mode does not stop playback if the song ends before the next one was
  queued (`Playlist.cxx:185`).
* An output that has failed is not waited for, and the next command may find the
  old one still pending (`OutputControl.cxx:69`).
* The "XXX race condition" at `PlayerThread.cxx:964`, and the same wait at line
  1050, lose a signal of the decoder that comes just before; if the decoder has
  nothing more to say, the player sleeps and a command sent before it went to
  sleep waits with it.
* A SEEK that reaches the decoder after its plugin has returned starts the song
  again from its beginning (`DecoderThread.cxx:426`), and the next seek may meet
  `assert(state != DecoderState::START)` (`DecoderControl.cxx:115`).
* After a CANCEL that stopped the decoder `dc.pipe` is null, and the song queued
  next is not decoded ahead (`PlayerThread.cxx:991`).
* A seek in the song that is decoded ahead takes the path for the song that is
  playing, and `song` keeps the old one (`PlayerThread.cxx:543`).
* If the music buffer is not larger than what is sent ahead to the outputs, the
  decoder may wait for a chunk that `audio_output_all_cancel` has freed without
  signalling it; and if `buffer_before_play` is close to the whole buffer,
  `SendSilence` may find no chunk and end playback.
* The target of a move relative to the current song is not compared with the
  length of the block (`PlaylistEdit.cxx:394`). `Playlist!Edit` leaves such
  moves out, and `MoveInBounds` holds for single songs.
* `AppendSong` puts a new song before songs of a higher priority in random mode
  (`PlaylistEdit.cxx:130`; `doc/protocol.xml:230` says that songs with a higher
  priority come first).
* The error counter counts a normal end of a song as an error if an earlier
  song failed, and does not count a failure that is noticed after the enqueued
  song has started, so that playback may give up early or never
  (`Playlist.cxx:219`, against the comment at `Playlist.hxx:61`).
* A CLOSE that reaches an output after it has failed meets `assert(ao->open)`
  (`OutputThread.cxx:613`); PAUSE and DRAIN allow for that case.
* An `always_on` output that was released keeps a pointer to the deleted pipe
  and, if it is opened again before it has executed PAUSE, keeps it
  (`OutputControl.cxx:163`). The runs have no `always_on` output.
* A client that lets more than `VersionMax - 2` changes pass may miss one; with
  2^31 - 1 versions this is out of reach in practice.

## What is not modelled

Cross-fading, replay gain, PCM and tags (arithmetic and data without control
state); the plugins (a plugin call that may fail stands for them, except for the
curl input); mixers, stickers, stored playlists, zeroconf and the configuration
(sequential code, or I/O and libraries). They are most of the repository's lines,
which is why the map covers a small share of them: codecs, sound drivers and
formats have no states of their own that a model could tell apart.

Within the modelled parts:

* `Playlist`: tag updates of the queue (their effect is in `QueueChanges` and
  `Update`), stale songs and sections of a song.
* `Outputs`: the KILL command, mixers, tags and the time after which a failed
  output is tried again (it may be at any moment); what a build without assertions does
  with chunks of another format.
* `PlayerThread`: EXIT and UPDATE_AUDIO, cross-fading, times and positions within a
  song, and streams whose tags change.
* `Clients`: parsing, permissions, partial lines, more than one channel.
* `Update`: archives, containers, playlist files, symbolic links, `.mpdignore`; a
  directory exists as long as there is a song below it and is watched by inotify,
  so that the race between a new directory and its watch is left out; a
  modification time stands for the song; saving the database does not fail.
* `HttpStream`: what the decoder thread does while it holds the mutex is one step;
  streams with icy metadata, which cannot seek, are left out.
* `StateFile`: the elapsed time, volume, outputs; hash collisions (`Hash` is the
  tuple of which the code takes the XOR); a line that was cut is taken for lost; a
  full disk.

## Plan

What is left, in order:

1. `RandomPlaysAll`, the property of random mode, as a theorem.
2. UPDATE_AUDIO and EXIT in `PlayerThread`, and the composition of `Playlist` with
   `Player` as one specification, where now the same fields are stated twice.
3. The input streams that archives and icy metadata need; the rewind buffer.
