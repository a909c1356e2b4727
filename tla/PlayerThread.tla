---------------------------- MODULE PlayerThread ----------------------------
(***************************************************************************)
(* The player thread and the decoder thread (src/PlayerThread.cxx,         *)
(* src/PlayerControl.cxx, src/DecoderControl.cxx, src/DecoderThread.cxx,   *)
(* src/DecoderAPI.cxx, src/DecoderInternal.cxx).                           *)
(*                                                                         *)
(* The main thread sends a command and waits for it to be finished; the    *)
(* player does the same with the decoder.  All of them share one mutex.    *)
(* The player waits on one condition, which the main thread, the decoder   *)
(* and the outputs signal; the decoder waits on another one.  A signal     *)
(* that finds nobody asleep is lost.                                       *)
(*                                                                         *)
(* A step is what a thread does between two places where another thread    *)
(* can come in.  player.at and decoder.at are these places; the outputs    *)
(* are a number of chunks that they play.  Without cross-fading, there are *)
(* two pipes: the one that is played and the one of the next song.         *)
(***************************************************************************)
EXTENDS Integers, Sequences

CONSTANTS
  Songs,              \* the songs
  Bad,                \* the songs whose decoder may fail
  BufferSize,         \* the number of chunks in the music buffer
  BufferedBeforePlay, \* buffered_before_play
  OutputsFull,        \* how many chunks are sent ahead to the outputs (64)
  SilenceBelow,       \* silence is sent if fewer chunks are at the outputs (4)
  Commands,           \* the calls of PlayerControl in this instance
  SeekQueued,         \* may a seek come while a next song is queued?
  PauseCloses,        \* do the output plugins close when they pause?
  CanFail,            \* may the outputs fail?
  Windows             \* may another thread come in before WaitForDecoder()?

None == 0   \* no song

ASSUME PlayerAssumption ==
  /\ Songs \subseteq Nat \ {None} /\ Bad \subseteq Songs
  /\ BufferSize \in Nat \ {0}
  /\ BufferedBeforePlay \in 0 .. BufferSize
  /\ OutputsFull \in Nat \ {0} /\ SilenceBelow \in Nat
  /\ {SeekQueued, PauseCloses, CanFail, Windows} \subseteq BOOLEAN

VARIABLES
  main,      \* the song PlayerControl::Play() enqueues after its STOP
  pc,        \* struct PlayerControl
  player,    \* class Player, and where its thread is
  dc,        \* struct DecoderControl
  decoder,   \* struct Decoder, and where its thread is
  pipe,      \* the chunks of the pipe that is played
  next_pipe, \* the chunks of the pipe for the next song
  out,       \* the outputs, and how many chunks they have left and done
  free,      \* the free chunks of the music buffer
  asserts    \* the assertions that have failed

vars == <<main, pc, player, dc, decoder, pipe, next_pipe, out, free, asserts>>

NewPlayer ==
  [at |-> "task", asleep |-> "no", then |-> "task", seeking |-> FALSE,
   buffering |-> TRUE, decoder_starting |-> FALSE, decoder_woken |-> FALSE,
   paused |-> FALSE, queued |-> TRUE, output_open |-> FALSE,
   format |-> FALSE, song |-> None]

Init ==
  /\ main = None
  /\ pc = [command |-> "NONE", state |-> "STOP", next |-> None,
           border_pause |-> FALSE]
  /\ player = NewPlayer
  /\ dc = [command |-> "NONE", state |-> "STOP", song |-> None,
           pipe |-> "null", seek_error |-> FALSE]
  /\ decoder = [at |-> "task", asleep |-> "no", chunk |-> <<>>, ok |-> TRUE]
  /\ pipe = <<>> /\ next_pipe = <<>>
  /\ out = [state |-> "closed", left |-> 0, done |-> 0]
  /\ free = BufferSize
  /\ asserts = {}

-----------------------------------------------------------------------------
(* What the steps are made of.                                             *)

IsIdle == dc.state \in {"STOP", "ERROR"}
IsDecoderAtCurrentSong == dc.pipe = "pipe"
\* Mutant: also if there is no pipe.
IsDecoderNotAtCurrentSong == dc.pipe # "pipe"

IsDecoderAtNextSong == dc.pipe = "next"
IsCurrentSong(song) == ~IsIdle /\ dc.song = song

Failed(name, condition) == IF condition THEN {} ELSE {name}

\* The pipe the decoder writes to.
DecoderPipe == IF dc.pipe = "next" THEN next_pipe ELSE pipe

\* A thread waits in DecoderControl::WaitForDecoder() ("decoder") or in another
\* Wait() ("signal") until its condition is signalled.
Woken(thread) == [thread EXCEPT !.asleep = "no"]

At(place) == player.at = place /\ player.asleep = "no"
Goto(place) == player' = [player EXCEPT !.at = place]
WaitForDecoder(place) ==
  player' = [player EXCEPT !.at = place, !.asleep = "decoder"]
Wait(place) == player' = [player EXCEPT !.at = place, !.asleep = "signal"]

\* Send a command to the decoder, and wait until it is finished.
SendDecoder(d, command, p, then) ==
  /\ dc' = [d EXCEPT !.command = command]
  /\ player' = [p EXCEPT !.at = "await", !.asleep = "decoder", !.then = then]
  /\ decoder' = Woken(decoder)

\* audio_output_all_check(): the chunks played go back to the buffer.
Checked == [out EXCEPT !.done = 0]
CheckOutputs == out' = Checked /\ free' = free + out.done
InOutputs == out.left + out.done

\* audio_output_all_cancel(), which also ends a pause
EmptyOutputs ==
  [state |-> IF out.state = "paused" THEN "open" ELSE out.state, left |-> 0, done |-> 0]
CancelOutputs == out' = EmptyOutputs /\ free' = free + InOutputs

\* audio_output_all_release(), and audio_output_all_open() if it fails
NoOutput == [state |-> "closed", left |-> 0, done |-> 0]

\* Outputs that close let go of their chunks; outputs that open, or that end a
\* pause, begin with the first chunk again.
ClosedOutputs == [state |-> "closed", left |-> 0, done |-> InOutputs]
OpenedOutputs(o) ==
  IF o.state = "open" THEN o
                      ELSE [state |-> "open", left |-> o.left + o.done, done |-> 0]

\* audio_output_all_update() opens those that are closed, if they can be opened.
UpdatedOutputs(o) ==
  IF o.state # "closed" THEN {o}
                        ELSE {OpenedOutputs(o)} \cup (IF CanFail THEN {o} ELSE {})

CommandFinished(p) == [p EXCEPT !.command = "NONE"]

-----------------------------------------------------------------------------
(* The main thread: PlayerControl.                                         *)

Send(command, next) ==
  /\ pc' = [pc EXCEPT !.command = command, !.next = next]
  /\ player' = Woken(player)
  /\ asserts' = asserts \cup Failed("enqueue", command = "QUEUE" => pc.next = None)
  /\ UNCHANGED <<dc, decoder, pipe, next_pipe, out, free>>

MainIdle(name) == name \in Commands /\ pc.command = "NONE" /\ main = None

Play(song) ==
  /\ MainIdle("play")
  /\ IF pc.state = "STOP"
     THEN Send("QUEUE", song) /\ UNCHANGED main
     ELSE Send("STOP", pc.next) /\ main' = song

PlayEnqueues ==
  /\ main # None /\ pc.command = "NONE"
  /\ Send("QUEUE", main)
  /\ main' = None

\* The playlist enqueues a song only if there is no next one.
EnqueueSong(song) ==
  /\ MainIdle("enqueue") /\ pc.next = None
  /\ Send("QUEUE", song)
  /\ UNCHANGED main

Cancel == MainIdle("cancel") /\ Send("CANCEL", pc.next) /\ UNCHANGED main

Stop == MainIdle("stop") /\ Send("CLOSE_AUDIO", pc.next) /\ UNCHANGED main

Pause ==
  /\ MainIdle("pause") /\ pc.state # "STOP"
  /\ Send("PAUSE", pc.next)
  /\ UNCHANGED main

Seek(song) ==
  /\ MainIdle("seek")
  /\ SeekQueued \/ pc.state = "STOP" \/ ~(player.queued \/ IsDecoderAtNextSong)
  /\ Send("SEEK", song)
  /\ UNCHANGED main

GetStatus == MainIdle("status") /\ Send("REFRESH", pc.next) /\ UNCHANGED main

SetBorderPause ==
  /\ MainIdle("border")
  /\ pc' = [pc EXCEPT !.border_pause = ~@]
  /\ UNCHANGED <<main, player, dc, decoder, pipe, next_pipe, out, free, asserts>>

Main ==
  \/ \E song \in Songs : Play(song) \/ EnqueueSong(song) \/ Seek(song)
  \/ PlayEnqueues \/ Cancel \/ Stop \/ Pause \/ GetStatus \/ SetBorderPause

-----------------------------------------------------------------------------
(* The player thread between two songs: player_task().                     *)

TaskFinishes(next, outputs) ==
  /\ pc' = [CommandFinished(pc) EXCEPT !.next = next]
  /\ out' = outputs
  /\ free' = free + InOutputs - outputs.left - outputs.done
  /\ UNCHANGED <<main, player, dc, decoder, pipe, next_pipe>>

\* The assertion of CLOSE_AUDIO: all chunks have been returned.
Task ==
  /\ At("task")
  /\ \/ /\ pc.command = "STOP"
        /\ TaskFinishes(None, EmptyOutputs)
        /\ UNCHANGED asserts
     \/ /\ pc.command \in {"PAUSE", "CANCEL"}
        /\ TaskFinishes(None, out)
        /\ UNCHANGED asserts
     \/ /\ pc.command = "CLOSE_AUDIO"
        /\ TaskFinishes(pc.next, NoOutput)
        /\ asserts' = asserts \cup Failed("buffer_empty", free' = BufferSize)
     \/ /\ pc.command = "REFRESH"
        /\ TaskFinishes(pc.next, out)
        /\ UNCHANGED asserts
     \/ /\ pc.command = "NONE"
        /\ Wait("task")
        /\ UNCHANGED <<main, pc, dc, decoder, pipe, next_pipe, out, free, asserts>>

\* StartDecoder()
StartDecoder(p, which, then, chunks) ==
  /\ SendDecoder([dc EXCEPT !.song = pc.next, !.pipe = which], "START", p, then)
  /\ asserts' = asserts \cup Failed("next_song", pc.next # None)
                        \cup Failed("pipe_empty", chunks = <<>>)
                        \cup Failed("queued", p.queued \/ pc.command = "SEEK")

\* Player::Run() begins.
Run ==
  /\ At("task") /\ pc.command \in {"QUEUE", "SEEK"}
  /\ pipe' = <<>>
  /\ StartDecoder(NewPlayer, "pipe", "run", <<>>)
  /\ UNCHANGED <<main, pc, next_pipe, out, free>>

\* DecoderControl::WaitCommandLocked()
Await ==
  /\ At("await")
  /\ IF dc.command = "NONE" THEN player' = [player EXCEPT !.at = player.then, !.then = "task"]
     ELSE WaitForDecoder("await")
  /\ UNCHANGED <<main, pc, dc, decoder, pipe, next_pipe, out, free, asserts>>

\* Player::WaitForDecoder(): the song that was next is now the current one.
Started(at) ==
  [player EXCEPT !.at = at, !.queued = FALSE, !.decoder_starting = TRUE,
                 !.song = pc.next]

\* The decoder has accepted the first song, or failed.
RunStarted ==
  /\ At("run")
  /\ IF dc.state = "ERROR"
     THEN /\ pc' = [CommandFinished(pc) EXCEPT !.next = None]
          /\ player' = NewPlayer
          /\ dc' = [dc EXCEPT !.pipe = "null"]
          /\ pipe' = <<>> /\ free' = free + Len(pipe)
     ELSE /\ pc' = [CommandFinished(pc) EXCEPT !.next = None, !.state = "PLAY"]
          /\ player' = Started("loop")
          /\ UNCHANGED <<dc, pipe, free>>
  /\ UNCHANGED <<main, decoder, next_pipe, out, asserts>>

-----------------------------------------------------------------------------
(* The player thread in a song: commands.                                  *)

\* DecoderControl::Stop(), then go on at the given place.
StopDecoder(then) ==
  IF IsIdle THEN Goto(then) /\ UNCHANGED <<dc, decoder>>
            ELSE SendDecoder(dc, "STOP", player, then)

\* The chunks in the decoder's pipe, if that is not the one being played.
InNextPipe == IF IsDecoderAtNextSong THEN Len(next_pipe) ELSE 0

\* OpenOutput(); p and q are the player and the PlayerControl so far.
OpenOutput(p, q) ==
  \/ /\ player' = [p EXCEPT !.output_open = TRUE, !.paused = FALSE]
     /\ pc' = [q EXCEPT !.state = "PLAY"]
     /\ out' = OpenedOutputs(out) /\ UNCHANGED free
  \/ /\ CanFail
     /\ player' = [p EXCEPT !.output_open = FALSE, !.paused = TRUE]
     /\ pc' = [q EXCEPT !.state = "PAUSE"]
     /\ out' = NoOutput /\ free' = free + InOutputs

CommandPause ==
  LET p == [player EXCEPT !.at = "body", !.paused = ~@]
      q == CommandFinished(pc)
  IN  \/ /\ p.paused
         /\ player' = p /\ pc' = [q EXCEPT !.state = "PAUSE"]
         /\ \E o \in UpdatedOutputs(out) :
              out' = IF PauseCloses \/ o.state = "closed" THEN ClosedOutputs
                                                        ELSE [o EXCEPT !.state = "paused"]
         /\ UNCHANGED free
      \/ /\ ~p.paused /\ ~p.format
         /\ player' = p /\ pc' = [q EXCEPT !.state = "PLAY"]
         /\ UNCHANGED <<out, free>>
      \/ ~p.paused /\ p.format /\ OpenOutput(p, q)

\* A command that ends the loop; "the cancel request arrived too late".
CommandStop ==
  /\ At("loop")
  /\ \/ pc.command \in {"STOP", "CLOSE_AUDIO"} /\ UNCHANGED pc
     \/ /\ pc.command = "CANCEL" /\ pc.next = None
        /\ pc' = [pc EXCEPT !.command = "STOP"]
  /\ Goto("stop")
  /\ CancelOutputs
  /\ UNCHANGED <<main, dc, decoder, pipe, next_pipe, asserts>>

CommandCancel ==
  /\ At("loop") /\ pc.command = "CANCEL" /\ pc.next # None
  /\ IF IsDecoderAtNextSong THEN StopDecoder("cancel")
     ELSE Goto("cancel") /\ UNCHANGED <<dc, decoder>>
  /\ UNCHANGED <<main, pc, pipe, next_pipe, out, free, asserts>>

Cancelled ==
  /\ At("cancel")
  /\ dc' = IF IsDecoderAtNextSong THEN [dc EXCEPT !.pipe = "null"] ELSE dc
  /\ free' = free + InNextPipe /\ next_pipe' = <<>>
  /\ pc' = [CommandFinished(pc) EXCEPT !.next = None]
  /\ player' = [player EXCEPT !.at = "body", !.queued = FALSE]
  /\ UNCHANGED <<main, decoder, pipe, out, asserts>>

ProcessCommand ==
  /\ At("loop")
  /\ \/ /\ pc.command = "NONE"
        /\ Goto("body")
        /\ UNCHANGED <<pc, out, free, asserts>>
     \/ /\ pc.command = "QUEUE"
        /\ player' = [player EXCEPT !.at = "body", !.queued = TRUE]
        /\ pc' = CommandFinished(pc)
        /\ asserts' = asserts \cup Failed("next_song", pc.next # None)
                              \cup Failed("not_queued", ~player.queued)
                              \cup Failed("not_at_next", ~IsDecoderAtNextSong)
        /\ UNCHANGED <<out, free>>
     \/ pc.command = "PAUSE" /\ CommandPause /\ UNCHANGED asserts
     \/ /\ pc.command = "SEEK"
        /\ player' = [player EXCEPT !.at = "seek", !.seeking = TRUE]
        /\ UNCHANGED <<pc, out, free, asserts>>
     \/ /\ pc.command = "REFRESH"
        /\ Goto("body")
        /\ pc' = CommandFinished(pc)
        /\ IF player.output_open /\ ~player.paused
           THEN CheckOutputs ELSE UNCHANGED <<out, free>>
        /\ UNCHANGED asserts
  /\ UNCHANGED <<main, dc, decoder, pipe, next_pipe>>

-----------------------------------------------------------------------------
(* The player thread in a song: SeekDecoder() and CheckDecoderStartup().   *)

SeekFails ==
  /\ player' = [player EXCEPT !.at = "body", !.seeking = FALSE]
  /\ pc' = CommandFinished(pc)

\* "it is the same song file; exchange the pipe"
SeekSong ==
  /\ At("seek")
  /\ IF IsCurrentSong(pc.next)
     THEN /\ pc' = [pc EXCEPT !.next = None]
          /\ player' = [player EXCEPT !.at = "startup", !.queued = FALSE]
          /\ IF IsDecoderAtNextSong
             THEN /\ dc' = [dc EXCEPT !.pipe = "pipe"]
                  /\ pipe' = next_pipe /\ next_pipe' = <<>>
                  /\ free' = free + Len(pipe)
             ELSE UNCHANGED <<dc, pipe, next_pipe, free>>
          /\ UNCHANGED decoder
     ELSE StopDecoder("seek_stopped") /\ UNCHANGED <<pc, pipe, next_pipe, free>>
  /\ asserts' = asserts \cup Failed("next_song", pc.next # None)
  /\ UNCHANGED <<main, out>>

SeekRestarts ==
  /\ At("seek_stopped")
  /\ pipe' = <<>> /\ next_pipe' = <<>>
  /\ free' = free + Len(pipe) + InNextPipe
  /\ StartDecoder(player, "pipe", "seek_started", pipe')
  /\ UNCHANGED <<main, pc, out>>

SeekStarted ==
  /\ At("seek_started")
  /\ IF dc.state = "ERROR"
     THEN /\ player' = [player EXCEPT !.at = "body", !.seeking = FALSE, !.queued = FALSE]
          /\ pc' = [CommandFinished(pc) EXCEPT !.next = None]
     ELSE player' = Started("startup") /\ pc' = [pc EXCEPT !.next = None]
  /\ UNCHANGED <<main, dc, decoder, pipe, next_pipe, out, free, asserts>>

\* Where CheckDecoderStartup() returns to.
Caller == IF player.seeking THEN "startup" ELSE "loop"

CheckDecoderStartup ==
  /\ At("startup") /\ player.decoder_starting
  /\ \/ /\ dc.state = "ERROR"
        /\ IF player.seeking THEN SeekFails ELSE Goto("stop") /\ UNCHANGED pc
     \/ dc.state = "START" /\ WaitForDecoder(Caller) /\ UNCHANGED pc
     \/ dc.state \in {"STOP", "DECODE"} /\ Goto("startup_check") /\ UNCHANGED pc
  /\ UNCHANGED <<main, dc, decoder, pipe, next_pipe, out, free, asserts>>

\* audio_output_all_wait(1): wait at most once, for any signal.
StartupCheck ==
  /\ At("startup_check")
  /\ IF player.output_open THEN CheckOutputs ELSE UNCHANGED <<out, free>>
  /\ IF ~player.output_open \/ out.left = 0 THEN Goto("startup_ready")
                                            ELSE Wait("startup_woken")
  /\ UNCHANGED <<main, pc, dc, decoder, pipe, next_pipe, asserts>>

StartupWoken ==
  /\ At("startup_woken")
  /\ CheckOutputs
  /\ Goto(IF out.left = 0 THEN "startup_ready" ELSE Caller)
  /\ UNCHANGED <<main, pc, dc, decoder, pipe, next_pipe, asserts>>

StartupReady ==
  /\ At("startup_ready")
  /\ LET p == [player EXCEPT !.at = Caller, !.decoder_starting = FALSE, !.format = TRUE]
     IN  IF player.paused THEN player' = p /\ UNCHANGED <<pc, out, free>>
                          ELSE OpenOutput(p, pc)
  /\ UNCHANGED <<main, dc, decoder, pipe, next_pipe, asserts>>

\* The chunks that are there when a seek begins.
Aged(chunks, old) ==
  [i \in DOMAIN chunks |-> [chunks[i] EXCEPT !.old = old]]

\* DecoderControl::Seek(); a song may not be seekable.
SeekDecoder ==
  /\ At("startup") /\ player.seeking /\ ~player.decoder_starting
  /\ asserts' = asserts \cup Failed("seek_start", dc.state # "START")
  /\ \/ SeekFails /\ UNCHANGED <<dc, decoder, pipe>>
     \/ /\ ~IsIdle
        /\ dc' = [dc EXCEPT !.command = "SEEK", !.seek_error = FALSE]
        /\ player' = [player EXCEPT !.at = "await", !.asleep = "decoder",
                                    !.then = "seek_done"]
        /\ decoder' = [Woken(decoder) EXCEPT !.chunk = Aged(@, TRUE)]
        /\ pipe' = Aged(pipe, TRUE)
        /\ UNCHANGED pc
  /\ UNCHANGED <<main, next_pipe, out, free>>

SeekDone ==
  /\ At("seek_done")
  /\ IF dc.seek_error
     THEN /\ SeekFails
          /\ decoder' = [decoder EXCEPT !.chunk = Aged(@, FALSE)]
          /\ pipe' = Aged(pipe, FALSE)
          /\ UNCHANGED <<out, free>>
     ELSE /\ player' = [player EXCEPT !.at = "body", !.seeking = FALSE, !.buffering = TRUE]
          /\ pc' = CommandFinished(pc)
          /\ CancelOutputs
          /\ UNCHANGED <<decoder, pipe>>
  /\ UNCHANGED <<main, dc, next_pipe, asserts>>

-----------------------------------------------------------------------------
(* The player thread in a song: the loop of Player::Run().                 *)

\* SendSilence(), after audio_output_all_check(); then go on as the player p.
SendSilence(p) ==
  \E o \in UpdatedOutputs(Checked) :
    IF free + out.done = 0 \/ o.state = "closed"
    THEN Goto("stop") /\ CheckOutputs
    ELSE /\ player' = p
         /\ out' = [o EXCEPT !.left = @ + 1]
         /\ free' = free + out.done - 1

\* "XXX race condition: check decoder again"
BufferWait ==
  IF Windows THEN [player EXCEPT !.at = "buffer_wait"]
             ELSE [player EXCEPT !.at = "loop", !.asleep = "decoder"]

Buffering ==
  /\ At("body")
  /\ player.buffering /\ Len(pipe) < BufferedBeforePlay /\ ~IsIdle
  /\ IF player.paused \/ ~player.output_open
     THEN player' = BufferWait /\ UNCHANGED <<out, free>>
     ELSE IF out.left < SilenceBelow THEN SendSilence(BufferWait)
          ELSE player' = BufferWait /\ CheckOutputs
  /\ UNCHANGED <<main, pc, dc, decoder, pipe, next_pipe, asserts>>

BufferWaits ==
  /\ At("buffer_wait")
  /\ WaitForDecoder("loop")
  /\ UNCHANGED <<main, pc, dc, decoder, pipe, next_pipe, out, free, asserts>>

Buffered ==
  /\ At("body")
  /\ ~(player.buffering /\ Len(pipe) < BufferedBeforePlay /\ ~IsIdle)
  /\ player' = [player EXCEPT !.buffering = FALSE,
                  !.at = IF player.decoder_starting THEN "startup" ELSE "next"]
  /\ UNCHANGED <<main, pc, dc, decoder, pipe, next_pipe, out, free, asserts>>

\* "the decoder has finished the current song; make it decode the next song"
DecodeNext ==
  /\ At("next")
  /\ IF IsIdle /\ player.queued /\ IsDecoderAtCurrentSong
     THEN StartDecoder(player, "next", "play", next_pipe)
     ELSE Goto("play") /\ UNCHANGED <<dc, decoder, asserts>>
  /\ UNCHANGED <<main, pc, pipe, next_pipe, out, free>>

Paused ==
  /\ At("play") /\ player.paused
  /\ IF pc.command = "NONE" THEN Wait("loop") ELSE Goto("loop")
  /\ UNCHANGED <<main, pc, dc, decoder, pipe, next_pipe, out, free, asserts>>

\* Mutant: also while playback is paused.
PlayingAlways ==
  /\ At("play")
  /\ Goto(IF pipe = <<>> THEN "no_data" ELSE "play_check")
  /\ UNCHANGED <<main, pc, dc, decoder, pipe, next_pipe, out, free, asserts>>

Playing ==
  /\ At("play") /\ ~player.paused
  /\ Goto(IF pipe = <<>> THEN "no_data" ELSE "play_check")
  /\ UNCHANGED <<main, pc, dc, decoder, pipe, next_pipe, out, free, asserts>>

\* audio_output_all_wait(64)
PlayCheck ==
  /\ At("play_check")
  /\ CheckOutputs
  /\ IF out.left < OutputsFull THEN Goto("play_chunk") ELSE Wait("play_woken")
  /\ UNCHANGED <<main, pc, dc, decoder, pipe, next_pipe, asserts>>

PlayWoken ==
  /\ At("play_woken")
  /\ CheckOutputs
  /\ Goto(IF out.left < OutputsFull THEN "play_chunk" ELSE "loop")
  /\ UNCHANGED <<main, pc, dc, decoder, pipe, next_pipe, asserts>>

\* The decoder is woken once, when there is room for a larger block.
DecoderHasRoom ==
  ~IsIdle /\ Len(IF IsDecoderAtNextSong THEN next_pipe ELSE Tail(pipe))
               <= (BufferedBeforePlay + BufferSize * 3) \div 4

PlayNextChunk ==
  /\ At("play_chunk")
  /\ pipe' = Tail(pipe)
  /\ \E o \in UpdatedOutputs(out) :
       IF o.state = "closed"
       THEN /\ player' = [player EXCEPT !.at = "loop", !.paused = TRUE]
            /\ pc' = [pc EXCEPT !.state = "PAUSE"]
            /\ free' = free + 1
            /\ UNCHANGED <<decoder, out>>
       ELSE /\ player' = [player EXCEPT !.at = "loop", !.decoder_woken = DecoderHasRoom]
            /\ out' = [o EXCEPT !.left = @ + 1]
            /\ decoder' = IF DecoderHasRoom /\ ~player.decoder_woken
                          THEN Woken(decoder) ELSE decoder
            /\ UNCHANGED <<pc, free>>
  /\ UNCHANGED <<main, dc, next_pipe, asserts>>

SongBorder ==
  /\ pipe' = next_pipe /\ next_pipe' = <<>>
  /\ dc' = [dc EXCEPT !.pipe = "pipe"]
  /\ asserts' = asserts \cup Failed("next_song", pc.next # None)
                        \cup Failed("queued", player.queued \/ pc.command = "SEEK")
  /\ IF dc.state = "ERROR"
     THEN /\ player' = [player EXCEPT !.at = "stop", !.queued = FALSE]
          /\ pc' = [pc EXCEPT !.next = None]
     ELSE /\ player' = [Started("loop") EXCEPT !.paused = @ \/ pc.border_pause]
          /\ pc' = [pc EXCEPT !.next = None,
                      !.state = IF pc.border_pause THEN "PAUSE" ELSE @]

DataWait ==
  /\ decoder' = Woken(decoder)
  /\ WaitForDecoder("loop")

NoData ==
  /\ At("no_data")
  /\ \/ /\ out.left > 0
        /\ IF Windows THEN Goto("data_wait") /\ UNCHANGED decoder ELSE DataWait
        /\ CheckOutputs
        /\ UNCHANGED <<pc, dc, pipe, next_pipe, asserts>>
     \/ /\ out.left = 0 /\ IsDecoderAtNextSong
        /\ SongBorder /\ CheckOutputs
        /\ UNCHANGED decoder
     \/ /\ out.left = 0 /\ ~IsDecoderAtNextSong /\ IsIdle
        /\ Goto(IF pipe = <<>> THEN "stop" ELSE "loop") /\ CheckOutputs
        /\ UNCHANGED <<pc, dc, decoder, pipe, next_pipe, asserts>>
     \/ /\ out.left = 0 /\ ~IsDecoderAtNextSong /\ ~IsIdle
        /\ IF player.output_open THEN SendSilence([player EXCEPT !.at = "loop"])
                                 ELSE Goto("loop") /\ CheckOutputs
        /\ UNCHANGED <<pc, dc, decoder, pipe, next_pipe, asserts>>
  /\ UNCHANGED main

DataWaits ==
  /\ At("data_wait")
  /\ DataWait
  /\ UNCHANGED <<main, pc, dc, pipe, next_pipe, out, free, asserts>>

\* The song that was queued but not started is dropped.
NextDropped == IF player.queued THEN None ELSE pc.next

\* The end of Player::Run().
RunStops ==
  /\ At("stop")
  /\ StopDecoder("stopped")
  /\ UNCHANGED <<main, pc, pipe, next_pipe, out, free, asserts>>

RunStopped ==
  /\ At("stopped")
  /\ pipe' = <<>> /\ next_pipe' = <<>>
  /\ free' = free + Len(pipe) + InNextPipe
  /\ dc' = [dc EXCEPT !.pipe = "null"]
  /\ pc' = [pc EXCEPT !.state = "STOP", !.next = NextDropped]
  /\ player' = NewPlayer
  /\ asserts' = asserts \cup Failed("next_song", player.queued => pc.next # None)
  /\ UNCHANGED <<main, decoder, out>>

PlayerSteps ==
  \/ Task \/ Run \/ Await \/ RunStarted
  \/ ProcessCommand \/ CommandStop \/ CommandCancel \/ Cancelled
  \/ SeekSong \/ SeekRestarts \/ SeekStarted \/ SeekDecoder \/ SeekDone
  \/ CheckDecoderStartup \/ StartupCheck \/ StartupWoken \/ StartupReady
  \/ Buffering \/ BufferWaits \/ Buffered \/ DecodeNext \/ Paused \/ Playing
  \/ PlayCheck \/ PlayWoken \/ PlayNextChunk \/ NoData \/ DataWaits
  \/ RunStops \/ RunStopped

-----------------------------------------------------------------------------
(* The decoder thread.                                                     *)

DecoderAt(place) == decoder.at = place /\ decoder.asleep = "no"
DecoderGoto(place) == decoder' = [decoder EXCEPT !.at = place]

\* client_cond.signal()
SignalPlayer == player' = Woken(player)

DecoderFinished(d) == [d EXCEPT !.command = "NONE"]

\* Mutants: the decoder's chunk is forgotten; the pipe is not cleared.
ClearOnlyPipe ==
  /\ free' = free + Len(DecoderPipe)
  /\ IF IsDecoderAtNextSong THEN next_pipe' = <<>> /\ UNCHANGED pipe
                            ELSE pipe' = <<>> /\ UNCHANGED next_pipe
ClearOnlyChunk ==
  free' = free + Len(decoder.chunk) /\ UNCHANGED <<pipe, next_pipe>>

\* MusicPipe::Clear() of the decoder's pipe; the decoder's chunk is returned too.
ClearDecoderPipe ==
  /\ free' = free + Len(DecoderPipe) + Len(decoder.chunk)
  /\ IF IsDecoderAtNextSong THEN next_pipe' = <<>> /\ UNCHANGED pipe
                            ELSE pipe' = <<>> /\ UNCHANGED next_pipe

\* Mutant: the chunk goes to the pipe that is played.
FlushToPlayed ==
  /\ pipe' = pipe \o decoder.chunk /\ UNCHANGED next_pipe
  /\ IF player.asleep = "decoder" THEN SignalPlayer ELSE UNCHANGED player

\* decoder_flush_chunk(): the player is signalled only if it waits for the decoder.
FlushChunk ==
  /\ IF IsDecoderAtNextSong
     THEN next_pipe' = next_pipe \o decoder.chunk /\ UNCHANGED pipe
     ELSE pipe' = pipe \o decoder.chunk /\ UNCHANGED next_pipe
  /\ IF player.asleep = "decoder" THEN SignalPlayer ELSE UNCHANGED player

\* decoder_task(), decoder_run(): a song may fail before it is opened.
DecoderTask ==
  /\ DecoderAt("task")
  /\ \/ /\ dc.command = "NONE"
        /\ decoder' = [decoder EXCEPT !.asleep = "signal"]
        /\ UNCHANGED <<player, dc, pipe, next_pipe, free>>
     \/ /\ dc.command = "STOP"
        /\ dc' = DecoderFinished(dc) /\ SignalPlayer
        /\ UNCHANGED <<decoder, pipe, next_pipe, free>>
     \/ /\ dc.command \in {"START", "SEEK"}
        /\ IF dc.command = "SEEK" THEN ClearDecoderPipe
                                  ELSE UNCHANGED <<pipe, next_pipe, free>>
        /\ \/ /\ dc' = [DecoderFinished(dc) EXCEPT !.state = "START"]
              /\ DecoderGoto("init")
           \/ /\ dc.song \in Bad
              /\ dc' = [DecoderFinished(dc) EXCEPT !.state = "ERROR"]
              /\ UNCHANGED decoder
        /\ SignalPlayer
  /\ UNCHANGED <<main, pc, out, asserts>>

\* The plugins are tried until one calls decoder_initialized().
DecoderInitialized ==
  /\ DecoderAt("init")
  /\ \/ /\ dc' = [dc EXCEPT !.state = "DECODE"] /\ SignalPlayer
        /\ DecoderGoto("decode")
        /\ asserts' = asserts \cup Failed("pipe_empty", DecoderPipe = <<>>)
     \/ /\ dc.song \in Bad \/ dc.command = "STOP"
        /\ decoder' = [decoder EXCEPT !.at = "end", !.ok = dc.command = "STOP"]
        /\ UNCHANGED <<player, dc, asserts>>
  /\ UNCHANGED <<main, pc, pipe, next_pipe, out, free>>

\* The plugin looks at the command, and seeks if it has to.
DecoderCommand ==
  /\ DecoderAt("decode")
  /\ \/ /\ dc.command = "NONE" /\ DecoderGoto("data")
        /\ UNCHANGED <<player, dc, pipe, next_pipe, free>>
     \/ /\ dc.command = "SEEK"
        /\ ClearDecoderPipe
        /\ decoder' = [decoder EXCEPT !.chunk = <<>>]
        /\ dc' = DecoderFinished(dc) /\ SignalPlayer
     \/ /\ dc.command = "SEEK"
        /\ dc' = [DecoderFinished(dc) EXCEPT !.seek_error = TRUE] /\ SignalPlayer
        /\ UNCHANGED <<decoder, pipe, next_pipe, free>>
  /\ UNCHANGED <<main, pc, out, asserts>>

\* STOP, or the end of the song, whatever the command is.
DecoderEnds ==
  /\ \/ DecoderAt("decode") /\ dc.command # "SEEK"
     \/ DecoderAt("data")
  /\ decoder' = [decoder EXCEPT !.at = "end", !.ok = TRUE]
  /\ UNCHANGED <<main, pc, player, dc, pipe, next_pipe, out, free, asserts>>

\* decoder_data(): begin a chunk, or finish it.
DecoderData ==
  /\ DecoderAt("data")
  /\ IF decoder.chunk # <<>>
     THEN /\ FlushChunk
          /\ decoder' = [decoder EXCEPT !.at = "decode", !.chunk = <<>>]
          /\ UNCHANGED free
     ELSE /\ IF free > 0
             THEN /\ free' = free - 1
                  /\ decoder' = [decoder EXCEPT !.at = "decode",
                                   !.chunk = <<[song |-> dc.song, old |-> FALSE]>>]
             ELSE DecoderGoto("need") /\ UNCHANGED free
          /\ UNCHANGED <<player, pipe, next_pipe>>
  /\ UNCHANGED <<main, pc, dc, out, asserts>>

\* Mutant: the decoder goes on trying, whatever the command is.
NeedChunksAlways ==
  /\ DecoderAt("need")
  /\ decoder' = IF dc.command = "NONE"
                THEN [decoder EXCEPT !.at = "needed", !.asleep = "signal"]
                ELSE [decoder EXCEPT !.at = "data"]
  /\ UNCHANGED <<main, pc, player, dc, pipe, next_pipe, out, free, asserts>>

\* need_chunks()
NeedChunks ==
  /\ DecoderAt("need")
  /\ decoder' = IF dc.command = "NONE"
                THEN [decoder EXCEPT !.at = "needed", !.asleep = "signal"]
                ELSE [decoder EXCEPT !.at = "decode"]
  /\ UNCHANGED <<main, pc, player, dc, pipe, next_pipe, out, free, asserts>>

NeededChunks ==
  /\ DecoderAt("needed")
  /\ DecoderGoto(IF dc.command = "NONE" THEN "data" ELSE "decode")
  /\ UNCHANGED <<main, pc, player, dc, pipe, next_pipe, out, free, asserts>>

\* "flush the last chunk"
DecoderFlushesLast ==
  /\ DecoderAt("end") /\ decoder.chunk # <<>>
  /\ FlushChunk
  /\ decoder' = [decoder EXCEPT !.chunk = <<>>]
  /\ UNCHANGED <<main, pc, dc, out, free, asserts>>

DecoderEnded ==
  /\ DecoderAt("end") /\ decoder.chunk = <<>>
  /\ dc' = [dc EXCEPT !.state = IF decoder.ok THEN "STOP" ELSE "ERROR"]
  /\ SignalPlayer
  /\ decoder' = [decoder EXCEPT !.at = "task", !.ok = TRUE]
  /\ UNCHANGED <<main, pc, pipe, next_pipe, out, free, asserts>>

DecoderSteps ==
  \/ DecoderTask \/ DecoderInitialized \/ DecoderCommand \/ DecoderEnds
  \/ DecoderData \/ NeedChunks \/ NeededChunks
  \/ DecoderFlushesLast \/ DecoderEnded

-----------------------------------------------------------------------------
(* The outputs: Outputs has them in detail.                                *)

\* The player is signalled when all chunks have been played.
OutputsPlay ==
  /\ out.state = "open" /\ out.left > 0
  /\ out' = [out EXCEPT !.left = @ - 1, !.done = @ + 1]
  /\ IF out.left = 1 THEN SignalPlayer ELSE UNCHANGED player
  /\ UNCHANGED <<main, pc, dc, decoder, pipe, next_pipe, free, asserts>>

OutputsBreak ==
  /\ CanFail /\ out.state = "open" /\ out.left > 0
  /\ out' = ClosedOutputs /\ SignalPlayer
  /\ UNCHANGED <<main, pc, dc, decoder, pipe, next_pipe, free, asserts>>

Next == Main \/ PlayerSteps \/ DecoderSteps \/ OutputsPlay \/ OutputsBreak

Spec == Init /\ [][Next]_vars

\* The threads run on; nothing is assumed of the main thread.
FairSpec ==
  Spec /\ WF_vars(PlayerSteps) /\ WF_vars(DecoderSteps) /\ WF_vars(OutputsPlay)

-----------------------------------------------------------------------------
(* The refinement of Player.                                               *)

\* The player has left its loop, and only gives back what it holds.
Leaving ==
  \/ player.at \in {"stop", "stopped"}
  \/ player.at = "await" /\ player.then = "stopped"

\* The song that a pending command is about; SEEK takes it out of next_song.
Requested ==
  CASE pc.command = "QUEUE" -> pc.next
    [] pc.command = "SEEK" -> IF pc.next # None THEN pc.next ELSE dc.song
    [] OTHER -> None

ShownState == IF Leaving THEN "STOP" ELSE pc.state
ShownSong == IF Leaving THEN None ELSE player.song

\* A song that is not queued yet is not the next one.
ShownNext == IF Leaving \/ Requested # None THEN None ELSE pc.next

\* The decoder of the song that is played has failed.
ShownFailed ==
  ~Leaving /\ IsDecoderAtCurrentSong /\ dc.state = "ERROR" /\ dc.command # "START"

P == INSTANCE Player WITH
       command <- pc.command, request <- Requested, state <- ShownState,
       song <- ShownSong, next <- ShownNext, border_pause <- pc.border_pause,
       failed <- ShownFailed

-----------------------------------------------------------------------------
(* Properties.                                                             *)

\* The threads implement what Player promises: the song that is played is left
\* only for the next one, the one sought or none, a paused player neither goes on
\* nor resumes by itself, a song that was cancelled does not start, and a command
\* has taken effect when it is finished.
ImplementsPlayer == P!Spec

Chunk == [song : Songs, old : BOOLEAN]

\* The variables have their types: no more chunks are returned to the buffer than
\* were taken from it.
PlayerTypeOK ==
  /\ main \in Songs \cup {None}
  /\ pc \in [command : {"NONE", "QUEUE", "PAUSE", "SEEK", "CLOSE_AUDIO", "STOP",
                        "CANCEL", "REFRESH"},
             state : {"STOP", "PLAY", "PAUSE"}, next : Songs \cup {None},
             border_pause : BOOLEAN]
  /\ player.asleep \in {"no", "decoder", "signal"} /\ player.song \in Songs \cup {None}
  /\ dc \in [command : {"NONE", "START", "STOP", "SEEK"},
             state : {"STOP", "START", "DECODE", "ERROR"}, song : Songs \cup {None},
             pipe : {"null", "pipe", "next"}, seek_error : BOOLEAN]
  /\ decoder.asleep \in {"no", "signal"} /\ decoder.chunk \in {<<>>} \cup {<<c>> : c \in Chunk}
  /\ \A p \in {pipe, next_pipe} : p \in Seq(Chunk)
  /\ out \in [state : {"closed", "open", "paused"}, left : 0 .. BufferSize,
              done : 0 .. BufferSize]
  /\ free \in 0 .. BufferSize

\* Every chunk of the music buffer is free, in a pipe, at the decoder or at the
\* outputs: no stop, seek, cancel or failure loses one or returns it twice.
NoChunkLost ==
  free + Len(pipe) + Len(next_pipe) + Len(decoder.chunk) + InOutputs = BufferSize

\* The assertions of the player and the decoder hold, for the calls that the
\* instance allows: a song is queued when one is started, its pipe is empty, no
\* song is queued twice or while the next one is decoded, the buffer is empty
\* when the audio is closed. Left out is the one of DecoderControl::Seek(): a
\* seek that finds the decoder finished starts it again, and the next seek may
\* find it starting.
AssertionsHold == asserts \subseteq {"seek_start"}

\* Player::SeekDecoder() and player_task() say assert(pc.next_song != nullptr).
NextSongIsThere == "next_song" \notin asserts

\* The chunk that is sent to the outputs is one of the current song, whatever
\* has been queued, cancelled or sought before.
PlaysItsSong == player.at = "play_chunk" => Head(pipe).song = player.song

\* After a seek, no chunk from before it is left anywhere.
OldChunksAreDropped ==
  ~player.seeking =>
    \A chunks \in {pipe, next_pipe, decoder.chunk} :
      \A i \in DOMAIN chunks : ~chunks[i].old

\* "Send a command to the player thread and synchronously wait for it to finish"
\* (PlayerControl.hxx): the main thread does not wait forever, whatever the player,
\* the decoder and the outputs wait for at that moment.
CommandsEnd == (pc.command # "NONE") ~> (pc.command = "NONE")
=============================================================================
