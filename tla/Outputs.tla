------------------------------ MODULE Outputs -------------------------------
(***************************************************************************)
(* The audio outputs (src/OutputAll.cxx, src/OutputControl.cxx,            *)
(* src/OutputThread.cxx, src/MusicPipe.cxx, src/notify.cxx).               *)
(*                                                                         *)
(* One thread per output, and the player thread, which drives all of them. *)
(* The player pushes chunks into one pipe, g_mp; every output walks along  *)
(* it at its own pace, and the player removes the head of the pipe once    *)
(* all outputs are past it.  Commands go through ao->command, one at a     *)
(* time; some are waited for one by one, others are sent to all outputs    *)
(* and waited for together.                                                *)
(*                                                                         *)
(* A step is what a thread does while it holds ao->mutex.  The plugins are *)
(* called without the mutex: those are the places a thread rests at        *)
(* (ao[o].pc), and where a plugin call may fail.  An operation of the      *)
(* player is the list of steps it has left to do, player.todo.             *)
(***************************************************************************)
EXTENDS Integers, Sequences

CONSTANTS
  NumOutputs,   \* num_audio_outputs
  AlwaysOn,     \* the outputs with always_on
  Formats,      \* audio formats
  MaxChunks,    \* how many chunks the player sends
  Switched,     \* the outputs the user enables and disables
  CanFail,      \* may plugin calls fail?
  OtherFormat   \* may a paused output be opened with another format?

Outputs == 1 .. NumOutputs

\* No format, no chunk.
None == 0

ASSUME OutputsAssumption ==
  /\ NumOutputs \in Nat \ {0}
  /\ AlwaysOn \subseteq Outputs
  /\ Switched \subseteq Outputs
  /\ Formats # {} /\ None \notin Formats
  /\ MaxChunks \in Nat
  /\ {CanFail, OtherFormat} \subseteq BOOLEAN

VARIABLES
  ao,       \* struct audio_output, for every output
  mp,       \* g_mp: [null, chunks, format]
  player,   \* the player thread: [mode, todo, opened]; in mode "off" it has not
            \* opened the outputs (output_open)
  notify,   \* audio_output_client_notify.pending
  sent,     \* number of chunks sent so far
  asserts   \* the assertions that have failed

vars == <<ao, mp, player, notify, sent, asserts>>

Init ==
  /\ ao = [o \in Outputs |->
       [command |-> "NONE", open |-> FALSE, enabled |-> TRUE,
        really_enabled |-> FALSE, allow_play |-> TRUE, pause |-> FALSE,
        chunk |-> None, chunk_finished |-> FALSE, in_playback_loop |-> FALSE,
        woken_for_play |-> FALSE, pipe |-> "null", failed |-> FALSE,
        format |-> None, pc |-> "wait", last |-> None]]
  /\ mp = [null |-> TRUE, chunks |-> <<>>, format |-> None]
  /\ player = [mode |-> "off", todo |-> <<>>, opened |-> FALSE]
  /\ notify = FALSE
  /\ sent = 0
  /\ asserts = {}

-----------------------------------------------------------------------------
\* chunk->next: the chunk behind c in the pipe.
ChunkAfter(c) ==
  LET behind == {i \in 2 .. Len(mp.chunks) : mp.chunks[i - 1] = c}
  IN  IF behind = {} THEN None ELSE mp.chunks[CHOOSE i \in behind : TRUE]

Peek == IF mp.chunks = <<>> THEN None ELSE Head(mp.chunks)

ao_next_chunk(a) == IF a.chunk # None THEN ChunkAfter(a.chunk) ELSE Peek

\* cond.signal() of an output: a thread that waits comes back to its loop.
Signalled(a) == IF a.pc = "wait" THEN "top" ELSE a.pc

\* What ao_close() does before it unlocks.
Closed(a) ==
  [a EXCEPT !.pipe = "null", !.chunk = None, !.open = FALSE, !.last = None]

Fails(condition, name) == IF condition THEN {} ELSE {name}

-----------------------------------------------------------------------------
(* The output threads.                                                     *)

Thread(o, a) ==
  /\ ao' = [ao EXCEPT ![o] = a]
  /\ UNCHANGED <<mp, player, sent>>

\* The head of the loop: look at the command, and call the plugin for it.
StartCommand(o) ==
  LET a == ao[o] IN
  /\ a.pc = "top" /\ a.command # "NONE"
  /\ \/ /\ a.command \in {"ENABLE", "REOPEN"}
        /\ Thread(o, [a EXCEPT !.pc = "exec"])
     \/ /\ a.command = "OPEN"
        /\ Thread(o, [a EXCEPT !.failed = FALSE, !.pc = "exec"])
     \/ /\ a.command = "DISABLE"
        /\ Thread(o, [(IF a.open THEN Closed(a) ELSE a)
                        EXCEPT !.really_enabled = FALSE, !.pc = "exec"])
     \/ /\ a.command = "CLOSE"
        /\ Thread(o, [Closed(a) EXCEPT !.pc = "exec"])
     \/ /\ a.command \in {"PAUSE", "DRAIN"}
        /\ Thread(o, [a EXCEPT !.pc = "exec"])
     \/ /\ a.command = "CANCEL"
        /\ Thread(o, [a EXCEPT !.chunk = None, !.pc = "exec"])
  /\ asserts' = asserts
       \cup Fails(a.command = "CLOSE" => a.open, "close_open")
       \cup Fails(a.command = "OPEN" \/ (a.command = "REOPEN" /\ ~a.open) =>
                    ~a.open /\ a.pipe # "null" /\ a.chunk = None, "open_closed")
       \cup Fails(a.command = "DRAIN" /\ a.open =>
                    a.chunk = None /\ Peek = None, "drain_empty")
  /\ UNCHANGED notify

\* ao_open() and ao_reopen(): the output is open afterwards, or it has
\* failed and is not tried again for some time.  It keeps the pipe then,
\* unless only the filter was to be opened again.  Enabling may fail, too.
Opened(a) ==
  {[a EXCEPT !.open = TRUE, !.really_enabled = TRUE]}
  \cup (IF CanFail
        THEN {[Closed(a) EXCEPT !.failed = TRUE, !.really_enabled = TRUE, !.pipe = p] :
                p \in {a.pipe} \cup (IF a.open THEN {"null"} ELSE {})}
               \cup (IF a.really_enabled THEN {} ELSE {a})
        ELSE {})

Enabled(a) ==
  {[a EXCEPT !.really_enabled = TRUE]}
  \cup (IF CanFail THEN {a} ELSE {})

\* The plugin has returned: the command is finished.  PAUSE enters the
\* pause loop; after PAUSE, DRAIN and CANCEL the loop looks at the command
\* again before it plays.
FinishCommand(o) ==
  LET a == ao[o] IN
  /\ a.pc = "exec"
  /\ \E b \in CASE a.command \in {"OPEN", "REOPEN"} -> Opened(a)
                [] a.command = "ENABLE" -> Enabled(a)
                [] OTHER -> {a} :
       Thread(o, [b EXCEPT
                    !.command = "NONE",
                    !.pause = a.command = "PAUSE" /\ a.open,
                    !.pc = IF a.command \in {"DRAIN", "CANCEL"} \/
                              (a.command = "PAUSE" /\ a.open)
                           THEN "notify_continue" ELSE "notify_break"])
  /\ UNCHANGED <<notify, asserts>>

\* What the thread does after a command.
AfterCommand(a) ==
  IF a.pause THEN "paused" ELSE IF a.pc = "notify_break" THEN "play" ELSE "top"

\* Mutant: the player is not notified.
NotifyNobody(o) ==
  /\ ao[o].pc \in {"notify_break", "notify_continue"}
  /\ Thread(o, [ao[o] EXCEPT !.pc = AfterCommand(ao[o])])
  /\ UNCHANGED <<notify, asserts>>

\* audio_output_client_notify.Signal(), without the mutex.
Notify(o) ==
  /\ ao[o].pc \in {"notify_break", "notify_continue"}
  /\ notify' = TRUE
  /\ Thread(o, [ao[o] EXCEPT !.pc = AfterCommand(ao[o])])
  /\ UNCHANGED asserts

\* Without a command, or after one, the thread tries to play.
TriesToPlay(a) == a.pc = "play" \/ (a.pc = "top" /\ a.command = "NONE")

CanPlay(a) == a.open /\ a.allow_play /\ ao_next_chunk(a) # None

\* ao_play() begins; a command that has arrived meanwhile ends it at once.
StartPlay(o) ==
  LET a == ao[o] IN
  /\ TriesToPlay(a) /\ CanPlay(a)
  /\ IF a.command = "NONE"
     THEN Thread(o, [a EXCEPT !.chunk = ao_next_chunk(a),
                              !.chunk_finished = FALSE,
                              !.in_playback_loop = TRUE, !.pc = "plugin_play"])
     ELSE Thread(o, [a EXCEPT !.chunk_finished = TRUE, !.pc = "top"])
  /\ asserts' = asserts \cup Fails(a.pipe = "g_mp" /\ ~mp.null, "pipe")
  /\ UNCHANGED notify

\* Mutant: the thread goes to sleep without taking back woken_for_play.
SleepStaysWoken(o) ==
  LET a == ao[o] IN
  /\ TriesToPlay(a) /\ ~CanPlay(a)
  /\ Thread(o, [a EXCEPT !.pc = IF a.command = "NONE" THEN "wait" ELSE "top"])
  /\ UNCHANGED <<notify, asserts>>

\* Nothing to play: wait for a command or for a chunk.
Sleep(o) ==
  LET a == ao[o] IN
  /\ TriesToPlay(a) /\ ~CanPlay(a)
  /\ Thread(o, IF a.command = "NONE"
               THEN [a EXCEPT !.woken_for_play = FALSE, !.pc = "wait"]
               ELSE [a EXCEPT !.pc = "top"])
  /\ UNCHANGED <<notify, asserts>>

\* The player is signalled, which only ends its waiting for room in the pipe.
EndPlay(a) ==
  [a EXCEPT !.in_playback_loop = FALSE, !.chunk_finished = TRUE, !.pc = "top"]

\* The plugin has played the whole chunk: go on with the next one.
PlayedChunk(o) ==
  LET a == [ao[o] EXCEPT !.last = ao[o].chunk]
      next == ChunkAfter(a.chunk)
  IN
  /\ a.pc = "plugin_play"
  /\ Thread(o, IF next # None /\ a.command = "NONE"
               THEN [a EXCEPT !.chunk = next] ELSE EndPlay(a))
  /\ asserts' = asserts \cup Fails(a.chunk # None, "chunk_kept")
  /\ UNCHANGED notify

\* A command interrupts the chunk.
Interrupted(o) ==
  /\ ao[o].pc = "plugin_play" /\ ao[o].command # "NONE"
  /\ Thread(o, EndPlay(ao[o]))
  /\ asserts' = asserts \cup Fails(ao[o].chunk # None, "chunk_kept")
  /\ UNCHANGED notify

\* The plugin fails: close the output, and do not open it again soon.
PlayFails(o) ==
  /\ CanFail /\ ao[o].pc = "plugin_play"
  /\ Thread(o, [Closed(ao[o]) EXCEPT !.pc = "closing"])
  /\ UNCHANGED <<notify, asserts>>

PlayClosed(o) ==
  /\ ao[o].pc = "closing"
  /\ Thread(o, [EndPlay(ao[o]) EXCEPT !.failed = TRUE])
  /\ UNCHANGED <<notify, asserts>>

\* ao_pause() ends with the next command, or because the plugin fails.
Resume(o) ==
  /\ ao[o].pc = "paused" /\ ao[o].command # "NONE"
  /\ Thread(o, [ao[o] EXCEPT !.pause = FALSE, !.pc = "top"])
  /\ UNCHANGED <<notify, asserts>>

PauseFails(o) ==
  /\ CanFail /\ ao[o].pc = "paused"
  /\ Thread(o, [Closed(ao[o]) EXCEPT !.pc = "pause_closing"])
  /\ UNCHANGED <<notify, asserts>>

PauseClosed(o) ==
  /\ ao[o].pc = "pause_closing"
  /\ Thread(o, [ao[o] EXCEPT !.pause = FALSE, !.pc = "top"])
  /\ UNCHANGED <<notify, asserts>>

OutputThread(o) ==
  \/ StartCommand(o) \/ FinishCommand(o) \/ Notify(o)
  \/ StartPlay(o) \/ Sleep(o) \/ PlayedChunk(o) \/ Interrupted(o)
  \/ PlayFails(o) \/ PlayClosed(o)
  \/ Resume(o) \/ PauseFails(o) \/ PauseClosed(o)

-----------------------------------------------------------------------------
(* The player thread: the steps of its operations.                         *)

Step(op, o) == [op |-> op, o |-> o]

Each(op) == [i \in 1 .. NumOutputs |-> Step(op, i)]

All(op) == <<Step(op, 0)>>

\* Send a command; the output must not have one.
Async(a, command) ==
  [a EXCEPT !.command = command, !.pc = Signalled(a)]

IdleAssertion(a) == Fails(a.command = "NONE", "command_none")

\* The player's step is done with output o in state a, and more steps come.
Steps(o, a, more, opened, failed) ==
  /\ ao' = [ao EXCEPT ![o] = a]
  /\ player' = [player EXCEPT !.todo = more \o Tail(@), !.opened = opened]
  /\ asserts' = asserts \cup failed
  /\ UNCHANGED <<mp, notify, sent>>

Step1(o, a, more, failed) == Steps(o, a, more, player.opened, failed)

Now(op) == player.todo # <<>> /\ Head(player.todo).op = op

Target == Head(player.todo).o

Goes(todo) ==
  /\ player' = [player EXCEPT !.todo = todo]
  /\ UNCHANGED <<ao, mp, notify, sent, asserts>>

AllFinished == \A o \in Outputs : ao[o].open => ao[o].command = "NONE"

\* ao_command_wait() waits for one output, audio_output_wait_all() for all of
\* them, but not for an output that has closed itself.  Whoever finds a
\* command unfinished sleeps until the next notification, and looks again.
Await ==
  /\ Now("await") \/ Now("await_all")
  /\ Goes(IF IF Now("await") THEN ao[Target].command = "NONE" ELSE AllFinished
          THEN Tail(player.todo) ELSE All("sleep") \o player.todo)

\* notify::Wait()
WaitNotify ==
  /\ Now("sleep") /\ notify
  /\ notify' = FALSE
  /\ player' = [player EXCEPT !.todo = Tail(@)]
  /\ UNCHANGED <<ao, mp, sent, asserts>>

Command(o, a, command) ==
  Step1(o, Async(a, command), <<Step("await", o)>>, IdleAssertion(a))

\* audio_output_all_enable_disable()
EnableDisable ==
  LET o == Target a == ao[Target] IN
  /\ Now("enable")
  /\ IF a.enabled = a.really_enabled THEN Step1(o, a, <<>>, {})
     ELSE Command(o, a, IF a.enabled THEN "ENABLE" ELSE "DISABLE")

\* audio_output_reset_reopen()
ResetReopen ==
  LET a == ao[Target] IN
  /\ Now("reset")
  /\ Step1(Target, [a EXCEPT !.failed = @ /\ a.open], <<>>, {})

SamePipe(o) == Fails(\/ ao[o].pipe = "g_mp"
                     \/ o \in AlwaysOn /\ ao[o].pause, "same_pipe")

\* audio_output_open()
OpenOutput(o) ==
  LET a == [ao[o] EXCEPT !.failed = FALSE]
      b == [a EXCEPT !.chunk = None, !.pipe = "g_mp"]
  IN
  IF a.open /\ a.format = mp.format
  THEN IF a.pause
       THEN Steps(o, Async(b, "CANCEL"), <<Step("await", o)>>, TRUE,
                  IdleAssertion(a) \cup SamePipe(o))
       ELSE Steps(o, a, <<>>, TRUE, SamePipe(o))
  ELSE Step1(o, Async([b EXCEPT !.format = mp.format],
                      IF a.open THEN "REOPEN" ELSE "OPEN"),
             <<Step("await", o), Step("result", o)>>, IdleAssertion(a))

\* audio_output_close_locked()
CloseOutput(o) ==
  LET a == ao[o] IN
  IF a.open THEN Command(o, a, "CLOSE")
  ELSE Step1(o, [a EXCEPT !.failed = FALSE], <<>>, {})

\* audio_output_update(): a failed output is tried again after some time.
Update ==
  LET o == Target a == ao[Target] IN
  /\ Now("update")
  /\ IF mp.format # None /\ a.enabled /\ a.really_enabled
     THEN \/ OpenOutput(o)
          \/ a.failed /\ Step1(o, a, <<>>, {})
     ELSE IF mp.format # None /\ a.open THEN CloseOutput(o)
     ELSE Step1(o, a, <<>>, {})

OpenResult ==
  /\ Now("result")
  /\ Steps(Target, ao[Target], <<>>, player.opened \/ ao[Target].open, {})

\* audio_output_play()
Wake ==
  LET a == ao[Target] IN
  /\ Now("wake")
  /\ Step1(Target, IF a.open /\ ~a.in_playback_loop /\ ~a.woken_for_play
                   THEN [a EXCEPT !.woken_for_play = TRUE, !.pc = Signalled(a)]
                   ELSE a, <<>>, {})

\* The commands that are sent to all open outputs at once.
Send(op, command, a) ==
  /\ Now(op)
  /\ IF a.open THEN Step1(Target, Async(a, command), <<>>, IdleAssertion(a))
     ELSE Step1(Target, a, <<>>, {})

PauseOutput == Send("pause", "PAUSE", ao[Target])

DrainOutput == Send("drain", "DRAIN", ao[Target])

CancelOutput ==
  LET a == ao[Target]
  IN  Send("cancel", "CANCEL", [a EXCEPT !.allow_play = @ /\ ~a.open])

AllowPlay ==
  LET a == ao[Target] IN
  /\ Now("allow")
  /\ Step1(Target, [a EXCEPT !.allow_play = TRUE,
                             !.pc = IF a.open THEN Signalled(a) ELSE @],
           <<>>, {})

Close == Now("close") /\ CloseOutput(Target)

\* audio_output_release(): an output that is always on is only paused, and
\* nobody waits for that.
Release ==
  /\ Now("release")
  /\ Goes(<<Step(IF Target \in AlwaysOn THEN "pause" ELSE "close", Target)>>
            \o Tail(player.todo))

\* g_mp->Push()
Push ==
  /\ Now("push")
  /\ IF player.opened
     THEN /\ mp' = [mp EXCEPT !.chunks = Append(@, sent + 1)]
          /\ sent' = sent + 1
          /\ player' = [player EXCEPT !.todo = Each("wake")]
     ELSE /\ player' = [player EXCEPT !.mode = "paused", !.todo = <<>>]
          /\ UNCHANGED <<mp, sent>>
  /\ UNCHANGED <<ao, notify, asserts>>

\* g_mp->Clear()
ClearPipe ==
  /\ Now("clear")
  /\ mp' = [mp EXCEPT !.chunks = <<>>]
  /\ player' = [player EXCEPT !.todo = Tail(@)]
  /\ UNCHANGED <<ao, notify, sent, asserts>>

\* delete g_mp; a pipe that an output still has is a dangling pointer.
DeletePipe ==
  /\ Now("delete")
  /\ mp' = [null |-> TRUE, chunks |-> <<>>, format |-> None]
  /\ ao' = [o \in Outputs |-> [ao[o] EXCEPT !.pipe = IF @ = "g_mp" THEN "stale"
                                                                   ELSE @]]
  /\ player' = [player EXCEPT !.todo = Tail(@)]
  /\ UNCHANGED <<notify, sent, asserts>>

\* The end of audio_output_all_open()
OpenDone ==
  /\ Now("opened")
  /\ player' = IF \E o \in Outputs : ao[o].open
               THEN [player EXCEPT !.mode = "on", !.todo = <<>>]
               ELSE [player EXCEPT !.mode = "off",
                                   !.todo = Each("close") \o All("delete")]
  /\ UNCHANGED <<ao, mp, notify, sent, asserts>>

-----------------------------------------------------------------------------
(* audio_output_all_check(): remove the chunks every output is done with.  *)

\* Mutants: the chunk's end is not awaited; the outputs keep the last chunk.
ConsumedUnfinished(a, chunk) == ~a.open \/ a.chunk # None

ClearedTailKept(a) == a

chunk_is_consumed_in(a, chunk) ==
  \/ ~a.open
  \/ /\ a.chunk # None
     /\ a.chunk = chunk => a.chunk_finished /\ ChunkAfter(chunk) = None

chunk_is_consumed(chunk) ==
  \A o \in Outputs : chunk_is_consumed_in(ao[o], chunk)

Check ==
  /\ Now("check")
  /\ player' = [player EXCEPT !.todo =
                  IF Peek # None /\ chunk_is_consumed(Peek)
                  THEN All("shift") \o @ ELSE Tail(@)]
  /\ asserts' = asserts \cup
       Fails(\A o \in Outputs : ao[o].open /\ ao[o].chunk # None =>
               \E i \in DOMAIN mp.chunks : mp.chunks[i] = ao[o].chunk,
             "contains")
  /\ UNCHANGED <<ao, mp, notify, sent>>

\* clear_tail_chunk() takes the last chunk out of an output's hands.
ClearedTail(a) == IF a.open THEN [a EXCEPT !.chunk = None] ELSE a

Shift ==
  LET is_tail == Len(mp.chunks) = 1 IN
  /\ Now("shift")
  /\ ao' = [o \in Outputs |-> IF is_tail THEN ClearedTail(ao[o]) ELSE ao[o]]
  /\ asserts' = asserts \cup
       Fails(is_tail => \A o \in Outputs : ao[o].open =>
               ao[o].chunk = Peek /\ ao[o].chunk_finished, "tail")
  /\ mp' = [mp EXCEPT !.chunks = Tail(@)]
  /\ player' = [player EXCEPT !.todo = Tail(@)]
  /\ UNCHANGED <<notify, sent>>

-----------------------------------------------------------------------------
(* The operations, where Player::Run() and player_task() call them.        *)

Begin(mode, todo) ==
  /\ player.todo = <<>>
  /\ player' = [mode |-> mode, todo |-> todo, opened |-> FALSE]
  /\ UNCHANGED <<ao, notify, sent, asserts>>

\* A format that is new is opened only when the old one's chunks are gone
\* (FormatIsKept asks if they are).
\* At the end of a pause it may be new, too: the decoder of another song has
\* got ready meanwhile.
Open(format) ==
  /\ mp.null \/ mp.chunks = <<>> \/ mp.format = format
  /\ OtherFormat \/ \A o \in Outputs : ao[o].open /\ ao[o].pause => ao[o].format = format
  /\ mp' = [mp EXCEPT !.null = FALSE, !.format = format]
  /\ Begin("opening", Each("reset") \o Each("enable") \o Each("update")
                         \o All("opened"))

Play ==
  /\ player.mode = "on" /\ sent < MaxChunks
  /\ Begin("on", Each("update") \o All("push"))
  /\ UNCHANGED mp

\* While playback is paused, too: CheckDecoderStartup() waits for the outputs.
CheckPipe ==
  /\ player.mode \in {"on", "paused"}
  /\ Begin(player.mode, All("check"))
  /\ UNCHANGED mp

\* (At the border of a song, border_pause leaves the outputs playing: they
\* stay "on", and get nothing more to play.)
Pause ==
  /\ player.mode # "paused"
  /\ Begin(IF player.mode = "on" THEN "paused" ELSE "off",
           Each("update") \o Each("pause") \o All("await_all"))
  /\ UNCHANGED mp

\* At the end of the last song, when the pipe is empty
Drain ==
  /\ player.mode = "on" /\ mp.chunks = <<>>
  /\ Begin("off", Each("drain") \o All("await_all"))
  /\ UNCHANGED mp

CancelSteps ==
  Each("cancel") \o All("await_all") \o All("clear") \o Each("allow")

\* After a seek
Cancel ==
  /\ Begin(player.mode, CancelSteps)
  /\ UNCHANGED mp

\* PlayerCommand::STOP and CLOSE_AUDIO leave Run() with a cancel.
StopPlayer ==
  /\ player.mode # "off"
  /\ Begin("off", CancelSteps)
  /\ UNCHANGED mp

\* Run() ends without a cancel if the decoder of a song that was sought does
\* not start, or no silence can be sent: the outputs go on with what they have.
LeaveRun ==
  /\ player.mode \in {"on", "paused"}
  /\ Begin("off", <<>>)
  /\ UNCHANGED mp

CloseAudio ==
  /\ player.mode = "off"
  /\ Begin("off", Each("release") \o All("delete"))
  /\ UNCHANGED mp

UpdateAudio ==
  /\ Begin(player.mode, Each("enable"))
  /\ UNCHANGED mp

PlayerBegin ==
  \/ \E format \in Formats : Open(format)
  \/ Play \/ CheckPipe \/ Pause \/ Drain \/ Cancel \/ StopPlayer
  \/ LeaveRun \/ CloseAudio \/ UpdateAudio

PlayerStep ==
  \/ Await \/ WaitNotify
  \/ EnableDisable \/ ResetReopen \/ Update \/ OpenResult \/ Wake
  \/ PauseOutput \/ DrainOutput \/ CancelOutput \/ AllowPlay
  \/ Close \/ Release \/ Push \/ ClearPipe \/ DeletePipe \/ OpenDone
  \/ Check \/ Shift

\* "enableoutput" and "disableoutput", in the main thread
Toggle(o) ==
  /\ ao' = [ao EXCEPT ![o].enabled = ~@]
  /\ UNCHANGED <<mp, player, notify, sent, asserts>>

Next ==
  \/ PlayerBegin
  \/ PlayerStep
  \/ \E o \in Outputs : OutputThread(o)
  \/ \E o \in Switched : Toggle(o)

Spec == Init /\ [][Next]_vars

\* The threads run, and no plugin call lasts forever.
FairSpec ==
  /\ Spec
  /\ WF_vars(PlayerStep)
  /\ \A o \in Outputs : WF_vars(OutputThread(o))

-----------------------------------------------------------------------------
Commands == {"NONE", "ENABLE", "DISABLE", "OPEN", "REOPEN", "CLOSE", "PAUSE",
             "DRAIN", "CANCEL"}

Places == {"wait", "top", "exec", "notify_break", "notify_continue", "play",
           "plugin_play", "closing", "paused", "pause_closing"}

(* Every thread's program counter, the requests, the chunks and the pipe keep
   their types: in particular a thread only ever waits, plays or executes at
   the places audio_output_task has. *)
OutputsTypeOK ==
  /\ \A o \in Outputs :
       /\ ao[o].command \in Commands
       /\ ao[o].pc \in Places
       /\ ao[o].pipe \in {"null", "g_mp", "stale"}
       /\ ao[o].chunk \in 0 .. MaxChunks /\ ao[o].last \in 0 .. MaxChunks
       /\ ao[o].in_playback_loop => ao[o].pc \in {"plugin_play", "closing"}
  /\ mp.null => mp.chunks = <<>>
  /\ player.mode \in {"off", "opening", "on", "paused"}
  /\ sent \in 0 .. MaxChunks

\* An open output refers to a chunk of the pipe: no chunk goes back to the
\* music buffer while an output plays it or will follow its next pointer.
ChunkInPipe ==
  \A o \in Outputs : ao[o].open /\ ao[o].chunk # None =>
    \E i \in DOMAIN mp.chunks : mp.chunks[i] = ao[o].chunk

\* A chunk leaves the pipe in audio_output_all_check() only after every open
\* output has played it to its end, though commands interrupt the outputs
\* in the middle of a chunk and mark it as finished - or, as a check is also
\* made while playback is paused, if it is the last one and a pause has
\* interrupted it.
PlayedBeforeRemoved ==
  [][Shift => \A o \in Outputs : ao[o].open =>
       \/ ao[o].last >= Peek
       \/ player.mode = "paused" /\ ao[o].pause /\ Len(mp.chunks) = 1]_vars

\* No lost wake-up: between two operations of the player, an output that
\* could play does not sleep.
NoSleepWithWork ==
  player.todo = <<>> => \A o \in Outputs :
    ~(ao[o].pc = "wait" /\ ao[o].command = "NONE" /\ CanPlay(ao[o]))

\* The assertions of clear_tail_chunk(), chunk_is_consumed_in(), ao_play(),
\* ao_open() and the DRAIN command hold, whichever output fails when.
PipeAssertionsHold ==
  asserts \cap {"tail", "contains", "chunk_kept", "pipe", "drain_empty",
                "open_closed"} = {}

\* Every other assertion of the outputs holds, too, as long as no plugin fails.
AssertionsHold == asserts = {}

\* "if the pipe hasn't been cleared, the the audio format must not have changed":
\* the assertions of audio_output_all_open() (OutputAll.cxx:318-325), which a
\* player that begins may call with any format.
FormatIsKept ==
  player.mode = "off" /\ player.todo = <<>> =>
    mp.chunks = <<>> \/ \A format \in Formats : mp.format = format

\* The assertions of ao_open() hold.
OpensClosed == "open_closed" \notin asserts

\* Every operation of the player comes to its end: no command is forgotten,
\* and no notification is lost.
OperationsEnd == player.todo # <<>> ~> player.todo = <<>>
=============================================================================
