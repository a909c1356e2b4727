---------------------------- MODULE PlayerProofs ----------------------------
(***************************************************************************)
(* Proofs about PlayerThread: no chunk of the music buffer is ever lost,   *)
(* what is played is what has been asked for, and every step of a thread   *)
(* is a step of the player that its callers know, or none.                 *)
(***************************************************************************)
EXTENDS PlayerThread, TLAPS

-----------------------------------------------------------------------------
(* The chunks of the music buffer.                                         *)

\* Where the player goes on after it has stopped the decoder, and after any command.
StopPlaces == {"stopped", "seek_stopped", "cancel"}
Thens == {"run", "play", "seek_started", "seek_done"} \cup StopPlaces

Places ==
  {"task", "run", "await", "loop", "body", "stop", "stopped", "cancel", "seek",
   "seek_stopped", "seek_started", "seek_done", "startup", "startup_check",
   "startup_woken", "startup_ready", "buffer_wait", "next", "play", "play_check",
   "play_woken", "play_chunk", "no_data", "data_wait"}

Players ==
  [at : Places, asleep : {"no", "decoder", "signal"}, then : Places,
   seeking : BOOLEAN, buffering : BOOLEAN, decoder_starting : BOOLEAN,
   decoder_woken : BOOLEAN, paused : BOOLEAN, queued : BOOLEAN,
   output_open : BOOLEAN, format : BOOLEAN, song : Songs \cup {None}]

\* Also a chunk of no song: that there is none is not needed here.
Piece == [song : Songs \cup {None}, old : BOOLEAN]

Decoders ==
  [at : {"task", "init", "decode", "data", "need", "needed", "end"},
   asleep : {"no", "signal"}, chunk : Seq(Piece), ok : BOOLEAN]

Outs == [state : {"closed", "open", "paused"}, left : Nat, done : Nat]

Decoding ==
  [command : {"NONE", "START", "STOP", "SEEK"},
   state : {"STOP", "START", "DECODE", "ERROR"}, song : Songs \cup {None},
   pipe : {"null", "pipe", "next"}, seek_error : BOOLEAN]

Names == {"NONE", "QUEUE", "PAUSE", "SEEK", "CLOSE_AUDIO", "STOP", "CANCEL", "REFRESH"}

Controls ==
  [command : Names, state : {"STOP", "PLAY", "PAUSE"}, next : Songs \cup {None}, border_pause : BOOLEAN]

Types ==
  /\ main \in Songs \cup {None} /\ pc \in Controls
  /\ player \in Players /\ decoder \in Decoders /\ out \in Outs /\ dc \in Decoding
  /\ pipe \in Seq(Piece) /\ next_pipe \in Seq(Piece) /\ free \in Nat

\* The decoder thread is in a song, or it is idle and holds no chunk.
DecoderPlace ==
  /\ decoder.at = "task" <=> IsIdle
  /\ decoder.at = "task" => decoder.chunk = <<>>

\* The player sleeps until its command is executed; one that stops the decoder
\* ends when the decoder is idle.
Handshake ==
  /\ dc.command # "NONE" => player.at = "await"
  /\ player.at = "await" => player.then \in Thens
  /\ player.at = "await" /\ player.then \in StopPlaces =>
       dc.command = "STOP" \/ (dc.command = "NONE" /\ IsIdle)

\* Where nobody writes to a pipe, and what is in them.
Quiet ==
  /\ player.at \in {"task", "stopped", "seek_stopped"} => IsIdle
  /\ player.at = "run" \/ (player.at = "await" /\ player.then = "run") => ~IsDecoderAtNextSong
  /\ player.at = "cancel" /\ IsDecoderAtNextSong => IsIdle
  /\ player.at = "task" => pipe = <<>> /\ next_pipe = <<>>
  /\ ~IsDecoderAtNextSong => next_pipe = <<>>
  /\ player.at \in {"play_check", "play_woken", "play_chunk"} => pipe # <<>>
  /\ player.at = "no_data" /\ IsDecoderAtNextSong => pipe = <<>>

IInv == Types /\ DecoderPlace /\ Handshake /\ Quiet /\ NoChunkLost

-----------------------------------------------------------------------------
(* The general cases.                                                      *)

\* The numbers NoChunkLost is about.
LEMMA Numbers ==
  ASSUME Types
  PROVE  /\ free \in Nat /\ out.left \in Nat /\ out.done \in Nat
         /\ Len(pipe) \in Nat /\ Len(next_pipe) \in Nat /\ Len(decoder.chunk) \in Nat
         /\ decoder.chunk \in Seq(Piece)
<1>1. decoder.chunk \in Seq(Piece)
  BY DEF Types, Decoders
<1>2. out.left \in Nat /\ out.done \in Nat
  BY DEF Types, Outs
<1>3. free \in Nat /\ pipe \in Seq(Piece) /\ next_pipe \in Seq(Piece)
  BY DEF Types
<1> QED
  BY <1>1, <1>2, <1>3

-----------------------------------------------------------------------------
(* The numbers of chunks at the outputs.                                   *)

Keeps(o) == o \in Outs /\ o.left + o.done = out.left + out.done

LEMMA Outputs ==
  ASSUME Types
  PROVE  /\ Keeps(out) /\ Keeps(ClosedOutputs) /\ Keeps(OpenedOutputs(out))
         /\ \A o \in UpdatedOutputs(out) : Keeps(o)
<1>1. out \in Outs /\ out.left \in Nat /\ out.done \in Nat
  BY DEF Types, Outs
<1>2. Keeps(out)
  BY <1>1 DEF Keeps
<1>3. Keeps(ClosedOutputs)
  BY <1>1 DEF Keeps, ClosedOutputs, Outs, InOutputs
<1>4. Keeps(OpenedOutputs(out))
  BY <1>1 DEF Keeps, OpenedOutputs, Outs
<1> QED
  BY <1>2, <1>3, <1>4 DEF UpdatedOutputs

\* Chunks go from the outputs to the buffer.
Paid == out' \in Outs /\ free' \in Nat /\ free' + out'.left + out'.done = free + out.left + out.done

LEMMA Payments ==
  ASSUME Types
  PROVE  /\ UNCHANGED <<out, free>> => Paid
         /\ CheckOutputs => Paid
         /\ CancelOutputs => Paid
         /\ out' = NoOutput /\ free' = free + InOutputs => Paid
         /\ Keeps(out') /\ UNCHANGED free => Paid
<1>1. out \in Outs /\ out.left \in Nat /\ out.done \in Nat /\ free \in Nat
  BY DEF Types, Outs
<1>2. ASSUME UNCHANGED <<out, free>> PROVE Paid
  BY <1>1, <1>2 DEF Paid
<1>3. ASSUME CheckOutputs PROVE Paid
  BY <1>1, <1>3 DEF Paid, CheckOutputs, Checked, Outs
<1>4. ASSUME CancelOutputs PROVE Paid
  BY <1>1, <1>4 DEF Paid, CancelOutputs, EmptyOutputs, InOutputs, Outs
<1>5. ASSUME out' = NoOutput, free' = free + InOutputs PROVE Paid
  BY <1>1, <1>5 DEF Paid, NoOutput, InOutputs, Outs
<1>6. ASSUME Keeps(out'), UNCHANGED free PROVE Paid
  BY <1>1, <1>6 DEF Paid, Keeps, Outs
<1> QED
  BY <1>2, <1>3, <1>4, <1>5, <1>6

\* What belongs to the decoder stays the same; it may be woken.
Still ==
  /\ UNCHANGED <<dc, pipe, next_pipe>>
  /\ decoder' \in Decoders /\ decoder'.at = decoder.at /\ decoder'.chunk = decoder.chunk

Controlled == main' \in Songs \cup {None} /\ pc' \in Controls

\* Where the player may go, if it sends no command.
Goes ==
  /\ player' \in Players
  /\ dc.command # "NONE" => player'.at = "await"
  /\ player'.at = "await" => player.at = "await" /\ player'.then = player.then
  /\ player'.at = "task" => player.at = "task"
  /\ player'.at \in {"stopped", "seek_stopped"} => IsIdle
  /\ player'.at = "run" => player.at \in {"run", "await"} /\ ~IsDecoderAtNextSong
  /\ player'.at = "cancel" /\ IsDecoderAtNextSong => IsIdle
  /\ player'.at \in {"play_check", "play_woken", "play_chunk"} => pipe # <<>>
  /\ player'.at = "no_data" => player.at = "no_data" \/ pipe = <<>>

\* The sum of NoChunkLost, in numbers only.
LEMMA Balance ==
  ASSUME Types, Types', NoChunkLost,
         NEW k,
         k = free + Len(pipe) + Len(next_pipe) + Len(decoder.chunk) + (out.left + out.done),
         k = free' + Len(pipe') + Len(next_pipe') + Len(decoder'.chunk) + (out'.left + out'.done)
  PROVE  NoChunkLost'
  BY DEF NoChunkLost, InOutputs

\* A step that moves no chunk between the pipes and the decoder, and sends no
\* command to the decoder.
LEMMA Moves ==
  ASSUME IInv, Controlled, Goes, Still, Paid
  PROVE  IInv'
<1>1. Types'
  BY DEF IInv, Types, Controlled, Goes, Still, Paid
<1>2. DecoderPlace'
  BY DEF Still, IInv, DecoderPlace, IsIdle
<1>3. Handshake'
  BY DEF Still, Goes, IInv, Handshake, IsIdle
<1>4. Quiet'
  BY DEF Still, Goes, IInv, Quiet, IsIdle, IsDecoderAtNextSong, StopPlaces
<1>5. NoChunkLost'
  <2> DEFINE p == Len(pipe) n == Len(next_pipe) c == Len(decoder.chunk)
             f == free l == out.left d == out.done
             f2 == free' l2 == out'.left d2 == out'.done
  <2>1. Types /\ NoChunkLost
    BY DEF IInv
  <2>2. f \in Nat /\ l \in Nat /\ d \in Nat /\ p \in Nat /\ n \in Nat /\ c \in Nat
    BY <2>1, Numbers
  <2>3. f2 \in Nat /\ l2 \in Nat /\ d2 \in Nat /\ f2 + l2 + d2 = f + l + d
    BY DEF Outs, Paid
  <2>4. p = Len(pipe') /\ n = Len(next_pipe') /\ c = Len(decoder'.chunk)
    BY DEF Still
  <2>5. f2 + p + n + c + (l2 + d2) = f + p + n + c + (l + d)
    <3> HIDE DEF p, n, c, f, l, d, f2, l2, d2
    <3> QED
      BY <2>2, <2>3
  <2> QED
    BY <1>1, <2>1, <2>4, <2>5, Balance
<1> QED
  BY <1>1, <1>2, <1>3, <1>4, <1>5 DEF IInv

\* The player is at the place, and nothing else changed that matters here.
PlayerAt(place) == player' \in Players /\ player'.at = place /\ player'.then = player.then

LEMMA Same ==
  ASSUME Types PROVE
  /\ UNCHANGED <<main, pc>> => Controlled
  /\ UNCHANGED <<dc, decoder, pipe, next_pipe>> => Still
  /\ UNCHANGED <<dc, pipe, next_pipe>> /\ decoder' = Woken(decoder) => Still
  /\ Woken(decoder) \in Decoders /\ Woken(decoder).at = decoder.at
  /\ Woken(decoder).chunk = decoder.chunk
<1>1. decoder \in Decoders BY DEF Types
<1>2. Woken(decoder) \in Decoders /\ Woken(decoder).at = decoder.at
        /\ Woken(decoder).chunk = decoder.chunk
  BY <1>1 DEF Woken, Decoders
<1>3. ASSUME UNCHANGED <<dc, decoder, pipe, next_pipe>> PROVE Still
  BY <1>1, <1>3 DEF Still
<1>4. ASSUME UNCHANGED <<dc, pipe, next_pipe>>, decoder' = Woken(decoder) PROVE Still
  BY <1>2, <1>4 DEF Still
<1> QED BY <1>2, <1>3, <1>4 DEF Types, Controlled

LEMMA PlayerMoves ==
  ASSUME Types PROVE
  /\ player' = player \/ player' = Woken(player) => PlayerAt(player.at)
  /\ \A place \in Places : Goto(place) \/ WaitForDecoder(place) \/ Wait(place) => PlayerAt(place)
<1>1. player \in Players BY DEF Types
<1>2. ASSUME player' = player PROVE PlayerAt(player.at)
  BY <1>1, <1>2 DEF PlayerAt
<1>3. ASSUME player' = Woken(player) PROVE PlayerAt(player.at)
  BY <1>1, <1>3 DEF PlayerAt, Woken, Players
<1>4. ASSUME NEW place \in Places, Goto(place) PROVE PlayerAt(place)
  BY <1>1, <1>4 DEF PlayerAt, Goto, Players
<1>5. ASSUME NEW place \in Places, WaitForDecoder(place) PROVE PlayerAt(place)
  BY <1>1, <1>5 DEF PlayerAt, WaitForDecoder, Players
<1>6. ASSUME NEW place \in Places, Wait(place) PROVE PlayerAt(place)
  BY <1>1, <1>6 DEF PlayerAt, Wait, Players
<1> QED BY <1>2, <1>3, <1>4, <1>5, <1>6

\* The player has somewhere to go.
Simple == Places \ ({"await", "task", "run", "play_check", "play_woken", "play_chunk", "no_data"} \cup StopPlaces)

LEMMA Going ==
  ASSUME IInv, player' \in Players, player.at # "await", player'.at \in Simple
  PROVE  Goes
  BY DEF Goes, Simple, IInv, Handshake, StopPlaces

\* The player stays where it is.
LEMMA Staying ==
  ASSUME IInv, PlayerAt(player.at)
  PROVE  Goes
  BY DEF Goes, PlayerAt, IInv, Handshake, Quiet, StopPlaces

LEMMA SendOK ==
  ASSUME IInv, main' \in Songs \cup {None}, NEW c \in Names, NEW n \in Songs \cup {None}, Send(c, n)
  PROVE  IInv'
<1>1. Types BY DEF IInv
<1>2. pc' \in Controls BY <1>1 DEF Send, Controls, Types
<1>3. Goes BY <1>1, PlayerMoves, Staying DEF Send
<1>4. Still BY <1>1, Same DEF Send
<1>5. Paid BY <1>1, Payments DEF Send
<1> QED BY <1>2, <1>3, <1>4, <1>5, Moves DEF Controlled

LEMMA MainOK ==
  ASSUME IInv, Main PROVE IInv'
<1>1. Types BY DEF IInv
<1>2. pc.next \in Songs \cup {None} /\ main \in Songs \cup {None} /\ None \in Songs \cup {None}
  BY <1>1 DEF Types, Controls
<1> DEFINE Sent == main' \in Songs \cup {None}
                     /\ \E c \in Names, n \in Songs \cup {None} : Send(c, n)
<1>3. ASSUME Sent PROVE IInv'
  BY <1>3, SendOK
<1>4. ASSUME NEW song \in Songs, Play(song) PROVE Sent
  BY <1>2, <1>4 DEF Play, Names
<1>5. ASSUME NEW song \in Songs, EnqueueSong(song) \/ Seek(song) PROVE Sent
  BY <1>2, <1>5 DEF EnqueueSong, Seek, Names
<1>6. ASSUME PlayEnqueues PROVE Sent
  BY <1>2, <1>6 DEF PlayEnqueues, Names
<1>7. ASSUME Cancel \/ Stop \/ Pause \/ GetStatus PROVE Sent
  BY <1>2, <1>7 DEF Cancel, Stop, Pause, GetStatus, Names
<1>8. ASSUME SetBorderPause PROVE IInv'
  <2>1. pc' \in Controls
    BY <1>1, <1>8 DEF SetBorderPause, Types, Controls
  <2>2. Goes /\ Still /\ Paid
    BY <1>1, <1>8, PlayerMoves, Staying, Same, Payments DEF SetBorderPause
  <2> QED
    BY <1>2, <1>8, <2>1, <2>2, Moves DEF SetBorderPause, Controlled
<1> QED
  <2> HIDE DEF Sent
  <2> QED
    BY <1>3, <1>4, <1>5, <1>6, <1>7, <1>8 DEF Main

-----------------------------------------------------------------------------
(* The player thread: steps that leave the decoder alone.                  *)

LEMMA TaskOK ==
  ASSUME IInv, Task PROVE IInv'
<1>1. Types /\ pc.next \in Songs \cup {None} BY DEF IInv, Types, Controls
<1>2. pc' \in Controls /\ UNCHANGED main
  <2>1. ASSUME NEW n \in Songs \cup {None}
        PROVE  [CommandFinished(pc) EXCEPT !.next = n] \in Controls
    BY <1>1 DEF CommandFinished, Types, Controls, Names
  <2>2. None \in Songs \cup {None} /\ pc \in Controls
    BY <1>1 DEF Types
  <2> QED
    BY <1>1, <2>1, <2>2 DEF Task, TaskFinishes
<1>3. Goes
  BY <1>1, PlayerMoves, Staying DEF Task, TaskFinishes, At, Places
<1>4. Still
  BY <1>1, Same DEF Task, TaskFinishes
<1>5. Paid
  <2> DEFINE Given(o) == out' = o /\ free' = free + InOutputs - o.left - o.done
  <2>1. free \in Nat /\ out \in Outs /\ out.left \in Nat /\ out.done \in Nat
    BY <1>1 DEF Types, Outs
  <2>2. ASSUME Given(out) PROVE Paid
    BY <2>1, <2>2 DEF Paid, InOutputs
  <2>3. ASSUME Given(NoOutput) PROVE Paid
    BY <2>1, <2>3 DEF Paid, InOutputs, NoOutput, Outs
  <2>4. ASSUME Given(EmptyOutputs) PROVE Paid
    BY <2>1, <2>4 DEF Paid, InOutputs, EmptyOutputs, Outs
  <2>5. ASSUME UNCHANGED <<out, free>> PROVE Paid
    BY <1>1, <2>5, Payments
  <2> QED
    BY <2>2, <2>3, <2>4, <2>5 DEF Task, TaskFinishes
<1> QED BY <1>1, <1>2, <1>3, <1>4, <1>5, Moves DEF Controlled, Types

LEMMA AwaitOK ==
  ASSUME IInv, Await PROVE IInv'
<1>1. Types BY DEF IInv
<1>2. CASE dc.command # "NONE"
  BY <1>1, <1>2, PlayerMoves, Staying, Same, Payments, Moves DEF Await, At, Places
<1>3. CASE dc.command = "NONE"
  <2>1. UNCHANGED <<main, pc, dc, decoder, pipe, next_pipe, out, free>>
    BY DEF Await
  <2>2. player \in Players /\ player.then \in Places
    BY <1>1 DEF Types, Players
  <2>3. player' = [player EXCEPT !.at = player.then, !.then = "task"]
    BY <1>3 DEF Await
  <2>4. player' \in Players
    BY <2>2, <2>3 DEF Players, Places
  <2>5. player'.at = player.then /\ player.at = "await"
    BY <2>2, <2>3 DEF Players, Await, At
  <2>6. Goes
    BY <1>1, <1>3, <2>4, <2>5 DEF Goes, IInv, Handshake, Quiet, Thens, StopPlaces
  <2> QED
    BY <1>1, <2>1, <2>6, Same, Payments, Moves
<1> QED BY <1>2, <1>3

\* A step to a place where nothing has to hold.
LEMMA Steps ==
  ASSUME IInv, Controlled, Still, Paid,
         player' \in Players, player.at # "await", player'.at \in Simple
  PROVE  IInv'
BY Going, Moves

LEMMA CommandStopOK ==
  ASSUME IInv, CommandStop PROVE IInv'
<1>1. Types BY DEF IInv
<1>2. player.at = "loop" BY DEF CommandStop, At
<1>3. Controlled BY <1>1 DEF CommandStop, Controlled, Types, Controls, Names
<1>4. player' \in Players /\ player'.at = "stop"
  BY <1>1, PlayerMoves DEF CommandStop, PlayerAt, Places
<1>5. Still /\ Paid
  BY <1>1, Same, Payments DEF CommandStop
<1> QED BY <1>2, <1>3, <1>4, <1>5, Steps DEF Simple, Places, StopPlaces

LEMMA OpenOutputOK ==
  ASSUME Types, NEW p \in Players, NEW q \in Controls, OpenOutput(p, q)
  PROVE  pc' \in Controls /\ player' \in Players /\ player'.at = p.at /\ Paid
<1>1. CASE /\ player' = [p EXCEPT !.output_open = TRUE, !.paused = FALSE]
           /\ pc' = [q EXCEPT !.state = "PLAY"]
           /\ out' = OpenedOutputs(out) /\ UNCHANGED free
  BY <1>1, Outputs, Payments DEF Players, Controls
<1>2. CASE /\ player' = [p EXCEPT !.output_open = FALSE, !.paused = TRUE]
           /\ pc' = [q EXCEPT !.state = "PAUSE"]
           /\ out' = NoOutput /\ free' = free + InOutputs
  BY <1>2, Payments DEF Players, Controls
<1> QED BY <1>1, <1>2 DEF OpenOutput

LEMMA CommandPauseOK ==
  ASSUME Types, CommandPause
  PROVE  pc' \in Controls /\ player' \in Players /\ player'.at = "body" /\ Paid
<1> DEFINE p == [player EXCEPT !.at = "body", !.paused = ~@]
           q == CommandFinished(pc)
<1>1. p \in Players /\ p.at = "body"
  <2>1. player \in Players /\ "body" \in Places BY DEF Types, Places
  <2> QED BY <2>1 DEF Players
<1>2. q \in Controls /\ [q EXCEPT !.state = "PLAY"] \in Controls
                     /\ [q EXCEPT !.state = "PAUSE"] \in Controls
  BY DEF Types, Controls, CommandFinished, Names
<1>3. CASE /\ p.paused /\ player' = p /\ pc' = [q EXCEPT !.state = "PAUSE"]
           /\ \E o \in UpdatedOutputs(out) :
                out' = IF PauseCloses \/ o.state = "closed" THEN ClosedOutputs
                                                          ELSE [o EXCEPT !.state = "paused"]
           /\ UNCHANGED free
  <2>1. \A o : Keeps(o) => Keeps([o EXCEPT !.state = "paused"])
    BY DEF Keeps, Outs
  <2> QED
    BY <1>1, <1>2, <1>3, <2>1, Outputs, Payments
<1>4. CASE player' = p /\ pc' = [q EXCEPT !.state = "PLAY"] /\ UNCHANGED <<out, free>>
  BY <1>1, <1>2, <1>4, Payments
<1>5. CASE OpenOutput(p, q)
  <2> HIDE DEF p, q
  <2> QED BY <1>1, <1>2, <1>5, OpenOutputOK
<1> QED BY <1>3, <1>4, <1>5 DEF CommandPause

LEMMA ProcessCommandOK ==
  ASSUME IInv, ProcessCommand PROVE IInv'
<1>1. Types BY DEF IInv
<1>2. player.at = "loop" /\ Still /\ UNCHANGED main
  BY <1>1, Same DEF ProcessCommand, At
<1>3. pc \in Controls /\ CommandFinished(pc) \in Controls /\ main \in Songs \cup {None}
  BY <1>1 DEF Types, Controls, CommandFinished, Names
<1>4. /\ Goto("body") => player' \in Players /\ player'.at = "body"
      /\ [player EXCEPT !.at = "body", !.queued = TRUE] \in Players
      /\ [player EXCEPT !.at = "body", !.queued = TRUE].at = "body"
      /\ [player EXCEPT !.at = "seek", !.seeking = TRUE] \in Players
      /\ [player EXCEPT !.at = "seek", !.seeking = TRUE].at = "seek"
  BY <1>1 DEF Goto, Types, Players, Places
<1>5. player' \in Players /\ player'.at \in {"body", "seek"}
  BY <1>1, <1>4, CommandPauseOK DEF ProcessCommand
<1>6. pc' \in Controls /\ Paid
  BY <1>1, <1>3, CommandPauseOK, Payments DEF ProcessCommand
<1> QED BY <1>2, <1>3, <1>5, <1>6, Steps DEF Simple, Places, StopPlaces, Controlled

\* Most steps only go on, and look at the outputs.
LEMMA GoesOn ==
  ASSUME IInv, NEW place \in Simple, player.at # "await",
         Goto(place) \/ WaitForDecoder(place) \/ Wait(place),
         UNCHANGED <<main, pc, dc, pipe, next_pipe>>,
         decoder' = decoder \/ decoder' = Woken(decoder),
         UNCHANGED <<out, free>> \/ CheckOutputs
  PROVE  IInv'
<1>1. Types BY DEF IInv
<1>2. player' \in Players /\ player'.at = place
  BY <1>1, PlayerMoves DEF PlayerAt, Simple
<1>3. Controlled /\ Still /\ Paid
  BY <1>1, Same, Payments
<1> QED BY <1>2, <1>3, Steps

LEMMA PlayerRecords ==
  ASSUME Types
  PROVE  /\ \A b \in BOOLEAN : [player EXCEPT !.at = "body", !.seeking = FALSE, !.queued = b] \in Players
         /\ [player EXCEPT !.at = "body", !.seeking = FALSE] \in Players
         /\ [player EXCEPT !.at = "body", !.seeking = FALSE].at = "body"
         /\ pc.next \in Songs \cup {None}
         /\ CommandFinished(pc) \in Controls
         /\ [CommandFinished(pc) EXCEPT !.next = None] \in Controls
         /\ [pc EXCEPT !.next = None] \in Controls
<1>1. player \in Players /\ pc \in Controls BY DEF Types
<1>2. /\ \A b \in BOOLEAN : [player EXCEPT !.at = "body", !.seeking = FALSE, !.queued = b] \in Players
      /\ [player EXCEPT !.at = "body", !.seeking = FALSE] \in Players
      /\ [player EXCEPT !.at = "body", !.seeking = FALSE].at = "body"
  <2>1. "body" \in Places BY DEF Places
  <2> QED BY <1>1, <2>1 DEF Players
<1>3. CommandFinished(pc) \in Controls
  BY <1>1 DEF CommandFinished, Controls, Names
<1>4. \A q \in Controls : q.next \in Songs \cup {None} /\ [q EXCEPT !.next = None] \in Controls
  BY DEF Controls
<1> QED BY <1>1, <1>2, <1>3, <1>4

LEMMA StartedIs ==
  ASSUME Types, NEW place \in Places
  PROVE  Started(place) \in Players /\ Started(place).at = place
<1>1. pc.next \in Songs \cup {None} BY DEF Types, Controls
<1> QED BY <1>1 DEF Types, Players, Started

LEMMA SeekStartedOK ==
  ASSUME IInv, SeekStarted PROVE IInv'
<1>1. Types BY DEF IInv
<1>2. player.at = "seek_started" BY DEF SeekStarted, At
<1>3. Still /\ Paid BY <1>1, Same, Payments DEF SeekStarted
<1>4. player' \in Players /\ player'.at \in {"body", "startup"}
  <2>1. /\ [player EXCEPT !.at = "body", !.seeking = FALSE, !.queued = FALSE] \in Players
        /\ [player EXCEPT !.at = "body", !.seeking = FALSE, !.queued = FALSE].at = "body"
    BY <1>1 DEF Types, Players, Places
  <2> QED BY <1>1, <2>1, StartedIs DEF SeekStarted, Places
<1>5. Controlled
  BY <1>1, PlayerRecords DEF SeekStarted, Controlled, Types
<1> QED BY <1>2, <1>3, <1>4, <1>5, Steps DEF Simple, Places, StopPlaces

LEMMA StartupOK ==
  ASSUME IInv, CheckDecoderStartup \/ StartupCheck \/ StartupWoken PROVE IInv'
<1>1. Types BY DEF IInv
<1>2. player.at # "await" BY DEF CheckDecoderStartup, StartupCheck, StartupWoken, At
<1>3. {"stop", "startup_check", "startup_ready", "startup_woken", "startup", "loop", "body"} \subseteq Simple
  BY DEF Simple, Places, StopPlaces
<1>4. Caller \in Simple BY <1>3 DEF Caller
<1>5. CASE CheckDecoderStartup /\ SeekFails
  <2>1. player' \in Players /\ player'.at = "body"
    BY <1>1, <1>5, PlayerRecords DEF SeekFails
  <2>2. Controlled /\ Still /\ Paid
    BY <1>1, <1>5, PlayerRecords, Same, Payments DEF SeekFails, CheckDecoderStartup, Controlled, Types
  <2> QED BY <1>2, <1>3, <2>1, <2>2, Steps
<1>6. CASE CheckDecoderStartup /\ ~SeekFails
  BY <1>2, <1>3, <1>4, <1>6, GoesOn DEF CheckDecoderStartup
<1>7. CASE StartupCheck
  BY <1>2, <1>3, <1>7, GoesOn DEF StartupCheck
<1>8. CASE StartupWoken
  BY <1>2, <1>3, <1>4, <1>8, GoesOn DEF StartupWoken
<1> QED BY <1>5, <1>6, <1>7, <1>8

LEMMA StartupReadyOK ==
  ASSUME IInv, StartupReady PROVE IInv'
<1> DEFINE p == [player EXCEPT !.at = Caller, !.decoder_starting = FALSE, !.format = TRUE]
<1>1. Types BY DEF IInv
<1>2. player.at # "await" BY DEF StartupReady, At
<1>3. p \in Players /\ p.at = Caller /\ Caller \in Simple
  <2>1. Caller \in Simple /\ Caller \in Places
    BY DEF Caller, Places, Simple, StopPlaces
  <2>2. player \in Players BY <1>1 DEF Types
  <2> QED BY <2>1, <2>2 DEF Players
<1>4. player' \in Players /\ player'.at = Caller /\ pc' \in Controls /\ Paid
  <2>1. CASE player.paused
    BY <1>1, <1>3, <2>1, Payments DEF StartupReady, Types
  <2>2. CASE ~player.paused
    <3>1. OpenOutput(p, pc) /\ pc \in Controls BY <1>1, <2>2 DEF StartupReady, Types
    <3> HIDE DEF p
    <3> QED BY <1>1, <1>3, <3>1, OpenOutputOK
  <2> QED BY <2>1, <2>2
<1>5. Still /\ Controlled
  BY <1>1, <1>4, Same DEF StartupReady, Controlled, Types
<1> QED BY <1>2, <1>3, <1>4, <1>5, Steps

-----------------------------------------------------------------------------
(* The player thread: silence, and the steps of its loop.                  *)

LEMMA SendSilenceOK ==
  ASSUME IInv, NEW p \in Players, player.at # "await", p.at \in Simple,
         SendSilence(p), UNCHANGED <<main, pc, dc, decoder, pipe, next_pipe>>
  PROVE  IInv'
<1>1. Types BY DEF IInv
<1>2. "stop" \in Simple BY DEF Simple, Places, StopPlaces
<1>3. CASE Goto("stop") /\ CheckOutputs
  BY <1>2, <1>3, GoesOn
<1>4. CASE \E o \in UpdatedOutputs(Checked) :
             /\ free + out.done # 0 /\ player' = p
             /\ out' = [o EXCEPT !.left = @ + 1] /\ free' = free + out.done - 1
  <2>1. PICK o \in UpdatedOutputs(Checked) :
             /\ free + out.done # 0 /\ player' = p
             /\ out' = [o EXCEPT !.left = @ + 1] /\ free' = free + out.done - 1
    BY <1>4
  <2>2. out \in Outs /\ out.left \in Nat /\ out.done \in Nat /\ free \in Nat
    BY <1>1 DEF Types, Outs
  <2>3. Checked \in Outs /\ Checked.left = out.left /\ Checked.done = 0
    BY <2>2 DEF Checked, Outs
  <2>4. o \in Outs /\ o.left = out.left /\ o.done = 0
    <3>1. OpenedOutputs(Checked) \in Outs /\ OpenedOutputs(Checked).left = out.left
            /\ OpenedOutputs(Checked).done = 0
      BY <2>2, <2>3 DEF OpenedOutputs, Outs
    <3> QED BY <2>1, <2>3, <3>1 DEF UpdatedOutputs
  <2>5. out' \in Outs /\ out'.left = out.left + 1 /\ out'.done = 0
    BY <2>1, <2>2, <2>4 DEF Outs
  <2>6. Paid
    BY <2>1, <2>2, <2>5 DEF Paid
  <2> QED BY <1>1, <2>1, <2>6, Same, Steps
<1> QED BY <1>3, <1>4 DEF SendSilence

LEMMA BufferingOK ==
  ASSUME IInv, Buffering PROVE IInv'
<1>1. Types BY DEF IInv
<1>2. player.at # "await" BY DEF Buffering, At
<1>3. BufferWait \in Players /\ BufferWait.at \in Simple
  <2>1. {"buffer_wait", "loop"} \subseteq Places /\ {"buffer_wait", "loop"} \subseteq Simple
    BY DEF Places, Simple, StopPlaces
  <2>2. player \in Players BY <1>1 DEF Types
  <2> QED BY <2>1, <2>2 DEF BufferWait, Players
<1>4. CASE player' = BufferWait /\ (UNCHANGED <<out, free>> \/ CheckOutputs)
  BY <1>1, <1>2, <1>3, <1>4, Same, Payments, Steps DEF Buffering
<1>5. CASE SendSilence(BufferWait)
  BY <1>2, <1>3, <1>5, SendSilenceOK DEF Buffering
<1> QED BY <1>4, <1>5 DEF Buffering

LEMMA LoopOK ==
  ASSUME IInv, BufferWaits \/ Buffered \/ Paused \/ DataWaits PROVE IInv'
<1>1. Types BY DEF IInv
<1>2. player.at # "await" BY DEF BufferWaits, Buffered, Paused, DataWaits, At
<1>3. "loop" \in Simple BY DEF Simple, Places, StopPlaces
<1>4. CASE BufferWaits \/ Paused
  BY <1>2, <1>3, <1>4, GoesOn DEF BufferWaits, Paused
<1>5. CASE DataWaits
  BY <1>2, <1>3, <1>5, GoesOn DEF DataWaits, DataWait
<1>6. CASE Buffered
  <2>1. player' \in Players /\ player'.at \in Simple
    <3>1. {"startup", "next"} \subseteq Places /\ {"startup", "next"} \subseteq Simple
      BY DEF Places, Simple, StopPlaces
    <3>2. player \in Players BY <1>1 DEF Types
    <3> QED BY <1>6, <3>1, <3>2 DEF Buffered, Players
  <2> QED BY <1>1, <1>2, <1>6, <2>1, Same, Payments, Steps DEF Buffered
<1> QED BY <1>4, <1>5, <1>6

\* What is played is there.
LEMMA PlayOK ==
  ASSUME IInv, Playing \/ PlayCheck \/ PlayWoken PROVE IInv'
<1>1. Types BY DEF IInv
<1>2. player.at \in {"play", "play_check", "play_woken"}
  BY DEF Playing, PlayCheck, PlayWoken, At
<1>3. player' \in Players /\ player'.at \in {"no_data", "play_check", "play_chunk", "play_woken", "loop"}
  BY <1>1, PlayerMoves DEF PlayerAt, Playing, PlayCheck, PlayWoken, Places
<1>4. /\ player'.at = "no_data" => pipe = <<>>
      /\ player'.at \in {"play_check", "play_chunk", "play_woken"} => pipe # <<>>
  <2>1. ASSUME Playing PROVE player'.at = IF pipe = <<>> THEN "no_data" ELSE "play_check"
    BY <1>1, <2>1, PlayerMoves DEF Playing, PlayerAt, Places
  <2>2. ASSUME PlayCheck \/ PlayWoken PROVE pipe # <<>> /\ player'.at # "no_data"
    BY <1>1, <2>2, PlayerMoves DEF PlayCheck, PlayWoken, PlayerAt, Places, IInv, Quiet, At
  <2> QED BY <2>1, <2>2
<1>5. Goes
  BY <1>2, <1>3, <1>4 DEF Goes, IInv, Handshake
<1>6. Controlled /\ Still /\ Paid
  BY <1>1, Same, Payments DEF Playing, PlayCheck, PlayWoken
<1> QED BY <1>5, <1>6, Moves

-----------------------------------------------------------------------------
(* The player thread: commands to the decoder.                             *)

\* The player sends a command, and sleeps.
LEMMA Sends ==
  ASSUME IInv, Controlled, player.at # "await",
         player' \in Players, player'.at = "await", player'.then \in Thens,
         dc' \in Decoding, dc'.state = dc.state, dc'.command # "NONE",
         player'.then \in StopPlaces => dc'.command = "STOP",
         player'.then = "run" => dc'.pipe # "next",
         dc'.pipe # "next" => next_pipe' = <<>>,
         decoder' \in Decoders, decoder'.at = decoder.at,
         decoder.chunk = <<>> => decoder'.chunk = <<>>,
         pipe' \in Seq(Piece), next_pipe' \in Seq(Piece), free' \in Nat, out' \in Outs,
         NoChunkLost'
  PROVE  IInv'
<1>1. Types' BY DEF Types, Controlled
<1>2. DecoderPlace' BY DEF DecoderPlace, IsIdle, IInv
<1>3. Handshake' BY DEF Handshake
<1>4. Quiet'
  <2>1. ~("run" \in StopPlaces) BY DEF StopPlaces
  <2> QED BY DEF Quiet, IsDecoderAtNextSong
<1> QED BY <1>1, <1>2, <1>3, <1>4 DEF IInv

\* What SendDecoder() does to the variables.
LEMMA SendDecoderIs ==
  ASSUME Types, NEW d \in Decoding, NEW command \in {"START", "STOP", "SEEK"},
         NEW p \in Players, NEW then \in Places, SendDecoder(d, command, p, then)
  PROVE  /\ player' \in Players /\ player'.at = "await" /\ player'.then = then
         /\ dc' \in Decoding /\ dc'.state = d.state /\ dc'.command = command /\ dc'.pipe = d.pipe
         /\ decoder' \in Decoders /\ decoder'.at = decoder.at /\ decoder'.chunk = decoder.chunk
<1>1. player' \in Players /\ player'.at = "await" /\ player'.then = then
  BY DEF SendDecoder, Players, Places
<1>2. dc' \in Decoding /\ dc'.state = d.state /\ dc'.command = command /\ dc'.pipe = d.pipe
  BY DEF SendDecoder, Decoding
<1> QED BY <1>1, <1>2, Same DEF SendDecoder

\* DecoderControl::Stop()
LEMMA StopDecoderOK ==
  ASSUME IInv, player.at # "await", NEW then \in StopPlaces, StopDecoder(then),
         UNCHANGED <<main, pc, pipe, next_pipe, out, free>>
  PROVE  IInv'
<1>1. Types /\ player \in Players /\ dc \in Decoding /\ then \in Places
  BY DEF IInv, Types, StopPlaces, Places
<1>2. Controlled BY <1>1, Same
<1>3. CASE IsIdle
  <2>1. player' \in Players /\ player'.at = then
    BY <1>1, <1>3, PlayerMoves DEF StopDecoder, PlayerAt
  <2>2. Goes
    BY <1>3, <2>1 DEF Goes, StopPlaces, IInv, Handshake
  <2>3. Still /\ Paid
    BY <1>1, <1>3, Same, Payments DEF StopDecoder
  <2> QED BY <1>2, <2>2, <2>3, Moves
<1>4. CASE ~IsIdle
  <2>1. SendDecoder(dc, "STOP", player, then)
    BY <1>4 DEF StopDecoder
  <2>2. /\ player' \in Players /\ player'.at = "await" /\ player'.then = then
        /\ dc' \in Decoding /\ dc'.state = dc.state /\ dc'.command = "STOP" /\ dc'.pipe = dc.pipe
        /\ decoder' \in Decoders /\ decoder'.at = decoder.at /\ decoder'.chunk = decoder.chunk
    BY <1>1, <2>1, SendDecoderIs
  <2>3. NoChunkLost'
    BY <2>2 DEF NoChunkLost, InOutputs, IInv
  <2>4. then \in Thens /\ then # "run" BY DEF StopPlaces, Thens
  <2>5. dc'.pipe # "next" => next_pipe' = <<>>
    BY <2>2 DEF IInv, Quiet, IsDecoderAtNextSong
  <2>6. pipe' \in Seq(Piece) /\ next_pipe' \in Seq(Piece) /\ free' \in Nat /\ out' \in Outs
    BY <1>1 DEF Types
  <2> QED BY <1>2, <2>2, <2>3, <2>4, <2>5, <2>6, Sends
<1> QED BY <1>3, <1>4

LEMMA StopsOK ==
  ASSUME IInv, RunStops \/ CommandCancel PROVE IInv'
<1>1. player.at # "await" /\ player.at \in {"stop", "loop"}
  BY DEF RunStops, CommandCancel, At
<1>2. CASE RunStops
  BY <1>1, <1>2, StopDecoderOK DEF RunStops, StopPlaces
<1>3. CASE CommandCancel /\ IsDecoderAtNextSong
  BY <1>1, <1>3, StopDecoderOK DEF CommandCancel, StopPlaces
<1>4. CASE CommandCancel /\ ~IsDecoderAtNextSong
  <2>1. Types BY DEF IInv
  <2>2. player' \in Players /\ player'.at = "cancel"
    BY <1>4, <2>1, PlayerMoves DEF CommandCancel, PlayerAt, Places
  <2>3. Goes
    BY <1>1, <1>4, <2>2 DEF Goes, IInv, Handshake
  <2> QED BY <1>4, <2>1, <2>3, Same, Payments, Moves DEF CommandCancel
<1> QED BY <1>2, <1>3, <1>4

\* StartDecoder() for a song whose pipe is the one given.
LEMMA StartDecoderOK ==
  ASSUME IInv, NEW p \in Players, NEW which \in {"pipe", "next"}, NEW then \in Thens \ StopPlaces,
         player.at # "await", then = "run" => which # "next",
         SendDecoder([dc EXCEPT !.song = pc.next, !.pipe = which], "START", p, then),
         which = "pipe" => next_pipe' = <<>>,
         pipe' \in Seq(Piece), next_pipe' \in Seq(Piece), free' \in Nat,
         decoder'.chunk = decoder.chunk => NoChunkLost',
         UNCHANGED <<main, pc, out>>
  PROVE  IInv'
<1> DEFINE d == [dc EXCEPT !.song = pc.next, !.pipe = which]
<1>1. Types BY DEF IInv
<1>2. d \in Decoding /\ d.state = dc.state /\ d.pipe = which
  <2>1. pc.next \in Songs \cup {None} BY <1>1 DEF Types, Controls
  <2> QED BY <1>1, <2>1 DEF Types, Decoding
<1>3. then \in Places /\ then \in Thens /\ ~(then \in StopPlaces) BY DEF Thens, StopPlaces, Places
<1>4. /\ player' \in Players /\ player'.at = "await" /\ player'.then = then
      /\ dc' \in Decoding /\ dc'.state = dc.state /\ dc'.command = "START" /\ dc'.pipe = which
      /\ decoder' \in Decoders /\ decoder'.at = decoder.at /\ decoder'.chunk = decoder.chunk
  <2>1. SendDecoder(d, "START", p, then) OBVIOUS
  <2> HIDE DEF d
  <2> QED BY <1>1, <1>2, <1>3, <2>1, SendDecoderIs
<1>5. Controlled /\ out' \in Outs BY <1>1, Same DEF Types
<1> QED BY <1>3, <1>4, <1>5, Sends

LEMMA RunOK ==
  ASSUME IInv, Run PROVE IInv'
<1>1. Types /\ player.at = "task" BY DEF IInv, Run, At
<1>2. pipe = <<>> /\ next_pipe = <<>> /\ pipe' = <<>>
  BY <1>1 DEF IInv, Quiet, Run
<1>3. SendDecoder([dc EXCEPT !.song = pc.next, !.pipe = "pipe"], "START", NewPlayer, "run")
  BY DEF Run, StartDecoder
<1>4. NewPlayer \in Players BY DEF NewPlayer, Players, Places
<1>5. "run" \in Thens \ StopPlaces BY DEF Thens, StopPlaces
<1>6. decoder'.chunk = decoder.chunk => NoChunkLost'
  BY <1>2 DEF IInv, NoChunkLost, InOutputs, Run
<1>7. pipe' \in Seq(Piece) /\ next_pipe' \in Seq(Piece) /\ free' \in Nat
  BY <1>1, <1>2 DEF Types, Run
<1> QED BY <1>1, <1>2, <1>3, <1>4, <1>5, <1>6, <1>7, StartDecoderOK DEF Run

LEMMA DecodeNextOK ==
  ASSUME IInv, DecodeNext PROVE IInv'
<1>1. Types /\ player.at # "await" BY DEF IInv, DecodeNext, At
<1>2. CASE Goto("play") /\ UNCHANGED <<dc, decoder>>
  BY <1>1, <1>2, GoesOn DEF DecodeNext, Simple, Places, StopPlaces
<1>3. CASE StartDecoder(player, "next", "play", next_pipe)
  <2>1. SendDecoder([dc EXCEPT !.song = pc.next, !.pipe = "next"], "START", player, "play")
    BY <1>3 DEF StartDecoder
  <2>2. player \in Players /\ "play" \in Thens \ StopPlaces
    BY <1>1 DEF Types, Thens, StopPlaces
  <2>3. decoder'.chunk = decoder.chunk => NoChunkLost'
    BY DEF IInv, NoChunkLost, InOutputs, DecodeNext
  <2>4. pipe' \in Seq(Piece) /\ next_pipe' \in Seq(Piece) /\ free' \in Nat
    BY <1>1 DEF Types, DecodeNext
  <2> QED BY <1>1, <2>1, <2>2, <2>3, <2>4, StartDecoderOK DEF DecodeNext
<1> QED BY <1>2, <1>3 DEF DecodeNext

\* The chunks of both pipes are returned.
LEMMA Emptied ==
  ASSUME Types, NoChunkLost, IsDecoderAtNextSong \/ next_pipe = <<>>,
         pipe' = <<>>, next_pipe' = <<>>, free' = free + Len(pipe) + InNextPipe,
         UNCHANGED out, decoder'.chunk = decoder.chunk
  PROVE  free' \in Nat /\ NoChunkLost'
<1> DEFINE p == Len(pipe) n == Len(next_pipe) c == Len(decoder.chunk)
           f == free l == out.left d == out.done b == BufferSize
<1>1. f \in Nat /\ l \in Nat /\ d \in Nat /\ p \in Nat /\ n \in Nat /\ c \in Nat
  BY Numbers
<1>2. free' = f + p + n
  <2>1. InNextPipe = n
    BY DEF InNextPipe
  <2> QED BY <2>1
<1>3. f + p + n + c + (l + d) = b
  BY DEF NoChunkLost, InOutputs
<1>4. Len(pipe') = 0 /\ Len(next_pipe') = 0 /\ Len(decoder'.chunk) = c /\ out'.left = l /\ out'.done = d
  OBVIOUS
<1>5. f + p + n \in Nat /\ (f + p + n) + 0 + 0 + c + (l + d) = b
  <2> HIDE DEF p, n, c, f, l, d, b
  <2> QED BY <1>1, <1>3
<1> QED
  <2> HIDE DEF p, n, c, f, l, d
  <2> QED BY <1>2, <1>4, <1>5 DEF NoChunkLost, InOutputs

LEMMA SeekRestartsOK ==
  ASSUME IInv, SeekRestarts PROVE IInv'
<1>1. Types /\ player \in Players /\ player.at = "seek_stopped"
  BY DEF IInv, SeekRestarts, At, Types
<1>2. SendDecoder([dc EXCEPT !.song = pc.next, !.pipe = "pipe"], "START", player, "seek_started")
  BY DEF SeekRestarts, StartDecoder
<1>3. "seek_started" \in Thens \ StopPlaces BY DEF Thens, StopPlaces
<1>4. pipe' = <<>> /\ next_pipe' = <<>> /\ free' = free + Len(pipe) + InNextPipe
  BY DEF SeekRestarts
<1>5. decoder'.chunk = decoder.chunk
  BY <1>1, <1>2, Same DEF SendDecoder
<1>6. free' \in Nat /\ NoChunkLost'
  BY <1>1, <1>4, <1>5, Emptied DEF IInv, Quiet, SeekRestarts
<1> QED BY <1>1, <1>2, <1>3, <1>4, <1>6, StartDecoderOK DEF SeekRestarts

-----------------------------------------------------------------------------
(* The player thread: steps that give chunks back, or exchange the pipes.  *)

\* A step that keeps what the decoder is doing.
LEMMA Leaves ==
  ASSUME IInv, Controlled, player.at # "await", player' \in Players,
         \/ player'.at \in Simple
         \/ player'.at = "task" /\ IsIdle /\ pipe' = <<>> /\ next_pipe' = <<>>,
         dc' \in Decoding, dc'.state = dc.state, dc'.command = dc.command,
         dc'.pipe # "next" => next_pipe' = <<>>,
         decoder' \in Decoders, decoder'.at = decoder.at,
         decoder.chunk = <<>> => decoder'.chunk = <<>>,
         pipe' \in Seq(Piece), next_pipe' \in Seq(Piece), free' \in Nat, out' \in Outs,
         NoChunkLost'
  PROVE  IInv'
<1>1. Types' BY DEF Types, Controlled
<1>2. DecoderPlace' BY DEF DecoderPlace, IsIdle, IInv
<1>3. dc'.command = "NONE" /\ player'.at # "await"
  BY DEF IInv, Handshake, Simple
<1>4. Handshake' BY <1>3 DEF Handshake
<1>5. Quiet' BY <1>3 DEF Quiet, IsDecoderAtNextSong, IsIdle, Simple, StopPlaces
<1> QED BY <1>1, <1>2, <1>4, <1>5 DEF IInv

\* If the other numbers add up to the same, all of them do.
LEMMA Sums ==
  ASSUME NEW f \in Nat, NEW l \in Nat, NEW d \in Nat, NEW p \in Nat, NEW n \in Nat,
         NEW f1 \in Nat, NEW l1 \in Nat, NEW d1 \in Nat, NEW p1 \in Nat, NEW n1 \in Nat,
         NEW c \in Nat, NEW b,
         f1 + p1 + n1 + c + (l1 + d1) = b,
         f + (l + d) + (p + n) = f1 + (l1 + d1) + (p1 + n1)
  PROVE  f + p + n + c + (l + d) = b
OBVIOUS

\* What goes out of the pipes goes to the buffer or to the outputs.
LEMMA Count ==
  ASSUME Types, NoChunkLost, Len(decoder'.chunk) = Len(decoder.chunk),
         NEW f \in Nat, NEW l \in Nat, NEW d \in Nat, NEW p \in Nat, NEW n \in Nat,
         f = free' /\ l = out'.left /\ d = out'.done /\ p = Len(pipe') /\ n = Len(next_pipe'),
         f + (l + d) + (p + n) = free + (out.left + out.done) + (Len(pipe) + Len(next_pipe))
  PROVE  NoChunkLost'
<1> DEFINE p1 == Len(pipe) n1 == Len(next_pipe) c1 == Len(decoder.chunk)
           f1 == free l1 == out.left d1 == out.done b == BufferSize
<1>1. f1 \in Nat /\ l1 \in Nat /\ d1 \in Nat /\ p1 \in Nat /\ n1 \in Nat /\ c1 \in Nat
  BY Numbers
<1>2. f1 + p1 + n1 + c1 + (l1 + d1) = b
  BY DEF NoChunkLost, InOutputs
<1>3. f + p + n + c1 + (l + d) = b
  <2>1. f + (l + d) + (p + n) = f1 + (l1 + d1) + (p1 + n1) OBVIOUS
  <2>2. f \in Nat /\ l \in Nat /\ d \in Nat /\ p \in Nat /\ n \in Nat OBVIOUS
  <2> HIDE DEF p1, n1, c1, f1, l1, d1, b
  <2> QED BY ONLY <1>1, <1>2, <2>1, <2>2
<1> QED
  <2>1. c1 = Len(decoder'.chunk) OBVIOUS
  <2> HIDE DEF c1
  <2> QED BY <1>3, <2>1 DEF NoChunkLost, InOutputs

LEMMA NewPlayerIs == NewPlayer \in Players /\ NewPlayer.at = "task"
BY DEF NewPlayer, Players, Places

LEMMA RunStartedOK ==
  ASSUME IInv, RunStarted PROVE IInv'
<1>1. /\ Types /\ player.at = "run" /\ player \in Players /\ pc \in Controls /\ dc \in Decoding
      /\ out \in Outs /\ decoder \in Decoders /\ free \in Nat /\ main \in Songs \cup {None}
      /\ Len(pipe) \in Nat /\ pipe \in Seq(Piece) /\ next_pipe \in Seq(Piece)
  BY Numbers DEF IInv, RunStarted, At, Types
<1>2. next_pipe = <<>> /\ ~IsDecoderAtNextSong
  BY <1>1 DEF IInv, Quiet
<1>3. CASE dc.state = "ERROR"
  <2>1. pipe' = <<>> /\ next_pipe' = <<>> /\ free' = free + Len(pipe) + InNextPipe
    BY <1>1, <1>2, <1>3 DEF RunStarted, InNextPipe
  <2>2. free' \in Nat /\ NoChunkLost'
    BY <1>1, <1>2, <2>1, Emptied DEF IInv, RunStarted
  <2>3. dc' \in Decoding /\ dc'.state = dc.state /\ dc'.command = dc.command
    BY <1>1, <1>3 DEF RunStarted, Decoding
  <2>4. player' \in Players /\ player'.at = "task"
    BY <1>3, NewPlayerIs DEF RunStarted
  <2>5. Controlled
    BY <1>1, <1>3, PlayerRecords DEF RunStarted, Controlled
  <2>6. IsIdle /\ UNCHANGED <<decoder, out>> BY <1>3 DEF IsIdle, RunStarted
  <2>7. pipe' \in Seq(Piece) /\ next_pipe' \in Seq(Piece) /\ out' \in Outs /\ decoder' \in Decoders
    BY <1>1, <2>1, <2>6
  <2> QED BY <1>1, <2>1, <2>2, <2>3, <2>4, <2>5, <2>6, <2>7, Leaves
<1>4. CASE dc.state # "ERROR"
  <2>1. player' \in Players /\ player'.at = "loop"
    BY <1>1, <1>4, StartedIs DEF RunStarted, Places
  <2>2. Controlled
    BY <1>1, <1>4 DEF RunStarted, Controlled, Controls, CommandFinished, Names
  <2>3. Still /\ Paid
    BY <1>1, <1>4, Same, Payments DEF RunStarted
  <2> QED BY <1>1, <2>1, <2>2, <2>3, Steps DEF Simple, Places, StopPlaces
<1> QED BY <1>3, <1>4

LEMMA RunStoppedOK ==
  ASSUME IInv, RunStopped PROVE IInv'
<1>1. /\ Types /\ player.at = "stopped" /\ dc \in Decoding /\ pc \in Controls
      /\ out \in Outs /\ decoder \in Decoders /\ main \in Songs \cup {None}
  BY DEF IInv, RunStopped, At, Types
<1>2. IsIdle /\ (IsDecoderAtNextSong \/ next_pipe = <<>>)
  BY <1>1 DEF IInv, Quiet
<1>3. free' \in Nat /\ NoChunkLost'
  BY <1>1, <1>2, Emptied DEF IInv, RunStopped
<1>4. dc' \in Decoding /\ dc'.state = dc.state /\ dc'.command = dc.command
  BY <1>1 DEF RunStopped, Decoding
<1>5. player' \in Players /\ player'.at = "task"
  BY NewPlayerIs DEF RunStopped
<1>6. Controlled
  BY <1>1 DEF RunStopped, Controlled, Controls, NextDropped, Names
<1>7. pipe' \in Seq(Piece) /\ next_pipe' \in Seq(Piece) /\ out' \in Outs /\ decoder' \in Decoders
  BY <1>1 DEF RunStopped
<1>8. pipe' = <<>> /\ next_pipe' = <<>> /\ UNCHANGED decoder
  BY DEF RunStopped
<1> QED BY <1>1, <1>2, <1>3, <1>4, <1>5, <1>6, <1>7, <1>8, Leaves

LEMMA CancelledOK ==
  ASSUME IInv, Cancelled PROVE IInv'
<1>1. /\ Types /\ player.at = "cancel" /\ player \in Players /\ dc \in Decoding
      /\ out \in Outs /\ decoder \in Decoders /\ main \in Songs \cup {None}
      /\ pipe \in Seq(Piece) /\ free \in Nat /\ UNCHANGED <<main, pipe, out, decoder>>
  BY DEF IInv, Cancelled, At, Types
<1>2. free' = free + InNextPipe /\ next_pipe' = <<>>
  BY DEF Cancelled
<1>3. free' \in Nat /\ NoChunkLost'
  <2> DEFINE p == Len(pipe) n == Len(next_pipe) f == free l == out.left d == out.done
  <2>1. f \in Nat /\ l \in Nat /\ d \in Nat /\ p \in Nat /\ n \in Nat
    BY <1>1, Numbers
  <2>2. free' = f + n
    <3>1. CASE IsDecoderAtNextSong
      BY <1>2, <3>1 DEF InNextPipe
    <3>2. CASE ~IsDecoderAtNextSong
      <4>1. n = 0
        BY <3>2 DEF IInv, Quiet
      <4>2. InNextPipe = n
        BY <3>2, <4>1 DEF InNextPipe
      <4> QED BY <1>2, <4>2
    <3> QED BY <3>1, <3>2
  <2>3. f + n \in Nat /\ (f + n) + (l + d) + (p + 0) = f + (l + d) + (p + n)
    <3> HIDE DEF p, n, f, l, d
    <3> QED BY <2>1
  <2>4. out'.left = l /\ out'.done = d /\ Len(pipe') = p /\ Len(next_pipe') = 0
          /\ Len(decoder'.chunk) = Len(decoder.chunk)
    BY <1>1, <1>2
  <2>5. NoChunkLost
    BY DEF IInv
  <2> QED
    <3>1. (f + n) + (l + d) + (p + 0) = free + (out.left + out.done) + (Len(pipe) + Len(next_pipe))
      BY <2>3
    <3> HIDE DEF p, n, f, l, d
    <3> QED BY <1>1, <2>1, <2>2, <2>3, <2>4, <2>5, <3>1, Count
<1>4. dc' \in Decoding /\ dc'.state = dc.state /\ dc'.command = dc.command
        /\ (dc'.pipe # "next" => next_pipe' = <<>>)
  BY <1>1, <1>2 DEF Cancelled, Decoding
<1>5. player' \in Players /\ player'.at \in Simple /\ player.at # "await"
  BY <1>1 DEF Cancelled, Players, Places, Simple, StopPlaces
<1>6. Controlled
  BY <1>1, PlayerRecords DEF Cancelled, Controlled
<1>7. pipe' \in Seq(Piece) /\ next_pipe' \in Seq(Piece) /\ out' \in Outs /\ decoder' \in Decoders
  BY <1>1, <1>2
<1>8. UNCHANGED decoder BY DEF Cancelled
<1> QED BY <1>3, <1>4, <1>5, <1>6, <1>7, <1>8, Leaves

LEMMA SeekSongOK ==
  ASSUME IInv, SeekSong PROVE IInv'
<1>1. /\ Types /\ player.at = "seek" /\ player \in Players /\ dc \in Decoding
      /\ out \in Outs /\ decoder \in Decoders /\ main \in Songs \cup {None}
      /\ pipe \in Seq(Piece) /\ next_pipe \in Seq(Piece) /\ free \in Nat
  BY DEF IInv, SeekSong, At, Types
<1>2. CASE ~IsCurrentSong(pc.next)
  BY <1>1, <1>2, StopDecoderOK DEF SeekSong, StopPlaces
<1>3. ASSUME IsCurrentSong(pc.next) PROVE player' \in Players /\ player'.at \in Simple /\ Controlled
  <2>1. player' = [player EXCEPT !.at = "startup", !.queued = FALSE]
    BY <1>3 DEF SeekSong
  <2>2. player' \in Players /\ player'.at = "startup"
    BY <1>1, <2>1 DEF Players, Places
  <2>3. Controlled
    BY <1>1, <1>3, PlayerRecords DEF SeekSong, Controlled
  <2> QED BY <2>2, <2>3 DEF Simple, Places, StopPlaces
<1>4. CASE IsCurrentSong(pc.next) /\ ~IsDecoderAtNextSong
  BY <1>1, <1>3, <1>4, Same, Payments, Steps DEF SeekSong
<1>5. CASE IsCurrentSong(pc.next) /\ IsDecoderAtNextSong
  <2>1. /\ pipe' = next_pipe /\ next_pipe' = <<>> /\ free' = free + Len(pipe)
        /\ dc' = [dc EXCEPT !.pipe = "pipe"] /\ UNCHANGED <<main, out, decoder>>
    BY <1>5 DEF SeekSong
  <2>2. free' \in Nat /\ NoChunkLost'
    <3> DEFINE p == Len(pipe) n == Len(next_pipe) f == free l == out.left d == out.done
    <3>1. f \in Nat /\ l \in Nat /\ d \in Nat /\ p \in Nat /\ n \in Nat
      BY <1>1, Numbers
    <3>2. f + p \in Nat /\ (f + p) + (l + d) + (n + 0) = f + (l + d) + (p + n)
      <4> HIDE DEF p, n, f, l, d
      <4> QED BY <3>1
    <3>3. out'.left = l /\ out'.done = d /\ Len(pipe') = n /\ Len(next_pipe') = 0
            /\ free' = f + p /\ Len(decoder'.chunk) = Len(decoder.chunk)
      BY <2>1
    <3>4. (f + p) + (l + d) + (n + 0) = free + (out.left + out.done) + (Len(pipe) + Len(next_pipe))
      BY <3>2
    <3>5. NoChunkLost BY DEF IInv
    <3> HIDE DEF p, n, f, l, d
    <3> QED BY <1>1, <3>1, <3>2, <3>3, <3>4, <3>5, Count
  <2>3. dc' \in Decoding /\ dc'.state = dc.state /\ dc'.command = dc.command
    BY <1>1, <2>1 DEF Decoding
  <2>4. pipe' \in Seq(Piece) /\ next_pipe' \in Seq(Piece) /\ out' \in Outs /\ decoder' \in Decoders
    BY <1>1, <2>1
  <2> QED BY <1>1, <1>3, <1>5, <2>1, <2>2, <2>3, <2>4, Leaves
<1> QED BY <1>2, <1>4, <1>5

\* Marking chunks keeps their number.
LEMMA AgedIs ==
  ASSUME NEW chunks \in Seq(Piece), NEW old \in BOOLEAN
  PROVE  /\ Aged(chunks, old) \in Seq(Piece) /\ Len(Aged(chunks, old)) = Len(chunks)
         /\ chunks = <<>> => Aged(chunks, old) = <<>>
<1>1. Len(chunks) \in Nat /\ DOMAIN chunks = 1 .. Len(chunks)
  OBVIOUS
<1>2. ASSUME NEW i \in 1 .. Len(chunks) PROVE [chunks[i] EXCEPT !.old = old] \in Piece
  <2>1. chunks[i] \in Piece OBVIOUS
  <2> QED BY <2>1 DEF Piece
<1>3. Aged(chunks, old) \in [1 .. Len(chunks) -> Piece]
  <2> DEFINE m(i) == [chunks[i] EXCEPT !.old = old]
  <2>1. Aged(chunks, old) = [i \in 1 .. Len(chunks) |-> m(i)]
    BY <1>1 DEF Aged
  <2>2. \A i \in 1 .. Len(chunks) : m(i) \in Piece
    BY <1>2
  <2> HIDE DEF m
  <2> QED BY <2>1, <2>2
<1>4. Aged(chunks, old) \in Seq(Piece)
  BY <1>1, <1>3
<1>5. Len(Aged(chunks, old)) = Len(chunks)
  BY <1>1, <1>3, <1>4
<1>6. chunks = <<>> => Aged(chunks, old) = <<>>
  BY <1>4, <1>5
<1> QED BY <1>4, <1>5, <1>6

LEMMA SeekFailsIs ==
  ASSUME Types, SeekFails, UNCHANGED main
  PROVE  player' \in Players /\ player'.at \in Simple /\ Controlled
<1>1. player' \in Players /\ player'.at = "body"
  BY PlayerRecords DEF SeekFails
<1> QED BY <1>1, PlayerRecords DEF SeekFails, Controlled, Types, Simple, Places, StopPlaces

\* The chunks of the pipe and of the decoder are marked, and nothing else.
LEMMA MarkedIs ==
  ASSUME Types, NEW old \in BOOLEAN,
         pipe' = Aged(pipe, old), decoder' \in Decoders,
         decoder'.chunk = Aged(decoder.chunk, old)
  PROVE  /\ pipe' \in Seq(Piece) /\ Len(pipe') = Len(pipe)
         /\ Len(decoder'.chunk) = Len(decoder.chunk)
         /\ decoder.chunk = <<>> => decoder'.chunk = <<>>
<1>1. pipe \in Seq(Piece) /\ decoder.chunk \in Seq(Piece)
  BY Numbers DEF Types
<1> QED BY <1>1, AgedIs

LEMMA SeekDecoderOK ==
  ASSUME IInv, SeekDecoder PROVE IInv'
<1>1. /\ Types /\ player.at = "startup" /\ player \in Players /\ dc \in Decoding
      /\ out \in Outs /\ decoder \in Decoders /\ main \in Songs \cup {None}
      /\ next_pipe \in Seq(Piece) /\ free \in Nat /\ UNCHANGED <<main, next_pipe, out, free>>
  BY DEF IInv, SeekDecoder, At, Types
<1>2. CASE SeekFails /\ UNCHANGED <<dc, decoder, pipe>>
  BY <1>1, <1>2, SeekFailsIs, Same, Payments, Steps
<1>3. CASE /\ dc' = [dc EXCEPT !.command = "SEEK", !.seek_error = FALSE]
           /\ player' = [player EXCEPT !.at = "await", !.asleep = "decoder",
                                       !.then = "seek_done"]
           /\ decoder' = [Woken(decoder) EXCEPT !.chunk = Aged(@, TRUE)]
           /\ pipe' = Aged(pipe, TRUE)
           /\ UNCHANGED pc
  <2>1. dc' \in Decoding /\ dc'.state = dc.state /\ dc'.command = "SEEK" /\ dc'.pipe = dc.pipe
    BY <1>1, <1>3 DEF Decoding
  <2>2. player' \in Players /\ player'.at = "await" /\ player'.then = "seek_done"
    BY <1>1, <1>3 DEF Players, Places
  <2>3. decoder' \in Decoders /\ decoder'.at = decoder.at /\ decoder'.chunk = Aged(decoder.chunk, TRUE)
    <3>1. Woken(decoder) \in Decoders /\ Woken(decoder).at = decoder.at
            /\ Woken(decoder).chunk = decoder.chunk
      BY <1>1, Same
    <3>2. decoder.chunk \in Seq(Piece)
      BY <1>1, Numbers
    <3>3. Aged(decoder.chunk, TRUE) \in Seq(Piece)
      BY <3>2, AgedIs
    <3> QED BY <1>3, <3>1, <3>3 DEF Decoders
  <2>4. /\ pipe' \in Seq(Piece) /\ Len(pipe') = Len(pipe)
        /\ Len(decoder'.chunk) = Len(decoder.chunk)
        /\ decoder.chunk = <<>> => decoder'.chunk = <<>>
    BY <1>1, <1>3, <2>3, MarkedIs
  <2>5. NoChunkLost'
    BY <1>1, <2>4 DEF IInv, NoChunkLost, InOutputs
  <2>6. Controlled BY <1>1, <1>3, Same
  <2>7. "seek_done" \in Thens /\ ~("seek_done" \in StopPlaces) BY DEF Thens, StopPlaces
  <2>8. dc'.pipe # "next" => next_pipe' = <<>>
    BY <1>1, <2>1 DEF IInv, Quiet, IsDecoderAtNextSong
  <2>9. next_pipe' \in Seq(Piece) /\ free' \in Nat /\ out' \in Outs
    BY <1>1
  <2> QED BY <1>1, <2>1, <2>2, <2>3, <2>4, <2>5, <2>6, <2>7, <2>8, <2>9, Sends
<1> QED BY <1>2, <1>3 DEF SeekDecoder

LEMMA SeekDoneOK ==
  ASSUME IInv, SeekDone PROVE IInv'
<1>1. /\ Types /\ player.at = "seek_done" /\ player \in Players /\ dc \in Decoding
      /\ out \in Outs /\ decoder \in Decoders /\ main \in Songs \cup {None}
      /\ next_pipe \in Seq(Piece) /\ free \in Nat /\ UNCHANGED <<main, dc, next_pipe>>
  BY DEF IInv, SeekDone, At, Types
<1>2. CASE dc.seek_error
  <2>1. /\ SeekFails /\ decoder' = [decoder EXCEPT !.chunk = Aged(@, FALSE)]
        /\ pipe' = Aged(pipe, FALSE) /\ UNCHANGED <<out, free>>
    BY <1>2 DEF SeekDone
  <2>2. decoder' \in Decoders /\ decoder'.at = decoder.at /\ decoder'.chunk = Aged(decoder.chunk, FALSE)
    <3>1. decoder.chunk \in Seq(Piece)
      BY <1>1, Numbers
    <3>2. Aged(decoder.chunk, FALSE) \in Seq(Piece)
      BY <3>1, AgedIs
    <3> QED BY <1>1, <2>1, <3>2 DEF Decoders
  <2>3. /\ pipe' \in Seq(Piece) /\ Len(pipe') = Len(pipe)
        /\ Len(decoder'.chunk) = Len(decoder.chunk)
        /\ decoder.chunk = <<>> => decoder'.chunk = <<>>
    BY <1>1, <2>1, <2>2, MarkedIs
  <2>4. NoChunkLost'
    BY <1>1, <2>1, <2>3 DEF IInv, NoChunkLost, InOutputs
  <2>5. dc'.pipe # "next" => next_pipe' = <<>>
    BY <1>1 DEF IInv, Quiet, IsDecoderAtNextSong
  <2>6. player' \in Players /\ player'.at \in Simple /\ Controlled
    BY <1>1, <2>1, SeekFailsIs
  <2>7. dc' \in Decoding /\ next_pipe' \in Seq(Piece) /\ free' \in Nat /\ out' \in Outs
    BY <1>1, <2>1
  <2> QED BY <1>1, <2>2, <2>3, <2>4, <2>5, <2>6, <2>7, Leaves
<1>3. CASE ~dc.seek_error
  <2>1. player' \in Players /\ player'.at = "body"
    <3>1. player' = [player EXCEPT !.at = "body", !.seeking = FALSE, !.buffering = TRUE]
      BY <1>3 DEF SeekDone
    <3> QED BY <1>1, <3>1 DEF Players, Places
  <2>2. Controlled
    BY <1>1, <1>3, PlayerRecords DEF SeekDone, Controlled
  <2>3. Still /\ Paid
    BY <1>1, <1>3, Same, Payments DEF SeekDone
  <2> QED BY <1>1, <2>1, <2>2, <2>3, Steps DEF Simple, Places, StopPlaces
<1> QED BY <1>2, <1>3

LEMMA PlayNextChunkOK ==
  ASSUME IInv, PlayNextChunk PROVE IInv'
<1> DEFINE p == Len(pipe) n == Len(next_pipe) f == free l == out.left d == out.done
<1>1. /\ Types /\ player.at = "play_chunk" /\ player \in Players /\ dc \in Decoding /\ pc \in Controls
      /\ out \in Outs /\ decoder \in Decoders /\ main \in Songs \cup {None}
      /\ pipe \in Seq(Piece) /\ next_pipe \in Seq(Piece) /\ free \in Nat
      /\ UNCHANGED <<main, dc, next_pipe>>
  BY DEF IInv, PlayNextChunk, At, Types
<1>2. f \in Nat /\ l \in Nat /\ d \in Nat /\ p \in Nat /\ n \in Nat
  BY <1>1, Numbers
<1>3. pipe # <<>> BY <1>1 DEF IInv, Quiet
<1>4. pipe' \in Seq(Piece) /\ Len(pipe') = p - 1 /\ p # 0
  BY <1>1, <1>3 DEF PlayNextChunk
<1>5. player' \in Players /\ player'.at = "loop" /\ pc' \in Controls
  <2>1. \A b \in BOOLEAN : /\ [player EXCEPT !.at = "loop", !.paused = b] \in Players
                           /\ [player EXCEPT !.at = "loop", !.decoder_woken = b] \in Players
                           /\ [player EXCEPT !.at = "loop", !.paused = b].at = "loop"
                           /\ [player EXCEPT !.at = "loop", !.decoder_woken = b].at = "loop"
    <3>1. "loop" \in Places BY DEF Places
    <3> QED BY <1>1, <3>1 DEF Players
  <2>2. [pc EXCEPT !.state = "PAUSE"] \in Controls
    BY <1>1 DEF Controls
  <2>3. DecoderHasRoom \in BOOLEAN BY DEF DecoderHasRoom
  <2> QED BY <1>1, <2>1, <2>2, <2>3 DEF PlayNextChunk
<1>6. decoder' \in Decoders /\ decoder'.at = decoder.at /\ decoder'.chunk = decoder.chunk
  BY <1>1, Same DEF PlayNextChunk
<1>7. /\ out' \in Outs /\ free' \in Nat /\ out'.left \in Nat /\ out'.done \in Nat
      /\ free' + (out'.left + out'.done) = free + (out.left + out.done) + 1
  <2>1. PICK o \in UpdatedOutputs(out) :
          \/ out' = out /\ free' = free + 1
          \/ out' = [o EXCEPT !.left = @ + 1] /\ UNCHANGED free
    BY DEF PlayNextChunk
  <2> DEFINE ol == o.left od == o.done l2 == out'.left d2 == out'.done f2 == free'
  <2>2. o \in Outs /\ ol \in Nat /\ od \in Nat /\ ol + od = l + d
    BY <1>1, Outputs DEF Keeps, Outs
  <2>3. CASE out' = out /\ free' = free + 1
    BY <1>1, <1>2, <2>3
  <2>4. CASE out' = [o EXCEPT !.left = @ + 1] /\ UNCHANGED free
    <3>1. out' \in Outs /\ l2 = ol + 1 /\ d2 = od /\ f2 = f
      BY <2>2, <2>4 DEF Outs
    <3>2. f2 \in Nat /\ l2 \in Nat /\ d2 \in Nat /\ f2 + (l2 + d2) = f + (l + d) + 1
      <4> HIDE DEF f, l, d, ol, od, l2, d2, f2
      <4> QED BY <1>2, <2>2, <3>1
    <3> QED BY <3>1, <3>2
  <2> QED BY <2>1, <2>3, <2>4
<1>8. NoChunkLost'
  <2> DEFINE c == Len(decoder.chunk) f2 == free' l2 == out'.left d2 == out'.done p2 == Len(pipe')
             b == BufferSize
  <2>1. f2 + (l2 + d2) = f + (l + d) + 1 /\ f2 \in Nat /\ l2 \in Nat /\ d2 \in Nat
    BY <1>7
  <2>2. f + p + n + c + (l + d) = b
    BY DEF IInv, NoChunkLost, InOutputs
  <2>3. p2 = p - 1 /\ c \in Nat
    BY <1>1, <1>4, Numbers
  <2>4. f2 + p2 + n + c + (l2 + d2) = b
    <3> HIDE DEF p, n, f, l, d, c, f2, l2, d2, p2, b
    <3> QED BY ONLY <1>2, <1>4, <2>1, <2>2, <2>3
  <2>5. n = Len(next_pipe') /\ c = Len(decoder'.chunk)
    BY <1>1, <1>6
  <2>6. f2 = free' /\ l2 = out'.left /\ d2 = out'.done /\ p2 = Len(pipe') /\ b = BufferSize
    OBVIOUS
  <2> HIDE DEF p, n, f, l, d, c, f2, l2, d2, p2, b
  <2> QED BY ONLY <2>4, <2>5, <2>6 DEF NoChunkLost, InOutputs
<1>9. dc'.pipe # "next" => next_pipe' = <<>>
  BY <1>1 DEF IInv, Quiet, IsDecoderAtNextSong
<1>10. next_pipe' \in Seq(Piece) /\ dc' \in Decoding /\ player'.at \in Simple /\ Controlled
  BY <1>1, <1>5 DEF Simple, Places, StopPlaces, Controlled
<1> HIDE DEF p, n, f, l, d
<1> QED BY <1>1, <1>4, <1>5, <1>6, <1>7, <1>8, <1>9, <1>10, Leaves

\* The pipe of the next song becomes the one that is played.
LEMMA SongBorderOK ==
  ASSUME IInv, player.at = "no_data", IsDecoderAtNextSong, SongBorder, CheckOutputs,
         UNCHANGED <<main, decoder>>
  PROVE  IInv'
<1> DEFINE n == Len(next_pipe) f == free l == out.left d == out.done
<1>1. /\ Types /\ player \in Players /\ dc \in Decoding /\ pc \in Controls
      /\ out \in Outs /\ decoder \in Decoders /\ main \in Songs \cup {None}
      /\ next_pipe \in Seq(Piece) /\ pc.next \in Songs \cup {None}
  BY DEF IInv, Types, Controls
<1>2. f \in Nat /\ l \in Nat /\ d \in Nat /\ n \in Nat
  BY <1>1, Numbers
<1>3. pipe = <<>> /\ pipe' = next_pipe /\ next_pipe' = <<>>
  BY DEF IInv, Quiet, SongBorder
<1>4. out' \in Outs /\ free' = f + d /\ out'.left = l /\ out'.done = 0
  BY <1>1, <1>2 DEF CheckOutputs, Checked, Outs
<1>5. NoChunkLost'
  <2>1. f + d \in Nat /\ (f + d) + (l + 0) + (n + 0) = f + (l + d) + (0 + n)
    <3> HIDE DEF n, f, l, d
    <3> QED BY <1>2
  <2>2. (f + d) + (l + 0) + (n + 0) = free + (out.left + out.done) + (Len(pipe) + Len(next_pipe))
    <3>1. Len(pipe) = 0 BY <1>3
    <3> QED BY <2>1, <3>1
  <2>3. Len(pipe') = n /\ Len(next_pipe') = 0 /\ Len(decoder'.chunk) = Len(decoder.chunk) BY <1>3
  <2>4. NoChunkLost BY DEF IInv
  <2> HIDE DEF n, f, l, d
  <2> QED BY <1>1, <1>2, <1>4, <2>1, <2>2, <2>3, <2>4, Count
<1>6. dc' \in Decoding /\ dc'.state = dc.state /\ dc'.command = dc.command
  BY <1>1 DEF SongBorder, Decoding
<1>7. player' \in Players /\ player'.at \in {"stop", "loop"}
  <2>1. Started("loop") \in Players /\ Started("loop").at = "loop"
    BY <1>1, StartedIs DEF Places
  <2>2. \A b \in BOOLEAN : /\ [Started("loop") EXCEPT !.paused = b] \in Players
                           /\ [Started("loop") EXCEPT !.paused = b].at = "loop"
    BY <2>1 DEF Players
  <2>3. Started("loop").paused \in BOOLEAN /\ pc.border_pause \in BOOLEAN
    BY <1>1, <2>1 DEF Players, Controls
  <2>4. [player EXCEPT !.at = "stop", !.queued = FALSE] \in Players
          /\ [player EXCEPT !.at = "stop", !.queued = FALSE].at = "stop"
    <3>1. "stop" \in Places BY DEF Places
    <3> QED BY <1>1, <3>1 DEF Players
  <2> QED BY <2>1, <2>2, <2>3, <2>4 DEF SongBorder
<1>8. Controlled
  <2>1. None \in Songs \cup {None} OBVIOUS
  <2> QED BY <1>1, <2>1 DEF SongBorder, Controlled, Controls
<1>9. /\ pipe' \in Seq(Piece) /\ next_pipe' \in Seq(Piece) /\ decoder' \in Decoders
      /\ decoder'.at = decoder.at /\ decoder'.chunk = decoder.chunk /\ free' \in Nat
  BY <1>1, <1>2, <1>3, <1>4
<1>10. player'.at \in Simple BY <1>7 DEF Simple, Places, StopPlaces
<1> HIDE DEF n, f, l, d
<1> QED BY <1>1, <1>3, <1>4, <1>5, <1>6, <1>7, <1>8, <1>9, <1>10, Leaves

LEMMA NoDataOK ==
  ASSUME IInv, NoData PROVE IInv'
<1>1. Types /\ player \in Players /\ player.at = "no_data" /\ UNCHANGED main
  BY DEF IInv, NoData, At, Types
<1>2. {"data_wait", "loop", "stop"} \subseteq Simple BY DEF Simple, Places, StopPlaces
<1>3. CASE /\ out.left > 0 /\ CheckOutputs
           /\ IF Windows THEN Goto("data_wait") /\ UNCHANGED decoder ELSE DataWait
           /\ UNCHANGED <<pc, dc, pipe, next_pipe>>
  BY <1>1, <1>2, <1>3, GoesOn DEF DataWait
<1>4. CASE IsDecoderAtNextSong /\ SongBorder /\ CheckOutputs /\ UNCHANGED decoder
  BY <1>1, <1>4, SongBorderOK
<1>5. CASE /\ Goto("stop") \/ Goto("loop")
           /\ CheckOutputs
           /\ UNCHANGED <<pc, dc, decoder, pipe, next_pipe>>
  BY <1>1, <1>2, <1>5, GoesOn
<1>6. CASE /\ SendSilence([player EXCEPT !.at = "loop"])
           /\ UNCHANGED <<pc, dc, decoder, pipe, next_pipe>>
  <2>1. [player EXCEPT !.at = "loop"] \in Players /\ [player EXCEPT !.at = "loop"].at = "loop"
    BY <1>1 DEF Players, Places
  <2> QED BY <1>1, <1>2, <1>6, <2>1, SendSilenceOK
<1> QED BY <1>3, <1>4, <1>5, <1>6 DEF NoData

-----------------------------------------------------------------------------
(* The decoder thread and the outputs.                                     *)

\* A step of the decoder, which may wake the player.
LEMMA DecoderMoves ==
  ASSUME IInv, UNCHANGED <<main, pc, out>>, PlayerAt(player.at),
         dc' \in Decoding, dc'.pipe = dc.pipe, dc'.command \in {dc.command, "NONE"},
         decoder' \in Decoders, DecoderPlace',
         pipe' \in Seq(Piece), next_pipe' \in Seq(Piece), free' \in Nat, NoChunkLost',
         IsIdle /\ dc.command \in {"NONE", "STOP"} => IsIdle',
         dc.command = "STOP" /\ dc'.command = "NONE" => IsIdle',
         ~IsDecoderAtNextSong => next_pipe' = next_pipe,
         dc.command = "NONE" /\ (IsDecoderAtNextSong \/ IsIdle) => pipe' = pipe,
         dc.command = "NONE" /\ IsIdle => next_pipe' = next_pipe,
         dc.command = "NONE" /\ pipe # <<>> => pipe' # <<>>
  PROVE  IInv'
<1>1. Types /\ player' \in Players /\ player'.at = player.at /\ player'.then = player.then
  BY DEF IInv, PlayerAt
<1>2. Types' BY <1>1 DEF Types
<1>3. Handshake'
  BY <1>1 DEF IInv, Handshake, Quiet, IsIdle
<1>4. Quiet'
  <2>1. CASE dc.command # "NONE"
    <3>1. player'.at = "await" BY <1>1, <2>1 DEF IInv, Handshake
    <3> QED BY <1>1, <3>1 DEF Quiet, IInv, IsDecoderAtNextSong
  <2>2. CASE dc.command = "NONE"
    BY <1>1, <2>2 DEF Quiet, IInv, IsDecoderAtNextSong
  <2> QED BY <2>1, <2>2
<1> QED BY <1>2, <1>3, <1>4 DEF IInv

\* A step of the decoder that leaves the chunks where they are.
LEMMA DecoderGoes ==
  ASSUME IInv, UNCHANGED <<main, pc, out, pipe, next_pipe, free>>, PlayerAt(player.at),
         dc' \in Decoding, dc'.pipe = dc.pipe, dc'.command \in {dc.command, "NONE"},
         decoder' \in Decoders, DecoderPlace', decoder'.chunk = decoder.chunk,
         IsIdle /\ dc.command \in {"NONE", "STOP"} => IsIdle',
         dc.command = "STOP" /\ dc'.command = "NONE" => IsIdle'
  PROVE  IInv'
<1>1. Types BY DEF IInv
<1>2. NoChunkLost' BY DEF IInv, NoChunkLost, InOutputs
<1>3. pipe' \in Seq(Piece) /\ next_pipe' \in Seq(Piece) /\ free' \in Nat
  BY <1>1 DEF Types
<1> QED BY <1>2, <1>3, DecoderMoves

\* Only where the decoder is changes, or whether it sleeps.
LEMMA DecoderStays ==
  ASSUME IInv, UNCHANGED <<main, pc, out, pipe, next_pipe, free, dc>>, PlayerAt(player.at),
         decoder' \in Decoders, decoder'.chunk = decoder.chunk,
         decoder'.at = "task" <=> decoder.at = "task"
  PROVE  IInv'
<1>1. Types /\ dc \in Decoding BY DEF IInv, Types
<1>2. DecoderPlace' BY DEF DecoderPlace, IInv, IsIdle
<1> QED BY <1>1, <1>2, DecoderGoes DEF IsIdle, IInv, DecoderPlace, Handshake

LEMMA DecoderWaitsOK ==
  ASSUME IInv, NeedChunks \/ NeededChunks \/ DecoderEnds PROVE IInv'
<1>1. Types /\ decoder \in Decoders BY DEF IInv, Types
<1>2. PlayerAt(player.at)
  BY <1>1, PlayerMoves DEF NeedChunks, NeededChunks, DecoderEnds
<1>3. decoder' \in Decoders /\ decoder'.chunk = decoder.chunk /\ decoder'.at # "task" /\ decoder.at # "task"
  <2>1. CASE NeedChunks
    BY <1>1, <2>1 DEF NeedChunks, DecoderAt, Decoders
  <2>2. CASE NeededChunks
    BY <1>1, <2>2 DEF NeededChunks, DecoderAt, DecoderGoto, Decoders
  <2>3. CASE DecoderEnds
    BY <1>1, <2>3 DEF DecoderEnds, DecoderAt, Decoders
  <2> QED BY <2>1, <2>2, <2>3
<1> QED BY <1>2, <1>3, DecoderStays DEF NeedChunks, NeededChunks, DecoderEnds

LEMMA DecoderInitializedOK ==
  ASSUME IInv, DecoderInitialized PROVE IInv'
<1>1. Types /\ decoder \in Decoders /\ dc \in Decoding /\ decoder.at = "init" /\ ~IsIdle
  BY DEF IInv, Types, DecoderInitialized, DecoderAt, DecoderPlace
<1>2. PlayerAt(player.at)
  BY <1>1, PlayerMoves DEF DecoderInitialized, SignalPlayer
<1>3. CASE dc' = [dc EXCEPT !.state = "DECODE"] /\ DecoderGoto("decode")
  <2>1. decoder' \in Decoders /\ decoder'.at = "decode" /\ decoder'.chunk = decoder.chunk
    BY <1>1, <1>3 DEF DecoderGoto, Decoders
  <2>2. dc' \in Decoding /\ dc'.pipe = dc.pipe /\ dc'.command = dc.command /\ dc'.state = "DECODE"
    BY <1>1, <1>3 DEF Decoding
  <2>3. DecoderPlace' /\ ~IsIdle'
    BY <2>1, <2>2 DEF DecoderPlace, IsIdle
  <2>4. dc'.command = "NONE" => dc.command = "NONE"
    BY <2>2
  <2> QED BY <1>1, <1>2, <2>1, <2>2, <2>3, <2>4, DecoderGoes DEF DecoderInitialized
<1>4. CASE decoder' = [decoder EXCEPT !.at = "end", !.ok = dc.command = "STOP"] /\ UNCHANGED dc
  <2>1. decoder' \in Decoders /\ decoder'.at = "end" /\ decoder'.chunk = decoder.chunk
    BY <1>1, <1>4 DEF Decoders
  <2> QED BY <1>1, <1>2, <1>4, <2>1, DecoderStays DEF DecoderInitialized
<1> QED BY <1>3, <1>4 DEF DecoderInitialized

LEMMA DecoderEndedOK ==
  ASSUME IInv, DecoderEnded PROVE IInv'
<1>1. Types /\ decoder \in Decoders /\ dc \in Decoding /\ decoder.chunk = <<>>
  BY DEF IInv, Types, DecoderEnded
<1>2. PlayerAt(player.at)
  BY <1>1, PlayerMoves DEF DecoderEnded, SignalPlayer
<1>3. decoder' \in Decoders /\ decoder'.at = "task" /\ decoder'.chunk = decoder.chunk
  BY <1>1 DEF DecoderEnded, Decoders
<1>4. dc' \in Decoding /\ dc'.pipe = dc.pipe /\ dc'.command = dc.command /\ dc'.state \in {"STOP", "ERROR"}
  BY <1>1 DEF DecoderEnded, Decoding
<1>5. DecoderPlace' /\ IsIdle'
  BY <1>1, <1>3, <1>4 DEF DecoderPlace, IsIdle
<1> QED BY <1>1, <1>2, <1>3, <1>4, <1>5, DecoderGoes DEF DecoderEnded

\* The decoder's pipe and its chunk are returned.
LEMMA ClearDecoderPipeIs ==
  ASSUME Types, NoChunkLost, ClearDecoderPipe, UNCHANGED out, decoder'.chunk = <<>>
  PROVE  /\ pipe' \in Seq(Piece) /\ next_pipe' \in Seq(Piece) /\ free' \in Nat /\ NoChunkLost'
         /\ IF IsDecoderAtNextSong THEN pipe' = pipe ELSE next_pipe' = next_pipe
<1> DEFINE p == Len(pipe) n == Len(next_pipe) c == Len(decoder.chunk)
           f == free l == out.left d == out.done b == BufferSize
<1>1. f \in Nat /\ l \in Nat /\ d \in Nat /\ p \in Nat /\ n \in Nat /\ c \in Nat
  BY Numbers
<1>2. f + p + n + c + (l + d) = b
  BY DEF NoChunkLost, InOutputs
<1>3. pipe \in Seq(Piece) /\ next_pipe \in Seq(Piece) /\ <<>> \in Seq(Piece) /\ UNCHANGED out
  BY DEF Types
<1>4. Len(decoder'.chunk) = 0 OBVIOUS
<1>5. CASE IsDecoderAtNextSong
  <2>1. free' = f + n + c /\ next_pipe' = <<>> /\ pipe' = pipe
    BY <1>5 DEF ClearDecoderPipe, DecoderPipe, IsDecoderAtNextSong
  <2>2. f + n + c \in Nat /\ (f + n + c) + p + 0 + 0 + (l + d) = b
    <3> HIDE DEF p, n, c, f, l, d, b
    <3> QED BY <1>1, <1>2
  <2>3. Len(pipe') = p /\ Len(next_pipe') = 0 /\ out'.left = l /\ out'.done = d
    BY <1>3, <2>1
  <2> HIDE DEF p, n, c, f, l, d
  <2> QED BY <1>3, <1>4, <1>5, <2>1, <2>2, <2>3 DEF NoChunkLost, InOutputs
<1>6. CASE ~IsDecoderAtNextSong
  <2>1. free' = f + p + c /\ pipe' = <<>> /\ next_pipe' = next_pipe
    BY <1>6 DEF ClearDecoderPipe, DecoderPipe, IsDecoderAtNextSong
  <2>2. f + p + c \in Nat /\ (f + p + c) + 0 + n + 0 + (l + d) = b
    <3> HIDE DEF p, n, c, f, l, d, b
    <3> QED BY <1>1, <1>2
  <2>3. Len(pipe') = 0 /\ Len(next_pipe') = n /\ out'.left = l /\ out'.done = d
    BY <1>3, <2>1
  <2> HIDE DEF p, n, c, f, l, d
  <2> QED BY <1>3, <1>4, <1>6, <2>1, <2>2, <2>3 DEF NoChunkLost, InOutputs
<1> QED BY <1>5, <1>6

\* The decoder's chunk goes to its pipe.
LEMMA FlushChunkIs ==
  ASSUME Types, NoChunkLost, FlushChunk, UNCHANGED <<out, free>>, decoder'.chunk = <<>>
  PROVE  /\ pipe' \in Seq(Piece) /\ next_pipe' \in Seq(Piece) /\ NoChunkLost'
         /\ IF IsDecoderAtNextSong THEN pipe' = pipe ELSE next_pipe' = next_pipe
         /\ pipe # <<>> => pipe' # <<>>
<1> DEFINE p == Len(pipe) n == Len(next_pipe) c == Len(decoder.chunk)
           f == free l == out.left d == out.done b == BufferSize
<1>1. f \in Nat /\ l \in Nat /\ d \in Nat /\ p \in Nat /\ n \in Nat /\ c \in Nat
  BY Numbers
<1>2. f + p + n + c + (l + d) = b
  BY DEF NoChunkLost, InOutputs
<1>3. pipe \in Seq(Piece) /\ next_pipe \in Seq(Piece) /\ decoder.chunk \in Seq(Piece) /\ UNCHANGED <<out, free>>
  BY Numbers DEF Types
<1>4. Len(decoder'.chunk) = 0 OBVIOUS
<1>5. CASE IsDecoderAtNextSong
  <2>1. next_pipe' = next_pipe \o decoder.chunk /\ pipe' = pipe
    BY <1>5 DEF FlushChunk
  <2>2. next_pipe' \in Seq(Piece) /\ Len(next_pipe') = n + c
    BY <1>3, <2>1
  <2>3. f + p + (n + c) + 0 + (l + d) = b
    <3> HIDE DEF p, n, c, f, l, d, b
    <3> QED BY <1>1, <1>2
  <2>4. Len(pipe') = p /\ out'.left = l /\ out'.done = d /\ free' = f
    BY <1>3, <2>1
  <2> HIDE DEF p, n, c, f, l, d
  <2> QED BY <1>3, <1>4, <1>5, <2>1, <2>2, <2>3, <2>4 DEF NoChunkLost, InOutputs
<1>6. CASE ~IsDecoderAtNextSong
  <2>1. pipe' = pipe \o decoder.chunk /\ next_pipe' = next_pipe
    BY <1>6 DEF FlushChunk
  <2>2. pipe' \in Seq(Piece) /\ Len(pipe') = p + c /\ (pipe # <<>> => pipe' # <<>>)
    BY <1>3, <2>1
  <2>3. f + (p + c) + n + 0 + (l + d) = b
    <3> HIDE DEF p, n, c, f, l, d, b
    <3> QED BY <1>1, <1>2
  <2>4. Len(next_pipe') = n /\ out'.left = l /\ out'.done = d /\ free' = f
    BY <1>3, <2>1
  <2> HIDE DEF p, n, c, f, l, d
  <2> QED BY <1>3, <1>4, <1>6, <2>1, <2>2, <2>3, <2>4 DEF NoChunkLost, InOutputs
<1> QED BY <1>5, <1>6

\* The decoder takes a chunk from the buffer.
LEMMA TakenIs ==
  ASSUME Types, NoChunkLost, free > 0, free' = free - 1, decoder.chunk = <<>>,
         Len(decoder'.chunk) = 1, UNCHANGED <<pipe, next_pipe, out>>
  PROVE  free' \in Nat /\ NoChunkLost'
<1> DEFINE p == Len(pipe) n == Len(next_pipe)
           f == free l == out.left d == out.done b == BufferSize
<1>1. f \in Nat /\ l \in Nat /\ d \in Nat /\ p \in Nat /\ n \in Nat
  BY Numbers
<1>2. f + p + n + 0 + (l + d) = b
  <2>1. Len(decoder.chunk) = 0 OBVIOUS
  <2> QED BY <2>1 DEF NoChunkLost, InOutputs
<1>3. f - 1 \in Nat /\ (f - 1) + p + n + 1 + (l + d) = b
  <2>1. f > 0 OBVIOUS
  <2> HIDE DEF p, n, f, l, d, b
  <2> QED BY <1>1, <1>2, <2>1
<1>4. Len(pipe') = p /\ Len(next_pipe') = n /\ out'.left = l /\ out'.done = d /\ free' = f - 1
  OBVIOUS
<1> HIDE DEF p, n, f, l, d
<1> QED BY <1>3, <1>4 DEF NoChunkLost, InOutputs

LEMMA DecoderCommandOK ==
  ASSUME IInv, DecoderCommand PROVE IInv'
<1>1. /\ Types /\ NoChunkLost /\ decoder \in Decoders /\ dc \in Decoding
      /\ decoder.at = "decode" /\ ~IsIdle /\ UNCHANGED <<main, pc, out>>
  BY DEF IInv, Types, DecoderCommand, DecoderAt, DecoderPlace
<1>2. PlayerAt(player.at)
  BY <1>1, PlayerMoves DEF DecoderCommand, SignalPlayer
<1>3. CASE /\ DecoderGoto("data") /\ UNCHANGED <<dc, pipe, next_pipe, free>>
  <2>1. decoder' \in Decoders /\ decoder'.at = "data" /\ decoder'.chunk = decoder.chunk
    BY <1>1, <1>3 DEF DecoderGoto, Decoders
  <2> QED BY <1>1, <1>2, <1>3, <2>1, DecoderStays
<1>4. CASE /\ dc.command = "SEEK" /\ ClearDecoderPipe
           /\ decoder' = [decoder EXCEPT !.chunk = <<>>] /\ dc' = DecoderFinished(dc)
  <2>1. decoder' \in Decoders /\ decoder'.at = "decode" /\ decoder'.chunk = <<>>
    <3>1. <<>> \in Seq(Piece) OBVIOUS
    <3> QED BY <1>1, <1>4, <3>1 DEF Decoders
  <2>2. dc' \in Decoding /\ dc'.pipe = dc.pipe /\ dc'.command = "NONE" /\ dc'.state = dc.state
    BY <1>1, <1>4 DEF DecoderFinished, Decoding
  <2>3. DecoderPlace' BY <1>1, <2>1, <2>2 DEF DecoderPlace, IsIdle
  <2>4. /\ pipe' \in Seq(Piece) /\ next_pipe' \in Seq(Piece) /\ free' \in Nat /\ NoChunkLost'
        /\ IF IsDecoderAtNextSong THEN pipe' = pipe ELSE next_pipe' = next_pipe
    BY <1>1, <1>4, <2>1, ClearDecoderPipeIs
  <2> QED BY <1>1, <1>2, <1>4, <2>1, <2>2, <2>3, <2>4, DecoderMoves
<1>5. CASE /\ dc.command = "SEEK" /\ dc' = [DecoderFinished(dc) EXCEPT !.seek_error = TRUE]
           /\ UNCHANGED <<decoder, pipe, next_pipe, free>>
  <2>1. dc' \in Decoding /\ dc'.pipe = dc.pipe /\ dc'.command = "NONE" /\ dc'.state = dc.state
    BY <1>1, <1>5 DEF DecoderFinished, Decoding
  <2>2. DecoderPlace' BY <1>1, <1>5, <2>1 DEF DecoderPlace, IsIdle
  <2> QED BY <1>1, <1>2, <1>5, <2>1, <2>2, DecoderGoes
<1> QED BY <1>3, <1>4, <1>5 DEF DecoderCommand

LEMMA DecoderDataOK ==
  ASSUME IInv, DecoderData PROVE IInv'
<1>1. /\ Types /\ NoChunkLost /\ decoder \in Decoders /\ dc \in Decoding /\ decoder.at = "data"
      /\ ~IsIdle /\ pipe \in Seq(Piece) /\ next_pipe \in Seq(Piece) /\ free \in Nat
      /\ UNCHANGED <<main, pc, dc, out>>
  BY DEF IInv, Types, DecoderData, DecoderAt, DecoderPlace
<1>2. CASE decoder.chunk # <<>>
  <2>1. FlushChunk /\ decoder' = [decoder EXCEPT !.at = "decode", !.chunk = <<>>] /\ UNCHANGED free
    BY <1>2 DEF DecoderData
  <2>2. decoder' \in Decoders /\ decoder'.at = "decode" /\ decoder'.chunk = <<>>
    <3>1. <<>> \in Seq(Piece) OBVIOUS
    <3> QED BY <1>1, <2>1, <3>1 DEF Decoders
  <2>3. PlayerAt(player.at)
    BY <1>1, <2>1, PlayerMoves DEF FlushChunk, SignalPlayer
  <2>4. DecoderPlace' BY <1>1, <2>2 DEF DecoderPlace, IsIdle
  <2>5. /\ pipe' \in Seq(Piece) /\ next_pipe' \in Seq(Piece) /\ NoChunkLost'
        /\ IF IsDecoderAtNextSong THEN pipe' = pipe ELSE next_pipe' = next_pipe
        /\ pipe # <<>> => pipe' # <<>>
    BY <1>1, <2>1, <2>2, FlushChunkIs
  <2> QED BY <1>1, <2>1, <2>2, <2>3, <2>4, <2>5, DecoderMoves
<1>3. CASE decoder.chunk = <<>> /\ free > 0
  <2>1. /\ decoder' = [decoder EXCEPT !.at = "decode", !.chunk = <<[song |-> dc.song, old |-> FALSE]>>]
        /\ free' = free - 1 /\ UNCHANGED <<player, pipe, next_pipe>>
    BY <1>3 DEF DecoderData
  <2>2. decoder' \in Decoders /\ decoder'.at = "decode" /\ Len(decoder'.chunk) = 1
    <3>1. [song |-> dc.song, old |-> FALSE] \in Piece BY <1>1 DEF Piece, Decoding
    <3> DEFINE s == <<[song |-> dc.song, old |-> FALSE]>>
    <3>2. s \in Seq(Piece) /\ Len(s) = 1 BY <3>1
    <3>3. decoder' = [decoder EXCEPT !.at = "decode", !.chunk = s] BY <2>1
    <3> HIDE DEF s
    <3> QED BY <1>1, <3>2, <3>3 DEF Decoders
  <2>3. PlayerAt(player.at) BY <1>1, <2>1, PlayerMoves
  <2>4. DecoderPlace' BY <1>1, <2>2 DEF DecoderPlace, IsIdle
  <2>5. free' \in Nat /\ NoChunkLost'
    BY <1>1, <1>3, <2>1, <2>2, TakenIs
  <2> QED BY <1>1, <2>1, <2>2, <2>3, <2>4, <2>5, DecoderMoves
<1>4. CASE decoder.chunk = <<>> /\ ~(free > 0)
  <2>1. DecoderGoto("need") /\ UNCHANGED <<player, pipe, next_pipe, free>>
    BY <1>4 DEF DecoderData
  <2>2. decoder' \in Decoders /\ decoder'.at = "need" /\ decoder'.chunk = decoder.chunk
    BY <1>1, <2>1 DEF DecoderGoto, Decoders
  <2>3. PlayerAt(player.at) BY <1>1, <2>1, PlayerMoves
  <2> QED BY <1>1, <2>1, <2>2, <2>3, DecoderStays
<1> QED BY <1>2, <1>3, <1>4

LEMMA DecoderFlushesLastOK ==
  ASSUME IInv, DecoderFlushesLast PROVE IInv'
<1>1. /\ Types /\ NoChunkLost /\ decoder \in Decoders /\ dc \in Decoding /\ decoder.at = "end"
      /\ ~IsIdle /\ free \in Nat /\ UNCHANGED <<main, pc, dc, out, free>>
  BY DEF IInv, Types, DecoderFlushesLast, DecoderAt, DecoderPlace
<1>2. FlushChunk /\ decoder' = [decoder EXCEPT !.chunk = <<>>]
  BY DEF DecoderFlushesLast
<1>3. decoder' \in Decoders /\ decoder'.at = "end" /\ decoder'.chunk = <<>>
  <2>1. <<>> \in Seq(Piece) OBVIOUS
  <2> QED BY <1>1, <1>2, <2>1 DEF Decoders
<1>4. PlayerAt(player.at)
  BY <1>1, <1>2, PlayerMoves DEF FlushChunk, SignalPlayer
<1>5. DecoderPlace' BY <1>1, <1>3 DEF DecoderPlace, IsIdle
<1>6. /\ pipe' \in Seq(Piece) /\ next_pipe' \in Seq(Piece) /\ NoChunkLost'
      /\ IF IsDecoderAtNextSong THEN pipe' = pipe ELSE next_pipe' = next_pipe
      /\ pipe # <<>> => pipe' # <<>>
  BY <1>1, <1>2, <1>3, FlushChunkIs
<1> QED BY <1>1, <1>3, <1>4, <1>5, <1>6, DecoderMoves

LEMMA DecoderTaskOK ==
  ASSUME IInv, DecoderTask PROVE IInv'
<1>1. /\ Types /\ NoChunkLost /\ decoder \in Decoders /\ dc \in Decoding /\ decoder.at = "task"
      /\ IsIdle /\ decoder.chunk = <<>> /\ UNCHANGED <<main, pc, out>>
  BY DEF IInv, Types, DecoderTask, DecoderAt, DecoderPlace
<1>2. PlayerAt(player.at)
  BY <1>1, PlayerMoves DEF DecoderTask, SignalPlayer
<1>3. CASE /\ decoder' = [decoder EXCEPT !.asleep = "signal"]
           /\ UNCHANGED <<dc, pipe, next_pipe, free>>
  <2>1. decoder' \in Decoders /\ decoder'.at = decoder.at /\ decoder'.chunk = decoder.chunk
    BY <1>1, <1>3 DEF Decoders
  <2> QED BY <1>1, <1>2, <1>3, <2>1, DecoderStays
<1>4. CASE dc.command = "STOP" /\ dc' = DecoderFinished(dc) /\ UNCHANGED <<decoder, pipe, next_pipe, free>>
  <2>1. dc' \in Decoding /\ dc'.pipe = dc.pipe /\ dc'.command = "NONE" /\ dc'.state = dc.state
    BY <1>1, <1>4 DEF DecoderFinished, Decoding
  <2>2. IsIdle' BY <1>1, <2>1 DEF IsIdle
  <2>3. DecoderPlace' BY <1>1, <1>4, <2>2 DEF DecoderPlace
  <2> QED BY <1>1, <1>2, <1>4, <2>1, <2>2, <2>3, DecoderGoes
<1>5. CASE /\ dc.command \in {"START", "SEEK"}
           /\ IF dc.command = "SEEK" THEN ClearDecoderPipe ELSE UNCHANGED <<pipe, next_pipe, free>>
           /\ \/ /\ dc' = [DecoderFinished(dc) EXCEPT !.state = "START"]
                 /\ DecoderGoto("init")
              \/ /\ dc' = [DecoderFinished(dc) EXCEPT !.state = "ERROR"]
                 /\ UNCHANGED decoder
  <2>1. /\ dc' \in Decoding /\ dc'.pipe = dc.pipe /\ dc'.command = "NONE"
        /\ decoder' \in Decoders /\ decoder'.chunk = <<>>
        /\ \/ dc'.state = "START" /\ decoder'.at = "init"
           \/ dc'.state = "ERROR" /\ decoder'.at = "task"
    <3>1. CASE dc' = [DecoderFinished(dc) EXCEPT !.state = "START"] /\ DecoderGoto("init")
      <4>1. dc' \in Decoding /\ dc'.pipe = dc.pipe /\ dc'.command = "NONE" /\ dc'.state = "START"
        BY <1>1, <3>1 DEF DecoderFinished, Decoding
      <4>2. decoder' \in Decoders /\ decoder'.chunk = <<>> /\ decoder'.at = "init"
        BY <1>1, <3>1 DEF DecoderGoto, Decoders
      <4> QED BY <4>1, <4>2
    <3>2. CASE dc' = [DecoderFinished(dc) EXCEPT !.state = "ERROR"] /\ UNCHANGED decoder
      <4>1. dc' \in Decoding /\ dc'.pipe = dc.pipe /\ dc'.command = "NONE" /\ dc'.state = "ERROR"
        BY <1>1, <3>2 DEF DecoderFinished, Decoding
      <4> QED BY <1>1, <3>2, <4>1
    <3> QED BY <1>5, <3>1, <3>2
  <2>2. DecoderPlace' BY <2>1 DEF DecoderPlace, IsIdle
  <2>3. /\ pipe' \in Seq(Piece) /\ next_pipe' \in Seq(Piece) /\ free' \in Nat /\ NoChunkLost'
        /\ IF IsDecoderAtNextSong THEN pipe' = pipe \/ dc.command = "SEEK" ELSE next_pipe' = next_pipe
    <3>1. CASE dc.command = "SEEK"
      BY <1>1, <1>5, <2>1, <3>1, ClearDecoderPipeIs
    <3>2. CASE dc.command # "SEEK"
      <4>1. UNCHANGED <<pipe, next_pipe, free>> BY <1>5, <3>2
      <4>2. Len(decoder'.chunk) = Len(decoder.chunk) BY <1>1, <2>1
      <4>3. NoChunkLost' BY <1>1, <4>1, <4>2 DEF NoChunkLost, InOutputs
      <4> QED BY <1>1, <4>1, <4>3 DEF Types
    <3> QED BY <3>1, <3>2
  <2> QED BY <1>1, <1>2, <1>5, <2>1, <2>2, <2>3, DecoderMoves
<1> QED BY <1>3, <1>4, <1>5 DEF DecoderTask

LEMMA OutputsOK ==
  ASSUME IInv, OutputsPlay \/ OutputsBreak PROVE IInv'
<1>1. /\ Types /\ out \in Outs /\ out.left \in Nat /\ out.done \in Nat
      /\ UNCHANGED <<main, pc, dc, decoder, pipe, next_pipe, free>>
  BY DEF IInv, Types, OutputsPlay, OutputsBreak, Outs
<1>2. PlayerAt(player.at)
  BY <1>1, PlayerMoves DEF OutputsPlay, OutputsBreak, SignalPlayer
<1>3. Goes BY <1>2, Staying
<1>4. Keeps(out')
  <2>1. CASE OutputsPlay
    <3> DEFINE l == out.left d == out.done l2 == out'.left d2 == out'.done
    <3>1. out' \in Outs /\ l2 = l - 1 /\ d2 = d + 1 /\ l \in Nat /\ d \in Nat
      <4>1. out' = [out EXCEPT !.left = @ - 1, !.done = @ + 1] /\ out.left > 0
        BY <2>1 DEF OutputsPlay
      <4>2. out.left - 1 \in Nat /\ out.done + 1 \in Nat
        BY <1>1, <4>1
      <4> QED BY <1>1, <4>1, <4>2 DEF Outs
    <3>2. l2 + d2 = l + d
      <4> HIDE DEF l, d, l2, d2
      <4> QED BY <3>1
    <3> QED BY <3>1, <3>2 DEF Keeps
  <2>2. CASE OutputsBreak
    BY <1>1, <2>2, Outputs DEF OutputsBreak
  <2> QED BY <2>1, <2>2
<1>5. Controlled /\ Still /\ Paid
  BY <1>1, <1>4, Same, Payments
<1> QED BY <1>3, <1>5, Moves

LEMMA StutterOK ==
  ASSUME IInv, UNCHANGED vars PROVE IInv'
<1>1. Types /\ UNCHANGED <<main, pc, player, dc, decoder, pipe, next_pipe, out, free>>
  BY DEF IInv, vars
<1>2. Goes BY <1>1, PlayerMoves, Staying
<1> QED BY <1>1, <1>2, Same, Payments, Moves

-----------------------------------------------------------------------------
(* The invariant.                                                          *)

LEMMA IndInit == Init => IInv
<1> SUFFICES ASSUME Init PROVE IInv
  OBVIOUS
<1>1. Types
  <2>1. <<>> \in Seq(Piece) OBVIOUS
  <2>2. free \in Nat BY PlayerAssumption DEF Init
  <2>3. main \in Songs \cup {None} /\ pc \in Controls BY DEF Init, Controls, Names
  <2>4. player \in Players BY DEF Init, NewPlayer, Players, Places
  <2>5. dc \in Decoding /\ out \in Outs BY DEF Init, Decoding, Outs
  <2>6. decoder \in Decoders BY <2>1 DEF Init, Decoders
  <2>7. pipe \in Seq(Piece) /\ next_pipe \in Seq(Piece) BY <2>1 DEF Init
  <2> QED BY <2>2, <2>3, <2>4, <2>5, <2>6, <2>7 DEF Types
<1>2. DecoderPlace BY DEF Init, DecoderPlace, IsIdle
<1>3. Handshake BY DEF Init, Handshake, NewPlayer
<1>4. Quiet BY DEF Init, Quiet, IsIdle, IsDecoderAtNextSong, NewPlayer
<1>5. NoChunkLost
  <2>1. free = BufferSize /\ out.left = 0 /\ out.done = 0 BY DEF Init
  <2>2. Len(pipe) = 0 /\ Len(next_pipe) = 0 /\ Len(decoder.chunk) = 0 BY DEF Init
  <2> QED BY <2>1, <2>2, PlayerAssumption DEF NoChunkLost, InOutputs
<1> QED BY <1>1, <1>2, <1>3, <1>4, <1>5 DEF IInv

LEMMA IndNext == IInv /\ [Next]_vars => IInv'
<1> SUFFICES ASSUME IInv, [Next]_vars PROVE IInv'
  OBVIOUS
<1>1. CASE Main
  BY <1>1, MainOK
<1>2. CASE PlayerSteps
  <2>1. CASE Task \/ Run \/ Await \/ RunStarted
    BY <2>1, TaskOK, RunOK, AwaitOK, RunStartedOK
  <2>2. CASE ProcessCommand \/ CommandStop \/ CommandCancel \/ Cancelled
    BY <2>2, ProcessCommandOK, CommandStopOK, StopsOK, CancelledOK
  <2>3. CASE SeekSong \/ SeekRestarts \/ SeekStarted \/ SeekDecoder \/ SeekDone
    BY <2>3, SeekSongOK, SeekRestartsOK, SeekStartedOK, SeekDecoderOK, SeekDoneOK
  <2>4. CASE CheckDecoderStartup \/ StartupCheck \/ StartupWoken \/ StartupReady
    BY <2>4, StartupOK, StartupReadyOK
  <2>5. CASE Buffering \/ BufferWaits \/ Buffered \/ DecodeNext \/ Paused \/ Playing
    BY <2>5, BufferingOK, LoopOK, DecodeNextOK, PlayOK
  <2>6. CASE PlayCheck \/ PlayWoken \/ PlayNextChunk \/ NoData \/ DataWaits
    BY <2>6, PlayOK, PlayNextChunkOK, NoDataOK, LoopOK
  <2>7. CASE RunStops \/ RunStopped
    BY <2>7, StopsOK, RunStoppedOK
  <2> QED BY <1>2, <2>1, <2>2, <2>3, <2>4, <2>5, <2>6, <2>7 DEF PlayerSteps
<1>3. CASE DecoderSteps
  BY <1>3, DecoderTaskOK, DecoderInitializedOK, DecoderCommandOK, DecoderDataOK,
     DecoderWaitsOK, DecoderFlushesLastOK, DecoderEndedOK DEF DecoderSteps
<1>4. CASE OutputsPlay \/ OutputsBreak
  BY <1>4, OutputsOK
<1>5. CASE UNCHANGED vars
  BY <1>5, StutterOK
<1> QED BY <1>1, <1>2, <1>3, <1>4, <1>5 DEF Next

\* Whatever the size of the buffer, the limits of the outputs and the commands
\* of the main thread: no stop, seek, cancel, pause or failure of an output or of a
\* decoder (MusicPipe::Clear(), decoder_flush_chunk(), audio_output_all_check(),
\* audio_output_all_cancel()) loses a chunk of the music buffer or returns it twice.
THEOREM NoChunkIsLost == Spec => []NoChunkLost
<1>1. IInv => NoChunkLost
  BY DEF IInv
<1> QED
  BY <1>1, IndInit, IndNext, PTL DEF Spec

\* A thread that waits for a command to be executed is the only one that may have
\* sent one: the decoder's command is pending only while the player sleeps in
\* DecoderControl::WaitCommandLocked(), and the idle decoder holds no chunk.
THEOREM OneCommandAtATime ==
  Spec => [](/\ dc.command # "NONE" => player.at = "await"
             /\ decoder.at = "task" => decoder.chunk = <<>>)
<1>1. IInv => /\ dc.command # "NONE" => player.at = "await"
              /\ decoder.at = "task" => decoder.chunk = <<>>
  BY DEF IInv, Handshake, DecoderPlace
<1> QED
  BY <1>1, IndInit, IndNext, PTL DEF Spec

-----------------------------------------------------------------------------
(* What is played, and that it is what Player promises.                    *)

\* Where the player is, or goes on when its command is finished.
Place == IF player.at = "await" THEN player.then ELSE player.at

Before == Place \in {"task", "run"}

\* A decoder has been started, and its song is not yet the player's.
Fresh == Place \in {"run", "seek_started"}

SeekPlaces == {"seek", "seek_stopped", "seek_started", "seek_done"}
StartupPlaces == {"startup", "startup_check", "startup_woken", "startup_ready"}
PlayPlaces == {"no_data", "play_check", "play_woken", "play_chunk"}

\* The seek has taken its song out of next_song.
SeekTaken == player.seeking /\ Place \in StartupPlaces \cup {"seek_done"}

\* The song of the chunks in pipe
SongOfPipe == IF Fresh THEN pc.next ELSE player.song

\* The fields of the player and of its control structure
States ==
  /\ pc.state = "STOP" <=> Before
  /\ pc.state = "PAUSE" <=> player.paused
  /\ Before => player.queued /\ ~player.seeking /\ ~player.decoder_starting
  /\ player.song = None <=> Before
  /\ Place \in SeekPlaces => player.seeking
  /\ player.seeking => pc.command = "SEEK" /\ Place \in SeekPlaces \cup StartupPlaces
  /\ Place = "next" => ~player.decoder_starting
  /\ Place \in PlayPlaces => ~player.paused
  /\ Place = "cancel" => pc.command = "CANCEL" /\ pc.next # None
  /\ main # None => pc.command = "STOP" \/ (pc.command = "NONE" /\ Place = "task")

\* queued, next_song and the command
NextSong ==
  /\ Place = "task" => (pc.next # None <=> pc.command \in {"QUEUE", "SEEK"})
  /\ Place = "run" => pc.command \in {"QUEUE", "SEEK"} /\ pc.next # None
  /\ ~Before /\ pc.command \notin {"QUEUE", "SEEK"} => (player.queued <=> pc.next # None)
  /\ ~Before /\ pc.command = "QUEUE" => ~player.queued /\ pc.next # None
  /\ ~Before /\ pc.command = "SEEK" => ~player.queued /\ (pc.next = None <=> SeekTaken)

\* The song and the pipe of the decoder
DecoderSong ==
  /\ dc.pipe = "null" => IsIdle /\ dc.command = "NONE"
  /\ Place = "task" => dc.pipe = "null"
  /\ Fresh => dc.pipe = "pipe" /\ dc.song = pc.next
  /\ SeekTaken => dc.pipe = "pipe" /\ dc.song = player.song
  /\ player.decoder_starting => dc.pipe = "pipe"
  /\ IsDecoderAtNextSong => player.queued /\ ~Before /\ dc.song = pc.next
  /\ IsDecoderAtCurrentSong /\ ~IsIdle => dc.song = SongOfPipe
  /\ dc.command = "SEEK" => Place = "seek_done"
  /\ dc.command = "START" => IsIdle /\ (Fresh \/ (Place = "play" /\ IsDecoderAtNextSong))

\* The songs of the chunks
ChunkSongs ==
  /\ \A i \in 1 .. Len(pipe) : pipe[i].song = SongOfPipe
  /\ \A i \in 1 .. Len(next_pipe) : next_pipe[i].song = dc.song
  /\ \A i \in 1 .. Len(decoder.chunk) : decoder.chunk[i].song = dc.song

\* The decoder has failed to open its song
Wrong ==
  \/ decoder.at = "end" /\ ~decoder.ok
  \/ dc.state = "ERROR" /\ dc.pipe # "null" /\ dc.command # "START"

\* The decoder has not written anything yet.
Nothing == decoder.at = "init" \/ dc.command = "START" \/ Wrong

Unwritten ==
  /\ Nothing => DecoderPipe = <<>> /\ decoder.chunk = <<>>
  /\ Wrong => dc.song \in Bad

AllNew(chunks) == \A i \in 1 .. Len(chunks) : ~chunks[i].old

\* There are old chunks only while the decoder has not obeyed a seek.
NoneOld ==
  /\ AllNew(next_pipe)
  /\ \/ Place = "seek_done" /\ (dc.command = "SEEK" \/ dc.seek_error)
     \/ AllNew(pipe) /\ AllNew(decoder.chunk)

SafetyInv == States /\ NextSong /\ DecoderSong /\ ChunkSongs /\ Unwritten /\ NoneOld

Safe == IInv /\ SafetyInv /\ AssertionsHold

-----------------------------------------------------------------------------
(* The general cases.                                                      *)

\* Nothing happens to the chunks and to the decoder's song; it may be told to stop.
Calm ==
  /\ UNCHANGED <<pipe, next_pipe>> /\ decoder'.chunk = decoder.chunk
  /\ dc'.state = dc.state /\ dc'.song = dc.song /\ dc'.pipe = dc.pipe
  /\ dc'.seek_error = dc.seek_error
  /\ \/ dc'.command = dc.command
     \/ dc.command = "NONE" /\ dc'.command = "STOP" /\ ~IsIdle
  /\ (Nothing' => Nothing) /\ (Wrong' => Wrong)

\* The fields of the player that States and NextSong are about.
SamePlayer ==
  /\ player'.seeking = player.seeking /\ player'.queued = player.queued
  /\ player'.song = player.song /\ player'.paused = player.paused
  /\ player'.decoder_starting = player.decoder_starting

\* What a step of the player may not change without the decoder's knowing.
KeepsSong ==
  /\ Place' = "task" => Place = "task"
  /\ Fresh' => Fresh /\ pc'.next = pc.next
  /\ SongOfPipe' = SongOfPipe \/ (pipe = <<>> /\ IsIdle)
  /\ SeekTaken' => dc.pipe = "pipe" /\ dc.song = player'.song
  /\ player'.decoder_starting => dc.pipe = "pipe"
  /\ IsDecoderAtNextSong => player'.queued /\ ~Before' /\ pc'.next = pc.next
  /\ dc.command # "NONE" => Place' = Place
  /\ Place = "seek_done" /\ dc.seek_error => Place' = Place

\* A step that leaves the chunks where they are.
LEMMA ControlStep ==
  ASSUME SafetyInv, Calm, KeepsSong, States', NextSong'
  PROVE  SafetyInv'
<1>1. DecoderSong'
  <2>1. IsIdle' = IsIdle /\ IsDecoderAtNextSong' = IsDecoderAtNextSong
          /\ IsDecoderAtCurrentSong' = IsDecoderAtCurrentSong
    BY DEF Calm, IsIdle, IsDecoderAtNextSong, IsDecoderAtCurrentSong
  <2>2. dc'.command \in {"START", "SEEK"} => dc'.command = dc.command /\ Place' = Place
    BY DEF Calm, KeepsSong
  <2>3. Place' = Place => Fresh' = Fresh BY DEF Fresh
  <2> QED BY <2>1, <2>2, <2>3 DEF SafetyInv, DecoderSong, Calm, KeepsSong
<1>2. ChunkSongs'
  <2>1. /\ pipe' = pipe /\ next_pipe' = next_pipe /\ decoder'.chunk = decoder.chunk
        /\ dc'.song = dc.song /\ (SongOfPipe' = SongOfPipe \/ pipe = <<>>)
    BY DEF Calm, KeepsSong
  <2>2. pipe = <<>> => 1 .. Len(pipe) = {} OBVIOUS
  <2> QED BY <2>1, <2>2 DEF SafetyInv, ChunkSongs
<1>3. Unwritten'
  <2>1. DecoderPipe' = DecoderPipe
    BY DEF Calm, DecoderPipe
  <2> QED BY <2>1 DEF SafetyInv, Unwritten, Calm
<1>4. NoneOld'
  <2>1. /\ AllNew(pipe') <=> AllNew(pipe)
        /\ AllNew(next_pipe') <=> AllNew(next_pipe)
        /\ AllNew(decoder'.chunk) <=> AllNew(decoder.chunk)
    BY DEF Calm
  <2>2. dc'.command = dc.command \/ dc.command = "NONE" BY DEF Calm
  <2> HIDE DEF AllNew
  <2> QED BY <2>1, <2>2 DEF SafetyInv, NoneOld, KeepsSong, Calm
<1> QED BY <1>1, <1>2, <1>3, <1>4 DEF SafetyInv

\* The places that say what the player is doing.
Special == {"task", "run"} \cup SeekPlaces

\* The player goes to a place that is much like the one it is at.
Wanders ==
  /\ pc'.next = pc.next /\ pc'.command = pc.command /\ main' = main
  /\ pc'.state = "STOP" <=> pc.state = "STOP"
  /\ pc'.state = "PAUSE" <=> player'.paused
  /\ player'.seeking = player.seeking /\ player'.queued = player.queued
  /\ player'.song = player.song
  /\ player'.decoder_starting \in BOOLEAN
  /\ player'.decoder_starting => player.decoder_starting
  /\ dc.command # "NONE" => Place' = Place
  /\ \/ Place' = Place
     \/ /\ Place \notin Special /\ Place' \notin Special
        /\ player.seeking => Place' \in StartupPlaces
  /\ Place' = "next" => Place = "next" \/ ~player'.decoder_starting
  /\ Place' \in PlayPlaces => ~player'.paused
  /\ Place' = "cancel" => pc.command = "CANCEL" /\ pc.next # None

LEMMA WanderStep ==
  ASSUME Safe, Calm, Wanders, asserts' = asserts
  PROVE  SafetyInv' /\ AssertionsHold'
<1>1. /\ Before' = Before /\ Fresh' = Fresh
      /\ Place \in SeekPlaces \/ Place' \in SeekPlaces => Place' = Place
      /\ SongOfPipe' = SongOfPipe
  BY DEF Wanders, Special, Before, Fresh, SongOfPipe, SeekPlaces
<1>2. SeekTaken' = SeekTaken
  <2>1. CASE Place' = Place
    BY <2>1 DEF Wanders, SeekTaken
  <2>2. CASE Place \notin Special /\ Place' \notin Special
               /\ (player.seeking => Place' \in StartupPlaces)
    <3>1. player.seeking => Place \in StartupPlaces
      BY <2>2 DEF Safe, SafetyInv, States, Special
    <3> QED BY <2>2, <3>1 DEF Wanders, SeekTaken
  <2> QED BY <2>1, <2>2 DEF Wanders
<1>3. States'
  <2>1. player'.seeking => pc.command = "SEEK" /\ Place' \in SeekPlaces \cup StartupPlaces
    BY DEF Wanders, Safe, SafetyInv, States
  <2>2. Place' = "next" => ~player'.decoder_starting
    BY DEF Wanders, Safe, SafetyInv, States
  <2>3. Before => Place' = Place
    BY DEF Wanders, Before, Special
  <2>4. Before' => player'.queued /\ ~player'.seeking /\ ~player'.decoder_starting
    BY <1>1, <2>3 DEF Wanders, Safe, SafetyInv, States
  <2>5. main' # None => pc'.command = "STOP" \/ (pc'.command = "NONE" /\ Place' = "task")
    <3>1. Place = "task" => Place' = "task" BY <2>3 DEF Before
    <3> QED BY <3>1 DEF Wanders, Safe, SafetyInv, States
  <2>6. Place' \in SeekPlaces => player'.seeking
    BY <1>1 DEF Wanders, Safe, SafetyInv, States
  <2> QED BY <1>1, <2>1, <2>2, <2>4, <2>5, <2>6 DEF Wanders, Safe, SafetyInv, States
<1>4. NextSong'
  <2>1. /\ Place' = "task" <=> Place = "task"
        /\ Place' = "run" <=> Place = "run"
    BY DEF Wanders, Special
  <2> QED BY <1>1, <1>2, <2>1 DEF Wanders, Safe, SafetyInv, NextSong
<1>5. KeepsSong
  <2>1. Place' = "task" => Place = "task"
    BY DEF Wanders, Special
  <2> QED BY <1>1, <1>2, <2>1
       DEF KeepsSong, Wanders, Safe, SafetyInv, DecoderSong, Special, SeekPlaces
<1> QED BY <1>3, <1>4, <1>5, ControlStep DEF Safe, AssertionsHold

-----------------------------------------------------------------------------
(* Steps of the player that only go on.                                    *)

\* Where the player goes, and that its fields stay the same.
LEMMA PlaceStep ==
  ASSUME Types
  PROVE  /\ player' = player \/ player' = Woken(player) => SamePlayer /\ Place' = Place
         /\ \A place \in Places \ {"await"} :
              Goto(place) \/ WaitForDecoder(place) \/ Wait(place) =>
                SamePlayer /\ Place' = place
<1>1. player \in Players BY DEF Types
<1>2. ASSUME player' = player PROVE SamePlayer /\ Place' = Place
  BY <1>2 DEF SamePlayer, Place
<1>3. ASSUME player' = Woken(player) PROVE SamePlayer /\ Place' = Place
  BY <1>1, <1>3 DEF SamePlayer, Place, Woken, Players
<1>4. ASSUME NEW place \in Places \ {"await"}, Goto(place) PROVE SamePlayer /\ Place' = place
  BY <1>1, <1>4 DEF SamePlayer, Place, Goto, Players
<1>5. ASSUME NEW place \in Places \ {"await"}, WaitForDecoder(place)
      PROVE  SamePlayer /\ Place' = place
  BY <1>1, <1>5 DEF SamePlayer, Place, WaitForDecoder, Players
<1>6. ASSUME NEW place \in Places \ {"await"}, Wait(place) PROVE SamePlayer /\ Place' = place
  BY <1>1, <1>6 DEF SamePlayer, Place, Wait, Players
<1> QED BY <1>2, <1>3, <1>4, <1>5, <1>6

\* The decoder is at most woken.
LEMMA CalmStep ==
  ASSUME Types, UNCHANGED <<dc, pipe, next_pipe>>,
         decoder' = decoder \/ decoder' = Woken(decoder)
  PROVE  Calm
<1>1. decoder \in Decoders BY DEF Types
<1> QED BY <1>1 DEF Calm, Woken, Decoders, Nothing, Wrong

\* Where nothing special has to hold.
Plain == Places \ (Special \cup {"await", "cancel", "next"} \cup PlayPlaces)

LEMMA WanderTo ==
  ASSUME Safe, player.at \notin Special \cup {"await"},
         NEW place \in Places \ (Special \cup {"await"}),
         Goto(place) \/ WaitForDecoder(place) \/ Wait(place),
         UNCHANGED <<main, pc, dc, pipe, next_pipe, asserts>>,
         decoder' = decoder \/ decoder' = Woken(decoder),
         player.seeking => place \in StartupPlaces,
         place = "next" => ~player.decoder_starting,
         place \in PlayPlaces => ~player.paused,
         place = "cancel" => pc.command = "CANCEL" /\ pc.next # None
  PROVE  SafetyInv' /\ AssertionsHold'
<1>1. Types /\ States /\ dc.command = "NONE"
  BY DEF Safe, IInv, SafetyInv, Handshake
<1>2. Place = player.at BY DEF Place
<1>3. SamePlayer /\ Place' = place BY <1>1, PlaceStep
<1>4. player.decoder_starting \in BOOLEAN BY <1>1 DEF Types, Players
<1>5. Calm BY <1>1, CalmStep
<1>6. Wanders
  BY <1>1, <1>2, <1>3, <1>4 DEF Wanders, SamePlayer, States
<1> QED BY <1>5, <1>6, WanderStep

\* Out of the loop, only a seek takes the player elsewhere.
LEMMA NotSeeking ==
  ASSUME Safe, player.at \notin SeekPlaces \cup StartupPlaces \cup {"await"}
  PROVE  ~player.seeking
BY DEF Safe, SafetyInv, States, Place

LEMMA WanderStartup ==
  ASSUME Safe, CheckDecoderStartup \/ StartupCheck \/ StartupWoken, ~SeekFails
  PROVE  SafetyInv' /\ AssertionsHold'
<1>1. player.at \in StartupPlaces
  BY DEF CheckDecoderStartup, StartupCheck, StartupWoken, At, StartupPlaces
<1>2. player.at \notin Special \cup {"await"}
  BY <1>1 DEF StartupPlaces, Special, SeekPlaces
<1>3. /\ {"stop", "startup", "startup_check", "startup_woken", "startup_ready", "loop"}
           \subseteq Plain
      /\ {"startup", "startup_check", "startup_woken", "startup_ready"} \subseteq StartupPlaces
  BY DEF Plain, Places, Special, SeekPlaces, PlayPlaces, StartupPlaces
<1>4. Caller \in Plain /\ (player.seeking => Caller \in StartupPlaces)
  BY <1>3 DEF Caller
<1>5. ASSUME NEW place \in Plain, player.seeking => place \in StartupPlaces,
             Goto(place) \/ WaitForDecoder(place) \/ Wait(place),
             UNCHANGED <<main, pc, dc, decoder, pipe, next_pipe, asserts>>
      PROVE  SafetyInv' /\ AssertionsHold'
  BY <1>2, <1>5, WanderTo DEF Plain
<1>6. CASE CheckDecoderStartup
  BY <1>3, <1>4, <1>5, <1>6 DEF CheckDecoderStartup
<1>7. CASE StartupCheck
  BY <1>3, <1>5, <1>7 DEF StartupCheck
<1>8. CASE StartupWoken
  BY <1>3, <1>4, <1>5, <1>8 DEF StartupWoken
<1> QED BY <1>6, <1>7, <1>8

LEMMA WanderLoop ==
  ASSUME Safe, BufferWaits \/ Paused \/ Playing \/ PlayCheck \/ PlayWoken \/ DataWaits
  PROVE  SafetyInv' /\ AssertionsHold'
<1>1. player.at \in {"buffer_wait", "play", "play_check", "play_woken", "data_wait"}
  BY DEF BufferWaits, Paused, Playing, PlayCheck, PlayWoken, DataWaits, At
<1>2. player.at \notin Special \cup {"await"} /\ ~player.seeking
  BY <1>1, NotSeeking DEF Special, SeekPlaces, StartupPlaces
<1>3. ASSUME NEW place \in {"loop", "no_data", "play_check", "play_woken", "play_chunk"},
             place # "loop" => ~player.paused,
             Goto(place) \/ WaitForDecoder(place) \/ Wait(place),
             UNCHANGED <<main, pc, dc, pipe, next_pipe, asserts>>,
             decoder' = decoder \/ decoder' = Woken(decoder)
      PROVE  SafetyInv' /\ AssertionsHold'
  <2>1. place \in Places \ (Special \cup {"await"}) /\ place \notin {"next", "cancel"}
    BY DEF Places, Special, SeekPlaces
  <2>2. place \in PlayPlaces => ~player.paused
    BY <1>3 DEF PlayPlaces
  <2> QED BY <1>2, <1>3, <2>1, <2>2, WanderTo
<1>4. CASE BufferWaits \/ Paused
  BY <1>3, <1>4 DEF BufferWaits, Paused
<1>5. CASE DataWaits
  BY <1>3, <1>5 DEF DataWaits, DataWait
<1>6. CASE Playing
  BY <1>3, <1>6 DEF Playing
<1>7. CASE PlayCheck \/ PlayWoken
  <2>1. ~player.paused
    BY <1>7 DEF PlayCheck, PlayWoken, At, Safe, SafetyInv, States, Place, PlayPlaces
  <2> QED BY <1>3, <1>7, <2>1 DEF PlayCheck, PlayWoken
<1> QED BY <1>1, <1>4, <1>5, <1>6, <1>7

\* A step that stays, or goes on as a player of which only what follows matters.
LEMMA WanderAs ==
  ASSUME Safe, player.at \notin Special \cup {"await"}, ~player.seeking,
         NEW p \in Players, player' = p, p.at \in Plain \cup {"next"},
         p.seeking = player.seeking, p.queued = player.queued, p.song = player.song,
         p.paused = player.paused, p.decoder_starting = player.decoder_starting,
         p.at = "next" => ~player.decoder_starting,
         UNCHANGED <<main, pc, dc, decoder, pipe, next_pipe, asserts>>
  PROVE  SafetyInv' /\ AssertionsHold'
<1>1. Types /\ States /\ dc.command = "NONE"
  BY DEF Safe, IInv, SafetyInv, Handshake
<1>2. Place = player.at BY DEF Place
<1>3. Place' = p.at /\ Place' \notin Special \cup PlayPlaces \cup {"cancel"}
  BY DEF Place, Plain, Special, SeekPlaces, PlayPlaces
<1>4. player.decoder_starting \in BOOLEAN BY <1>1 DEF Types, Players
<1>5. Calm BY <1>1, CalmStep
<1>6. Wanders
  BY <1>1, <1>2, <1>3, <1>4 DEF Wanders, States
<1> QED BY <1>5, <1>6, WanderStep

LEMMA BufferWaitIs ==
  ASSUME Types
  PROVE  /\ BufferWait \in Players /\ BufferWait.at \in Plain
         /\ BufferWait.seeking = player.seeking /\ BufferWait.queued = player.queued
         /\ BufferWait.song = player.song /\ BufferWait.paused = player.paused
         /\ BufferWait.decoder_starting = player.decoder_starting
<1>1. player \in Players BY DEF Types
<1>2. {"buffer_wait", "loop"} \subseteq Plain /\ {"buffer_wait", "loop"} \subseteq Places
  BY DEF Plain, Places, Special, SeekPlaces, PlayPlaces
<1> QED BY <1>1, <1>2 DEF BufferWait, Players

\* SendSilence() fails, or the player goes on as p.
LEMMA WanderSilence ==
  ASSUME Safe, player.at \notin Special \cup {"await"}, ~player.seeking,
         NEW p \in Players, SendSilence(p), p.at \in Plain,
         p.seeking = player.seeking, p.queued = player.queued, p.song = player.song,
         p.paused = player.paused, p.decoder_starting = player.decoder_starting,
         UNCHANGED <<main, pc, dc, decoder, pipe, next_pipe, asserts>>
  PROVE  SafetyInv' /\ AssertionsHold'
<1>1. Goto("stop") \/ player' = p BY DEF SendSilence
<1>2. "stop" \in Plain /\ p.at # "next"
  BY DEF Plain, Places, Special, SeekPlaces, PlayPlaces
<1>3. CASE Goto("stop")
  BY <1>2, <1>3, WanderTo DEF Plain
<1>4. CASE player' = p
  BY <1>2, <1>4, WanderAs
<1> QED BY <1>1, <1>3, <1>4

LEMMA WanderBuffering ==
  ASSUME Safe, Buffering \/ Buffered PROVE SafetyInv' /\ AssertionsHold'
<1>1. Types /\ player \in Players BY DEF Safe, IInv, Types
<1>2. player.at = "body" BY DEF Buffering, Buffered, At
<1>3. player.at \notin Special \cup {"await"} /\ ~player.seeking
  BY <1>2, NotSeeking DEF Special, SeekPlaces, StartupPlaces
<1>4. CASE Buffering
  <2>1. player' = BufferWait \/ SendSilence(BufferWait) BY <1>4 DEF Buffering
  <2>2. UNCHANGED <<main, pc, dc, decoder, pipe, next_pipe, asserts>>
    BY <1>4 DEF Buffering
  <2>3. BufferWait.at # "next" BY <1>1, BufferWaitIs DEF Plain
  <2> QED BY <1>1, <1>3, <2>1, <2>2, <2>3, BufferWaitIs, WanderAs, WanderSilence
<1>5. CASE Buffered
  <2> DEFINE place == IF player.decoder_starting THEN "startup" ELSE "next"
             p == [player EXCEPT !.buffering = FALSE, !.at = place]
  <2>1. player' = p /\ UNCHANGED <<main, pc, dc, decoder, pipe, next_pipe, asserts>>
    BY <1>5 DEF Buffered
  <2>2. place \in Plain \cup {"next"} /\ place \in Places
          /\ (place = "next" => ~player.decoder_starting)
    BY DEF Plain, Places, Special, SeekPlaces, PlayPlaces
  <2>3. /\ p \in Players /\ p.at = place
        /\ p.seeking = player.seeking /\ p.queued = player.queued /\ p.song = player.song
        /\ p.paused = player.paused /\ p.decoder_starting = player.decoder_starting
    <3> HIDE DEF place
    <3> QED BY <1>1, <2>2 DEF Players
  <2> HIDE DEF p, place
  <2> QED BY <1>3, <2>1, <2>2, <2>3, WanderAs
<1> QED BY <1>4, <1>5

\* A step of another thread, or one that only looks at the command.
LEMMA WanderStay ==
  ASSUME Safe, SamePlayer, Place' = Place, Calm, main' = main, asserts' = asserts,
         pc'.next = pc.next, pc'.command = pc.command, pc'.state = pc.state
  PROVE  SafetyInv' /\ AssertionsHold'
<1>1. player.decoder_starting \in BOOLEAN /\ States
  BY DEF Safe, IInv, SafetyInv, Types, Players
<1>2. Wanders BY <1>1 DEF Wanders, SamePlayer, States
<1> QED BY <1>2, WanderStep

LEMMA WanderOthers ==
  ASSUME Safe, OutputsPlay \/ OutputsBreak \/ SetBorderPause \/ Await \/ UNCHANGED vars
  PROVE  SafetyInv' /\ AssertionsHold'
<1>1. Types /\ player \in Players /\ pc \in Controls BY DEF Safe, IInv, Types
<1>2. Calm /\ main' = main /\ asserts' = asserts
  BY <1>1, CalmStep DEF OutputsPlay, OutputsBreak, SetBorderPause, Await, vars
<1>3. pc'.next = pc.next /\ pc'.command = pc.command /\ pc'.state = pc.state
  BY <1>1 DEF OutputsPlay, OutputsBreak, SetBorderPause, Await, vars, Controls
<1>4. SamePlayer /\ Place' = Place
  <2>1. CASE ~Await
    BY <1>1, <2>1, PlaceStep DEF OutputsPlay, OutputsBreak, SetBorderPause, vars, SignalPlayer
  <2>2. CASE Await /\ dc.command = "NONE"
    <3>1. player.at = "await" /\ player.then # "await"
      BY <2>2 DEF Await, At, Safe, IInv, Handshake, Thens, StopPlaces
    <3>2. player' = [player EXCEPT !.at = player.then, !.then = "task"]
      BY <2>2 DEF Await
    <3> QED BY <1>1, <3>1, <3>2 DEF SamePlayer, Place, Players
  <2>3. CASE Await /\ dc.command # "NONE"
    BY <1>1, <2>3 DEF Await, WaitForDecoder, At, SamePlayer, Place, Players
  <2> QED BY <2>1, <2>2, <2>3
<1> QED BY <1>2, <1>3, <1>4, WanderStay

-----------------------------------------------------------------------------
(* Commands: sent, and executed without the decoder.                       *)

\* The type of the fields, and what goes without saying.
LEMMA SafeTypes ==
  ASSUME Safe
  PROVE  /\ IInv /\ Types /\ States /\ NextSong /\ DecoderSong
         /\ player \in Players /\ pc \in Controls /\ dc \in Decoding /\ decoder \in Decoders
         /\ main \in Songs \cup {None} /\ None \notin Songs
         /\ player.at # "await" => Place = player.at /\ dc.command = "NONE"
BY PlayerAssumption DEF Safe, SafetyInv, IInv, Types, Place, Handshake

\* The main thread sends a command.
LEMMA SendSafe ==
  ASSUME Safe, NEW c \in Names \ {"NONE"}, NEW n \in Songs \cup {None}, Send(c, n),
         pc.command = "NONE", main' # None => c = "STOP",
         c \in {"QUEUE", "SEEK"} => n # None,
         c \notin {"QUEUE", "SEEK"} => n = pc.next,
         c = "QUEUE" => pc.next = None,
         c = "SEEK" => Before \/ ~(player.queued \/ IsDecoderAtNextSong)
  PROVE  SafetyInv' /\ AssertionsHold'
<1>1. /\ Types /\ States /\ NextSong /\ DecoderSong /\ pc \in Controls
  BY SafeTypes
<1>2. pc'.command = c /\ pc'.next = n /\ pc'.state = pc.state
  BY <1>1 DEF Send, Controls
<1>3. SamePlayer /\ Place' = Place
  BY <1>1, PlaceStep DEF Send
<1>4. Calm
  BY <1>1, CalmStep DEF Send
<1>5. asserts' = asserts
  BY DEF Send, Failed
<1>6. Fresh' = Fresh /\ ~Fresh /\ Before' = Before /\ ~SeekTaken /\ ~SeekTaken' /\ ~player.seeking
  BY <1>1, <1>3 DEF Fresh, Before, SeekTaken, SamePlayer, States, NextSong, SeekPlaces
<1>7. SongOfPipe' = SongOfPipe
  BY <1>3, <1>6 DEF SongOfPipe, SamePlayer
<1>8. States'
  BY <1>1, <1>2, <1>3, <1>6 DEF States, SamePlayer
<1>9. NextSong'
  <2>1. Place # "run" BY <1>1, <1>2 DEF NextSong
  <2> QED BY <1>1, <1>2, <1>3, <1>6, <2>1 DEF NextSong, SamePlayer, States, Before
<1>10. KeepsSong
  BY <1>1, <1>2, <1>3, <1>6, <1>7
     DEF KeepsSong, DecoderSong, SamePlayer, NextSong, States
<1> QED BY <1>4, <1>5, <1>8, <1>9, <1>10, ControlStep DEF Safe, AssertionsHold

LEMMA MainSafe ==
  ASSUME Safe, Main, ~SeekQueued, ~SetBorderPause PROVE SafetyInv' /\ AssertionsHold'
<1>1. /\ Types /\ States /\ NextSong /\ DecoderSong /\ pc \in Controls
      /\ main \in Songs \cup {None} /\ None \notin Songs
  BY SafeTypes
<1>2. pc.next \in Songs \cup {None} BY <1>1 DEF Controls
<1>3. ASSUME NEW song \in Songs, Play(song) PROVE SafetyInv' /\ AssertionsHold'
  <2>1. CASE pc.state = "STOP"
    <3>1. Send("QUEUE", song) /\ main' = None /\ pc.command = "NONE"
      BY <1>3, <2>1 DEF Play, MainIdle
    <3>2. pc.next = None
      BY <1>1, <2>1, <3>1 DEF States, NextSong, Before
    <3> QED BY <1>1, <3>1, <3>2, SendSafe DEF Names
  <2>2. CASE pc.state # "STOP"
    <3>1. Send("STOP", pc.next) /\ pc.command = "NONE"
      BY <1>3, <2>2 DEF Play, MainIdle
    <3> QED BY <1>1, <1>2, <3>1, SendSafe DEF Names
  <2> QED BY <2>1, <2>2
<1>4. ASSUME NEW song \in Songs, EnqueueSong(song) PROVE SafetyInv' /\ AssertionsHold'
  BY <1>1, <1>4, SendSafe DEF EnqueueSong, MainIdle, Names
<1>5. ASSUME NEW song \in Songs, Seek(song) PROVE SafetyInv' /\ AssertionsHold'
  <2>1. Before \/ ~(player.queued \/ IsDecoderAtNextSong)
    BY <1>1, <1>5 DEF Seek, States
  <2> QED BY <1>1, <1>5, <2>1, SendSafe DEF Seek, MainIdle, Names
<1>6. ASSUME PlayEnqueues PROVE SafetyInv' /\ AssertionsHold'
  <2>1. pc.next = None
    BY <1>1, <1>6 DEF PlayEnqueues, States, NextSong
  <2> QED BY <1>1, <1>6, <2>1, SendSafe DEF PlayEnqueues, Names
<1>7. ASSUME Cancel \/ Stop \/ Pause \/ GetStatus PROVE SafetyInv' /\ AssertionsHold'
  BY <1>1, <1>2, <1>7, SendSafe DEF Cancel, Stop, Pause, GetStatus, MainIdle, Names
<1> QED BY <1>3, <1>4, <1>5, <1>6, <1>7 DEF Main

\* The player is in its task, where it has nothing.
LEMMA TaskSafe ==
  ASSUME Safe, Task PROVE SafetyInv' /\ AssertionsHold'
<1>1. /\ IInv /\ Types /\ States /\ NextSong /\ DecoderSong /\ pc \in Controls
      /\ player.at = "task" /\ Place = "task" /\ main' = main
  BY SafeTypes DEF Task, TaskFinishes, At
<1>2. SamePlayer /\ Place' = Place
  BY <1>1, PlaceStep DEF Task, TaskFinishes, Places
<1>3. Calm
  BY <1>1, CalmStep DEF Task, TaskFinishes
<1>4. asserts' = asserts
  <2>1. ASSUME TaskFinishes(pc.next, NoOutput) PROVE free' = BufferSize
    <3> DEFINE f == free l == out.left d == out.done b == BufferSize
    <3>1. pipe = <<>> /\ next_pipe = <<>> /\ decoder.chunk = <<>>
      BY <1>1 DEF IInv, Quiet, DecoderPlace
    <3>2. Len(pipe) = 0 /\ Len(next_pipe) = 0 /\ Len(decoder.chunk) = 0
      BY <3>1
    <3>3. f + 0 + 0 + 0 + (l + d) = b
      BY <1>1, <3>2 DEF IInv, NoChunkLost, InOutputs
    <3>4. free' = f + (l + d) - 0 - 0
      BY <2>1 DEF TaskFinishes, NoOutput, InOutputs
    <3>5. f \in Nat /\ l \in Nat /\ d \in Nat
      BY <1>1, Numbers
    <3>6. f + (l + d) - 0 - 0 = b
      <4> HIDE DEF f, l, d, b
      <4> QED BY <3>3, <3>5
    <3> QED BY <3>4, <3>6
  <2> QED BY <2>1 DEF Task, Failed
<1>5. CASE pc.command = "NONE"
  BY <1>1, <1>2, <1>3, <1>4, <1>5, WanderStay DEF Task
<1>6. CASE pc.command \in {"STOP", "PAUSE", "CANCEL", "CLOSE_AUDIO", "REFRESH"}
  <2>1. pc.next = None BY <1>1, <1>6 DEF NextSong
  <2>2. pc'.command = "NONE" /\ pc'.next = None /\ pc'.state = pc.state
    <3>1. pc' = [CommandFinished(pc) EXCEPT !.next = None]
      BY <1>6, <2>1 DEF Task, TaskFinishes
    <3> QED BY <1>1, <3>1 DEF CommandFinished, Controls
  <2>3. Before' /\ Before /\ ~Fresh' /\ ~Fresh /\ ~SeekTaken'
    BY <1>1, <1>2 DEF Before, Fresh, SeekTaken, SeekPlaces, StartupPlaces
  <2>4. States'
    BY <1>1, <1>2, <2>2, <2>3 DEF States, SamePlayer, StartupPlaces, SeekPlaces
  <2>5. NextSong'
    BY <1>1, <1>2, <2>2, <2>3 DEF NextSong
  <2>6. KeepsSong
    BY <1>1, <1>2, <2>1, <2>2, <2>3
       DEF KeepsSong, SongOfPipe, SamePlayer, DecoderSong, States
  <2> QED BY <1>3, <1>4, <2>4, <2>5, <2>6, ControlStep DEF Safe, AssertionsHold
<1> QED BY <1>5, <1>6 DEF Task

\* A step from the loop to its body, where only the fields given here change.
LEMMA BodyStep ==
  ASSUME Safe, Calm, asserts' = asserts, main' = main,
         player.at = "loop", player'.at \in {"body", "seek", "stop"},
         player'.song = player.song, player'.decoder_starting = player.decoder_starting,
         pc'.next = pc.next, pc'.state = "STOP" <=> pc.state = "STOP",
         pc'.state = "PAUSE" <=> player'.paused,
         \/ /\ player'.at # "seek" /\ pc.command \notin {"SEEK", "STOP"}
            /\ pc'.command \in {"NONE", "STOP"} /\ player'.seeking = player.seeking
            /\ player'.queued = (player.queued \/ pc.command = "QUEUE")
         \/ /\ player'.at = "seek" /\ pc.command = "SEEK" /\ pc'.command = "SEEK"
            /\ player'.seeking = TRUE /\ player'.queued = player.queued
  PROVE  SafetyInv' /\ AssertionsHold'
<1>1. /\ IInv /\ Types /\ States /\ NextSong /\ DecoderSong /\ pc \in Controls
      /\ Place = "loop" /\ dc.command = "NONE" /\ player \in Players
  BY SafeTypes
<1>2. Place' = player'.at BY DEF Place
<1>3. ~Before /\ ~Before' /\ ~Fresh /\ ~Fresh' /\ ~SeekTaken /\ ~SeekTaken' /\ ~player.seeking
  BY <1>1, <1>2 DEF Before, Fresh, SeekTaken, SeekPlaces, StartupPlaces, States
<1>4. States'
  BY <1>1, <1>2, <1>3 DEF States, SeekPlaces, StartupPlaces, PlayPlaces
<1>5. NextSong'
  BY <1>1, <1>2, <1>3 DEF NextSong, Players
<1>6. KeepsSong
  BY <1>1, <1>2, <1>3 DEF KeepsSong, SongOfPipe, DecoderSong
<1> QED BY <1>4, <1>5, <1>6, ControlStep DEF Safe, AssertionsHold

LEMMA CommandPauseIs ==
  ASSUME player \in Players, pc \in Controls, CommandPause
  PROVE  /\ player'.at = "body" /\ player'.song = player.song
         /\ player'.decoder_starting = player.decoder_starting
         /\ player'.queued = player.queued /\ player'.seeking = player.seeking
         /\ pc'.next = pc.next /\ pc'.command = "NONE"
         /\ pc'.state # "STOP" /\ (pc'.state = "PAUSE" <=> player'.paused)
<1> DEFINE p == [player EXCEPT !.at = "body", !.paused = ~@]
           q == CommandFinished(pc)
<1>1. /\ p.at = "body" /\ p.song = player.song /\ p.decoder_starting = player.decoder_starting
      /\ p.queued = player.queued /\ p.seeking = player.seeking /\ p.paused \in BOOLEAN
      /\ p \in Players
  <2>1. "body" \in Places BY DEF Places
  <2> QED BY <2>1 DEF Players
<1>2. q.next = pc.next /\ q.command = "NONE" /\ q \in Controls
  BY DEF CommandFinished, Controls, Names
<1>3. \/ p.paused /\ player' = p /\ pc' = [q EXCEPT !.state = "PAUSE"]
      \/ ~p.paused /\ player' = p /\ pc' = [q EXCEPT !.state = "PLAY"]
      \/ player' = [p EXCEPT !.output_open = TRUE, !.paused = FALSE]
           /\ pc' = [q EXCEPT !.state = "PLAY"]
      \/ player' = [p EXCEPT !.output_open = FALSE, !.paused = TRUE]
           /\ pc' = [q EXCEPT !.state = "PAUSE"]
  BY DEF CommandPause, OpenOutput
<1>4. \A b \in BOOLEAN, c \in BOOLEAN :
        LET r == [p EXCEPT !.output_open = b, !.paused = c]
        IN  /\ r.at = p.at /\ r.song = p.song /\ r.decoder_starting = p.decoder_starting
            /\ r.queued = p.queued /\ r.seeking = p.seeking /\ r.paused = c
  <2> HIDE DEF p
  <2> QED BY <1>1 DEF Players
<1>5. \A s \in {"PLAY", "PAUSE"} :
        LET r == [q EXCEPT !.state = s]
        IN  r.next = q.next /\ r.command = q.command /\ r.state = s
  <2> HIDE DEF q
  <2> QED BY <1>2 DEF Controls
<1> HIDE DEF p, q
<1> QED BY <1>1, <1>2, <1>3, <1>4, <1>5, ZenonT(60)

LEMMA ProcessCommandSafe ==
  ASSUME Safe, ProcessCommand PROVE SafetyInv' /\ AssertionsHold'
<1>1. /\ IInv /\ Types /\ States /\ NextSong /\ DecoderSong /\ pc \in Controls
      /\ Place = "loop" /\ player.at = "loop" /\ player \in Players
  BY SafeTypes DEF ProcessCommand, At
<1>2. Calm /\ main' = main
  BY <1>1, CalmStep DEF ProcessCommand
<1>3. ~Before /\ pc.state # "STOP" /\ (pc.state = "PAUSE" <=> player.paused)
  BY <1>1 DEF Before, States
<1>4. CASE pc.command = "NONE"
  <2>1. "body" \in Places \ (Special \cup {"await"}) /\ player.at \notin Special \cup {"await"}
    BY <1>1 DEF Places, Special, SeekPlaces
  <2>2. ~player.seeking BY <1>1, NotSeeking DEF SeekPlaces, StartupPlaces
  <2>3. "body" \notin PlayPlaces BY DEF PlayPlaces
  <2> QED BY <1>4, <2>1, <2>2, <2>3, WanderTo DEF ProcessCommand
<1>5. CASE pc.command = "QUEUE"
  <2>1. player' = [player EXCEPT !.at = "body", !.queued = TRUE] /\ pc' = CommandFinished(pc)
    BY <1>5 DEF ProcessCommand
  <2>2. /\ player'.at = "body" /\ player'.queued = TRUE /\ player'.song = player.song
        /\ player'.decoder_starting = player.decoder_starting
        /\ player'.seeking = player.seeking /\ player'.paused = player.paused
    BY <1>1, <2>1 DEF Players
  <2>3. pc'.command = "NONE" /\ pc'.next = pc.next /\ pc'.state = pc.state
    BY <1>1, <2>1 DEF CommandFinished, Controls
  <2>4. asserts' = asserts
    BY <1>1, <1>3, <1>5 DEF ProcessCommand, Failed, NextSong, DecoderSong
  <2> QED BY <1>1, <1>2, <1>3, <1>5, <2>2, <2>3, <2>4, BodyStep
<1>6. CASE pc.command = "PAUSE"
  <2>1. CommandPause /\ asserts' = asserts BY <1>6 DEF ProcessCommand
  <2> QED BY <1>1, <1>2, <1>3, <1>6, <2>1, CommandPauseIs, BodyStep DEF Players
<1>7. CASE pc.command = "SEEK"
  <2>1. player' = [player EXCEPT !.at = "seek", !.seeking = TRUE] /\ pc' = pc /\ asserts' = asserts
    BY <1>7 DEF ProcessCommand
  <2>2. /\ player'.at = "seek" /\ player'.queued = player.queued /\ player'.song = player.song
        /\ player'.decoder_starting = player.decoder_starting
        /\ player'.seeking = TRUE /\ player'.paused = player.paused
    BY <1>1, <2>1 DEF Players
  <2> QED BY <1>1, <1>2, <1>3, <1>7, <2>1, <2>2, BodyStep
<1>8. CASE pc.command = "REFRESH"
  <2>1. Goto("body") /\ pc' = CommandFinished(pc) /\ asserts' = asserts
    BY <1>8 DEF ProcessCommand
  <2>2. /\ player'.at = "body" /\ player'.queued = player.queued /\ player'.song = player.song
        /\ player'.decoder_starting = player.decoder_starting
        /\ player'.seeking = player.seeking /\ player'.paused = player.paused
    BY <1>1, <2>1 DEF Players, Goto
  <2>3. pc'.command = "NONE" /\ pc'.next = pc.next /\ pc'.state = pc.state
    BY <1>1, <2>1 DEF CommandFinished, Controls
  <2> QED BY <1>1, <1>2, <1>3, <1>8, <2>1, <2>2, <2>3, BodyStep DEF Players
<1> QED BY <1>4, <1>5, <1>6, <1>7, <1>8 DEF ProcessCommand

LEMMA CommandStopSafe ==
  ASSUME Safe, CommandStop PROVE SafetyInv' /\ AssertionsHold'
<1>1. /\ IInv /\ Types /\ States /\ NextSong /\ DecoderSong /\ pc \in Controls
      /\ Place = "loop" /\ player.at = "loop" /\ player \in Players
  BY SafeTypes DEF CommandStop, At
<1>2. Calm /\ main' = main /\ asserts' = asserts
  BY <1>1, CalmStep DEF CommandStop
<1>3. CASE pc' = pc
  <2>1. "stop" \in Places \ (Special \cup {"await"}) /\ player.at \notin Special \cup {"await"}
          /\ "stop" \notin PlayPlaces
    BY <1>1 DEF Places, Special, SeekPlaces, PlayPlaces
  <2>2. ~player.seeking BY <1>1, NotSeeking DEF SeekPlaces, StartupPlaces
  <2> QED BY <1>3, <2>1, <2>2, WanderTo DEF CommandStop
<1>4. CASE pc.command = "CANCEL" /\ pc' = [pc EXCEPT !.command = "STOP"]
  <2>1. pc'.command = "STOP" /\ pc'.next = pc.next /\ pc'.state = pc.state
    BY <1>1, <1>4 DEF Controls
  <2>2. /\ player'.at = "stop" /\ player'.queued = player.queued /\ player'.song = player.song
        /\ player'.decoder_starting = player.decoder_starting
        /\ player'.seeking = player.seeking /\ player'.paused = player.paused
    BY <1>1 DEF Players, Goto, CommandStop
  <2>3. pc.state = "PAUSE" <=> player.paused BY <1>1 DEF States
  <2> QED BY <1>1, <1>2, <1>4, <2>1, <2>2, <2>3, BodyStep DEF Players
<1> QED BY <1>3, <1>4 DEF CommandStop

\* A seek that fails, whatever the decoder is doing.
LEMMA SeekFailsSafe ==
  ASSUME Safe, SeekFails, Calm, player.at = "startup", player.seeking,
         UNCHANGED main, asserts' \subseteq asserts \cup {"seek_start"}
  PROVE  SafetyInv' /\ AssertionsHold'
<1>1. /\ IInv /\ Types /\ States /\ NextSong /\ DecoderSong /\ pc \in Controls
      /\ Place = "startup" /\ player \in Players /\ dc.command = "NONE"
  BY SafeTypes
<1>2. pc'.command = "NONE" /\ pc'.next = pc.next /\ pc'.state = pc.state
  BY <1>1 DEF SeekFails, CommandFinished, Controls
<1>3. /\ player'.at = "body" /\ player'.queued = player.queued /\ player'.song = player.song
      /\ player'.decoder_starting = player.decoder_starting
      /\ player'.seeking = FALSE /\ player'.paused = player.paused
  BY <1>1 DEF Players, SeekFails
<1>4. Place' = "body" BY <1>3 DEF Place
<1>5. ~Before /\ ~Before' /\ ~Fresh /\ ~Fresh' /\ SeekTaken /\ ~SeekTaken'
  BY <1>1, <1>3, <1>4 DEF Before, Fresh, SeekTaken, StartupPlaces
<1>6. States'
  BY <1>1, <1>2, <1>3, <1>4, <1>5 DEF States, SeekPlaces, StartupPlaces, PlayPlaces
<1>7. NextSong'
  BY <1>1, <1>2, <1>3, <1>4, <1>5 DEF NextSong, States
<1>8. KeepsSong
  BY <1>1, <1>2, <1>3, <1>4, <1>5 DEF KeepsSong, SongOfPipe, DecoderSong
<1> QED BY <1>6, <1>7, <1>8, ControlStep DEF Safe, AssertionsHold

LEMMA StartupReadySafe ==
  ASSUME Safe, StartupReady PROVE SafetyInv' /\ AssertionsHold'
<1> DEFINE p == [player EXCEPT !.at = Caller, !.decoder_starting = FALSE, !.format = TRUE]
<1>1. /\ IInv /\ Types /\ States /\ NextSong /\ DecoderSong /\ pc \in Controls
      /\ Place = "startup_ready" /\ player \in Players /\ dc.command = "NONE"
  BY SafeTypes DEF StartupReady, At
<1>2. Calm /\ main' = main /\ asserts' = asserts
  BY <1>1, CalmStep DEF StartupReady
<1>3. /\ p.at = Caller /\ p.song = player.song /\ p.decoder_starting = FALSE
      /\ p.queued = player.queued /\ p.seeking = player.seeking /\ p.paused = player.paused
      /\ p \in Players
  <2>1. Caller \in Places BY DEF Places, Caller
  <2> QED BY <1>1, <2>1 DEF Players
<1>4. \/ player.paused /\ player' = p /\ pc' = pc
      \/ player' = [p EXCEPT !.output_open = TRUE, !.paused = FALSE]
           /\ pc' = [pc EXCEPT !.state = "PLAY"]
      \/ player' = [p EXCEPT !.output_open = FALSE, !.paused = TRUE]
           /\ pc' = [pc EXCEPT !.state = "PAUSE"]
  BY DEF StartupReady, OpenOutput
<1>5. pc.state # "STOP" /\ (pc.state = "PAUSE" <=> player.paused)
  BY <1>1 DEF States, Before
<1>6. /\ player'.at = Caller /\ player'.song = player.song /\ player'.decoder_starting = FALSE
      /\ player'.queued = player.queued /\ player'.seeking = player.seeking
      /\ pc'.next = pc.next /\ pc'.command = pc.command
      /\ pc'.state # "STOP" /\ (pc'.state = "PAUSE" <=> player'.paused)
  <2> HIDE DEF p
  <2> QED BY <1>1, <1>3, <1>4, <1>5, ZenonT(60) DEF Players, Controls
<1>7. Place' = Caller /\ Caller \notin Special \cup {"next", "cancel"} \cup PlayPlaces
  BY <1>6 DEF Place, Caller, Special, SeekPlaces, PlayPlaces
<1>8. Place \notin Special /\ (player.seeking => Caller \in StartupPlaces)
  BY <1>1 DEF Special, SeekPlaces, Caller, StartupPlaces
<1>9. Wanders
  BY <1>1, <1>2, <1>5, <1>6, <1>7, <1>8 DEF Wanders
<1> QED BY <1>2, <1>9, WanderStep

-----------------------------------------------------------------------------
(* Commands for the decoder.                                               *)

\* The decoder is told to stop, or has stopped.
LEMMA StopDecoderIs ==
  ASSUME Safe, player.at # "await", NEW then \in StopPlaces, StopDecoder(then),
         UNCHANGED <<pipe, next_pipe>>
  PROVE  SamePlayer /\ Place' = then /\ Calm
<1>1. Types /\ player \in Players /\ dc \in Decoding /\ decoder \in Decoders
        /\ dc.command = "NONE" /\ then \in Places \ {"await"}
  BY SafeTypes DEF StopPlaces, Places
<1>2. CASE IsIdle
  <2>1. Goto(then) /\ UNCHANGED <<dc, decoder>> BY <1>2 DEF StopDecoder
  <2> QED BY <1>1, <2>1, PlaceStep, CalmStep
<1>3. CASE ~IsIdle
  <2>1. /\ dc' = [dc EXCEPT !.command = "STOP"]
        /\ player' = [player EXCEPT !.at = "await", !.asleep = "decoder", !.then = then]
        /\ decoder' = Woken(decoder)
    BY <1>3 DEF StopDecoder, SendDecoder
  <2>2. SamePlayer /\ Place' = then
    BY <1>1, <2>1 DEF Players, SamePlayer, Place
  <2>3. /\ dc'.state = dc.state /\ dc'.song = dc.song /\ dc'.pipe = dc.pipe
        /\ dc'.seek_error = dc.seek_error /\ dc'.command = "STOP"
    BY <1>1, <2>1 DEF Decoding
  <2>4. decoder'.at = decoder.at /\ decoder'.ok = decoder.ok /\ decoder'.chunk = decoder.chunk
    BY <1>1, <2>1 DEF Decoders, Woken
  <2> QED BY <1>1, <1>3, <2>2, <2>3, <2>4 DEF Calm, Nothing, Wrong
<1> QED BY <1>2, <1>3

LEMMA StopsSafe ==
  ASSUME Safe, RunStops \/ CommandCancel PROVE SafetyInv' /\ AssertionsHold'
<1>1. /\ Types /\ States /\ dc.command = "NONE" /\ Place = player.at
      /\ player.at \in {"stop", "loop"} /\ player.decoder_starting \in BOOLEAN
  BY SafeTypes DEF RunStops, CommandCancel, At, Types, Players
<1>2. Place \notin Special /\ ~player.seeking /\ player.at # "await"
  BY <1>1, NotSeeking DEF Special, SeekPlaces, StartupPlaces
<1>3. ASSUME NEW then \in {"stopped", "cancel"}, SamePlayer, Place' = then, Calm,
             UNCHANGED <<main, pc, asserts>>,
             then = "cancel" => pc.command = "CANCEL" /\ pc.next # None
      PROVE  SafetyInv' /\ AssertionsHold'
  <2>1. then \notin Special /\ then # "next" /\ then \notin PlayPlaces
    BY DEF Special, SeekPlaces, PlayPlaces
  <2>2. Wanders
    BY <1>1, <1>2, <1>3, <2>1 DEF Wanders, SamePlayer, States
  <2> QED BY <1>3, <2>2, WanderStep
<1>4. {"stopped", "cancel"} \subseteq StopPlaces /\ "cancel" \in Places \ {"await"}
  BY DEF StopPlaces, Places
<1>5. CASE RunStops
  <2>1. StopDecoder("stopped") /\ UNCHANGED <<main, pc, pipe, next_pipe, asserts>>
    BY <1>5 DEF RunStops
  <2> QED BY <1>2, <1>3, <1>4, <2>1, StopDecoderIs
<1>6. CASE CommandCancel /\ IsDecoderAtNextSong
  <2>1. StopDecoder("cancel") /\ UNCHANGED <<main, pc, pipe, next_pipe, asserts>>
          /\ pc.command = "CANCEL" /\ pc.next # None
    BY <1>6 DEF CommandCancel
  <2> QED BY <1>2, <1>3, <1>4, <2>1, StopDecoderIs
<1>7. CASE CommandCancel /\ ~IsDecoderAtNextSong
  <2>1. /\ Goto("cancel") /\ UNCHANGED <<main, pc, dc, decoder, pipe, next_pipe, asserts>>
        /\ pc.command = "CANCEL" /\ pc.next # None
    BY <1>7 DEF CommandCancel
  <2>2. SamePlayer /\ Place' = "cancel" /\ Calm
    BY <1>1, <1>4, <2>1, PlaceStep, CalmStep
  <2> QED BY <1>3, <2>1, <2>2
<1> QED BY <1>5, <1>6, <1>7

\* What StartDecoder() leaves behind: a decoder that has not begun.
Starts(which) ==
  /\ dc'.command = "START" /\ dc'.state = dc.state /\ dc'.song = pc.next /\ dc'.pipe = which
  /\ decoder'.at = "task" /\ decoder'.chunk = <<>>

LEMMA StartsIs ==
  ASSUME Types, IsIdle, DecoderPlace, NEW which \in {"pipe", "next"},
         NEW p \in Players, NEW then,
         SendDecoder([dc EXCEPT !.song = pc.next, !.pipe = which], "START", p, then)
  PROVE  /\ Starts(which) /\ Place' = then
         /\ player'.seeking = p.seeking /\ player'.queued = p.queued /\ player'.song = p.song
         /\ player'.paused = p.paused /\ player'.decoder_starting = p.decoder_starting
<1>1. dc \in Decoding /\ decoder \in Decoders BY DEF Types
<1>2. dc' = [[dc EXCEPT !.song = pc.next, !.pipe = which] EXCEPT !.command = "START"]
        /\ decoder' = Woken(decoder)
        /\ player' = [p EXCEPT !.at = "await", !.asleep = "decoder", !.then = then]
  BY DEF SendDecoder
<1>3. Starts(which)
  BY <1>1, <1>2 DEF Starts, Woken, Decoding, Decoders, DecoderPlace
<1> QED BY <1>2, <1>3 DEF Place, Players

\* A decoder that has been started has written nothing.
LEMMA StartStep ==
  ASSUME Safe, IsIdle, NEW which \in {"pipe", "next"}, Starts(which), States', NextSong',
         Place' = "play" \/ Fresh', Place' # "task", ~SeekTaken', pc'.next = pc.next,
         IF which = "pipe" THEN Fresh' /\ pipe' = <<>>
                           ELSE /\ Place = "next" /\ Place' = "play" /\ pipe' = pipe
                                /\ player'.song = player.song
                                /\ player'.queued /\ ~Before' /\ ~player'.decoder_starting,
         next_pipe' = <<>>
  PROVE  SafetyInv'
<1>1. DecoderSong'
  BY DEF DecoderSong, Starts, IsIdle, IsDecoderAtNextSong, IsDecoderAtCurrentSong, Fresh
<1>2. ChunkSongs'
  <2>1. 1 .. Len(<<>>) = {} OBVIOUS
  <2>2. CASE which = "pipe"
    BY <2>1, <2>2 DEF ChunkSongs, Starts
  <2>3. CASE which = "next"
    <3>1. ~Fresh' /\ SongOfPipe' = SongOfPipe BY <2>3 DEF SongOfPipe, Fresh
    <3> QED BY <2>1, <2>3, <3>1 DEF Safe, SafetyInv, ChunkSongs, Starts
  <2> QED BY <2>2, <2>3
<1>3. Unwritten'
  <2>1. ~Wrong' /\ DecoderPipe' = <<>>
    BY DEF Wrong, Starts, DecoderPipe
  <2> QED BY <2>1 DEF Unwritten, Starts
<1>4. NoneOld'
  <2>1. AllNew(<<>>) BY DEF AllNew
  <2>2. AllNew(pipe')
    <3>1. CASE which = "pipe" BY <2>1, <3>1
    <3>2. CASE which = "next"
      <4>1. pipe' = pipe BY <3>2
      <4>2. AllNew(pipe) BY <3>2 DEF Safe, SafetyInv, NoneOld
      <4> QED BY <4>1, <4>2
    <3> QED BY <3>1, <3>2
  <2> QED BY <2>1, <2>2 DEF NoneOld, Starts
<1> QED BY <1>1, <1>2, <1>3, <1>4 DEF SafetyInv

LEMMA RunSafe ==
  ASSUME Safe, Run PROVE SafetyInv' /\ AssertionsHold'
<1>1. /\ IInv /\ Types /\ States /\ NextSong /\ player.at = "task" /\ Place = "task"
      /\ UNCHANGED <<main, pc, next_pipe>> /\ pipe' = <<>> /\ pc.command \in {"QUEUE", "SEEK"}
  BY SafeTypes DEF Run, At
<1>2. IsIdle /\ DecoderPlace /\ next_pipe' = <<>>
  BY <1>1 DEF IInv, Quiet
<1>3. /\ Starts("pipe") /\ Place' = "run"
      /\ ~player'.seeking /\ player'.queued /\ player'.song = None
      /\ ~player'.paused /\ ~player'.decoder_starting
  <2>1. SendDecoder([dc EXCEPT !.song = pc.next, !.pipe = "pipe"], "START", NewPlayer, "run")
    BY DEF Run, StartDecoder
  <2>2. NewPlayer \in Players /\ ~NewPlayer.seeking /\ NewPlayer.queued /\ NewPlayer.song = None
          /\ ~NewPlayer.paused /\ ~NewPlayer.decoder_starting
    BY NewPlayerIs DEF NewPlayer
  <2> QED BY <1>1, <1>2, <2>1, <2>2, StartsIs
<1>4. Before /\ Before' /\ Fresh' /\ ~SeekTaken' /\ pc.next # None
  BY <1>1, <1>3 DEF Before, Fresh, SeekTaken, NextSong
<1>5. States'
  BY <1>1, <1>3, <1>4 DEF States, SeekPlaces, StartupPlaces, PlayPlaces
<1>6. NextSong'
  BY <1>1, <1>3, <1>4 DEF NextSong
<1>7. asserts' = asserts
  BY <1>1, <1>4 DEF Run, StartDecoder, Failed, NewPlayer
<1> QED BY <1>1, <1>2, <1>3, <1>4, <1>5, <1>6, <1>7, StartStep DEF Safe, AssertionsHold

LEMMA SeekRestartsSafe ==
  ASSUME Safe, SeekRestarts PROVE SafetyInv' /\ AssertionsHold'
<1>1. /\ IInv /\ Types /\ States /\ NextSong /\ player \in Players
      /\ player.at = "seek_stopped" /\ Place = "seek_stopped"
      /\ UNCHANGED <<main, pc>> /\ pipe' = <<>> /\ next_pipe' = <<>>
  BY SafeTypes DEF SeekRestarts, At
<1>2. IsIdle /\ DecoderPlace BY <1>1 DEF IInv, Quiet
<1>3. Starts("pipe") /\ Place' = "seek_started" /\ SamePlayer
  <2>1. SendDecoder([dc EXCEPT !.song = pc.next, !.pipe = "pipe"], "START", player, "seek_started")
    BY DEF SeekRestarts, StartDecoder
  <2> QED BY <1>1, <1>2, <2>1, StartsIs DEF SamePlayer
<1>4. /\ ~Before /\ ~Before' /\ Fresh' /\ ~SeekTaken /\ ~SeekTaken' /\ pc.command = "SEEK"
      /\ player.seeking /\ pc.next # None
  BY <1>1, <1>3 DEF Before, Fresh, SeekTaken, NextSong, States, SeekPlaces, StartupPlaces
<1>5. States'
  BY <1>1, <1>3, <1>4 DEF States, SamePlayer, SeekPlaces, StartupPlaces, PlayPlaces
<1>6. NextSong'
  BY <1>1, <1>3, <1>4 DEF NextSong, SamePlayer
<1>7. asserts' = asserts
  BY <1>1, <1>4 DEF SeekRestarts, StartDecoder, Failed
<1> QED BY <1>1, <1>2, <1>3, <1>4, <1>5, <1>6, <1>7, StartStep DEF Safe, AssertionsHold

LEMMA DecodeNextSafe ==
  ASSUME Safe, DecodeNext PROVE SafetyInv' /\ AssertionsHold'
<1>1. /\ IInv /\ Types /\ States /\ NextSong /\ player \in Players
      /\ player.at = "next" /\ Place = "next" /\ ~player.decoder_starting
      /\ UNCHANGED <<main, pc, pipe, next_pipe>>
  BY SafeTypes DEF DecodeNext, At, States
<1>2. ~player.seeking BY <1>1 DEF States, SeekPlaces, StartupPlaces
<1>3. CASE ~(IsIdle /\ player.queued /\ IsDecoderAtCurrentSong)
  <2>1. Goto("play") /\ UNCHANGED <<dc, decoder, asserts>> BY <1>3 DEF DecodeNext
  <2>2. "play" \in Places \ (Special \cup {"await"}) /\ player.at \notin Special \cup {"await"}
          /\ "play" \notin PlayPlaces
    BY <1>1 DEF Places, Special, SeekPlaces, PlayPlaces
  <2> QED BY <1>1, <1>2, <2>1, <2>2, WanderTo
<1>4. CASE IsIdle /\ player.queued /\ IsDecoderAtCurrentSong
  <2>1. StartDecoder(player, "next", "play", next_pipe) BY <1>4 DEF DecodeNext
  <2>2. DecoderPlace /\ next_pipe = <<>>
    BY <1>1, <1>4 DEF IInv, Quiet, IsDecoderAtNextSong, IsDecoderAtCurrentSong
  <2>3. Starts("next") /\ Place' = "play" /\ SamePlayer
    <3>1. SendDecoder([dc EXCEPT !.song = pc.next, !.pipe = "next"], "START", player, "play")
      BY <2>1 DEF StartDecoder
    <3> QED BY <1>1, <1>4, <2>2, <3>1, StartsIs DEF SamePlayer
  <2>4. /\ ~Before /\ ~Before' /\ ~Fresh' /\ ~SeekTaken /\ ~SeekTaken' /\ pc.next # None
        /\ pc.command \notin {"QUEUE", "SEEK"}
    BY <1>1, <1>2, <1>4, <2>3
       DEF Before, Fresh, SeekTaken, NextSong, SamePlayer
  <2>5. States'
    BY <1>1, <1>2, <2>3, <2>4 DEF States, SamePlayer, SeekPlaces, StartupPlaces, PlayPlaces
  <2>6. NextSong'
    BY <1>1, <2>3, <2>4 DEF NextSong, SamePlayer
  <2>7. asserts' = asserts
    BY <1>4, <2>1, <2>2, <2>4 DEF StartDecoder, Failed
  <2> QED BY <1>1, <1>4, <2>2, <2>3, <2>4, <2>5, <2>6, <2>7, StartStep
       DEF Safe, AssertionsHold, SamePlayer
<1> QED BY <1>3, <1>4

\* The decoder has accepted the song that was sought or queued, or failed.
LEMMA RunStartedSafe ==
  ASSUME Safe, RunStarted PROVE SafetyInv' /\ AssertionsHold'
<1>1. /\ IInv /\ Types /\ States /\ NextSong /\ DecoderSong /\ player \in Players
      /\ pc \in Controls /\ dc \in Decoding /\ dc.command = "NONE"
      /\ player.at = "run" /\ Place = "run" /\ Fresh /\ Before
      /\ UNCHANGED <<main, decoder, next_pipe, asserts>>
  BY SafeTypes DEF RunStarted, At, Fresh, Before
<1>2. /\ ~player.paused /\ pc.state = "STOP" /\ ~player.seeking /\ main = None /\ pc.next # None
      /\ pc.command \in {"QUEUE", "SEEK"}
  BY <1>1 DEF States, NextSong
<1>3. CASE dc.state = "ERROR"
  <2>1. /\ pc' = [CommandFinished(pc) EXCEPT !.next = None] /\ player' = NewPlayer
        /\ dc' = [dc EXCEPT !.pipe = "null"] /\ pipe' = <<>>
    BY <1>3 DEF RunStarted
  <2>2. pc'.command = "NONE" /\ pc'.next = None /\ pc'.state = "STOP"
    BY <1>1, <1>2, <2>1 DEF CommandFinished, Controls
  <2>3. /\ Place' = "task" /\ player'.queued /\ ~player'.seeking /\ ~player'.decoder_starting
        /\ player'.song = None /\ ~player'.paused
    BY <2>1 DEF NewPlayer, Place
  <2>4. dc'.pipe = "null" /\ dc'.command = "NONE" /\ dc'.state = "ERROR"
    BY <1>1, <1>3, <2>1 DEF Decoding
  <2>5. Before' /\ ~Fresh' /\ ~SeekTaken'
    BY <2>3 DEF Before, Fresh, SeekTaken
  <2>6. next_pipe = <<>> /\ decoder.chunk = <<>> /\ decoder.at = "task"
    BY <1>1, <1>3 DEF IInv, Quiet, DecoderPlace, IsIdle
  <2>7. States'
    BY <1>1, <1>2, <2>2, <2>3, <2>5 DEF States, SeekPlaces, PlayPlaces, StartupPlaces
  <2>8. NextSong' BY <2>2, <2>3, <2>5 DEF NextSong
  <2>9. DecoderSong'
    BY <2>3, <2>4, <2>5 DEF DecoderSong, IsIdle, IsDecoderAtNextSong, IsDecoderAtCurrentSong
  <2>10. ChunkSongs'
    <3>1. 1 .. Len(<<>>) = {} OBVIOUS
    <3> QED BY <1>1, <2>1, <2>6, <3>1 DEF ChunkSongs
  <2>11. Unwritten'
    BY <1>1, <2>4, <2>6 DEF Unwritten, Nothing, Wrong
  <2>12. NoneOld'
    <3>1. AllNew(<<>>) BY DEF AllNew
    <3> QED BY <1>1, <2>1, <2>6, <3>1 DEF NoneOld
  <2> QED BY <1>1, <2>7, <2>8, <2>9, <2>10, <2>11, <2>12 DEF Safe, SafetyInv, AssertionsHold
<1>4. CASE dc.state # "ERROR"
  <2>1. /\ pc' = [CommandFinished(pc) EXCEPT !.next = None, !.state = "PLAY"]
        /\ player' = Started("loop") /\ UNCHANGED <<dc, pipe>>
    BY <1>4 DEF RunStarted
  <2>2. pc'.command = "NONE" /\ pc'.next = None /\ pc'.state = "PLAY"
    BY <1>1, <2>1 DEF CommandFinished, Controls
  <2>3. /\ Place' = "loop" /\ ~player'.queued /\ ~player'.seeking /\ player'.decoder_starting
        /\ player'.song = pc.next /\ ~player'.paused
    BY <1>1, <1>2, <2>1 DEF Started, Place, Players
  <2>4. Calm
    BY <1>1, <2>1, CalmStep
  <2>5. ~Before' /\ ~Fresh' /\ ~SeekTaken'
    BY <2>3 DEF Before, Fresh, SeekTaken, StartupPlaces
  <2>6. States'
    BY <1>1, <1>2, <2>2, <2>3, <2>5 DEF States, SeekPlaces, PlayPlaces, StartupPlaces
  <2>7. NextSong' BY <2>2, <2>3, <2>5 DEF NextSong
  <2>8. SongOfPipe' = SongOfPipe
    BY <1>1, <2>3, <2>5 DEF SongOfPipe
  <2>9. KeepsSong
    BY <1>1, <2>3, <2>5, <2>8
       DEF KeepsSong, DecoderSong, IsDecoderAtNextSong
  <2> QED BY <1>1, <2>4, <2>6, <2>7, <2>9, ControlStep DEF Safe, AssertionsHold
<1> QED BY <1>3, <1>4

LEMMA SeekStartedSafe ==
  ASSUME Safe, SeekStarted PROVE SafetyInv' /\ AssertionsHold'
<1>1. /\ IInv /\ Types /\ States /\ NextSong /\ DecoderSong /\ player \in Players
      /\ pc \in Controls /\ dc.command = "NONE"
      /\ player.at = "seek_started" /\ Place = "seek_started" /\ Fresh
      /\ UNCHANGED <<main, dc, decoder, pipe, next_pipe, asserts>>
  BY SafeTypes DEF SeekStarted, At, Fresh
<1>2. /\ ~Before /\ player.seeking /\ pc.command = "SEEK" /\ ~SeekTaken /\ pc.next # None
      /\ ~player.queued /\ main = None
  BY <1>1 DEF States, NextSong, Before, SeekPlaces, SeekTaken, StartupPlaces
<1>3. Calm BY <1>1, CalmStep
<1>4. CASE dc.state = "ERROR"
  <2>1. /\ player' = [player EXCEPT !.at = "body", !.seeking = FALSE, !.queued = FALSE]
        /\ pc' = [CommandFinished(pc) EXCEPT !.next = None]
    BY <1>4 DEF SeekStarted
  <2>2. pc'.command = "NONE" /\ pc'.next = None /\ pc'.state = pc.state
    BY <1>1, <2>1 DEF CommandFinished, Controls
  <2>3. /\ Place' = "body" /\ ~player'.queued /\ ~player'.seeking
        /\ player'.decoder_starting = player.decoder_starting
        /\ player'.song = player.song /\ player'.paused = player.paused
    BY <1>1, <2>1 DEF Place, Players
  <2>4. ~Before' /\ ~Fresh' /\ ~SeekTaken'
    BY <2>3 DEF Before, Fresh, SeekTaken
  <2>5. States'
    BY <1>1, <1>2, <2>2, <2>3, <2>4 DEF States, SeekPlaces, PlayPlaces, StartupPlaces
  <2>6. NextSong' BY <2>2, <2>3, <2>4 DEF NextSong
  <2>7. pipe = <<>> /\ IsIdle
    BY <1>1, <1>4 DEF Safe, SafetyInv, DecoderSong, Unwritten, Nothing, Wrong, DecoderPipe, IsIdle
  <2>8. KeepsSong
    BY <1>1, <2>3, <2>4, <2>7 DEF KeepsSong, DecoderSong, IsDecoderAtNextSong
  <2> QED BY <1>1, <1>3, <2>5, <2>6, <2>8, ControlStep DEF Safe, AssertionsHold
<1>5. CASE dc.state # "ERROR"
  <2>1. player' = Started("startup") /\ pc' = [pc EXCEPT !.next = None]
    BY <1>5 DEF SeekStarted
  <2>2. pc'.command = "SEEK" /\ pc'.next = None /\ pc'.state = pc.state
    BY <1>1, <1>2, <2>1 DEF Controls
  <2>3. /\ Place' = "startup" /\ ~player'.queued /\ player'.seeking /\ player'.decoder_starting
        /\ player'.song = pc.next /\ player'.paused = player.paused
    BY <1>1, <1>2, <2>1 DEF Started, Place, Players
  <2>4. ~Before' /\ ~Fresh' /\ SeekTaken'
    BY <2>3 DEF Before, Fresh, SeekTaken, StartupPlaces
  <2>5. States'
    BY <1>1, <1>2, <2>2, <2>3, <2>4 DEF States, SeekPlaces, PlayPlaces, StartupPlaces
  <2>6. NextSong' BY <2>2, <2>3, <2>4 DEF NextSong
  <2>7. SongOfPipe' = SongOfPipe
    BY <1>1, <2>3, <2>4 DEF SongOfPipe
  <2>8. KeepsSong
    BY <1>1, <2>3, <2>4, <2>7 DEF KeepsSong, DecoderSong, IsDecoderAtNextSong
  <2> QED BY <1>1, <1>3, <2>5, <2>6, <2>8, ControlStep DEF Safe, AssertionsHold
<1> QED BY <1>4, <1>5

-----------------------------------------------------------------------------
(* Seeking.                                                                *)

LEMMA SeekSongSafe ==
  ASSUME Safe, SeekSong PROVE SafetyInv' /\ AssertionsHold'
<1>1. /\ IInv /\ Types /\ States /\ NextSong /\ DecoderSong /\ player \in Players
      /\ pc \in Controls /\ dc.command = "NONE" /\ player.at = "seek" /\ Place = "seek"
      /\ UNCHANGED main
  BY SafeTypes DEF SeekSong, At
<1>2. /\ ~Before /\ ~Fresh /\ player.seeking /\ pc.command = "SEEK" /\ ~SeekTaken
      /\ pc.next # None /\ ~player.queued /\ main = None
  BY <1>1 DEF States, NextSong, Before, Fresh, SeekPlaces, SeekTaken, StartupPlaces
<1>3. asserts' = asserts BY <1>2 DEF SeekSong, Failed
<1>4. ~IsDecoderAtNextSong BY <1>1, <1>2 DEF DecoderSong
<1>5. CASE IsCurrentSong(pc.next)
  <2>1. /\ pc' = [pc EXCEPT !.next = None]
        /\ player' = [player EXCEPT !.at = "startup", !.queued = FALSE]
        /\ UNCHANGED <<dc, decoder, pipe, next_pipe>>
    BY <1>4, <1>5 DEF SeekSong
  <2>2. pc'.command = "SEEK" /\ pc'.next = None /\ pc'.state = pc.state
    BY <1>1, <1>2, <2>1 DEF Controls
  <2>3. /\ Place' = "startup" /\ ~player'.queued /\ player'.seeking
        /\ player'.decoder_starting = player.decoder_starting
        /\ player'.song = player.song /\ player'.paused = player.paused
    BY <1>1, <1>2, <2>1 DEF Place, Players
  <2>4. ~Before' /\ ~Fresh' /\ SeekTaken'
    BY <2>3 DEF Before, Fresh, SeekTaken, StartupPlaces
  <2>5. dc.pipe = "pipe" /\ dc.song = player.song
    <3>1. dc.pipe = "pipe"
      BY <1>1, <1>4, <1>5 DEF DecoderSong, IsCurrentSong, IsDecoderAtNextSong, Types, Decoding
    <3> QED BY <1>1, <1>2, <1>5, <3>1
         DEF DecoderSong, IsCurrentSong, IsDecoderAtCurrentSong, SongOfPipe
  <2>6. States'
    BY <1>1, <1>2, <2>2, <2>3, <2>4 DEF States, SeekPlaces, PlayPlaces, StartupPlaces
  <2>7. NextSong' BY <2>2, <2>3, <2>4 DEF NextSong
  <2>8. SongOfPipe' = SongOfPipe
    BY <1>2, <2>3, <2>4 DEF SongOfPipe
  <2>9. KeepsSong
    BY <1>1, <1>4, <2>3, <2>4, <2>5, <2>8 DEF KeepsSong
  <2> QED BY <1>1, <1>3, <2>1, <2>6, <2>7, <2>9, CalmStep, ControlStep DEF Safe, AssertionsHold
<1>6. CASE ~IsCurrentSong(pc.next)
  <2>1. StopDecoder("seek_stopped") /\ UNCHANGED <<pc, pipe, next_pipe>>
    BY <1>6 DEF SeekSong
  <2>2. SamePlayer /\ Place' = "seek_stopped" /\ Calm
    <3>1. "seek_stopped" \in StopPlaces BY DEF StopPlaces
    <3> QED BY <1>1, <2>1, <3>1, StopDecoderIs
  <2>3. ~Before' /\ ~Fresh' /\ ~SeekTaken'
    BY <2>2 DEF Before, Fresh, SeekTaken, StartupPlaces
  <2>4. States'
    BY <1>1, <1>2, <2>1, <2>2, <2>3 DEF States, SamePlayer, SeekPlaces, PlayPlaces, StartupPlaces
  <2>5. NextSong' BY <1>1, <1>2, <2>1, <2>2, <2>3 DEF NextSong, SamePlayer
  <2>6. SongOfPipe' = SongOfPipe
    BY <1>2, <2>2, <2>3 DEF SongOfPipe, SamePlayer
  <2>7. KeepsSong
    BY <1>1, <1>4, <2>2, <2>3, <2>6 DEF KeepsSong, DecoderSong, SamePlayer
  <2> QED BY <1>1, <1>3, <2>2, <2>4, <2>5, <2>7, ControlStep DEF Safe, AssertionsHold
<1> QED BY <1>5, <1>6

LEMMA StartupSafe ==
  ASSUME Safe, CheckDecoderStartup \/ StartupCheck \/ StartupWoken
  PROVE  SafetyInv' /\ AssertionsHold'
<1>1. CASE SeekFails /\ CheckDecoderStartup /\ player.seeking
  <2>1. Types /\ player.at = "startup"
    BY <1>1, SafeTypes DEF CheckDecoderStartup, At
  <2>2. Calm
    BY <1>1, <2>1, CalmStep DEF CheckDecoderStartup
  <2> QED BY <1>1, <2>1, <2>2, SeekFailsSafe DEF CheckDecoderStartup
<1>2. CASE ~SeekFails
  BY <1>2, WanderStartup
<1>3. CASE SeekFails /\ ~(CheckDecoderStartup /\ player.seeking)
  <2>1. Types /\ player \in Players BY SafeTypes
  <2>2. player'.at = "body" BY <1>3, <2>1 DEF SeekFails, Players
  <2>3. Caller # "body" BY DEF Caller
  <2>4. \A place \in Places : Goto(place) \/ Wait(place) \/ WaitForDecoder(place) =>
          player'.at = place
    BY <2>1, PlayerMoves DEF PlayerAt
  <2>5. {"stop", "startup_check", "startup_woken", "startup_ready", Caller} \subseteq Places
    BY DEF Places, Caller
  <2>6. player'.at \in {"stop", "startup_check", "startup_woken", "startup_ready", Caller}
    <3>1. CASE CheckDecoderStartup
      BY <1>3, <2>4, <2>5, <3>1 DEF CheckDecoderStartup
    <3>2. CASE StartupCheck
      BY <2>4, <2>5, <3>2 DEF StartupCheck
    <3>3. CASE StartupWoken
      BY <2>4, <2>5, <3>3 DEF StartupWoken
    <3> QED BY <3>1, <3>2, <3>3
  <2> QED BY <2>2, <2>3, <2>6
<1> QED BY <1>1, <1>2, <1>3

\* The chunks have been marked; their songs are the same.
Marked(to, from, old) ==
  /\ Len(to) = Len(from)
  /\ \A i \in 1 .. Len(from) : to[i].song = from[i].song /\ to[i].old = old

LEMMA AgedMarked ==
  ASSUME NEW chunks \in Seq(Piece), NEW old \in BOOLEAN
  PROVE  Marked(Aged(chunks, old), chunks, old) /\ (chunks = <<>> => Aged(chunks, old) = <<>>)
<1>1. DOMAIN chunks = 1 .. Len(chunks) OBVIOUS
<1>2. ASSUME NEW i \in 1 .. Len(chunks)
      PROVE  Aged(chunks, old)[i].song = chunks[i].song /\ Aged(chunks, old)[i].old = old
  <2>1. chunks[i] \in Piece OBVIOUS
  <2>2. Aged(chunks, old)[i] = [chunks[i] EXCEPT !.old = old]
    BY <1>1 DEF Aged
  <2> QED BY <2>1, <2>2 DEF Piece
<1> QED BY <1>2, AgedIs DEF Marked

\* The chunks of the pipe and of the decoder are marked.
LEMMA MarkStep ==
  ASSUME Safe, NEW old \in BOOLEAN, Marked(pipe', pipe, old),
         Marked(decoder'.chunk, decoder.chunk, old),
         pipe = <<>> => pipe' = <<>>,
         decoder.chunk = <<>> => decoder'.chunk = <<>>,
         next_pipe' = next_pipe,
         dc'.song = dc.song, dc'.pipe = dc.pipe, dc'.state = dc.state,
         dc.command # "START", dc'.command # "START",
         decoder'.at = decoder.at, decoder'.ok = decoder.ok,
         SongOfPipe' = SongOfPipe, DecoderSong', States', NextSong',
         \/ old /\ Place' = "seek_done" /\ dc'.command = "SEEK"
         \/ ~old
  PROVE  SafetyInv'
<1>1. ChunkSongs'
  BY DEF Safe, SafetyInv, ChunkSongs, Marked
<1>2. Unwritten'
  <2>1. Nothing' = Nothing /\ Wrong' = Wrong BY DEF Nothing, Wrong
  <2>2. DecoderPipe = <<>> => DecoderPipe' = <<>> BY DEF DecoderPipe
  <2> QED BY <2>1, <2>2 DEF Safe, SafetyInv, Unwritten
<1>3. NoneOld'
  <2>1. AllNew(next_pipe') BY DEF Safe, SafetyInv, NoneOld
  <2>2. CASE ~old
    <3>1. AllNew(pipe') /\ AllNew(decoder'.chunk)
      BY <2>2 DEF AllNew, Marked
    <3> QED BY <2>1, <3>1 DEF NoneOld
  <2>3. CASE old
    BY <2>1, <2>3 DEF NoneOld
  <2> QED BY <2>2, <2>3
<1> QED BY <1>1, <1>2, <1>3 DEF SafetyInv

LEMMA SeekDecoderSafe ==
  ASSUME Safe, SeekDecoder PROVE SafetyInv' /\ AssertionsHold'
<1>1. /\ IInv /\ Types /\ States /\ NextSong /\ DecoderSong /\ player \in Players /\ pc \in Controls
      /\ dc \in Decoding /\ decoder \in Decoders /\ pipe \in Seq(Piece) /\ decoder.chunk \in Seq(Piece)
      /\ dc.command = "NONE" /\ player.at = "startup" /\ Place = "startup" /\ player.seeking
      /\ UNCHANGED <<main, next_pipe>>
  BY SafeTypes, Numbers DEF SeekDecoder, At, Types
<1>2. asserts' \subseteq asserts \cup {"seek_start"} BY DEF SeekDecoder, Failed
<1>3. CASE SeekFails /\ UNCHANGED <<dc, decoder, pipe>>
  BY <1>1, <1>2, <1>3, CalmStep, SeekFailsSafe
<1>4. CASE /\ ~IsIdle
           /\ dc' = [dc EXCEPT !.command = "SEEK", !.seek_error = FALSE]
           /\ player' = [player EXCEPT !.at = "await", !.asleep = "decoder",
                                       !.then = "seek_done"]
           /\ decoder' = [Woken(decoder) EXCEPT !.chunk = Aged(@, TRUE)]
           /\ pipe' = Aged(pipe, TRUE)
           /\ UNCHANGED pc
  <2>1. dc'.command = "SEEK" /\ dc'.song = dc.song /\ dc'.pipe = dc.pipe /\ dc'.state = dc.state
    BY <1>1, <1>4 DEF Decoding
  <2>2. SamePlayer /\ Place' = "seek_done"
    BY <1>1, <1>4 DEF Place, SamePlayer, Players
  <2>3. /\ decoder'.at = decoder.at /\ decoder'.ok = decoder.ok
        /\ decoder'.chunk = Aged(decoder.chunk, TRUE)
    BY <1>1, <1>4 DEF Woken, Decoders
  <2>4. ~Before /\ ~Before' /\ ~Fresh /\ ~Fresh' /\ SeekTaken /\ SeekTaken'
    BY <1>1, <2>2 DEF Before, Fresh, SeekTaken, StartupPlaces, SamePlayer
  <2>5. States'
    BY <1>1, <1>4, <2>2, <2>4 DEF States, SamePlayer, SeekPlaces, StartupPlaces, PlayPlaces
  <2>6. NextSong' BY <1>1, <1>4, <2>2, <2>4 DEF NextSong, SamePlayer
  <2>7. SongOfPipe' = SongOfPipe BY <2>2, <2>4 DEF SongOfPipe, SamePlayer
  <2>8. DecoderSong'
    BY <1>1, <1>4, <2>1, <2>2, <2>4, <2>7
       DEF DecoderSong, SamePlayer, IsIdle, IsDecoderAtNextSong, IsDecoderAtCurrentSong
  <2>9. /\ Marked(pipe', pipe, TRUE) /\ (pipe = <<>> => pipe' = <<>>)
        /\ Marked(decoder'.chunk, decoder.chunk, TRUE)
        /\ (decoder.chunk = <<>> => decoder'.chunk = <<>>)
    BY <1>1, <1>4, <2>3, AgedMarked
  <2>10. SafetyInv'
    BY <1>1, <2>1, <2>2, <2>3, <2>5, <2>6, <2>7, <2>8, <2>9, MarkStep
  <2> QED BY <1>2, <2>10 DEF Safe, AssertionsHold
<1> QED BY <1>3, <1>4 DEF SeekDecoder

LEMMA SeekDoneSafe ==
  ASSUME Safe, SeekDone PROVE SafetyInv' /\ AssertionsHold'
<1>1. /\ IInv /\ Types /\ States /\ NextSong /\ DecoderSong /\ player \in Players /\ pc \in Controls
      /\ dc \in Decoding /\ decoder \in Decoders /\ pipe \in Seq(Piece) /\ decoder.chunk \in Seq(Piece)
      /\ dc.command = "NONE" /\ player.at = "seek_done" /\ Place = "seek_done"
      /\ UNCHANGED <<main, dc, next_pipe, asserts>>
  BY SafeTypes, Numbers DEF SeekDone, At, Types
<1>2. pc' = CommandFinished(pc)
        /\ \/ player' = [player EXCEPT !.at = "body", !.seeking = FALSE]
           \/ player' = [player EXCEPT !.at = "body", !.seeking = FALSE, !.buffering = TRUE]
  BY DEF SeekDone, SeekFails
<1>3. pc'.command = "NONE" /\ pc'.next = pc.next /\ pc'.state = pc.state
  BY <1>1, <1>2 DEF CommandFinished, Controls
<1>4. /\ Place' = "body" /\ ~player'.seeking /\ player'.queued = player.queued
      /\ player'.song = player.song /\ player'.paused = player.paused
      /\ player'.decoder_starting = player.decoder_starting
  BY <1>1, <1>2 DEF Place, Players
<1>5. /\ ~Before /\ ~Before' /\ ~Fresh /\ ~Fresh' /\ SeekTaken /\ ~SeekTaken'
      /\ pc.command = "SEEK" /\ main = None
  BY <1>1, <1>4 DEF Before, Fresh, SeekTaken, SeekPlaces, States
<1>6. States'
  BY <1>1, <1>3, <1>4, <1>5 DEF States, SeekPlaces, StartupPlaces, PlayPlaces
<1>7. NextSong' BY <1>1, <1>3, <1>4, <1>5 DEF NextSong
<1>8. SongOfPipe' = SongOfPipe BY <1>4, <1>5 DEF SongOfPipe
<1>9. CASE dc.seek_error
  <2>1. decoder' = [decoder EXCEPT !.chunk = Aged(@, FALSE)] /\ pipe' = Aged(pipe, FALSE)
    BY <1>9 DEF SeekDone
  <2>2. /\ decoder'.at = decoder.at /\ decoder'.ok = decoder.ok
        /\ decoder'.chunk = Aged(decoder.chunk, FALSE)
    BY <1>1, <2>1 DEF Decoders
  <2>3. /\ Marked(pipe', pipe, FALSE) /\ (pipe = <<>> => pipe' = <<>>)
        /\ Marked(decoder'.chunk, decoder.chunk, FALSE)
        /\ (decoder.chunk = <<>> => decoder'.chunk = <<>>)
    BY <1>1, <2>1, <2>2, AgedMarked
  <2>4. DecoderSong'
    BY <1>1, <1>4, <1>5, <1>8
       DEF DecoderSong, IsIdle, IsDecoderAtNextSong, IsDecoderAtCurrentSong
  <2>5. SafetyInv'
    BY <1>1, <1>6, <1>7, <1>8, <2>2, <2>3, <2>4, MarkStep
  <2> QED BY <1>1, <2>5 DEF Safe, AssertionsHold
<1>10. CASE ~dc.seek_error
  <2>1. UNCHANGED <<decoder, pipe>> BY <1>10 DEF SeekDone
  <2>2. KeepsSong
    BY <1>1, <1>4, <1>5, <1>8, <1>10 DEF KeepsSong, DecoderSong, IsDecoderAtNextSong
  <2> QED BY <1>1, <1>6, <1>7, <2>1, <2>2, CalmStep, ControlStep DEF Safe, AssertionsHold
<1> QED BY <1>9, <1>10

-----------------------------------------------------------------------------
(* Chunks that are dropped or played, and pipes that are exchanged.        *)

\* An idle decoder that has lost its pipe.
LEMMA NoPipeStep ==
  ASSUME Safe, IsIdle, dc.command = "NONE", dc' = [dc EXCEPT !.pipe = "null"],
         UNCHANGED decoder, next_pipe' = <<>>, pipe' = pipe \/ pipe' = <<>>,
         States', NextSong', ~Fresh', ~SeekTaken', ~player'.decoder_starting,
         pipe' # <<>> => SongOfPipe' = SongOfPipe /\ Place # "seek_done"
  PROVE  SafetyInv'
<1>1. dc \in Decoding /\ decoder.chunk = <<>> /\ decoder.at = "task"
  BY SafeTypes DEF IInv, DecoderPlace
<1>2. dc'.pipe = "null" /\ dc'.command = "NONE" /\ dc'.state = dc.state /\ dc'.song = dc.song
  BY <1>1 DEF Decoding
<1>3. DecoderSong'
  BY <1>2 DEF DecoderSong, IsIdle, IsDecoderAtNextSong, IsDecoderAtCurrentSong
<1>4. ChunkSongs'
  <2>1. 1 .. Len(<<>>) = {} OBVIOUS
  <2> QED BY <1>1, <1>2, <2>1 DEF ChunkSongs, Safe, SafetyInv
<1>5. Unwritten'
  BY <1>1, <1>2 DEF Unwritten, Nothing, Wrong
<1>6. NoneOld'
  <2>1. AllNew(<<>>) BY DEF AllNew
  <2>2. AllNew(pipe')
    <3>1. CASE pipe' = <<>> BY <2>1, <3>1
    <3>2. CASE pipe' # <<>>
      <4>1. AllNew(pipe) /\ pipe' = pipe BY <3>2 DEF Safe, SafetyInv, NoneOld
      <4> QED BY <4>1
    <3> QED BY <3>1, <3>2
  <2> QED BY <1>1, <2>1, <2>2 DEF NoneOld
<1> QED BY <1>3, <1>4, <1>5, <1>6 DEF SafetyInv

LEMMA CancelledSafe ==
  ASSUME Safe, Cancelled PROVE SafetyInv' /\ AssertionsHold'
<1>1. /\ IInv /\ Types /\ States /\ NextSong /\ DecoderSong /\ player \in Players /\ pc \in Controls
      /\ dc.command = "NONE" /\ player.at = "cancel" /\ Place = "cancel"
      /\ UNCHANGED <<main, decoder, pipe, asserts>> /\ next_pipe' = <<>>
  BY SafeTypes DEF Cancelled, At
<1>2. pc'.command = "NONE" /\ pc'.next = None /\ pc'.state = pc.state
  BY <1>1 DEF Cancelled, CommandFinished, Controls
<1>3. /\ Place' = "body" /\ ~player'.queued /\ player'.seeking = player.seeking
      /\ player'.song = player.song /\ player'.paused = player.paused
      /\ player'.decoder_starting = player.decoder_starting
  BY <1>1 DEF Cancelled, Place, Players
<1>4. /\ ~Before /\ ~Before' /\ ~Fresh /\ ~Fresh' /\ ~SeekTaken' /\ ~player.seeking
      /\ pc.command = "CANCEL" /\ main = None
  BY <1>1, <1>3 DEF Before, Fresh, SeekTaken, SeekPlaces, StartupPlaces, States
<1>5. States'
  BY <1>1, <1>2, <1>3, <1>4 DEF States, SeekPlaces, StartupPlaces, PlayPlaces
<1>6. NextSong' BY <1>2, <1>3, <1>4 DEF NextSong
<1>7. SongOfPipe' = SongOfPipe BY <1>3, <1>4 DEF SongOfPipe
<1>8. CASE IsDecoderAtNextSong
  <2>1. IsIdle /\ dc' = [dc EXCEPT !.pipe = "null"]
    BY <1>1, <1>8 DEF IInv, Quiet, Cancelled
  <2>2. ~player.decoder_starting
    BY <1>1, <1>8 DEF DecoderSong, IsDecoderAtNextSong
  <2> QED BY <1>1, <1>3, <1>4, <1>5, <1>6, <1>7, <2>1, <2>2, NoPipeStep DEF Safe, AssertionsHold
<1>9. CASE ~IsDecoderAtNextSong
  <2>1. next_pipe' = next_pipe /\ dc' = dc
    BY <1>1, <1>9 DEF IInv, Quiet, Cancelled
  <2>2. KeepsSong
    BY <1>1, <1>3, <1>4, <1>7, <1>9 DEF KeepsSong, DecoderSong
  <2> QED BY <1>1, <1>5, <1>6, <2>1, <2>2, CalmStep, ControlStep DEF Safe, AssertionsHold
<1> QED BY <1>8, <1>9

LEMMA RunStoppedSafe ==
  ASSUME Safe, RunStopped PROVE SafetyInv' /\ AssertionsHold'
<1>1. /\ IInv /\ Types /\ States /\ NextSong /\ DecoderSong /\ player \in Players /\ pc \in Controls
      /\ dc.command = "NONE" /\ player.at = "stopped" /\ Place = "stopped"
      /\ UNCHANGED <<main, decoder>> /\ next_pipe' = <<>> /\ pipe' = <<>>
      /\ dc' = [dc EXCEPT !.pipe = "null"]
  BY SafeTypes DEF RunStopped, At
<1>2. pc'.command = pc.command /\ pc'.next = NextDropped /\ pc'.state = "STOP"
  BY <1>1 DEF RunStopped, Controls
<1>3. /\ Place' = "task" /\ player'.queued /\ ~player'.seeking /\ player'.song = None
      /\ ~player'.paused /\ ~player'.decoder_starting
  BY DEF RunStopped, NewPlayer, Place
<1>4. /\ ~Before /\ Before' /\ ~Fresh' /\ ~SeekTaken' /\ ~SeekTaken
  BY <1>1, <1>3 DEF Before, Fresh, SeekTaken, StartupPlaces
<1>5. IsIdle BY <1>1 DEF IInv, Quiet
<1>6. States'
  BY <1>1, <1>2, <1>3, <1>4 DEF States, SeekPlaces, StartupPlaces, PlayPlaces
<1>7. NextSong'
  BY <1>1, <1>2, <1>3, <1>4 DEF NextSong, NextDropped
<1>8. asserts' = asserts
  BY <1>1, <1>4 DEF RunStopped, Failed, NextSong
<1> QED BY <1>1, <1>3, <1>4, <1>5, <1>6, <1>7, <1>8, NoPipeStep DEF Safe, AssertionsHold

LEMMA PlayNextChunkSafe ==
  ASSUME Safe, PlayNextChunk PROVE SafetyInv' /\ AssertionsHold'
<1>1. /\ IInv /\ Types /\ States /\ NextSong /\ DecoderSong /\ player \in Players /\ pc \in Controls
      /\ decoder \in Decoders /\ pipe \in Seq(Piece)
      /\ dc.command = "NONE" /\ player.at = "play_chunk" /\ Place = "play_chunk"
      /\ UNCHANGED <<main, dc, next_pipe, asserts>> /\ pipe' = Tail(pipe)
  BY SafeTypes DEF PlayNextChunk, At, Types
<1>2. pipe # <<>> BY <1>1 DEF IInv, Quiet
<1>3. /\ Len(pipe') = Len(pipe) - 1 /\ Len(pipe) \in Nat
      /\ \A i \in 1 .. Len(pipe') : i + 1 \in 1 .. Len(pipe) /\ pipe'[i] = pipe[i + 1]
  BY <1>1, <1>2
<1>4. ~player.paused /\ ~Before /\ pc.state = "PLAY" /\ ~player.seeking /\ ~Fresh
  BY <1>1 DEF States, PlayPlaces, Before, SeekPlaces, StartupPlaces, Fresh, Controls
<1>5. \/ /\ player' = [player EXCEPT !.at = "loop", !.paused = TRUE]
         /\ pc' = [pc EXCEPT !.state = "PAUSE"]
         /\ UNCHANGED decoder
      \/ /\ player' = [player EXCEPT !.at = "loop", !.decoder_woken = DecoderHasRoom]
         /\ UNCHANGED pc /\ (decoder' = decoder \/ decoder' = Woken(decoder))
  BY DEF PlayNextChunk
<1>6. /\ player'.at = "loop" /\ player'.seeking = player.seeking /\ player'.queued = player.queued
      /\ player'.song = player.song /\ player'.decoder_starting = player.decoder_starting
      /\ pc'.next = pc.next /\ pc'.command = pc.command
      /\ pc'.state # "STOP" /\ (pc'.state = "PAUSE" <=> player'.paused)
  BY <1>1, <1>4, <1>5 DEF Players, Controls
<1>7. decoder'.at = decoder.at /\ decoder'.ok = decoder.ok /\ decoder'.chunk = decoder.chunk
  BY <1>1, <1>5 DEF Woken, Decoders
<1>8. Place' = "loop" BY <1>6 DEF Place
<1>9. ~Before' /\ ~Fresh' /\ ~SeekTaken /\ ~SeekTaken' /\ SongOfPipe' = SongOfPipe
  BY <1>4, <1>6, <1>8 DEF Before, Fresh, SeekTaken, SongOfPipe
<1>10. States'
  BY <1>1, <1>4, <1>6, <1>8, <1>9 DEF States, SeekPlaces, StartupPlaces, PlayPlaces
<1>11. NextSong' BY <1>1, <1>4, <1>6, <1>8, <1>9 DEF NextSong
<1>12. DecoderSong'
  BY <1>1, <1>4, <1>6, <1>8, <1>9
     DEF DecoderSong, IsIdle, IsDecoderAtNextSong, IsDecoderAtCurrentSong
<1>13. ChunkSongs'
  <2>1. \A i \in 1 .. Len(pipe) : pipe[i].song = SongOfPipe
    BY DEF Safe, SafetyInv, ChunkSongs
  <2>2. \A i \in 1 .. Len(pipe') : pipe'[i].song = SongOfPipe'
    BY <1>3, <1>9, <2>1
  <2> QED BY <1>1, <1>7, <2>2 DEF Safe, SafetyInv, ChunkSongs
<1>14. Unwritten'
  <2>1. Nothing' = Nothing /\ Wrong' = Wrong BY <1>1, <1>7 DEF Nothing, Wrong
  <2>2. DecoderPipe = <<>> => DecoderPipe' = <<>> BY <1>1, <1>2 DEF DecoderPipe
  <2> QED BY <1>1, <1>7, <2>1, <2>2 DEF Safe, SafetyInv, Unwritten
<1>15. NoneOld'
  <2>1. AllNew(pipe) /\ AllNew(decoder.chunk) /\ AllNew(next_pipe)
    BY <1>1 DEF Safe, SafetyInv, NoneOld
  <2>2. AllNew(pipe') BY <1>3, <2>1 DEF AllNew
  <2> QED BY <1>1, <1>7, <2>1, <2>2 DEF NoneOld
<1> QED BY <1>1, <1>10, <1>11, <1>12, <1>13, <1>14, <1>15 DEF Safe, SafetyInv, AssertionsHold

\* The player passes to the song whose decoder writes to the second pipe.
LEMMA SongBorderSafe ==
  ASSUME Safe, player.at = "no_data", IsDecoderAtNextSong, SongBorder, UNCHANGED <<main, decoder>>
  PROVE  SafetyInv' /\ AssertionsHold'
<1>1. /\ IInv /\ Types /\ States /\ NextSong /\ DecoderSong /\ player \in Players /\ pc \in Controls
      /\ decoder \in Decoders /\ dc \in Decoding
      /\ dc.command = "NONE" /\ Place = "no_data" /\ dc.pipe = "next"
      /\ pipe' = next_pipe /\ next_pipe' = <<>> /\ dc' = [dc EXCEPT !.pipe = "pipe"]
  BY SafeTypes DEF SongBorder, IsDecoderAtNextSong
<1>2. dc'.pipe = "pipe" /\ dc'.command = "NONE" /\ dc'.state = dc.state /\ dc'.song = dc.song
        /\ dc'.seek_error = dc.seek_error
  BY <1>1 DEF Decoding
<1>3. /\ ~player.paused /\ ~Before /\ pc.state = "PLAY" /\ ~player.seeking /\ ~Fresh
      /\ player.queued /\ dc.song = pc.next
      /\ pc.command \notin {"QUEUE", "SEEK"} /\ pc.next # None
  BY <1>1 DEF States, PlayPlaces, Before, SeekPlaces, StartupPlaces, Fresh, Controls,
              NextSong, DecoderSong, IsDecoderAtNextSong
<1>4. asserts' = asserts BY <1>3 DEF SongBorder, Failed
<1>5. DecoderPipe' = DecoderPipe /\ Nothing' = Nothing /\ Wrong' = Wrong
  BY <1>1, <1>2 DEF DecoderPipe, Nothing, Wrong
<1>6. Unwritten'
  BY <1>2, <1>5 DEF Safe, SafetyInv, Unwritten
<1>7. NoneOld'
  <2>1. AllNew(pipe') /\ AllNew(decoder'.chunk)
    BY <1>1 DEF Safe, SafetyInv, NoneOld
  <2>2. AllNew(next_pipe') BY <1>1 DEF AllNew
  <2> QED BY <2>1, <2>2 DEF NoneOld
<1>8. \A i \in 1 .. Len(next_pipe) : next_pipe[i].song = pc.next
  BY <1>3 DEF Safe, SafetyInv, ChunkSongs
<1>9. \A i \in 1 .. Len(decoder'.chunk) : decoder'.chunk[i].song = dc'.song
  BY <1>2 DEF Safe, SafetyInv, ChunkSongs
<1>10. 1 .. Len(next_pipe') = {} BY <1>1
<1>11. CASE dc.state = "ERROR"
  <2>1. /\ player' = [player EXCEPT !.at = "stop", !.queued = FALSE]
        /\ pc' = [pc EXCEPT !.next = None]
    BY <1>11 DEF SongBorder
  <2>2. pc'.command = pc.command /\ pc'.next = None /\ pc'.state = pc.state
    BY <1>1, <2>1 DEF Controls
  <2>3. /\ Place' = "stop" /\ ~player'.queued /\ player'.seeking = player.seeking
        /\ player'.song = player.song /\ player'.paused = player.paused
        /\ player'.decoder_starting = player.decoder_starting
    BY <1>1, <2>1 DEF Place, Players
  <2>4. ~Before' /\ ~Fresh' /\ ~SeekTaken'
    BY <2>3 DEF Before, Fresh, SeekTaken, StartupPlaces
  <2>5. States'
    BY <1>1, <1>3, <2>2, <2>3, <2>4 DEF States, SeekPlaces, StartupPlaces, PlayPlaces
  <2>6. NextSong' BY <1>3, <2>2, <2>3, <2>4 DEF NextSong
  <2>7. DecoderSong'
    BY <1>2, <1>3, <1>11, <2>3, <2>4
       DEF DecoderSong, IsIdle, IsDecoderAtNextSong, IsDecoderAtCurrentSong
  <2>8. ChunkSongs'
    <3>1. next_pipe = <<>>
      BY <1>1, <1>11 DEF Safe, SafetyInv, Unwritten, Nothing, Wrong, DecoderPipe
    <3>2. 1 .. Len(pipe') = {} BY <1>1, <3>1
    <3> QED BY <1>9, <1>10, <3>2 DEF ChunkSongs
  <2> QED BY <1>4, <1>6, <1>7, <2>5, <2>6, <2>7, <2>8 DEF Safe, SafetyInv, AssertionsHold
<1>12. CASE dc.state # "ERROR"
  <2>1. /\ player' = [Started("loop") EXCEPT !.paused = @ \/ pc.border_pause]
        /\ pc' = [pc EXCEPT !.next = None, !.state = IF pc.border_pause THEN "PAUSE" ELSE @]
    BY <1>12 DEF SongBorder
  <2>2. /\ pc'.command = pc.command /\ pc'.next = None
        /\ pc'.state = IF pc.border_pause THEN "PAUSE" ELSE "PLAY"
    BY <1>1, <1>3, <2>1 DEF Controls
  <2>3. /\ Place' = "loop" /\ ~player'.queued /\ player'.seeking = player.seeking
        /\ player'.song = pc.next /\ player'.paused = pc.border_pause /\ player'.decoder_starting
    <3>1. pc.border_pause \in BOOLEAN BY <1>1 DEF Controls
    <3> QED BY <1>1, <1>3, <2>1, <3>1 DEF Place, Players, Started
  <2>4. ~Before' /\ ~Fresh' /\ ~SeekTaken' /\ SongOfPipe' = pc.next
    BY <2>3 DEF Before, Fresh, SeekTaken, StartupPlaces, SongOfPipe
  <2>5. States'
    BY <1>1, <1>3, <2>2, <2>3, <2>4 DEF States, SeekPlaces, StartupPlaces, PlayPlaces
  <2>6. NextSong' BY <1>3, <2>2, <2>3, <2>4 DEF NextSong
  <2>7. DecoderSong'
    BY <1>2, <1>3, <2>3, <2>4
       DEF DecoderSong, IsIdle, IsDecoderAtNextSong, IsDecoderAtCurrentSong
  <2>8. ChunkSongs'
    <3>1. \A i \in 1 .. Len(pipe') : pipe'[i].song = SongOfPipe'
      BY <1>1, <1>8, <2>4
    <3> QED BY <1>9, <1>10, <3>1 DEF ChunkSongs
  <2> QED BY <1>4, <1>6, <1>7, <2>5, <2>6, <2>7, <2>8 DEF Safe, SafetyInv, AssertionsHold
<1> QED BY <1>11, <1>12

LEMMA NoDataSafe ==
  ASSUME Safe, NoData PROVE SafetyInv' /\ AssertionsHold'
<1>1. Types /\ player \in Players /\ player.at = "no_data" /\ UNCHANGED main
  BY SafeTypes DEF NoData, At
<1>2. player.at \notin Special \cup {"await"} /\ ~player.seeking
  BY <1>1, NotSeeking DEF Special, SeekPlaces, StartupPlaces
<1>3. {"data_wait", "loop", "stop"} \subseteq Plain
  BY DEF Plain, Places, Special, SeekPlaces, PlayPlaces
<1>4. ASSUME NEW place \in {"data_wait", "loop", "stop"},
             Goto(place) \/ WaitForDecoder(place) \/ Wait(place),
             UNCHANGED <<pc, dc, pipe, next_pipe, asserts>>,
             decoder' = decoder \/ decoder' = Woken(decoder)
      PROVE  SafetyInv' /\ AssertionsHold'
  BY <1>1, <1>2, <1>3, <1>4, WanderTo DEF Plain
<1>5. CASE /\ IF Windows THEN Goto("data_wait") /\ UNCHANGED decoder ELSE DataWait
           /\ UNCHANGED <<pc, dc, pipe, next_pipe, asserts>>
  BY <1>4, <1>5 DEF DataWait
<1>6. CASE IsDecoderAtNextSong /\ SongBorder /\ UNCHANGED decoder
  BY <1>1, <1>6, SongBorderSafe
<1>7. CASE (Goto("stop") \/ Goto("loop")) /\ UNCHANGED <<pc, dc, decoder, pipe, next_pipe, asserts>>
  BY <1>4, <1>7
<1>8. CASE /\ SendSilence([player EXCEPT !.at = "loop"])
           /\ UNCHANGED <<pc, dc, decoder, pipe, next_pipe, asserts>>
  <2> DEFINE p == [player EXCEPT !.at = "loop"]
  <2>1. /\ p \in Players /\ p.at = "loop" /\ p.seeking = player.seeking /\ p.queued = player.queued
        /\ p.song = player.song /\ p.paused = player.paused
        /\ p.decoder_starting = player.decoder_starting
    BY <1>1 DEF Players, Places
  <2>2. SendSilence(p) BY <1>8
  <2> HIDE DEF p
  <2> QED BY <1>1, <1>2, <1>3, <1>8, <2>1, <2>2, WanderSilence
<1> QED BY <1>5, <1>6, <1>7, <1>8 DEF NoData

-----------------------------------------------------------------------------
(* The decoder thread.                                                     *)

\* The decoder may wake the player, and leaves the rest of it alone.
Aside ==
  /\ UNCHANGED <<main, pc>> /\ SamePlayer /\ Place' = Place
  /\ dc'.song = dc.song /\ dc'.pipe = dc.pipe

LEMMA AsideIs ==
  ASSUME Safe, UNCHANGED <<main, pc>>, player' = player \/ player' = Woken(player)
  PROVE  SamePlayer /\ Place' = Place
BY SafeTypes, PlaceStep DEF SignalPlayer

LEMMA AsideKeeps ==
  ASSUME Safe, Aside
  PROVE  /\ States' /\ NextSong' /\ SongOfPipe' = SongOfPipe /\ (SeekTaken' <=> SeekTaken)
         /\ (Fresh' <=> Fresh) /\ (Before' <=> Before)
<1>1. States /\ NextSong BY SafeTypes
<1>2. SongOfPipe' = SongOfPipe /\ (SeekTaken' <=> SeekTaken) /\ (Fresh' <=> Fresh) /\ (Before' <=> Before)
  BY DEF Aside, SamePlayer, SongOfPipe, SeekTaken, Fresh, Before
<1>3. States' BY <1>1, <1>2 DEF Aside, SamePlayer, States
<1>4. NextSong' BY <1>1, <1>2 DEF Aside, SamePlayer, NextSong
<1> QED BY <1>2, <1>3, <1>4

\* The decoder goes on in its song, with the chunks as they are.
LEMMA AsideCalm ==
  ASSUME Safe, Aside, UNCHANGED <<dc, pipe, next_pipe>>, decoder'.chunk = decoder.chunk,
         Nothing' => Nothing, Wrong' => Wrong, asserts' = asserts
  PROVE  SafetyInv' /\ AssertionsHold'
<1>1. Calm BY DEF Calm
<1>2. pc'.next = pc.next /\ pc'.command = pc.command /\ pc'.state = pc.state
  BY DEF Aside
<1> QED BY <1>1, <1>2, WanderStay DEF Aside

\* The parts of the invariant that a decoder that finishes a command has to keep.
LEMMA AsideStep ==
  ASSUME Safe, Aside, asserts' = asserts,
         dc'.command \in {dc.command, "NONE"},
         dc.pipe = "null" => IsIdle' /\ dc'.command = "NONE",
         ~IsIdle' /\ IsDecoderAtCurrentSong => dc.song = SongOfPipe,
         dc'.command = "START" => IsIdle',
         ChunkSongs', Unwritten', NoneOld'
  PROVE  SafetyInv' /\ AssertionsHold'
<1>1. /\ States' /\ NextSong' /\ SongOfPipe' = SongOfPipe /\ (SeekTaken' <=> SeekTaken)
      /\ (Fresh' <=> Fresh) /\ (Before' <=> Before)
  BY AsideKeeps
<1>2. (IsDecoderAtNextSong' <=> IsDecoderAtNextSong)
        /\ (IsDecoderAtCurrentSong' <=> IsDecoderAtCurrentSong)
  BY DEF Aside, IsDecoderAtNextSong, IsDecoderAtCurrentSong
<1>3. DecoderSong'
  BY <1>1, <1>2, SafeTypes DEF DecoderSong, Aside, SamePlayer
<1> QED BY <1>1, <1>3 DEF Safe, SafetyInv, AssertionsHold

\* Chunks are kept, or returned: what is left is as before.
Fewer ==
  /\ pipe' = pipe \/ pipe' = <<>>
  /\ next_pipe' = next_pipe \/ next_pipe' = <<>>
  /\ decoder'.chunk = decoder.chunk \/ decoder'.chunk = <<>>

LEMMA FewerIs ==
  ASSUME Safe, Aside, Fewer
  PROVE  /\ ChunkSongs' /\ AllNew(next_pipe')
         /\ AllNew(pipe) => AllNew(pipe')
         /\ AllNew(decoder.chunk) => AllNew(decoder'.chunk)
<1>1. 1 .. Len(<<>>) = {} OBVIOUS
<1>2. ChunkSongs'
  BY <1>1, AsideKeeps DEF ChunkSongs, Safe, SafetyInv, Fewer, Aside
<1>3. AllNew(<<>>) BY <1>1 DEF AllNew
<1>4. AllNew(next_pipe) BY DEF Safe, SafetyInv, NoneOld
<1> HIDE DEF AllNew
<1> QED BY <1>2, <1>3, <1>4 DEF Fewer

\* What a decoder that has a song may rely on.
LEMMA Decodes ==
  ASSUME Safe, ~IsIdle
  PROVE  /\ dc.pipe \in {"pipe", "next"} /\ dc.command # "START" /\ decoder.at # "task"
         /\ dc.pipe = "pipe" => dc.song = SongOfPipe
         /\ dc.pipe = "next" => AllNew(decoder.chunk)
<1>1. DecoderSong /\ States /\ dc \in Decoding /\ IInv BY SafeTypes
<1>2. dc.pipe \in {"pipe", "next"} /\ dc.command # "START" /\ decoder.at # "task"
  BY <1>1 DEF DecoderSong, Decoding, IInv, DecoderPlace
<1>3. dc.pipe = "pipe" => dc.song = SongOfPipe
  BY <1>1 DEF DecoderSong, IsDecoderAtCurrentSong
<1>4. Place = "seek_done" => dc.pipe = "pipe"
  BY <1>1 DEF DecoderSong, SeekTaken, States, SeekPlaces
<1> QED BY <1>2, <1>3, <1>4 DEF Safe, SafetyInv, NoneOld

\* The seek that the decoder obeys is one in the song that is played.
LEMMA SeekIs ==
  ASSUME Safe, dc.command = "SEEK"
  PROVE  Place = "seek_done" /\ dc.pipe = "pipe" /\ dc.song = SongOfPipe
<1>1. Place = "seek_done" /\ player.seeking
  BY SafeTypes DEF DecoderSong, States, SeekPlaces
<1>2. ~Fresh BY <1>1 DEF Fresh
<1> QED BY <1>1, <1>2, SafeTypes DEF DecoderSong, SeekTaken, SongOfPipe

LEMMA ClearedIs ==
  ASSUME ClearDecoderPipe, dc'.pipe = dc.pipe
  PROVE  /\ pipe' = pipe \/ pipe' = <<>>
         /\ next_pipe' = next_pipe \/ next_pipe' = <<>>
         /\ DecoderPipe' = <<>> /\ (dc.pipe # "next" => pipe' = <<>>)
BY DEF ClearDecoderPipe, DecoderPipe, IsDecoderAtNextSong

LEMMA DecoderTaskSafe ==
  ASSUME Safe, DecoderTask PROVE SafetyInv' /\ AssertionsHold'
<1>1. /\ IInv /\ DecoderSong /\ dc \in Decoding /\ decoder \in Decoders
      /\ decoder.at = "task" /\ IsIdle /\ decoder.chunk = <<>>
      /\ UNCHANGED <<main, pc, asserts>>
  BY SafeTypes DEF DecoderTask, DecoderAt, IInv, DecoderPlace
<1>2. SamePlayer /\ Place' = Place
  BY <1>1, AsideIs DEF DecoderTask, SignalPlayer
<1>3. CASE decoder' = [decoder EXCEPT !.asleep = "signal"] /\ UNCHANGED <<dc, pipe, next_pipe>>
  <2>1. decoder'.at = decoder.at /\ decoder'.ok = decoder.ok /\ decoder'.chunk = decoder.chunk
    BY <1>1, <1>3 DEF Decoders
  <2> QED BY <1>1, <1>2, <1>3, <2>1, AsideCalm DEF Aside, Nothing, Wrong
<1>4. CASE dc.command = "STOP" /\ dc' = DecoderFinished(dc) /\ UNCHANGED <<decoder, pipe, next_pipe>>
  <2>1. /\ dc'.command = "NONE" /\ dc'.state = dc.state /\ dc'.song = dc.song /\ dc'.pipe = dc.pipe
        /\ dc'.seek_error = dc.seek_error
    BY <1>1, <1>4 DEF DecoderFinished, Decoding
  <2>2. Aside BY <1>1, <1>2, <2>1 DEF Aside
  <2>3. IsIdle' BY <1>1, <2>1 DEF IsIdle
  <2>4. /\ ChunkSongs' /\ AllNew(next_pipe') /\ (AllNew(pipe) => AllNew(pipe'))
        /\ (AllNew(decoder.chunk) => AllNew(decoder'.chunk))
    BY <1>4, <2>2, FewerIs DEF Fewer
  <2>5. Unwritten'
    <3>1. Nothing' = Nothing /\ Wrong' = Wrong /\ DecoderPipe' = DecoderPipe
      BY <1>4, <2>1 DEF Nothing, Wrong, DecoderPipe
    <3> QED BY <1>4, <2>1, <3>1 DEF Safe, SafetyInv, Unwritten
  <2>6. NoneOld'
    BY <1>2, <1>4, <2>1, <2>4 DEF Safe, SafetyInv, NoneOld
  <2> QED BY <1>1, <2>1, <2>2, <2>3, <2>4, <2>5, <2>6, AsideStep
<1>5. CASE /\ dc.command \in {"START", "SEEK"}
           /\ IF dc.command = "SEEK" THEN ClearDecoderPipe ELSE UNCHANGED <<pipe, next_pipe, free>>
           /\ \/ /\ dc' = [DecoderFinished(dc) EXCEPT !.state = "START"]
                 /\ DecoderGoto("init")
              \/ /\ dc.song \in Bad
                 /\ dc' = [DecoderFinished(dc) EXCEPT !.state = "ERROR"]
                 /\ UNCHANGED decoder
  <2>1. /\ dc'.command = "NONE" /\ dc'.song = dc.song /\ dc'.pipe = dc.pipe
        /\ decoder'.chunk = <<>> /\ dc'.seek_error = dc.seek_error
        /\ \/ dc'.state = "START" /\ decoder'.at = "init"
           \/ dc'.state = "ERROR" /\ decoder'.at = "task" /\ dc.song \in Bad
    <3>1. CASE dc' = [DecoderFinished(dc) EXCEPT !.state = "START"] /\ DecoderGoto("init")
      BY <1>1, <3>1 DEF DecoderFinished, DecoderGoto, Decoding, Decoders
    <3>2. CASE /\ dc.song \in Bad /\ dc' = [DecoderFinished(dc) EXCEPT !.state = "ERROR"]
               /\ UNCHANGED decoder
      BY <1>1, <3>2 DEF DecoderFinished, Decoding
    <3> QED BY <1>5, <3>1, <3>2
  <2>2. Aside BY <1>1, <1>2, <2>1 DEF Aside
  <2>3. Fewer
    BY <1>1, <1>5, <2>1, ClearedIs DEF Fewer
  <2>4. DecoderPipe' = <<>>
    <3>1. CASE dc.command = "SEEK" BY <1>5, <2>1, <3>1, ClearedIs
    <3>2. CASE dc.command = "START"
      <4>1. DecoderPipe = <<>> BY <3>2 DEF Safe, SafetyInv, Unwritten, Nothing
      <4> QED BY <1>5, <2>1, <3>2, <4>1 DEF DecoderPipe
    <3> QED BY <1>5, <3>1, <3>2
  <2>5. Unwritten'
    BY <2>1, <2>4 DEF Unwritten, Wrong
  <2>6. NoneOld'
    <3>1. AllNew(<<>>) BY DEF AllNew
    <3>2. AllNew(next_pipe') BY <2>2, <2>3, FewerIs
    <3>3. AllNew(pipe')
      <4>1. CASE dc.command = "SEEK"
        <5>1. pipe' = <<>> BY <1>5, <2>1, <4>1, SeekIs, ClearedIs
        <5> QED BY <3>1, <5>1
      <4>2. CASE dc.command = "START"
        <5>1. Place # "seek_done" BY <1>1, <4>2 DEF DecoderSong, Fresh
        <5>2. AllNew(pipe) BY <5>1 DEF Safe, SafetyInv, NoneOld
        <5> QED BY <2>2, <2>3, <5>2, FewerIs
      <4> QED BY <1>5, <4>1, <4>2
    <3> QED BY <2>1, <3>1, <3>2, <3>3 DEF NoneOld
  <2>7. dc.pipe # "null" /\ (IsDecoderAtCurrentSong => dc.song = SongOfPipe)
    <3>1. CASE dc.command = "SEEK" BY <3>1, SeekIs
    <3>2. CASE dc.command = "START"
      BY <1>1, <3>2 DEF DecoderSong, SongOfPipe, IsDecoderAtNextSong, IsDecoderAtCurrentSong
    <3> QED BY <1>5, <3>1, <3>2
  <2> QED BY <1>1, <2>1, <2>2, <2>3, <2>5, <2>6, <2>7, FewerIs, AsideStep
<1> QED BY <1>3, <1>4, <1>5 DEF DecoderTask

LEMMA DecoderInitializedSafe ==
  ASSUME Safe, DecoderInitialized PROVE SafetyInv' /\ AssertionsHold'
<1>1. /\ IInv /\ dc \in Decoding /\ decoder \in Decoders /\ decoder.at = "init" /\ ~IsIdle
      /\ UNCHANGED <<main, pc, pipe, next_pipe>>
  BY SafeTypes DEF DecoderInitialized, DecoderAt, IInv, DecoderPlace
<1>2. SamePlayer /\ Place' = Place
  BY <1>1, AsideIs DEF DecoderInitialized, SignalPlayer
<1>3. Nothing /\ DecoderPipe = <<>> /\ decoder.chunk = <<>>
  BY <1>1 DEF Nothing, Safe, SafetyInv, Unwritten
<1>4. asserts' = asserts BY <1>3 DEF DecoderInitialized, Failed
<1>5. CASE dc' = [dc EXCEPT !.state = "DECODE"] /\ DecoderGoto("decode")
  <2>1. /\ dc'.command = dc.command /\ dc'.state = "DECODE" /\ dc'.song = dc.song
        /\ dc'.pipe = dc.pipe /\ dc'.seek_error = dc.seek_error
    BY <1>1, <1>5 DEF Decoding
  <2>2. decoder'.at = "decode" /\ decoder'.chunk = decoder.chunk
    BY <1>1, <1>5 DEF DecoderGoto, Decoders
  <2>3. Aside BY <1>1, <1>2, <2>1 DEF Aside
  <2>4. /\ ChunkSongs' /\ AllNew(next_pipe') /\ (AllNew(pipe) => AllNew(pipe'))
        /\ (AllNew(decoder.chunk) => AllNew(decoder'.chunk))
    BY <1>1, <2>2, <2>3, FewerIs DEF Fewer
  <2>5. Unwritten'
    BY <1>1, <2>1, <2>2, Decodes DEF Unwritten, Nothing, Wrong
  <2>6. NoneOld'
    BY <1>2, <2>1, <2>4 DEF Safe, SafetyInv, NoneOld
  <2>7. ~IsIdle' BY <2>1 DEF IsIdle
  <2> QED BY <1>1, <1>4, <2>1, <2>3, <2>4, <2>5, <2>6, <2>7, Decodes, AsideStep
       DEF IsDecoderAtCurrentSong
<1>6. CASE /\ dc.song \in Bad \/ dc.command = "STOP"
           /\ decoder' = [decoder EXCEPT !.at = "end", !.ok = dc.command = "STOP"]
           /\ UNCHANGED dc
  <2>1. /\ decoder'.at = "end" /\ decoder'.chunk = decoder.chunk
        /\ ~decoder'.ok => dc.song \in Bad
    BY <1>1, <1>6 DEF Decoders
  <2>2. Aside BY <1>1, <1>2, <1>6 DEF Aside
  <2>3. /\ ChunkSongs' /\ AllNew(next_pipe') /\ (AllNew(pipe) => AllNew(pipe'))
        /\ (AllNew(decoder.chunk) => AllNew(decoder'.chunk))
    BY <1>1, <2>1, <2>2, FewerIs DEF Fewer
  <2>4. Unwritten'
    <3>1. DecoderPipe' = <<>> BY <1>1, <1>3, <1>6 DEF DecoderPipe
    <3>2. Wrong' => dc'.song \in Bad
      BY <1>1, <1>6, <2>1 DEF Wrong, IsIdle
    <3> QED BY <1>3, <2>1, <3>1, <3>2 DEF Unwritten
  <2>5. NoneOld'
    BY <1>2, <1>6, <2>3 DEF Safe, SafetyInv, NoneOld
  <2>6. ~IsIdle' BY <1>1, <1>6 DEF IsIdle
  <2> QED BY <1>1, <1>4, <1>6, <2>2, <2>3, <2>4, <2>5, <2>6, Decodes, AsideStep
       DEF IsDecoderAtCurrentSong
<1> QED BY <1>5, <1>6 DEF DecoderInitialized

LEMMA DecoderCommandSafe ==
  ASSUME Safe, DecoderCommand PROVE SafetyInv' /\ AssertionsHold'
<1>1. /\ IInv /\ dc \in Decoding /\ decoder \in Decoders /\ decoder.at = "decode" /\ ~IsIdle
      /\ UNCHANGED <<main, pc, asserts>>
  BY SafeTypes DEF DecoderCommand, DecoderAt, IInv, DecoderPlace
<1>2. SamePlayer /\ Place' = Place
  BY <1>1, AsideIs DEF DecoderCommand, SignalPlayer
<1>3. CASE DecoderGoto("data") /\ UNCHANGED <<dc, pipe, next_pipe>>
  <2>1. decoder'.at = "data" /\ decoder'.chunk = decoder.chunk
    BY <1>1, <1>3 DEF DecoderGoto, Decoders
  <2> QED BY <1>1, <1>2, <1>3, <2>1, AsideCalm DEF Aside, Nothing, Wrong
<1>4. CASE /\ dc.command = "SEEK"
           /\ \/ /\ ClearDecoderPipe
                 /\ decoder' = [decoder EXCEPT !.chunk = <<>>]
                 /\ dc' = DecoderFinished(dc)
              \/ /\ dc' = [DecoderFinished(dc) EXCEPT !.seek_error = TRUE]
                 /\ UNCHANGED <<decoder, pipe, next_pipe>>
  <2>1. dc'.command = "NONE" /\ dc'.state = dc.state /\ dc'.song = dc.song /\ dc'.pipe = dc.pipe
    BY <1>1, <1>4 DEF DecoderFinished, Decoding
  <2>2. decoder'.at = "decode" BY <1>1, <1>4 DEF Decoders
  <2>3. \/ pipe' = <<>> /\ decoder'.chunk = <<>> /\ (next_pipe' = next_pipe \/ next_pipe' = <<>>)
        \/ dc'.seek_error /\ UNCHANGED <<pipe, next_pipe>> /\ decoder'.chunk = decoder.chunk
    <3>1. CASE ClearDecoderPipe /\ decoder' = [decoder EXCEPT !.chunk = <<>>]
      <4>1. decoder'.chunk = <<>> BY <1>1, <3>1 DEF Decoders
      <4> QED BY <1>4, <2>1, <3>1, <4>1, SeekIs, ClearedIs
    <3>2. CASE /\ dc' = [DecoderFinished(dc) EXCEPT !.seek_error = TRUE]
               /\ UNCHANGED <<decoder, pipe, next_pipe>>
      BY <1>1, <3>2 DEF DecoderFinished, Decoding
    <3> QED BY <1>4, <3>1, <3>2
  <2>4. Aside BY <1>1, <1>2, <2>1 DEF Aside
  <2>5. ChunkSongs' /\ AllNew(next_pipe')
    BY <2>3, <2>4, FewerIs DEF Fewer
  <2>6. ~IsIdle' BY <1>1, <2>1 DEF IsIdle
  <2>7. Unwritten'
    BY <2>1, <2>2, <2>6 DEF Unwritten, Nothing, Wrong, IsIdle
  <2>8. NoneOld'
    <3>1. AllNew(<<>>) BY DEF AllNew
    <3> QED BY <1>2, <1>4, <2>3, <2>5, <3>1, SeekIs DEF NoneOld
  <2> QED BY <1>1, <1>4, <2>1, <2>4, <2>5, <2>6, <2>7, <2>8, Decodes, AsideStep
       DEF IsDecoderAtCurrentSong
<1> QED BY <1>3, <1>4 DEF DecoderCommand

LEMMA DecoderWaitsSafe ==
  ASSUME Safe, NeedChunks \/ NeededChunks \/ DecoderEnds PROVE SafetyInv' /\ AssertionsHold'
<1>1. /\ IInv /\ decoder \in Decoders /\ decoder.at \in {"need", "needed", "decode", "data"} /\ ~IsIdle
      /\ UNCHANGED <<main, pc, player, dc, pipe, next_pipe, asserts>>
  BY SafeTypes DEF NeedChunks, NeededChunks, DecoderEnds, DecoderAt, IInv, DecoderPlace
<1>2. SamePlayer /\ Place' = Place BY <1>1, AsideIs
<1>3. /\ decoder'.chunk = decoder.chunk
      /\ decoder'.at \in {"needed", "data", "decode"} \/ (decoder'.at = "end" /\ decoder'.ok)
  <2>1. CASE NeedChunks
    BY <1>1, <2>1 DEF NeedChunks, Decoders
  <2>2. CASE NeededChunks
    BY <1>1, <2>2 DEF NeededChunks, DecoderGoto, Decoders
  <2>3. CASE DecoderEnds
    BY <1>1, <2>3 DEF DecoderEnds, Decoders
  <2> QED BY <2>1, <2>2, <2>3
<1> QED BY <1>1, <1>2, <1>3, AsideCalm DEF Aside, Nothing, Wrong

\* The decoder's chunk goes to the pipe of its song.
LEMMA FlushStep ==
  ASSUME Safe, ~IsIdle, ~Wrong, decoder.at # "init", FlushChunk,
         UNCHANGED <<main, pc, dc, asserts>>,
         decoder'.chunk = <<>>, ~Nothing'
  PROVE  SafetyInv' /\ AssertionsHold'
<1>1. /\ IInv /\ pipe \in Seq(Piece) /\ next_pipe \in Seq(Piece) /\ decoder.chunk \in Seq(Piece)
  BY SafeTypes, Numbers DEF Types
<1>2. SamePlayer /\ Place' = Place
  BY AsideIs DEF FlushChunk, SignalPlayer
<1>3. Aside BY <1>2 DEF Aside
<1>4. /\ dc.pipe \in {"pipe", "next"} /\ dc.command # "START"
      /\ dc.pipe = "pipe" => dc.song = SongOfPipe
      /\ dc.pipe = "next" => AllNew(decoder.chunk)
  BY Decodes
<1>5. \A s \in Seq(Piece) : \A i \in 1 .. Len(s \o decoder.chunk) :
        \/ i \in 1 .. Len(s) /\ (s \o decoder.chunk)[i] = s[i]
        \/ \E j \in 1 .. Len(decoder.chunk) : (s \o decoder.chunk)[i] = decoder.chunk[j]
  <2> SUFFICES ASSUME NEW s \in Seq(Piece), NEW i \in 1 .. Len(s \o decoder.chunk), i \notin 1 .. Len(s)
               PROVE  \E j \in 1 .. Len(decoder.chunk) : (s \o decoder.chunk)[i] = decoder.chunk[j]
    BY <1>1
  <2>1. i - Len(s) \in 1 .. Len(decoder.chunk) /\ (s \o decoder.chunk)[i] = decoder.chunk[i - Len(s)]
    BY <1>1
  <2> QED BY <2>1
<1>6. SongOfPipe' = SongOfPipe BY <1>3, AsideKeeps
<1>7. ChunkSongs /\ NoneOld BY DEF Safe, SafetyInv
<1>8. 1 .. Len(decoder'.chunk) = {} /\ AllNew(decoder'.chunk)
  BY DEF AllNew
<1>9. ChunkSongs' /\ AllNew(next_pipe') /\ (AllNew(pipe) /\ AllNew(decoder.chunk) => AllNew(pipe'))
  <2>1. CASE IsDecoderAtNextSong
    <3>1. next_pipe' = next_pipe \o decoder.chunk /\ pipe' = pipe
      BY <2>1 DEF FlushChunk
    <3>2. \A i \in 1 .. Len(next_pipe') : next_pipe'[i].song = dc.song
      BY <1>1, <1>5, <1>7, <3>1 DEF ChunkSongs
    <3>3. AllNew(next_pipe')
      BY <1>1, <1>4, <1>5, <1>7, <2>1, <3>1 DEF AllNew, NoneOld, IsDecoderAtNextSong
    <3>4. ChunkSongs' BY <1>6, <1>7, <1>8, <3>1, <3>2 DEF ChunkSongs
    <3> QED BY <3>1, <3>3, <3>4
  <2>2. CASE ~IsDecoderAtNextSong
    <3>1. pipe' = pipe \o decoder.chunk /\ next_pipe' = next_pipe
      BY <2>2 DEF FlushChunk
    <3>2. \A i \in 1 .. Len(pipe') : pipe'[i].song = SongOfPipe
      BY <1>1, <1>4, <1>5, <1>7, <2>2, <3>1 DEF ChunkSongs, IsDecoderAtNextSong
    <3>3. AllNew(pipe) /\ AllNew(decoder.chunk) => AllNew(pipe')
      BY <1>1, <1>5, <3>1, ZenonT(60) DEF AllNew
    <3>4. ChunkSongs' BY <1>6, <1>7, <1>8, <3>1, <3>2 DEF ChunkSongs
    <3> QED BY <1>7, <3>1, <3>3, <3>4 DEF NoneOld
  <2> QED BY <2>1, <2>2
<1>10. Unwritten'
  BY DEF Unwritten, Nothing
<1>11. NoneOld'
  BY <1>2, <1>7, <1>8, <1>9 DEF NoneOld
<1>12. ~IsIdle' BY DEF IsIdle
<1> QED BY <1>3, <1>4, <1>9, <1>10, <1>11, <1>12, AsideStep DEF IsDecoderAtCurrentSong

LEMMA DecoderDataSafe ==
  ASSUME Safe, DecoderData PROVE SafetyInv' /\ AssertionsHold'
<1>1. /\ IInv /\ decoder \in Decoders /\ decoder.at = "data" /\ ~IsIdle
      /\ UNCHANGED <<main, pc, dc, asserts>>
  BY SafeTypes DEF DecoderData, DecoderAt, IInv, DecoderPlace
<1>2. ~Wrong /\ ~Nothing /\ dc.command # "START"
  BY <1>1, Decodes DEF Wrong, Nothing, IsIdle
<1>3. CASE decoder.chunk # <<>>
  <2>1. FlushChunk /\ decoder' = [decoder EXCEPT !.at = "decode", !.chunk = <<>>]
    BY <1>3 DEF DecoderData
  <2>2. decoder'.at = "decode" /\ decoder'.chunk = <<>>
    BY <1>1, <2>1 DEF Decoders
  <2>3. ~Nothing' BY <1>1, <1>2, <2>2 DEF Nothing, Wrong, IsIdle
  <2> QED BY <1>1, <1>2, <2>1, <2>2, <2>3, FlushStep
<1>4. CASE decoder.chunk = <<>>
  <2>1. UNCHANGED <<player, pipe, next_pipe>> BY <1>4 DEF DecoderData
  <2>2. SamePlayer /\ Place' = Place BY <1>1, <2>1, AsideIs
  <2>3. Aside BY <1>1, <2>2 DEF Aside
  <2>4. CASE free > 0
    <3> DEFINE c == [song |-> dc.song, old |-> FALSE]
    <3>1. decoder' = [decoder EXCEPT !.at = "decode", !.chunk = <<c>>]
      BY <1>4, <2>4 DEF DecoderData
    <3>2. decoder'.at = "decode" /\ decoder'.chunk = <<c>>
      BY <1>1, <3>1 DEF Decoders
    <3>3. \A i \in 1 .. Len(decoder'.chunk) : decoder'.chunk[i].song = dc.song /\ ~decoder'.chunk[i].old
      BY <3>2
    <3>4. AllNew(decoder'.chunk) BY <3>3 DEF AllNew
    <3>5. ChunkSongs'
      BY <1>1, <2>1, <2>3, <3>3, AsideKeeps DEF Safe, SafetyInv, ChunkSongs
    <3>6. ~Nothing' /\ ~Wrong' BY <1>1, <1>2, <3>2 DEF Nothing, Wrong, IsIdle
    <3>7. Unwritten' BY <3>6 DEF Unwritten
    <3>8. NoneOld'
      BY <1>1, <2>1, <2>2, <3>4 DEF Safe, SafetyInv, NoneOld
    <3>9. ~IsIdle' BY <1>1 DEF IsIdle
    <3> QED BY <1>1, <2>3, <3>5, <3>7, <3>8, <3>9, Decodes, AsideStep DEF IsDecoderAtCurrentSong
  <2>5. CASE ~(free > 0)
    <3>1. DecoderGoto("need") BY <1>4, <2>5 DEF DecoderData
    <3>2. decoder'.at = "need" /\ decoder'.chunk = decoder.chunk
      BY <1>1, <3>1 DEF DecoderGoto, Decoders
    <3> QED BY <1>1, <2>1, <2>3, <3>2, AsideCalm DEF Nothing, Wrong
  <2> QED BY <2>4, <2>5
<1> QED BY <1>3, <1>4

LEMMA DecoderEndSafe ==
  ASSUME Safe, DecoderFlushesLast \/ DecoderEnded PROVE SafetyInv' /\ AssertionsHold'
<1>1. /\ IInv /\ decoder \in Decoders /\ dc \in Decoding /\ decoder.at = "end" /\ ~IsIdle
      /\ UNCHANGED <<main, pc, asserts>>
  BY SafeTypes DEF DecoderFlushesLast, DecoderEnded, DecoderAt, IInv, DecoderPlace
<1>2. dc.command # "START" /\ dc.pipe # "null" BY <1>1, Decodes
<1>3. CASE DecoderFlushesLast
  <2>1. FlushChunk /\ decoder' = [decoder EXCEPT !.chunk = <<>>] /\ decoder.chunk # <<>> /\ dc' = dc
    BY <1>3 DEF DecoderFlushesLast
  <2>2. decoder'.at = "end" /\ decoder'.chunk = <<>> /\ decoder'.ok = decoder.ok
    BY <1>1, <2>1 DEF Decoders
  <2>3. ~Nothing BY <2>1 DEF Safe, SafetyInv, Unwritten
  <2>4. ~Nothing' /\ ~Wrong BY <1>1, <2>1, <2>2, <2>3 DEF Nothing, Wrong
  <2> QED BY <1>1, <2>1, <2>2, <2>4, FlushStep
<1>4. CASE DecoderEnded
  <2>1. /\ dc' = [dc EXCEPT !.state = IF decoder.ok THEN "STOP" ELSE "ERROR"]
        /\ decoder' = [decoder EXCEPT !.at = "task", !.ok = TRUE]
        /\ decoder.chunk = <<>> /\ UNCHANGED <<pipe, next_pipe>> /\ SignalPlayer
    BY <1>4 DEF DecoderEnded
  <2>2. /\ dc'.command = dc.command /\ dc'.song = dc.song /\ dc'.pipe = dc.pipe
        /\ dc'.seek_error = dc.seek_error /\ dc'.state = IF decoder.ok THEN "STOP" ELSE "ERROR"
    BY <1>1, <2>1 DEF Decoding
  <2>3. decoder'.at = "task" /\ decoder'.chunk = decoder.chunk
    BY <1>1, <2>1 DEF Decoders
  <2>4. Aside BY <1>1, <2>1, <2>2, AsideIs DEF Aside, SignalPlayer
  <2>5. /\ ChunkSongs' /\ AllNew(next_pipe') /\ (AllNew(pipe) => AllNew(pipe'))
        /\ (AllNew(decoder.chunk) => AllNew(decoder'.chunk))
    BY <2>1, <2>3, <2>4, FewerIs DEF Fewer
  <2>6. Unwritten'
    <3>1. (Nothing' => Wrong) /\ (Wrong' => Wrong)
      BY <1>1, <1>2, <2>2, <2>3 DEF Nothing, Wrong
    <3>2. DecoderPipe' = DecoderPipe BY <2>1, <2>2 DEF DecoderPipe
    <3> QED BY <2>2, <2>3, <3>1, <3>2 DEF Safe, SafetyInv, Unwritten, Nothing
  <2>7. NoneOld'
    BY <2>2, <2>4, <2>5 DEF Safe, SafetyInv, NoneOld, Aside
  <2>8. IsIdle' BY <2>2 DEF IsIdle
  <2> QED BY <1>1, <1>2, <2>2, <2>4, <2>5, <2>6, <2>7, <2>8, AsideStep
<1> QED BY <1>3, <1>4

-----------------------------------------------------------------------------
(* The theorems.                                                           *)

LEMMA SafeInit == Init => Safe
<1> SUFFICES ASSUME Init PROVE Safe
  OBVIOUS
<1>1. Place = "task" /\ player.at = "task" /\ ~Fresh /\ Before /\ ~SeekTaken
  BY DEF Init, NewPlayer, Place, Fresh, Before, SeekTaken
<1>2. IsIdle /\ ~IsDecoderAtNextSong /\ ~IsDecoderAtCurrentSong
  BY DEF Init, IsIdle, IsDecoderAtNextSong, IsDecoderAtCurrentSong
<1>3. ~Wrong /\ ~Nothing
  BY DEF Init, Wrong, Nothing
<1>4. 1 .. Len(<<>>) = {}
  OBVIOUS
<1>5. pipe = <<>> /\ next_pipe = <<>> /\ decoder.chunk = <<>>
  BY DEF Init
<1>6. States /\ NextSong
  BY <1>1 DEF Init, NewPlayer, States, NextSong, SeekPlaces, PlayPlaces
<1>7. DecoderSong
  BY <1>1, <1>2 DEF Init, NewPlayer, DecoderSong
<1>8. ChunkSongs /\ Unwritten /\ NoneOld
  BY <1>3, <1>4, <1>5 DEF ChunkSongs, Unwritten, NoneOld, AllNew
<1>9. AssertionsHold
  BY DEF Init, AssertionsHold
<1> QED BY <1>6, <1>7, <1>8, <1>9, IndInit DEF Safe, SafetyInv

LEMMA PlayerStepsSafe ==
  ASSUME Safe, PlayerSteps PROVE SafetyInv' /\ AssertionsHold'
<1>1. CASE Task \/ Run \/ Await \/ RunStarted
  BY <1>1, TaskSafe, RunSafe, WanderOthers, RunStartedSafe
<1>2. CASE ProcessCommand \/ CommandStop \/ CommandCancel \/ Cancelled
  BY <1>2, ProcessCommandSafe, CommandStopSafe, StopsSafe, CancelledSafe
<1>3. CASE SeekSong \/ SeekRestarts \/ SeekStarted \/ SeekDecoder \/ SeekDone
  BY <1>3, SeekSongSafe, SeekRestartsSafe, SeekStartedSafe, SeekDecoderSafe, SeekDoneSafe
<1>4. CASE CheckDecoderStartup \/ StartupCheck \/ StartupWoken \/ StartupReady
  BY <1>4, StartupSafe, StartupReadySafe
<1>5. CASE Buffering \/ BufferWaits \/ Buffered \/ DecodeNext \/ Paused \/ Playing
  BY <1>5, WanderBuffering, WanderLoop, DecodeNextSafe
<1>6. CASE PlayCheck \/ PlayWoken \/ PlayNextChunk \/ NoData \/ DataWaits
  BY <1>6, WanderLoop, PlayNextChunkSafe, NoDataSafe
<1>7. CASE RunStops \/ RunStopped
  BY <1>7, StopsSafe, RunStoppedSafe
<1> QED BY <1>1, <1>2, <1>3, <1>4, <1>5, <1>6, <1>7 DEF PlayerSteps

LEMMA SafeNext ==
  ASSUME SeekQueued = FALSE PROVE Safe /\ [Next]_vars => Safe'
<1> SUFFICES ASSUME Safe, [Next]_vars PROVE Safe'
  OBVIOUS
<1>1. IInv'
  BY IndNext DEF Safe
<1>2. SafetyInv' /\ AssertionsHold'
  <2>1. CASE Main
    BY <2>1, MainSafe, WanderOthers
  <2>2. CASE PlayerSteps
    BY <2>2, PlayerStepsSafe
  <2>3. CASE DecoderSteps
    BY <2>3, DecoderTaskSafe, DecoderInitializedSafe, DecoderCommandSafe, DecoderWaitsSafe,
       DecoderDataSafe, DecoderEndSafe DEF DecoderSteps
  <2>4. CASE OutputsPlay \/ OutputsBreak \/ UNCHANGED vars
    BY <2>4, WanderOthers
  <2> QED BY <2>1, <2>2, <2>3, <2>4 DEF Next
<1> QED BY <1>1, <1>2 DEF Safe

\* As long as no song is sought while another one is queued, each assert() of
\* PlayerThread.cxx, PlayerControl.cxx and DecoderThread.cxx that the model has
\* holds, but that of DecoderControl::Seek(): the song that is started is there
\* and queued, its pipe is empty, no song is enqueued twice or while the next one
\* is decoded, and the buffer is empty when the audio is closed.
THEOREM PlayerAssertionsHold ==
  ASSUME SeekQueued = FALSE PROVE Spec => []AssertionsHold
<1>1. Safe => AssertionsHold
  BY DEF Safe
<1> QED BY <1>1, SafeInit, SafeNext, PTL DEF Spec

\* play_chunk() gets a chunk of the song it reports to be played, whatever has
\* been queued, cancelled or sought before: the pipes are exchanged, and cleared,
\* together with the songs they belong to.
THEOREM OwnSongIsPlayed ==
  ASSUME SeekQueued = FALSE PROVE Spec => []PlaysItsSong
<1>1. Safe => PlaysItsSong
  <2> SUFFICES ASSUME Safe, player.at = "play_chunk" PROVE Head(pipe).song = player.song
    BY DEF PlaysItsSong
  <2>1. pipe # <<>> /\ pipe \in Seq(Piece)
    BY SafeTypes DEF IInv, Quiet, Types
  <2>2. 1 \in 1 .. Len(pipe) /\ Head(pipe) = pipe[1]
    BY <2>1
  <2>3. SongOfPipe = player.song
    BY SafeTypes DEF SongOfPipe, Fresh
  <2> QED BY <2>2, <2>3 DEF Safe, SafetyInv, ChunkSongs
<1> QED BY <1>1, SafeInit, SafeNext, PTL DEF Spec

\* When Player::SeekDecoder() is over, no chunk from before the seek is left: the
\* decoder has cleared its pipe and thrown away the chunk it was writing, in
\* decoder_command_finished(), or has been started with an empty pipe.
THEOREM OldChunksGo ==
  ASSUME SeekQueued = FALSE PROVE Spec => []OldChunksAreDropped
<1>1. Safe => OldChunksAreDropped
  <2> SUFFICES ASSUME Safe, ~player.seeking,
                      NEW chunks \in {pipe, next_pipe, decoder.chunk},
                      NEW i \in DOMAIN chunks
               PROVE  ~chunks[i].old
    BY DEF OldChunksAreDropped
  <2>1. Place # "seek_done"
    BY SafeTypes DEF States, SeekPlaces
  <2>2. AllNew(chunks)
    BY <2>1 DEF Safe, SafetyInv, NoneOld
  <2>3. chunks \in Seq(Piece)
    BY SafeTypes DEF Types, Decoders
  <2> QED BY <2>2, <2>3 DEF AllNew
<1> QED BY <1>1, SafeInit, SafeNext, PTL DEF Spec

-----------------------------------------------------------------------------
(* PlayerThread implements Player.                                         *)

-----------------------------------------------------------------------------
(* What is shown of a state.                                               *)

\* The decoder of the pipe that is played has failed.
Broken == dc.pipe = "pipe" /\ dc.state = "ERROR" /\ dc.command # "START"

Ends == {"stop", "stopped"}

\* In the loop, what is shown is what the control structure says.
Shows ==
  /\ Leaving <=> Place \in Ends
  /\ Place \in Ends => /\ ShownState = "STOP" /\ ShownSong = None /\ ShownNext = None
                       /\ ShownFailed = FALSE
  /\ Place \notin Ends => /\ ShownState = pc.state /\ ShownSong = player.song
                          /\ Requested = None => ShownNext = pc.next
                          /\ ShownFailed = Broken
  /\ Requested # None => ShownNext = None
  /\ pc.command = "QUEUE" => Requested = pc.next
  /\ pc.command = "SEEK" => Requested = IF pc.next # None THEN pc.next ELSE dc.song
  /\ pc.command \notin {"QUEUE", "SEEK"} => Requested = None

LEMMA ShownIs == Safe => Shows
<1> SUFFICES ASSUME Safe PROVE Shows
  OBVIOUS
<1>1. Leaving <=> Place \in Ends
  BY SafeTypes DEF Leaving, Place, IInv, Handshake, Thens, StopPlaces, Ends
<1>2. /\ pc.command = "QUEUE" => Requested = pc.next
      /\ pc.command = "SEEK" => Requested = IF pc.next # None THEN pc.next ELSE dc.song
      /\ pc.command \notin {"QUEUE", "SEEK"} => Requested = None
  BY DEF Requested
<1>3. /\ Leaving => ShownFailed = FALSE
      /\ ~Leaving => ShownFailed = Broken
  BY DEF ShownFailed, Broken, IsDecoderAtCurrentSong
<1>4. /\ Place \in Ends => ShownFailed = FALSE
      /\ Place \notin Ends => ShownFailed = Broken
  BY <1>1, <1>3
<1>5. /\ Leaving => ShownState = "STOP" /\ ShownSong = None /\ ShownNext = None
      /\ ~Leaving => /\ ShownState = pc.state /\ ShownSong = player.song
                     /\ Requested = None => ShownNext = pc.next
      /\ Requested # None => ShownNext = None
  BY DEF ShownState, ShownSong, ShownNext
<1> HIDE DEF Ends
<1> QED BY <1>1, <1>2, <1>4, <1>5, Zenon DEF Shows

LEMMA ShownThen == Safe' => Shows'
BY ShownIs, PTL

\* The same calls are pending, and about the same song.
SameCall ==
  /\ pc'.command = pc.command /\ pc'.next = pc.next
  /\ pc'.border_pause = pc.border_pause
  /\ pc.command = "SEEK" /\ pc.next = None => dc'.song = dc.song

LEMMA SameRequest ==
  ASSUME Shows, Shows', SameCall PROVE Requested' = Requested
<1>1. CASE pc.command = "QUEUE"
  BY <1>1 DEF Shows, SameCall
<1>2. CASE pc.command = "SEEK"
  BY <1>2 DEF Shows, SameCall, None
<1>3. CASE pc.command \notin {"QUEUE", "SEEK"}
  BY <1>3 DEF Shows, SameCall
<1> QED BY <1>1, <1>2, <1>3

\* A step of which nothing is shown.
LEMMA Unseen ==
  ASSUME Safe, Safe', SameCall, Place' \in Ends <=> Place \in Ends,
         Place \notin Ends => /\ pc'.state = pc.state /\ player'.song = player.song
                              /\ Broken' = Broken
  PROVE  UNCHANGED P!vars
<1>1. Shows /\ Shows' BY ShownIs, ShownThen
<1>2. Requested' = Requested BY <1>1, SameRequest
<1>3. ShownState' = ShownState /\ ShownSong' = ShownSong /\ ShownFailed' = ShownFailed
  BY <1>1 DEF Shows
<1>4. ShownNext' = ShownNext
  BY <1>1, <1>2 DEF Shows, SameCall
<1> QED BY <1>2, <1>3, <1>4 DEF P!vars, SameCall

\* The player leaves its loop by itself.
LEMMA EndStep ==
  ASSUME Safe, Safe', Place \notin Ends, Place' \in Ends,
         pc'.command = pc.command, pc'.border_pause = pc.border_pause,
         SameCall \/ pc.command \notin {"QUEUE", "SEEK"},
         pc.state = "PLAY" \/ (pc.state = "PAUSE" /\ Broken)
  PROVE  P!End
<1>1. Shows /\ Shows' BY ShownIs, ShownThen
<1>2. Requested' = Requested BY <1>1, SameRequest DEF Shows
<1> QED BY <1>1, <1>2 DEF Shows, P!End, P!Stopped

-----------------------------------------------------------------------------
(* The main thread.                                                        *)

\* A call is sent, and nothing is shown of it but its command and its song.
LEMMA SendShown ==
  ASSUME Safe, Safe', NEW c \in Names \ {"NONE"}, NEW n \in Songs \cup {None}, Send(c, n),
         pc.command = "NONE",
         \/ c \notin {"QUEUE", "SEEK"} /\ n = pc.next
         \/ c \in {"QUEUE", "SEEK"} /\ n \in Songs /\ pc.next = None
  PROVE  P!Send
<1>1. /\ Shows /\ Shows' /\ player \in Players /\ pc \in Controls /\ None \notin Songs
      /\ SamePlayer /\ Place' = Place
  BY SafeTypes, ShownIs, ShownThen, PlaceStep DEF Send
<1>2. /\ pc'.command = c /\ pc'.next = n /\ pc'.state = pc.state
      /\ pc'.border_pause = pc.border_pause /\ dc' = dc /\ Broken' = Broken
  BY <1>1 DEF Send, Controls, Broken
<1>3. /\ ShownState' = ShownState /\ ShownSong' = ShownSong /\ ShownFailed' = ShownFailed
      /\ Requested = None
  BY <1>1, <1>2 DEF Shows, SamePlayer
<1>4. CASE c \notin {"QUEUE", "SEEK"} /\ n = pc.next
  <2>1. Requested' = None /\ ShownNext' = ShownNext
    BY <1>1, <1>2, <1>3, <1>4 DEF Shows
  <2>2. c \in {"STOP", "CANCEL", "CLOSE_AUDIO", "PAUSE", "REFRESH"}
    BY <1>4 DEF Names
  <2> QED BY <1>2, <1>3, <2>1, <2>2 DEF P!Send
<1>5. CASE c \in {"QUEUE", "SEEK"} /\ n \in Songs /\ pc.next = None
  <2>1. Requested' = n /\ ShownNext' = None /\ ShownNext = None
    BY <1>1, <1>2, <1>3, <1>5 DEF Shows
  <2> QED BY <1>2, <1>3, <1>5, <2>1 DEF P!Send
<1> QED BY <1>4, <1>5

LEMMA MainShown ==
  ASSUME Safe, Safe', ~SeekQueued, Main PROVE P!Send \/ P!SetBorderPause
<1>1. /\ IInv /\ States /\ NextSong /\ DecoderSong /\ pc \in Controls
      /\ main \in Songs \cup {None} /\ None \notin Songs
  BY SafeTypes
<1>2. pc.next \in Songs \cup {None} BY <1>1 DEF Controls
<1>3. Before /\ pc.command = "NONE" => pc.next = None
  BY <1>1 DEF Before, NextSong
<1>4. ASSUME NEW song \in Songs, Play(song) PROVE P!Send
  <2>1. CASE pc.state = "STOP"
    <3>1. Send("QUEUE", song) /\ pc.command = "NONE" /\ Before
      BY <1>1, <1>4, <2>1 DEF Play, MainIdle, States
    <3> QED BY <1>3, <3>1, SendShown DEF Names
  <2>2. CASE pc.state # "STOP"
    <3>1. Send("STOP", pc.next) /\ pc.command = "NONE"
      BY <1>4, <2>2 DEF Play, MainIdle
    <3> QED BY <1>2, <3>1, SendShown DEF Names
  <2> QED BY <2>1, <2>2
<1>5. ASSUME NEW song \in Songs, EnqueueSong(song) PROVE P!Send
  BY <1>5, SendShown DEF EnqueueSong, MainIdle, Names
<1>6. ASSUME NEW song \in Songs, Seek(song) PROVE P!Send
  <2>1. Send("SEEK", song) /\ pc.command = "NONE" /\ (Before \/ ~player.queued)
    BY <1>1, <1>6 DEF Seek, MainIdle, States
  <2>2. pc.next = None
    BY <1>1, <1>3, <2>1 DEF NextSong
  <2> QED BY <2>1, <2>2, SendShown DEF Names
<1>7. ASSUME PlayEnqueues PROVE P!Send
  <2>1. Send("QUEUE", main) /\ pc.command = "NONE" /\ main \in Songs /\ Before
    BY <1>1, <1>7 DEF PlayEnqueues, States, Before
  <2> QED BY <1>3, <2>1, SendShown DEF Names
<1>8. ASSUME Cancel \/ Stop \/ Pause \/ GetStatus PROVE P!Send
  BY <1>2, <1>8, SendShown DEF Cancel, Stop, Pause, GetStatus, MainIdle, Names
<1>9. ASSUME SetBorderPause PROVE P!SetBorderPause
  <2>1. Shows /\ Shows' BY ShownIs, ShownThen
  <2>2. /\ pc'.command = pc.command /\ pc'.next = pc.next /\ pc'.state = pc.state
        /\ pc'.border_pause = ~pc.border_pause /\ dc' = dc /\ player' = player
        /\ Place' = Place /\ Broken' = Broken
    BY <1>1, <1>9 DEF SetBorderPause, Controls, Place, Broken
  <2>3. Requested' = Requested
    BY <2>1, <2>2 DEF Shows
  <2>4. /\ ShownState' = ShownState /\ ShownSong' = ShownSong /\ ShownFailed' = ShownFailed
        /\ ShownNext' = ShownNext
    BY <2>1, <2>2, <2>3 DEF Shows
  <2> QED BY <2>2, <2>3, <2>4 DEF P!SetBorderPause
<1> QED BY <1>4, <1>5, <1>6, <1>7, <1>8, <1>9 DEF Main

-----------------------------------------------------------------------------
(* The player between two songs, and its commands.                         *)

LEMMA TaskShown ==
  ASSUME Safe, Safe', Task PROVE P!Next \/ UNCHANGED P!vars
<1>1. /\ Shows /\ Shows' /\ Types /\ States /\ NextSong /\ DecoderSong /\ pc \in Controls
      /\ player.at = "task" /\ Place = "task" /\ player \in Players
  BY SafeTypes, ShownIs, ShownThen DEF Task, At
<1>2. /\ pc.state = "STOP" /\ player.song = None /\ dc.pipe = "null"
      /\ Place \notin Ends
  BY <1>1 DEF States, DecoderSong, Before, Ends
<1>3. SamePlayer /\ Place' = Place /\ dc' = dc /\ Broken' = Broken
  BY <1>1, PlaceStep DEF Task, TaskFinishes, Places, Broken
<1>4. CASE pc.command = "NONE"
  <2>1. pc' = pc
    BY <1>4 DEF Task
  <2> QED BY <1>1, <1>3, <2>1, Unseen DEF SameCall, SamePlayer
<1>5. CASE pc.command # "NONE"
  <2>1. /\ pc.command \in {"STOP", "PAUSE", "CANCEL", "CLOSE_AUDIO", "REFRESH"}
        /\ pc.next = None
    BY <1>1, <1>5 DEF Task, NextSong
  <2>2. /\ pc'.command = "NONE" /\ pc'.next = None /\ pc'.state = pc.state
        /\ pc'.border_pause = pc.border_pause
    BY <1>1, <2>1 DEF Task, TaskFinishes, CommandFinished, Controls, None
  <2>3. /\ Requested = None /\ Requested' = None /\ ShownState = "STOP"
        /\ ShownState' = ShownState /\ ShownSong' = ShownSong /\ ShownFailed' = ShownFailed
        /\ ShownNext = None /\ ShownNext' = None
    BY <1>1, <1>2, <1>3, <2>1, <2>2 DEF Shows, SamePlayer
  <2>4. CASE pc.command \in {"STOP", "CLOSE_AUDIO", "REFRESH"}
    BY <2>2, <2>3, <2>4 DEF P!Next, P!Finished, P!Finish
  <2>5. CASE pc.command = "PAUSE"
    BY <2>2, <2>3, <2>5 DEF P!Next, P!Pause, P!Finish
  <2>6. CASE pc.command = "CANCEL"
    BY <2>2, <2>3, <2>6 DEF P!Next, P!Cancel, P!Finish
  <2> QED BY <2>1, <2>4, <2>5, <2>6
<1> QED BY <1>4, <1>5

LEMMA RunShown ==
  ASSUME Safe, Safe', Run PROVE UNCHANGED P!vars
<1>1. /\ IInv /\ Types /\ States /\ DecoderSong /\ NextSong /\ player.at = "task"
      /\ Place = "task" /\ UNCHANGED pc /\ pc.command \in {"QUEUE", "SEEK"}
  BY SafeTypes DEF Run, At
<1>2. IsIdle /\ DecoderPlace BY <1>1 DEF IInv, Quiet
<1>3. NewPlayer \in Players BY DEF NewPlayer, Players, Places
<1>4. Starts("pipe") /\ Place' = "run" /\ player'.song = NewPlayer.song
  BY <1>1, <1>2, <1>3, StartsIs DEF Run, StartDecoder
<1>5. player.song = None /\ NewPlayer.song = None /\ dc.pipe = "null" /\ pc.next # None
  BY <1>1 DEF States, Before, NewPlayer, DecoderSong, NextSong
<1>6. ~Broken /\ ~Broken' /\ SameCall /\ Place \notin Ends /\ Place' \notin Ends
  BY <1>1, <1>4, <1>5 DEF Broken, Starts, SameCall, Ends
<1>7. Broken' = Broken BY <1>6 DEF Broken
<1> QED BY <1>1, <1>4, <1>5, <1>6, <1>7, Unseen

LEMMA RunStartedShown ==
  ASSUME Safe, Safe', RunStarted PROVE P!Start
<1>1. /\ Shows /\ Shows' /\ States /\ NextSong /\ DecoderSong /\ Unwritten
      /\ player \in Players /\ pc \in Controls /\ dc \in Decoding /\ dc.command = "NONE"
      /\ player.at = "run" /\ Place = "run" /\ Fresh /\ Before
  BY SafeTypes, ShownIs, ShownThen DEF RunStarted, At, Fresh, Before, Safe, SafetyInv
<1>2. /\ pc.command \in {"QUEUE", "SEEK"} /\ pc.next # None /\ pc.state = "STOP"
      /\ player.song = None /\ dc.pipe = "pipe" /\ dc.song = pc.next
  BY <1>1 DEF NextSong, States, DecoderSong
<1>3. /\ Requested = pc.next /\ ShownState = "STOP" /\ ShownSong = None
  BY <1>1, <1>2 DEF Shows, Ends
<1>4. pc'.command = "NONE" /\ pc'.next = None /\ pc'.border_pause = pc.border_pause
  BY <1>1 DEF RunStarted, CommandFinished, Controls
<1>5. CASE dc.state = "ERROR"
  <2>1. /\ player' = NewPlayer /\ dc' = [dc EXCEPT !.pipe = "null"]
        /\ pc' = [CommandFinished(pc) EXCEPT !.next = None]
    BY <1>5 DEF RunStarted
  <2>2. /\ Place' = "task" /\ player'.song = None /\ pc'.state = "STOP"
        /\ dc'.pipe = "null"
    BY <1>1, <1>2, <2>1 DEF NewPlayer, Place, CommandFinished, Controls, Decoding
  <2>3. ~Broken' BY <2>2 DEF Broken
  <2>4. /\ Requested' = None /\ ShownState' = "STOP" /\ ShownSong' = None
        /\ ShownNext' = None /\ ShownFailed' = FALSE
    BY <1>1, <1>4, <2>2, <2>3 DEF Shows, Ends
  <2>5. Requested \in Bad
    BY <1>1, <1>2, <1>3, <1>5 DEF Unwritten, Wrong
  <2> QED BY <1>2, <1>3, <1>4, <2>4, <2>5 DEF P!Start, P!Finish
<1>6. CASE dc.state # "ERROR"
  <2>1. /\ player' = Started("loop") /\ dc' = dc
        /\ pc' = [CommandFinished(pc) EXCEPT !.next = None, !.state = "PLAY"]
    BY <1>6 DEF RunStarted
  <2>2. /\ Place' = "loop" /\ player'.song = pc.next /\ pc'.state = "PLAY"
    BY <1>1, <2>1 DEF Started, Place, CommandFinished, Controls, Players
  <2>3. ~Broken' BY <1>6, <2>1 DEF Broken
  <2>4. /\ Requested' = None /\ ShownState' = "PLAY" /\ ShownSong' = Requested
        /\ ShownNext' = None /\ ShownFailed' = FALSE
    BY <1>1, <1>3, <1>4, <2>2, <2>3 DEF Shows, Ends
  <2> QED BY <1>2, <1>3, <1>4, <2>4 DEF P!Start, P!Finish
<1> QED BY <1>5, <1>6

\* A command of which only its end is shown.
LEMMA FinishedShown ==
  ASSUME Shows, Shows', pc.command \notin {"NONE", "QUEUE", "SEEK"},
         pc'.command = "NONE", pc'.next = pc.next, pc'.border_pause = pc.border_pause,
         Place \notin Ends, Place' \notin Ends, player'.song = player.song, Broken' = Broken
  PROVE  /\ P!Finish /\ ShownState = pc.state /\ ShownState' = pc'.state
         /\ UNCHANGED <<ShownSong, ShownNext, pc.border_pause, ShownFailed>>
<1>1. Requested = None /\ Requested' = None
  BY DEF Shows
<1> QED BY <1>1 DEF Shows, P!Finish

LEMMA PauseShown ==
  ASSUME Safe, Safe', player.at = "loop", pc.command = "PAUSE", CommandPause,
         UNCHANGED dc
  PROVE  P!Pause
<1>1. /\ Shows /\ Shows' /\ States /\ player \in Players /\ pc \in Controls
      /\ Place = "loop" /\ ~Before
  BY SafeTypes, ShownIs, ShownThen DEF Before
<1>2. /\ player'.at = "body" /\ player'.song = player.song
      /\ pc'.next = pc.next /\ pc'.command = "NONE"
  BY <1>1, CommandPauseIs
<1>3. pc'.border_pause = pc.border_pause
  BY <1>1 DEF CommandPause, OpenOutput, CommandFinished, Controls
<1>4. Place' = "body" /\ Broken' = Broken
  BY <1>2 DEF Place, Broken
<1>5. /\ P!Finish /\ ShownState = pc.state /\ ShownState' = pc'.state
      /\ UNCHANGED <<ShownSong, ShownNext, pc.border_pause, ShownFailed>>
  BY <1>1, <1>2, <1>3, <1>4, FinishedShown DEF Ends
<1>6. /\ pc.state \in {"PLAY", "PAUSE"} /\ (pc.state = "PAUSE" <=> player.paused)
  BY <1>1 DEF States, Controls
<1>7. \/ ~player.paused /\ pc'.state = "PAUSE"
      \/ player.paused /\ pc'.state = "PLAY"
      \/ player.paused /\ CanFail /\ pc'.state = "PAUSE"
  BY <1>1 DEF CommandPause, OpenOutput, CommandFinished, Controls, Players
<1> QED BY <1>5, <1>6, <1>7 DEF P!Pause

LEMMA ProcessCommandShown ==
  ASSUME Safe, Safe', ProcessCommand PROVE P!Next \/ UNCHANGED P!vars
<1>1. /\ Shows /\ Shows' /\ Types /\ States /\ player \in Players /\ pc \in Controls
      /\ Place = "loop" /\ player.at = "loop" /\ ~Before /\ dc' = dc /\ Broken' = Broken
  BY SafeTypes, ShownIs, ShownThen DEF ProcessCommand, At, Before, Broken
<1>2. Place \notin Ends /\ pc.state # "STOP" /\ {"body", "seek"} \cap (Ends \cup {"await"}) = {}
  BY <1>1 DEF Ends, States
<1>3. CASE pc.command \in {"NONE", "SEEK"}
  <2>1. pc' = pc /\ player'.song = player.song /\ Place' \in {"body", "seek"}
    BY <1>1, <1>3 DEF ProcessCommand, Goto, Players, Place
  <2> QED BY <1>1, <1>2, <2>1, Unseen DEF SameCall
<1>4. CASE pc.command = "QUEUE"
  <2>1. /\ player' = [player EXCEPT !.at = "body", !.queued = TRUE]
        /\ pc' = CommandFinished(pc)
    BY <1>4 DEF ProcessCommand
  <2>2. /\ player'.song = player.song /\ Place' = "body" /\ pc'.command = "NONE"
        /\ pc'.next = pc.next /\ pc'.state = pc.state /\ pc'.border_pause = pc.border_pause
    BY <1>1, <2>1 DEF CommandFinished, Controls, Players, Place
  <2>3. /\ ShownState = pc.state /\ ShownState' = ShownState /\ ShownSong' = ShownSong
        /\ ShownFailed' = ShownFailed /\ Requested = pc.next /\ Requested' = None
        /\ ShownNext' = pc.next
    BY <1>1, <1>2, <1>4, <2>2 DEF Shows
  <2> QED BY <1>2, <1>4, <2>2, <2>3 DEF P!Next, P!Queue, P!Finish
<1>5. CASE pc.command = "PAUSE"
  BY <1>1, <1>5, PauseShown DEF ProcessCommand, P!Next
<1>6. CASE pc.command = "REFRESH"
  <2>1. Goto("body") /\ pc' = CommandFinished(pc)
    BY <1>6 DEF ProcessCommand
  <2>2. /\ player'.song = player.song /\ Place' = "body" /\ pc'.command = "NONE"
        /\ pc'.next = pc.next /\ pc'.state = pc.state /\ pc'.border_pause = pc.border_pause
    BY <1>1, <2>1 DEF Goto, CommandFinished, Controls, Players, Place
  <2> QED BY <1>1, <1>2, <1>6, <2>2, FinishedShown DEF P!Next, P!Finished
<1> QED BY <1>3, <1>4, <1>5, <1>6 DEF ProcessCommand

LEMMA CommandStopShown ==
  ASSUME Safe, Safe', CommandStop PROVE P!Stop \/ P!CancelLate
<1>1. /\ Shows /\ Shows' /\ States /\ player \in Players /\ pc \in Controls
      /\ Place = "loop" /\ player.at = "loop" /\ ~Before
  BY SafeTypes, ShownIs, ShownThen DEF CommandStop, At, Before
<1>2. /\ Place \notin Ends /\ pc.state # "STOP" /\ Place' = "stop" /\ Place' \in Ends
  BY <1>1 DEF CommandStop, Goto, Players, Place, States, Ends
<1>3. /\ pc'.border_pause = pc.border_pause
      /\ \/ pc.command \in {"STOP", "CLOSE_AUDIO"} /\ pc'.command = pc.command
         \/ pc.command = "CANCEL" /\ pc.next = None /\ pc'.command = "STOP"
  BY <1>1 DEF CommandStop, Controls
<1>4. /\ Requested = None /\ Requested' = None /\ ShownState # "STOP"
      /\ ShownNext = pc.next /\ P!Stopped
  BY <1>1, <1>2, <1>3 DEF Shows, P!Stopped
<1> QED BY <1>3, <1>4 DEF P!Stop, P!CancelLate

-----------------------------------------------------------------------------
(* The player that stops the decoder, and seeks.                           *)

LEMMA CalmShown == Calm => Broken' = Broken /\ dc'.song = dc.song
BY DEF Calm, Broken

LEMMA StopsShown ==
  ASSUME Safe, Safe', RunStops \/ CommandCancel PROVE UNCHANGED P!vars
<1>1. /\ player \in Players /\ player.at \in {"stop", "loop"} /\ Place = player.at
      /\ Types /\ dc.command = "NONE"
  BY SafeTypes DEF RunStops, CommandCancel, At
<1>2. pc' = pc
  BY DEF RunStops, CommandCancel
<1>3. CASE RunStops
  <2>1. SamePlayer /\ Place' = "stopped" /\ Calm
    BY <1>1, <1>3, StopDecoderIs DEF RunStops, StopPlaces
  <2> QED BY <1>1, <1>2, <1>3, <2>1, CalmShown, Unseen DEF RunStops, At, Ends, SameCall
<1>4. CASE CommandCancel
  <2>1. CASE IsDecoderAtNextSong
    <3>1. SamePlayer /\ Place' = "cancel" /\ Calm
      BY <1>1, <1>4, <2>1, StopDecoderIs DEF CommandCancel, StopPlaces
    <3> QED BY <1>1, <1>2, <1>4, <3>1, CalmShown, Unseen
            DEF CommandCancel, At, Ends, SameCall, SamePlayer
  <2>2. CASE ~IsDecoderAtNextSong
    <3>1. SamePlayer /\ Place' = "cancel" /\ dc' = dc
      BY <1>1, <1>4, <2>2 DEF CommandCancel, Goto, Players, Place, SamePlayer
    <3> QED BY <1>1, <1>2, <1>4, <3>1, Unseen
            DEF CommandCancel, At, Ends, SameCall, SamePlayer, Broken
  <2> QED BY <2>1, <2>2
<1> QED BY <1>3, <1>4

LEMMA CancelledShown ==
  ASSUME Safe, Safe', Cancelled PROVE P!Cancel
<1>1. /\ Shows /\ Shows' /\ States /\ player \in Players /\ pc \in Controls /\ dc \in Decoding
      /\ player.at = "cancel" /\ Place = "cancel"
  BY SafeTypes, ShownIs, ShownThen DEF Cancelled, At
<1>2. pc.command = "CANCEL" /\ pc.next # None /\ Place \notin Ends
  BY <1>1 DEF States, Ends
<1>3. /\ pc'.command = "NONE" /\ pc'.next = None /\ pc'.state = pc.state
      /\ pc'.border_pause = pc.border_pause
  BY <1>1 DEF Cancelled, CommandFinished, Controls
<1>4. Place' = "body" /\ Place' \notin Ends /\ player'.song = player.song
  BY <1>1 DEF Cancelled, Players, Place, Ends
<1>5. Broken' = Broken
  BY <1>1 DEF Cancelled, IsDecoderAtNextSong, Broken, Decoding
<1>6. /\ Requested = None /\ Requested' = None /\ ShownNext # None /\ ShownNext' = None
      /\ ShownState' = ShownState /\ ShownSong' = ShownSong /\ ShownFailed' = ShownFailed
  BY <1>1, <1>2, <1>3, <1>4, <1>5 DEF Shows
<1> QED BY <1>2, <1>3, <1>6 DEF P!Cancel, P!Finish

LEMMA SeekSongShown ==
  ASSUME Safe, Safe', SeekSong PROVE UNCHANGED P!vars
<1>1. /\ Shows /\ Shows' /\ Types /\ States /\ NextSong /\ player \in Players /\ pc \in Controls
      /\ dc \in Decoding /\ player.at = "seek" /\ Place = "seek" /\ dc.command = "NONE"
  BY SafeTypes, ShownIs, ShownThen DEF SeekSong, At
<1>2. /\ pc.command = "SEEK" /\ pc.next # None /\ Place \notin Ends
  BY <1>1 DEF States, NextSong, SeekPlaces, StartupPlaces, SeekTaken, Before, Ends
<1>3. CASE IsCurrentSong(pc.next)
  <2>1. /\ pc' = [pc EXCEPT !.next = None]
        /\ player' = [player EXCEPT !.at = "startup", !.queued = FALSE]
        /\ dc' = dc \/ dc' = [dc EXCEPT !.pipe = "pipe"]
    BY <1>3 DEF SeekSong
  <2>2. /\ pc'.command = "SEEK" /\ pc'.next = None /\ pc'.state = pc.state
        /\ pc'.border_pause = pc.border_pause
        /\ player'.song = player.song /\ Place' = "startup" /\ Place' \notin Ends
        /\ dc'.song = dc.song /\ dc'.state = dc.state
    BY <1>1, <1>2, <2>1 DEF Controls, Players, Place, Decoding, Ends
  <2>3. dc.song = pc.next /\ dc.state # "ERROR"
    BY <1>3 DEF IsCurrentSong, IsIdle
  <2>4. Broken' = Broken
    BY <2>2, <2>3 DEF Broken
  <2>5. Requested' = Requested /\ Requested # None
    BY <1>1, <1>2, <2>2, <2>3 DEF Shows
  <2>6. /\ ShownState' = ShownState /\ ShownSong' = ShownSong /\ ShownFailed' = ShownFailed
        /\ ShownNext' = ShownNext
    BY <1>1, <1>2, <2>2, <2>4, <2>5 DEF Shows
  <2> QED BY <1>2, <2>2, <2>5, <2>6 DEF P!vars
<1>4. CASE ~IsCurrentSong(pc.next)
  <2>1. StopDecoder("seek_stopped") /\ pc' = pc /\ UNCHANGED <<pipe, next_pipe>>
    BY <1>4 DEF SeekSong
  <2>2. SamePlayer /\ Place' = "seek_stopped" /\ Calm
    BY <1>1, <2>1, StopDecoderIs DEF StopPlaces
  <2> QED BY <1>1, <1>2, <2>1, <2>2, CalmShown, Unseen DEF SameCall, SamePlayer, Ends
<1> QED BY <1>3, <1>4

LEMMA SeekRestartsShown ==
  ASSUME Safe, Safe', SeekRestarts PROVE P!DecoderStarts
<1>1. /\ Shows /\ Shows' /\ IInv /\ Types /\ States /\ NextSong /\ player \in Players
      /\ player.at = "seek_stopped" /\ Place = "seek_stopped" /\ UNCHANGED pc
  BY SafeTypes, ShownIs, ShownThen DEF SeekRestarts, At
<1>2. IsIdle /\ DecoderPlace BY <1>1 DEF IInv, Quiet
<1>3. /\ Starts("pipe") /\ Place' = "seek_started" /\ player'.song = player.song
  BY <1>1, <1>2, StartsIs DEF SeekRestarts, StartDecoder
<1>4. /\ pc.command = "SEEK" /\ pc.next # None
      /\ Place \notin Ends /\ Place' \notin Ends /\ ~Broken'
  BY <1>1, <1>3 DEF States, NextSong, SeekPlaces, StartupPlaces, SeekTaken, Before, Ends,
     Starts, Broken
<1>5. Requested' = Requested /\ Requested # None
  BY <1>1, <1>4 DEF Shows
<1>6. /\ ShownState' = ShownState /\ ShownSong' = ShownSong /\ ShownFailed' = FALSE
      /\ ShownNext' = ShownNext
  BY <1>1, <1>3, <1>4, <1>5 DEF Shows
<1> QED BY <1>1, <1>4, <1>5, <1>6 DEF P!DecoderStarts

LEMMA SeekStartedShown ==
  ASSUME Safe, Safe', SeekStarted PROVE P!Seek \/ P!SeekSong
<1>1. /\ Shows /\ Shows' /\ Types /\ States /\ NextSong /\ DecoderSong /\ Unwritten
      /\ player \in Players /\ pc \in Controls /\ dc \in Decoding /\ dc.command = "NONE"
      /\ player.at = "seek_started" /\ Place = "seek_started" /\ Fresh /\ UNCHANGED dc
  BY SafeTypes, ShownIs, ShownThen DEF SeekStarted, At, Fresh, Safe, SafetyInv
<1>2. /\ pc.command = "SEEK" /\ pc.next # None /\ pc.state # "STOP" /\ Place \notin Ends
      /\ dc.pipe = "pipe" /\ dc.song = pc.next
  BY <1>1 DEF States, NextSong, DecoderSong, SeekPlaces, StartupPlaces, SeekTaken, Before, Ends
<1>3. /\ Requested = pc.next /\ ShownState = pc.state /\ ShownNext = None
  BY <1>1, <1>2 DEF Shows
<1>4. CASE dc.state = "ERROR"
  <2>1. /\ pc'.command = "NONE" /\ pc'.next = None /\ pc'.state = pc.state
        /\ pc'.border_pause = pc.border_pause
        /\ player'.song = player.song /\ Place' = "body" /\ Place' \notin Ends
    BY <1>1, <1>4 DEF SeekStarted, CommandFinished, Controls, Players, Place, Ends
  <2>2. Broken' = Broken BY <1>1 DEF Broken
  <2>3. /\ Requested' = None /\ ShownNext' = None /\ ShownState' = ShownState
        /\ ShownSong' = ShownSong /\ ShownFailed' = ShownFailed
    BY <1>1, <1>2, <2>1, <2>2 DEF Shows
  <2>4. Requested \in Bad
    BY <1>1, <1>2, <1>3, <1>4 DEF Unwritten, Wrong
  <2> QED BY <1>2, <1>3, <2>1, <2>3, <2>4 DEF P!Seek, P!Finish
<1>5. CASE dc.state # "ERROR"
  <2>1. player' = Started("startup") /\ pc' = [pc EXCEPT !.next = None]
    BY <1>5 DEF SeekStarted
  <2>2. /\ pc'.command = "SEEK" /\ pc'.next = None /\ pc'.state = pc.state
        /\ pc'.border_pause = pc.border_pause
        /\ player'.song = pc.next /\ Place' = "startup" /\ Place' \notin Ends
    BY <1>1, <1>2, <2>1 DEF Started, Controls, Players, Place, Ends
  <2>3. Broken' = Broken BY <1>1 DEF Broken
  <2>4. /\ Requested' = Requested /\ ShownNext' = None /\ ShownState' = ShownState
        /\ ShownSong' = Requested /\ ShownFailed' = ShownFailed
    BY <1>1, <1>2, <1>3, <2>2, <2>3 DEF Shows
  <2> QED BY <1>2, <1>3, <2>2, <2>4 DEF P!SeekSong
<1> QED BY <1>4, <1>5

\* A seek ends in the song that was sought.
LEMMA SeekEnds ==
  ASSUME Safe, Safe', player.at \in StartupPlaces \cup {"seek_done"}, player.seeking,
         pc' = CommandFinished(pc), player'.at = "body", player'.song = player.song,
         UNCHANGED dc
  PROVE  P!Seek
<1>1. /\ Shows /\ Shows' /\ States /\ NextSong /\ DecoderSong /\ pc \in Controls
      /\ Place = player.at
  BY SafeTypes, ShownIs, ShownThen DEF StartupPlaces
<1>2. SeekTaken /\ pc.command = "SEEK" /\ ~Before /\ Place \notin Ends
  BY <1>1 DEF SeekTaken, States, Before, Ends, StartupPlaces
<1>3. pc.next = None /\ dc.song = player.song /\ pc.state # "STOP"
  BY <1>1, <1>2 DEF NextSong, DecoderSong, States
<1>4. /\ Requested = player.song /\ ShownSong = player.song
      /\ ShownState = pc.state /\ ShownNext = None
  BY <1>1, <1>2, <1>3 DEF Shows
<1>5. /\ pc'.command = "NONE" /\ pc'.next = None /\ pc'.state = pc.state
      /\ pc'.border_pause = pc.border_pause /\ Place' = "body" /\ Place' \notin Ends
  BY <1>1, <1>3 DEF CommandFinished, Controls, Place, Ends
<1>6. Broken' = Broken BY DEF Broken
<1>7. /\ Requested' = None /\ ShownNext' = None /\ ShownState' = ShownState
      /\ ShownSong' = ShownSong /\ ShownFailed' = ShownFailed
  BY <1>1, <1>2, <1>5, <1>6 DEF Shows
<1> QED BY <1>2, <1>3, <1>4, <1>5, <1>7 DEF P!Seek, P!Finish

LEMMA SeekFailsShown ==
  ASSUME Safe, Safe', player.at = "startup", player.seeking, SeekFails, UNCHANGED dc
  PROVE  P!Seek
<1>1. player \in Players BY SafeTypes
<1>2. player'.at = "body" /\ player'.song = player.song
  BY <1>1 DEF SeekFails, Players
<1> QED BY <1>2, SeekEnds DEF SeekFails, StartupPlaces

LEMMA SeekDecoderShown ==
  ASSUME Safe, Safe', SeekDecoder PROVE P!Seek \/ UNCHANGED P!vars
<1>1. /\ player \in Players /\ dc \in Decoding /\ player.at = "startup" /\ player.seeking
      /\ Place = "startup"
  BY SafeTypes DEF SeekDecoder, At
<1>2. CASE SeekFails /\ UNCHANGED dc
  BY <1>1, <1>2, SeekFailsShown
<1>3. CASE /\ ~IsIdle /\ UNCHANGED pc
           /\ dc' = [dc EXCEPT !.command = "SEEK", !.seek_error = FALSE]
           /\ player' = [player EXCEPT !.at = "await", !.asleep = "decoder",
                                       !.then = "seek_done"]
  <2>1. /\ player'.song = player.song /\ Place' = "seek_done"
        /\ dc'.song = dc.song /\ dc'.state = dc.state
    BY <1>1, <1>3 DEF Players, Place, Decoding
  <2>2. Broken' = Broken
    BY <1>3, <2>1 DEF Broken, IsIdle
  <2> QED BY <1>1, <1>3, <2>1, <2>2, Unseen DEF SameCall, Ends
<1> QED BY <1>2, <1>3 DEF SeekDecoder

LEMMA SeekDoneShown ==
  ASSUME Safe, Safe', SeekDone PROVE P!Seek
<1>1. player \in Players /\ player.at = "seek_done" /\ Place = "seek_done" /\ States
  BY SafeTypes DEF SeekDone, At
<1>2. player.seeking BY <1>1 DEF States, SeekPlaces
<1>3. /\ player'.at = "body" /\ player'.song = player.song /\ pc' = CommandFinished(pc)
      /\ UNCHANGED dc
  BY <1>1 DEF SeekDone, SeekFails, Players
<1> QED BY <1>1, <1>2, <1>3, SeekEnds

LEMMA StartupShown ==
  ASSUME Safe, Safe', CheckDecoderStartup \/ StartupCheck \/ StartupWoken
  PROVE  P!Seek \/ P!End \/ UNCHANGED P!vars
<1>1. /\ Types /\ States /\ DecoderSong /\ player \in Players /\ pc \in Controls
      /\ player.at \in StartupPlaces /\ Place = player.at /\ dc.command = "NONE"
      /\ UNCHANGED dc
  BY SafeTypes DEF CheckDecoderStartup, StartupCheck, StartupWoken, At, StartupPlaces
<1>2. Place \notin Ends /\ ~Before /\ Broken' = Broken
  BY <1>1 DEF Before, StartupPlaces, Ends, Broken
<1>3. CASE player.seeking /\ SeekFails /\ player.at = "startup"
  BY <1>1, <1>3, SeekFailsShown
<1>4. CASE Goto("stop") /\ dc.state = "ERROR" /\ player.decoder_starting /\ UNCHANGED pc
  <2>1. Place' = "stop" /\ Place' \in Ends
    BY <1>1, <1>4 DEF Goto, Players, Place, Ends
  <2>2. Broken /\ pc.state \in {"PLAY", "PAUSE"}
    BY <1>1, <1>2, <1>4 DEF DecoderSong, Broken, States, Controls
  <2> QED BY <1>1, <1>2, <1>4, <2>1, <2>2, EndStep DEF SameCall
<1>5. ASSUME NEW place \in {"startup", "loop", "startup_check", "startup_ready", "startup_woken"},
             Goto(place) \/ WaitForDecoder(place) \/ Wait(place), UNCHANGED pc
      PROVE  UNCHANGED P!vars
  <2>1. SamePlayer /\ Place' = place
    BY <1>1, <1>5, PlaceStep DEF Places
  <2> QED BY <1>1, <1>2, <1>5, <2>1, Unseen DEF SameCall, SamePlayer, Ends
<1>6. CASE CheckDecoderStartup
  BY <1>3, <1>4, <1>5, <1>6 DEF CheckDecoderStartup, Caller, At
<1>7. CASE StartupCheck
  BY <1>5, <1>7 DEF StartupCheck
<1>8. CASE StartupWoken
  BY <1>5, <1>8 DEF StartupWoken, Caller
<1> QED BY <1>6, <1>7, <1>8

-----------------------------------------------------------------------------
(* The loop of the player.                                                 *)

\* A step within the loop.
LEMMA LoopStep ==
  ASSUME Safe, Safe', player.at \notin Ends \cup {"await"},
         player'.at \notin Ends \cup {"await"}, player'.song = player.song,
         UNCHANGED <<pc, dc>>
  PROVE  UNCHANGED P!vars
<1>1. Place = player.at /\ Place' = player'.at /\ Broken' = Broken
  BY DEF Place, Broken
<1> QED BY <1>1, Unseen DEF SameCall

\* The loop ends while the player is playing.
LEMMA LoopEnds ==
  ASSUME Safe, Safe', player.at \notin Ends \cup {"task", "run", "await"}, ~player.paused,
         Goto("stop"), UNCHANGED <<pc, dc>>
  PROVE  P!End
<1>1. /\ player \in Players /\ pc \in Controls /\ States /\ Place = player.at
  BY SafeTypes
<1>2. Place' = "stop" BY <1>1 DEF Goto, Players, Place
<1>3. pc.state = "PLAY" BY <1>1 DEF States, Before, Controls
<1> QED BY <1>1, <1>2, <1>3, EndStep DEF SameCall, Ends

\* The outputs cannot be opened.
LEMMA OutputFails ==
  ASSUME Safe, Safe', player.at \notin Ends \cup {"task", "run", "await"}, ~player.paused,
         CanFail, player'.at \notin Ends \cup {"await"}, player'.song = player.song,
         pc' = [pc EXCEPT !.state = "PAUSE"], UNCHANGED dc
  PROVE  P!OutputFailure
<1>1. /\ Shows /\ Shows' /\ States /\ player \in Players /\ pc \in Controls
      /\ Place = player.at /\ Place' = player'.at /\ Broken' = Broken
  BY SafeTypes, ShownIs, ShownThen DEF Place, Broken
<1>2. pc.state = "PLAY" BY <1>1 DEF States, Before, Controls
<1>3. /\ pc'.command = pc.command /\ pc'.next = pc.next /\ pc'.state = "PAUSE"
      /\ pc'.border_pause = pc.border_pause
  BY <1>1 DEF Controls
<1>4. Requested' = Requested BY <1>1, <1>3, SameRequest DEF SameCall
<1>5. /\ ShownState = "PLAY" /\ ShownState' = "PAUSE" /\ ShownSong' = ShownSong
      /\ ShownFailed' = ShownFailed /\ ShownNext' = ShownNext
  BY <1>1, <1>2, <1>3, <1>4 DEF Shows
<1> QED BY <1>3, <1>4, <1>5 DEF P!OutputFailure

LEMMA StartupReadyShown ==
  ASSUME Safe, Safe', StartupReady PROVE P!OutputFailure \/ UNCHANGED P!vars
<1> DEFINE p == [player EXCEPT !.at = Caller, !.decoder_starting = FALSE, !.format = TRUE]
<1>1. /\ player \in Players /\ pc \in Controls /\ States /\ UNCHANGED dc
      /\ player.at = "startup_ready" /\ Place = "startup_ready"
  BY SafeTypes DEF StartupReady, At
<1>2. /\ p.at \in {"startup", "loop"} /\ p.song = player.song /\ p \in Players
  BY <1>1, ZenonT(60) DEF Players, Caller, Places
<1>3. pc.state = "PLAY" \/ player.paused
  BY <1>1 DEF States, Before, Controls
<1>4. \/ player.paused /\ player' = p /\ UNCHANGED pc
      \/ ~player.paused /\ OpenOutput(p, pc)
  BY DEF StartupReady
<1> HIDE DEF p
<1>5. CASE player.paused /\ player' = p /\ UNCHANGED pc
  BY <1>1, <1>2, <1>5, LoopStep DEF Ends
<1>6. CASE ~player.paused /\ OpenOutput(p, pc)
  <2>1. /\ player'.at = p.at /\ player'.song = p.song
        /\ pc' = [pc EXCEPT !.state = "PLAY"] \/ (CanFail /\ pc' = [pc EXCEPT !.state = "PAUSE"])
    BY <1>2, <1>6 DEF OpenOutput, Players
  <2>2. pc' = [pc EXCEPT !.state = "PLAY"] => pc' = pc
    BY <1>1, <1>3, <1>6 DEF Controls
  <2> QED BY <1>1, <1>2, <1>6, <2>1, <2>2, LoopStep, OutputFails DEF Ends
<1> QED BY <1>4, <1>5, <1>6

LEMMA BufferingShown ==
  ASSUME Safe, Safe', Buffering \/ Buffered PROVE P!End \/ UNCHANGED P!vars
<1>1. /\ Types /\ player \in Players /\ player.at = "body" /\ UNCHANGED <<pc, dc>>
  BY SafeTypes DEF Buffering, Buffered, At
<1>2. BufferWait.song = player.song /\ BufferWait.at \in {"buffer_wait", "loop"}
  BY <1>1 DEF BufferWait, Players
<1>3. \/ player' = BufferWait
      \/ Goto("stop") /\ ~player.paused
      \/ player' = [player EXCEPT !.buffering = FALSE,
                      !.at = IF player.decoder_starting THEN "startup" ELSE "next"]
  BY DEF Buffering, Buffered, SendSilence
<1>4. CASE player' = BufferWait
  BY <1>1, <1>2, <1>4, LoopStep DEF Ends
<1>5. CASE Goto("stop") /\ ~player.paused
  BY <1>1, <1>5, LoopEnds DEF Ends
<1>6. CASE player' = [player EXCEPT !.buffering = FALSE,
                        !.at = IF player.decoder_starting THEN "startup" ELSE "next"]
  <2>1. player'.song = player.song /\ player'.at \in {"startup", "next"}
    BY <1>1, <1>6 DEF Players
  <2> QED BY <1>1, <2>1, LoopStep DEF Ends
<1> QED BY <1>3, <1>4, <1>5, <1>6

LEMMA WaitsShown ==
  ASSUME Safe, Safe', BufferWaits \/ Paused \/ Playing \/ PlayCheck \/ PlayWoken \/ DataWaits
  PROVE  UNCHANGED P!vars
<1>1. /\ player \in Players /\ UNCHANGED <<pc, dc>>
      /\ player.at \in {"buffer_wait", "play", "play_check", "play_woken", "data_wait"}
  BY SafeTypes DEF BufferWaits, Paused, Playing, PlayCheck, PlayWoken, DataWaits, DataWait, At
<1>2. \E place \in {"loop", "no_data", "play_check", "play_chunk", "play_woken"} :
        Goto(place) \/ WaitForDecoder(place) \/ Wait(place)
  BY DEF BufferWaits, Paused, Playing, PlayCheck, PlayWoken, DataWaits, DataWait
<1>3. player'.song = player.song /\ player'.at \notin Ends \cup {"await"}
  BY <1>1, <1>2 DEF Goto, WaitForDecoder, Wait, Players, Ends
<1> QED BY <1>1, <1>3, LoopStep DEF Ends

LEMMA DecodeNextShown ==
  ASSUME Safe, Safe', DecodeNext PROVE P!DecoderStarts \/ UNCHANGED P!vars
<1>1. /\ Shows /\ Shows' /\ IInv /\ Types /\ States /\ NextSong /\ player \in Players
      /\ player.at = "next" /\ Place = "next" /\ UNCHANGED pc
  BY SafeTypes, ShownIs, ShownThen DEF DecodeNext, At
<1>2. CASE IsIdle /\ player.queued /\ IsDecoderAtCurrentSong
  <2>1. Starts("next") /\ Place' = "play" /\ player'.song = player.song
    BY <1>1, <1>2, StartsIs DEF DecodeNext, StartDecoder, IInv
  <2>2. /\ pc.command \notin {"QUEUE", "SEEK"} /\ pc.next # None
        /\ Place \notin Ends /\ Place' \notin Ends /\ ~Broken'
    BY <1>1, <1>2, <2>1 DEF NextSong, Before, Ends, Starts, Broken
  <2>3. /\ Requested = None /\ Requested' = None /\ ShownNext # None
        /\ ShownNext' = ShownNext /\ ShownState' = ShownState /\ ShownSong' = ShownSong
        /\ ShownFailed' = FALSE
    BY <1>1, <2>1, <2>2 DEF Shows
  <2> QED BY <1>1, <2>3 DEF P!DecoderStarts
<1>3. CASE ~(IsIdle /\ player.queued /\ IsDecoderAtCurrentSong)
  <2>1. Goto("play") /\ UNCHANGED dc
    BY <1>3 DEF DecodeNext
  <2>2. player'.at = "play" /\ player'.song = player.song
    BY <1>1, <2>1 DEF Goto, Players
  <2> QED BY <1>1, <2>1, <2>2, LoopStep DEF Ends
<1> QED BY <1>2, <1>3

LEMMA PlayNextChunkShown ==
  ASSUME Safe, Safe', PlayNextChunk PROVE P!OutputFailure \/ UNCHANGED P!vars
<1>1. /\ player \in Players /\ pc \in Controls /\ States /\ UNCHANGED dc
      /\ player.at = "play_chunk" /\ Place = "play_chunk"
  BY SafeTypes DEF PlayNextChunk, At
<1>2. ~player.paused BY <1>1 DEF States, PlayPlaces
<1>3. player'.at = "loop" /\ player'.song = player.song
  BY <1>1 DEF PlayNextChunk, Players
<1>4. \/ UNCHANGED pc
      \/ pc' = [pc EXCEPT !.state = "PAUSE"]
         /\ \E o \in UpdatedOutputs(out) : o.state = "closed"
  BY DEF PlayNextChunk
<1>5. (\E o \in UpdatedOutputs(out) : o.state = "closed") => CanFail
  BY DEF UpdatedOutputs, OpenedOutputs
<1> QED BY <1>1, <1>2, <1>3, <1>4, <1>5, LoopStep, OutputFails DEF Ends

LEMMA SongBorderShown ==
  ASSUME Safe, Safe', player.at = "no_data", IsDecoderAtNextSong, SongBorder
  PROVE  P!Border \/ P!End
<1>1. /\ Shows /\ Shows' /\ IInv /\ States /\ NextSong /\ DecoderSong /\ player \in Players
      /\ pc \in Controls /\ dc \in Decoding /\ Place = "no_data" /\ dc.pipe = "next"
      /\ dc' = [dc EXCEPT !.pipe = "pipe"]
  BY SafeTypes, ShownIs, ShownThen DEF IsDecoderAtNextSong, SongBorder
<1>2. /\ Place \notin Ends /\ ~Before /\ ~player.paused /\ player.queued /\ ~Broken
      /\ pc.state = "PLAY"
  BY <1>1 DEF Ends, Before, States, PlayPlaces, DecoderSong, IsDecoderAtNextSong, Broken, Controls
<1>3. pc.command \notin {"QUEUE", "SEEK"} /\ pc.next # None
  BY <1>1, <1>2 DEF NextSong
<1>4. /\ pc'.command = pc.command /\ pc'.next = None /\ pc'.border_pause = pc.border_pause
  BY <1>1 DEF SongBorder, Controls
<1>5. CASE dc.state = "ERROR"
  <2>1. Place' = "stop"
    BY <1>1, <1>5 DEF SongBorder, Players, Place
  <2> QED BY <1>2, <1>3, <1>4, <2>1, EndStep DEF Ends
<1>6. CASE dc.state # "ERROR"
  <2>1. /\ player' = [Started("loop") EXCEPT !.paused = @ \/ pc.border_pause]
        /\ pc' = [pc EXCEPT !.next = None,
                    !.state = IF pc.border_pause THEN "PAUSE" ELSE @]
    BY <1>6 DEF SongBorder
  <2>2. Started("loop") \in Players /\ Started("loop").song = pc.next
        /\ Started("loop").at = "loop"
    BY <1>1 DEF Started, Players, Controls, Places
  <2>3. Place' = "loop" /\ player'.song = pc.next
    <3> HIDE DEF Started
    <3> QED BY <2>1, <2>2 DEF Place, Players
  <2>4. pc'.state = IF pc.border_pause THEN "PAUSE" ELSE "PLAY"
    BY <1>1, <1>2, <2>1 DEF Controls
  <2>5. ~Broken'
    BY <1>1, <1>6 DEF Broken, Decoding
  <2>6. /\ Requested = None /\ Requested' = None /\ ShownState = "PLAY"
        /\ ShownNext = pc.next /\ ShownNext' = None /\ ShownSong' = pc.next
        /\ ShownState' = pc'.state /\ ShownFailed = FALSE /\ ShownFailed' = FALSE
    BY <1>1, <1>2, <1>3, <1>4, <2>3, <2>5 DEF Shows, Ends
  <2> QED BY <1>3, <1>4, <2>4, <2>6 DEF P!Border
<1> QED BY <1>5, <1>6

LEMMA NoDataShown ==
  ASSUME Safe, Safe', NoData PROVE P!Border \/ P!End \/ UNCHANGED P!vars
<1>1. player \in Players /\ player.at = "no_data" /\ Place = "no_data" /\ States
  BY SafeTypes DEF NoData, At
<1>2. ~player.paused BY <1>1 DEF States, PlayPlaces
<1>3. ASSUME IsDecoderAtNextSong, SongBorder PROVE P!Border \/ P!End
  BY <1>1, <1>3, SongBorderShown
<1>4. ASSUME UNCHANGED <<pc, dc>>, Goto("stop") PROVE P!End
  BY <1>1, <1>2, <1>4, LoopEnds DEF Ends
<1>5. ASSUME UNCHANGED <<pc, dc>>,
             NEW place \in {"data_wait", "loop"}, Goto(place) \/ WaitForDecoder(place)
      PROVE  UNCHANGED P!vars
  <2>1. player'.at = place /\ player'.song = player.song
    BY <1>1, <1>5 DEF Goto, WaitForDecoder, Players
  <2> QED BY <1>1, <1>5, <2>1, LoopStep DEF Ends
<1>6. SendSilence([player EXCEPT !.at = "loop"]) => Goto("stop") \/ Goto("loop")
  BY DEF SendSilence, Goto
<1>7. \/ IsDecoderAtNextSong /\ SongBorder
      \/ UNCHANGED <<pc, dc>> /\ Goto("stop")
      \/ /\ UNCHANGED <<pc, dc>>
         /\ \E place \in {"data_wait", "loop"} : Goto(place) \/ WaitForDecoder(place)
  BY <1>6 DEF NoData, DataWait
<1> QED BY <1>3, <1>4, <1>5, <1>7

LEMMA RunStoppedShown ==
  ASSUME Safe, Safe', RunStopped PROVE UNCHANGED P!vars
<1>1. /\ Shows /\ Shows' /\ States /\ NextSong /\ player \in Players /\ pc \in Controls
      /\ dc \in Decoding /\ player.at = "stopped" /\ Place = "stopped" /\ ~Before
      /\ player' = NewPlayer /\ dc' = [dc EXCEPT !.pipe = "null"]
      /\ pc' = [pc EXCEPT !.state = "STOP", !.next = NextDropped]
  BY SafeTypes, ShownIs, ShownThen DEF RunStopped, At, Before
<1>2. /\ Place' = "task" /\ player'.song = None /\ Place' \notin Ends /\ ~Broken'
      /\ dc'.song = dc.song
  BY <1>1 DEF NewPlayer, Place, Ends, Broken, Decoding
<1>3. /\ pc'.command = pc.command /\ pc'.state = "STOP" /\ pc'.next = NextDropped
      /\ pc'.border_pause = pc.border_pause
  BY <1>1 DEF Controls
<1>4. pc.command = "SEEK" => pc.next # None
  BY <1>1 DEF NextSong, SeekTaken, States, SeekPlaces, StartupPlaces
<1>5. /\ pc.command \in {"QUEUE", "SEEK"} => NextDropped = pc.next /\ pc.next # None
      /\ pc.command \notin {"QUEUE", "SEEK"} => NextDropped = None
  BY <1>1, <1>4 DEF NextSong, NextDropped, States
<1>6. /\ Requested' = Requested
      /\ pc.command \in {"QUEUE", "SEEK"} => Requested # None
  BY <1>1, <1>3, <1>5 DEF Shows
<1>7. /\ ShownState = "STOP" /\ ShownSong = None /\ ShownNext = None /\ ShownFailed = FALSE
      /\ ShownState' = "STOP" /\ ShownSong' = None /\ ShownFailed' = FALSE
  BY <1>1, <1>2, <1>3 DEF Shows, Ends
<1>8. ShownNext' = None
  BY <1>1, <1>2, <1>3, <1>5, <1>6 DEF Shows
<1> QED BY <1>3, <1>6, <1>7, <1>8 DEF P!vars

-----------------------------------------------------------------------------
(* The decoder and the outputs.                                            *)

\* A step of the decoder is shown only if its song fails, or begins again.
LEMMA AsideShown ==
  ASSUME Safe, Safe', Aside,
         \/ Broken' = Broken
         \/ Broken' /\ (Place \notin Ends => {player.song, Requested} \cap Bad # {})
         \/ ~Broken' /\ pc.command = "SEEK"
  PROVE  P!DecoderFails \/ P!DecoderStarts \/ UNCHANGED P!vars
<1>1. Shows /\ Shows' /\ SameCall /\ Place' = Place /\ SamePlayer /\ UNCHANGED pc
  BY ShownIs, ShownThen DEF Aside, SameCall
<1>2. CASE Place \in Ends \/ Broken' = Broken
  BY <1>1, <1>2, Unseen DEF SamePlayer
<1>3. CASE Place \notin Ends /\ Broken' # Broken
  <2>1. Requested' = Requested BY <1>1, SameRequest
  <2>2. /\ ShownState' = ShownState /\ ShownSong = player.song /\ ShownSong' = player.song
        /\ ShownNext' = ShownNext
    BY <1>1, <1>3, <2>1 DEF Shows, SamePlayer
  <2>3. CASE Broken'
    <3>1. ShownFailed' = TRUE
      BY <1>1, <1>3, <2>3 DEF Shows, Broken
    <3>2. {ShownSong, Requested} \cap Bad # {}
      BY <1>3, <2>2, <2>3
    <3> QED BY <1>1, <2>1, <2>2, <3>1, <3>2 DEF P!DecoderFails
  <2>4. CASE ~Broken'
    <3>1. ShownFailed' = FALSE
      BY <1>1, <1>3, <2>4 DEF Shows, Broken
    <3>2. pc.command = "SEEK"
      BY <1>3, <2>4
    <3> QED BY <1>1, <2>1, <2>2, <3>1, <3>2 DEF P!DecoderStarts
  <2> QED BY <2>3, <2>4
<1> QED BY <1>2, <1>3

\* The song of the decoder of the pipe that is played is shown.
LEMMA DecoderSongShown ==
  ASSUME Safe, dc.pipe = "pipe", ~IsIdle \/ dc.command \in {"START", "SEEK"}, dc.song \in Bad
  PROVE  {player.song, Requested} \cap Bad # {}
<1>1. Shows /\ States /\ NextSong /\ DecoderSong BY ShownIs, SafeTypes
<1>2. dc.song = SongOfPipe
  <2>1. CASE ~IsIdle
    BY <1>1, <2>1 DEF DecoderSong, IsDecoderAtCurrentSong
  <2>2. CASE dc.command = "START"
    BY <1>1, <2>2 DEF DecoderSong, IsDecoderAtNextSong, SongOfPipe
  <2>3. CASE dc.command = "SEEK"
    BY <2>3, SeekIs
  <2> QED BY <2>1, <2>2, <2>3
<1>3. Fresh => pc.command \in {"QUEUE", "SEEK"} /\ pc.next # None
  BY <1>1 DEF Fresh, NextSong, States, SeekPlaces, StartupPlaces, SeekTaken, Before
<1>4. SongOfPipe \in {player.song, Requested}
  BY <1>1, <1>3 DEF SongOfPipe, Shows
<1> QED BY <1>2, <1>4

LEMMA DecoderTaskShown ==
  ASSUME Safe, Safe', DecoderTask
  PROVE  P!DecoderFails \/ P!DecoderStarts \/ UNCHANGED P!vars
<1>1. /\ DecoderSong /\ dc \in Decoding /\ States /\ UNCHANGED <<main, pc>>
  BY SafeTypes DEF DecoderTask
<1>2. SamePlayer /\ Place' = Place
  BY <1>1, AsideIs DEF DecoderTask, SignalPlayer
<1>3. CASE dc.command \in {"NONE", "STOP"}
  <2>1. /\ dc'.song = dc.song /\ dc'.pipe = dc.pipe /\ dc'.state = dc.state
        /\ dc'.command \in {"NONE", "STOP"}
    BY <1>1, <1>3 DEF DecoderTask, DecoderFinished, Decoding
  <2>2. Broken' = Broken BY <1>3, <2>1 DEF Broken
  <2> QED BY <1>1, <1>2, <2>1, <2>2, AsideShown DEF Aside
<1>4. CASE dc.command \in {"START", "SEEK"}
  <2>1. /\ dc'.song = dc.song /\ dc'.pipe = dc.pipe /\ dc'.command = "NONE"
        /\ dc'.state = "START" \/ (dc'.state = "ERROR" /\ dc.song \in Bad)
    BY <1>1, <1>4 DEF DecoderTask, DecoderFinished, Decoding
  <2>2. Aside BY <1>1, <1>2, <2>1 DEF Aside
  <2>3. CASE Broken'
    <3>1. {player.song, Requested} \cap Bad # {}
      BY <1>4, <2>1, <2>3, DecoderSongShown DEF Broken
    <3> QED BY <2>2, <2>3, <3>1, AsideShown
  <2>4. CASE ~Broken' /\ dc.command = "SEEK"
    <3>1. pc.command = "SEEK"
      BY <1>1, <2>4 DEF DecoderSong, States, SeekPlaces
    <3> QED BY <2>2, <2>4, <3>1, AsideShown
  <2>5. CASE ~Broken' /\ dc.command = "START"
    <3>1. Broken' = Broken BY <2>5 DEF Broken
    <3> QED BY <2>2, <3>1, AsideShown
  <2> QED BY <1>4, <2>3, <2>4, <2>5
<1> QED BY <1>1, <1>3, <1>4 DEF Decoding

LEMMA DecoderEndedShown ==
  ASSUME Safe, Safe', DecoderEnded PROVE P!DecoderFails \/ P!DecoderStarts \/ UNCHANGED P!vars
<1>1. /\ Unwritten /\ IInv /\ dc \in Decoding /\ UNCHANGED <<main, pc>> /\ decoder.at = "end"
      /\ ~IsIdle
  BY SafeTypes DEF DecoderEnded, DecoderAt, Safe, SafetyInv, IInv, DecoderPlace
<1>2. SamePlayer /\ Place' = Place
  BY <1>1, AsideIs DEF DecoderEnded, SignalPlayer
<1>3. /\ dc'.song = dc.song /\ dc'.pipe = dc.pipe /\ dc'.command = dc.command
      /\ dc'.state = IF decoder.ok THEN "STOP" ELSE "ERROR"
  BY <1>1 DEF DecoderEnded, Decoding
<1>4. Aside BY <1>1, <1>2, <1>3 DEF Aside
<1>5. CASE Broken'
  <2>1. dc.song \in Bad /\ dc.pipe = "pipe"
    BY <1>1, <1>3, <1>5 DEF Broken, Unwritten, Wrong
  <2>2. {player.song, Requested} \cap Bad # {}
    BY <1>1, <2>1, DecoderSongShown
  <2> QED BY <1>4, <1>5, <2>2, AsideShown
<1>6. CASE ~Broken'
  <2>1. Broken' = Broken BY <1>1, <1>6 DEF Broken, IsIdle
  <2> QED BY <1>4, <2>1, AsideShown
<1> QED BY <1>5, <1>6

LEMMA DecoderShown ==
  ASSUME Safe, Safe', DecoderSteps
  PROVE  P!DecoderFails \/ P!DecoderStarts \/ UNCHANGED P!vars
<1>1. CASE DecoderTask \/ DecoderEnded
  BY <1>1, DecoderTaskShown, DecoderEndedShown
<1>2. CASE \/ DecoderInitialized \/ DecoderCommand \/ DecoderEnds \/ DecoderData
           \/ NeedChunks \/ NeededChunks \/ DecoderFlushesLast
  <2>1. /\ IInv /\ dc \in Decoding /\ UNCHANGED <<main, pc>> /\ decoder.at # "task" /\ ~IsIdle
        /\ player' = player \/ player' = Woken(player)
    BY <1>2, SafeTypes
       DEF DecoderInitialized, DecoderCommand, DecoderEnds, DecoderData, NeedChunks,
           NeededChunks, DecoderFlushesLast, DecoderAt, IInv, DecoderPlace, FlushChunk, SignalPlayer
  <2>2. dc'.song = dc.song /\ dc'.pipe = dc.pipe /\ dc'.state # "ERROR"
    BY <1>2, <2>1
       DEF DecoderInitialized, DecoderCommand, DecoderEnds, DecoderData, NeedChunks,
           NeededChunks, DecoderFlushesLast, DecoderFinished, Decoding, IsIdle
  <2>3. Aside BY <2>1, <2>2, AsideIs DEF Aside
  <2>4. Broken' = Broken BY <2>1, <2>2 DEF Broken, IsIdle
  <2> QED BY <2>3, <2>4, AsideShown
<1> QED BY <1>1, <1>2 DEF DecoderSteps

LEMMA OthersShown ==
  ASSUME Safe, Safe', OutputsPlay \/ OutputsBreak \/ Await \/ UNCHANGED vars
  PROVE  UNCHANGED P!vars
<1>1. Types /\ player \in Players BY SafeTypes
<1>2. UNCHANGED <<main, pc, dc>> BY DEF OutputsPlay, OutputsBreak, Await, vars
<1>3. SamePlayer /\ Place' = Place
  <2>1. CASE ~Await
    BY <1>1, <2>1, PlaceStep DEF OutputsPlay, OutputsBreak, vars, SignalPlayer
  <2>2. CASE Await /\ dc.command = "NONE"
    <3>1. player.at = "await" /\ player.then # "await"
      BY <2>2 DEF Await, At, Safe, IInv, Handshake, Thens, StopPlaces
    <3>2. player' = [player EXCEPT !.at = player.then, !.then = "task"]
      BY <2>2 DEF Await
    <3> QED BY <1>1, <3>1, <3>2 DEF SamePlayer, Place, Players
  <2>3. CASE Await /\ dc.command # "NONE"
    BY <1>1, <2>3 DEF Await, WaitForDecoder, At, SamePlayer, Place, Players
  <2> QED BY <2>1, <2>2, <2>3
<1> QED BY <1>2, <1>3, Unseen DEF SameCall, SamePlayer, Broken

-----------------------------------------------------------------------------
(* The refinement.                                                         *)

LEMMA PlayerStepsShown ==
  ASSUME Safe, Safe', PlayerSteps PROVE P!Next \/ UNCHANGED P!vars
<1>1. CASE Task \/ Run \/ Await \/ RunStarted
  BY <1>1, TaskShown, RunShown, OthersShown, RunStartedShown DEF P!Next
<1>2. CASE ProcessCommand \/ CommandStop \/ CommandCancel \/ Cancelled
  BY <1>2, ProcessCommandShown, CommandStopShown, StopsShown, CancelledShown DEF P!Next
<1>3. CASE SeekSong \/ SeekRestarts \/ SeekStarted \/ SeekDecoder \/ SeekDone
  BY <1>3, SeekSongShown, SeekRestartsShown, SeekStartedShown, SeekDecoderShown, SeekDoneShown
     DEF P!Next
<1>4. CASE CheckDecoderStartup \/ StartupCheck \/ StartupWoken \/ StartupReady
  BY <1>4, StartupShown, StartupReadyShown DEF P!Next
<1>5. CASE Buffering \/ BufferWaits \/ Buffered \/ DecodeNext \/ Paused \/ Playing
  BY <1>5, BufferingShown, WaitsShown, DecodeNextShown DEF P!Next
<1>6. CASE PlayCheck \/ PlayWoken \/ PlayNextChunk \/ NoData \/ DataWaits
  BY <1>6, WaitsShown, PlayNextChunkShown, NoDataShown DEF P!Next
<1>7. CASE RunStops \/ RunStopped
  BY <1>7, StopsShown, RunStoppedShown
<1> QED BY <1>1, <1>2, <1>3, <1>4, <1>5, <1>6, <1>7 DEF PlayerSteps

LEMMA ShownNextStep ==
  ASSUME SeekQueued = FALSE PROVE Safe /\ Safe' /\ [Next]_vars => [P!Next]_(P!vars)
<1> SUFFICES ASSUME Safe, Safe', [Next]_vars PROVE P!Next \/ UNCHANGED P!vars
  OBVIOUS
<1>1. CASE Main
  BY <1>1, MainShown DEF P!Next
<1>2. CASE PlayerSteps
  BY <1>2, PlayerStepsShown
<1>3. CASE DecoderSteps
  BY <1>3, DecoderShown DEF P!Next
<1>4. CASE OutputsPlay \/ OutputsBreak \/ UNCHANGED vars
  BY <1>4, OthersShown
<1> QED BY <1>1, <1>2, <1>3, <1>4 DEF Next

LEMMA ShownInit == Init => P!Init
<1> SUFFICES ASSUME Init PROVE P!Init
  OBVIOUS
<1>1. Shows BY SafeInit, ShownIs
<1>2. /\ pc.command = "NONE" /\ pc.next = None /\ pc.state = "STOP" /\ pc.border_pause = FALSE
      /\ player.song = None /\ Place = "task" /\ ~Broken
  BY DEF Init, NewPlayer, Place, Broken
<1>3. /\ Requested = None /\ ShownState = "STOP" /\ ShownSong = None /\ ShownNext = None
      /\ ShownFailed = FALSE
  BY <1>1, <1>2 DEF Shows, Ends
<1> QED BY <1>2, <1>3 DEF P!Init

\* The player and decoder threads implement Player, which is what PlayerControl.hxx
\* offers to the playlist: every step either cannot be seen in the control structure,
\* or is one its callers have to expect, whatever the interleaving of commands, song
\* borders, failures and seeks, as long as no song is sought while one is queued.
THEOREM ThreadsImplementPlayer ==
  ASSUME SeekQueued = FALSE PROVE Spec => ImplementsPlayer
BY SafeInit, SafeNext, ShownInit, ShownNextStep, PTL DEF Spec, ImplementsPlayer, P!Spec
=============================================================================
