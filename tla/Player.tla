------------------------------- MODULE Player -------------------------------
(***************************************************************************)
(* What the player promises to the playlist (src/PlayerControl.hxx): the   *)
(* abstract specification that PlayerThread implements and that Playlist   *)
(* is built on.  There is one command at a time; it takes effect when the  *)
(* player thread gets to it, and meanwhile the player may have gone on by  *)
(* itself: to the next song, to the end, to a failure.                     *)
(***************************************************************************)
CONSTANTS
  Songs,   \* the songs
  Bad,     \* the songs whose decoder may fail
  CanFail  \* may the outputs fail?

CONSTANT None  \* no song

VARIABLES
  command,      \* the command the main thread waits for, or "NONE"
  request,      \* the song it is about
  state,        \* STOP, PLAY or PAUSE
  song,         \* the song that is played
  next,         \* the song that follows it
  border_pause, \* pause at the song border?
  failed        \* has the decoder of the song that is played, or sought, failed?

vars == <<command, request, state, song, next, border_pause, failed>>

Init ==
  /\ command = "NONE" /\ state = "STOP"
  /\ request = None /\ song = None /\ next = None
  /\ border_pause = FALSE /\ failed = FALSE

Finish == command' = "NONE" /\ request' = None

-----------------------------------------------------------------------------
(* The main thread.                                                        *)

\* A song is enqueued only if none is.
Send ==
  /\ command = "NONE"
  /\ \/ /\ command' \in {"STOP", "CANCEL", "CLOSE_AUDIO", "PAUSE", "REFRESH"}
        /\ request' = None
     \/ command' = "QUEUE" /\ next = None /\ request' \in Songs
     \/ command' = "SEEK" /\ request' \in Songs
  /\ UNCHANGED <<state, song, next, border_pause, failed>>

SetBorderPause ==
  /\ border_pause' = ~border_pause
  /\ UNCHANGED <<command, request, state, song, next, failed>>

-----------------------------------------------------------------------------
(* The player gets to a command.                                           *)

\* Without a song being played, QUEUE and SEEK start one.
Start ==
  /\ command \in {"QUEUE", "SEEK"} /\ state = "STOP"
  /\ \/ state' = "PLAY" /\ song' = request
     \/ request \in Bad /\ UNCHANGED <<state, song>>
  /\ next' = None /\ failed' = FALSE
  /\ Finish /\ UNCHANGED border_pause

Queue ==
  /\ command = "QUEUE" /\ state # "STOP"
  /\ next' = request
  /\ Finish /\ UNCHANGED <<state, song, border_pause, failed>>

\* A seek may go to another song first.
SeekSong ==
  /\ command = "SEEK" /\ state # "STOP"
  /\ song' = request /\ next' = None
  /\ UNCHANGED <<command, request, state, border_pause, failed>>

Seek ==
  /\ command = "SEEK" /\ state # "STOP" /\ next = None
  /\ song = request \/ request \in Bad
  /\ Finish /\ UNCHANGED <<state, song, next, border_pause, failed>>

\* Outputs that cannot be opened leave the player paused.
Pause ==
  /\ command = "PAUSE"
  /\ \/ state = "PLAY" /\ state' = "PAUSE"
     \/ state = "PAUSE" /\ state' = "PLAY"
     \/ state = "PAUSE" /\ CanFail /\ UNCHANGED state
     \/ state = "STOP" /\ UNCHANGED state
  /\ Finish /\ UNCHANGED <<song, next, border_pause, failed>>

Cancel ==
  /\ command = "CANCEL" /\ (next # None \/ state = "STOP")
  /\ next' = None
  /\ Finish /\ UNCHANGED <<state, song, border_pause, failed>>

\* The player is stopped: no song is left.
Stopped == state' = "STOP" /\ song' = None /\ next' = None /\ failed' = FALSE

\* "the cancel request arrived too late": the song has started, and it is stopped.
CancelLate ==
  /\ command = "CANCEL" /\ next = None /\ state # "STOP"
  /\ command' = "STOP" /\ Stopped
  /\ UNCHANGED <<request, border_pause>>

Stop ==
  /\ command \in {"STOP", "CLOSE_AUDIO"} /\ state # "STOP"
  /\ Stopped /\ UNCHANGED <<command, request, border_pause>>

\* STOP and CLOSE_AUDIO end when the player is stopped; REFRESH, whenever.
Finished ==
  /\ command = "REFRESH" \/ (command \in {"STOP", "CLOSE_AUDIO"} /\ state = "STOP")
  /\ Finish /\ UNCHANGED <<state, song, next, border_pause, failed>>

-----------------------------------------------------------------------------
(* The player goes on by itself.                                           *)

\* The next song follows, but not while playback is paused.
Border ==
  /\ state = "PLAY" /\ next # None
  /\ song' = next /\ next' = None
  /\ state' = IF border_pause THEN "PAUSE" ELSE "PLAY"
  /\ UNCHANGED <<command, request, border_pause, failed>>

\* The song ends, or its data: not while playback is paused, unless the decoder
\* has failed.
End ==
  /\ state = "PLAY" \/ (state = "PAUSE" /\ failed)
  /\ Stopped /\ UNCHANGED <<command, request, border_pause>>

DecoderFails ==
  /\ {song, request} \cap Bad # {}
  /\ failed' = TRUE
  /\ UNCHANGED <<command, request, state, song, next, border_pause>>

\* The decoder is started again, for a seek or for the next song.
DecoderStarts ==
  /\ command = "SEEK" \/ next # None
  /\ failed' = FALSE
  /\ UNCHANGED <<command, request, state, song, next, border_pause>>

OutputFailure ==
  /\ CanFail /\ state = "PLAY"
  /\ state' = "PAUSE"
  /\ UNCHANGED <<command, request, song, next, border_pause, failed>>

Next ==
  \/ Send \/ SetBorderPause
  \/ Start \/ Queue \/ SeekSong \/ Seek \/ Pause \/ Cancel \/ CancelLate \/ Stop \/ Finished
  \/ Border \/ End \/ DecoderFails \/ DecoderStarts \/ OutputFailure

Spec == Init /\ [][Next]_vars
=============================================================================
