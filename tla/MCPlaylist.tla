----------------------------- MODULE MCPlaylist -----------------------------
(* Instances of Playlist for TLC: the queues the state file may hold.      *)
EXTENDS Playlist

CONSTANTS s1, s2, s3   \* three songs

Two == <<s1, s2>>
Three == <<s1, s2, s3>>
=============================================================================
