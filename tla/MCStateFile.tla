----------------------------- MODULE MCStateFile -----------------------------
(* Instances of StateFile for TLC.                                         *)
EXTENDS StateFile

CONSTANTS s1, s2   \* two songs

Two == <<s1, s2>>
Prio == <<0, 1>>
=============================================================================
