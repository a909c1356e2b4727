------------------------------ MODULE MCUpdate ------------------------------
(* Update with a small music directory for TLC. *)
EXTENDS Update

\* Directories m and m/d; each song's name begins with its directory's.
Tree == [x \in Entries \ {Root} |->
           CASE x \in {"d", "m/1", "m/2"} -> "m"
             [] x \in {"d/1", "d/2"} -> "d"
             [] OTHER -> Root]

\* There are songs at the start.
Full == {[s \in Songs |-> 1]}

\* "rescan m"
Commands == {[path |-> "m", discard |-> TRUE]}
=============================================================================
