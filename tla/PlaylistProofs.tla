--------------------------- MODULE PlaylistProofs ---------------------------
(***************************************************************************)
(* Proofs about Playlist: the assertions of the handlers and of            *)
(* PlayerControl hold, and what the player plays is the playlist's current *)
(* song or the one that is queued after it.                                *)
(*                                                                         *)
(* The argument follows what the playlist believes about the player: a     *)
(* view, with the song that plays and the one that comes next.  Every call *)
(* of PlayerControl changes the view, so that the calls a handler has yet  *)
(* to make lead from the view that agrees with the player now to that of   *)
(* the playlist.                                                           *)
(*                                                                         *)
(* The second part is about StateFile: what is saved is restored, and no   *)
(* edit of the queue is forgotten.  The last part is about consume mode.   *)
(***************************************************************************)
EXTENDS StateFile, QueueLemmas, SequenceTheorems

-----------------------------------------------------------------------------
(* Views of the player.                                                    *)

(* The commands of the instance never put the current song elsewhere than
   the playlist thinks: no block of songs is moved over it, and no new song is
   shuffled in before it, for which the playlist has to be back at the first
   song of the order, in repeat mode. *)
Exact == MaxBlock <= 1 /\ ~({"add", "random", "repeat"} \subseteq Commands)

SongIds == Ids \cup {None}

View == [cur : SongIds, next : SongIds]

\* Which song is current is followed only if it is known.
Shown(id) == IF Exact \/ id = None THEN id ELSE 1

Cur(s) == IF s.playing THEN SongAt(s, s.current) ELSE None

ViewOf(s, prev) == [cur |-> Shown(Cur(s)), next |-> prev]

Cmds == {"PLAY", "ENQUEUE", "CANCEL", "STOP", "SEEK", "PAUSE", "UNPAUSE",
         "CLEAR_ERROR", "BORDER_PAUSE", "NO_BORDER_PAUSE"}

Calls == [cmd : Cmds, song : SongIds]

\* The view after the call c.
Told(v, c) ==
  CASE c.cmd \in {"PLAY", "SEEK"} -> [cur |-> Shown(c.song), next |-> None]
    [] c.cmd = "ENQUEUE" -> [cur |-> v.cur, next |-> c.song]
    [] c.cmd = "CANCEL" -> [cur |-> v.cur, next |-> None]
    [] c.cmd = "STOP" -> [cur |-> None, next |-> None]
    [] OTHER -> v

\* A song is enqueued behind one that plays, if there is no other one.
Allowed(v, c) ==
  /\ c.cmd = "ENQUEUE" => v.next = None /\ v.cur # None /\ c.song # None
  /\ c.cmd \in {"PLAY", "SEEK"} => c.song # None

\* The calls lead from the view u to the view v.
Leads(u, calls, v) ==
  \E h \in [0 .. Len(calls) -> View] :
    /\ h[0] = u /\ h[Len(calls)] = v
    /\ \A i \in 1 .. Len(calls) :
         Allowed(h[i - 1], calls[i]) /\ h[i] = Told(h[i - 1], calls[i])

LEMMA IdFacts ==
  /\ 1 \in Ids /\ Ids \subseteq Nat \ {0} /\ None \notin Ids
  /\ \A id \in SongIds : Shown(id) \in SongIds /\ (Shown(id) = None <=> id = None)
<1>1. IdSize \in Nat /\ IdSize >= 2
  BY QueueAssumption, SizeOfIds DEF IdSize
<1>2. 1 \in Ids /\ Ids \subseteq Nat \ {0}
  BY <1>1 DEF Ids
<1>3. None \notin Ids
  BY <1>2 DEF None
<1> QED BY <1>2, <1>3 DEF SongIds, Shown

LEMMA ToldIsView ==
  ASSUME NEW v \in View, NEW c \in Calls
  PROVE  Told(v, c) \in View
<1>1. c.song \in SongIds /\ v.cur \in SongIds /\ v.next \in SongIds /\ None \in SongIds
  BY DEF Calls, View, SongIds
<1>2. Shown(c.song) \in SongIds
  BY <1>1, IdFacts
<1> QED BY <1>1, <1>2 DEF Told, View

LEMMA LeadsNothing ==
  ASSUME NEW v \in View
  PROVE  Leads(v, <<>>, v)
<1> DEFINE h == [i \in 0 .. 0 |-> v]
<1>1. Len(<<>>) = 0 /\ 1 .. 0 = {} /\ 0 \in 0 .. 0
  OBVIOUS
<1>2. h \in [0 .. 0 -> View] /\ h[0] = v
  BY <1>1
<1> HIDE DEF h
<1> QED BY <1>1, <1>2 DEF Leads

LEMMA LeadsNowhere ==
  ASSUME NEW u, NEW v, Leads(u, <<>>, v)
  PROVE  u = v /\ v \in View
<1>1. Len(<<>>) = 0
  OBVIOUS
<1> QED BY <1>1 DEF Leads

LEMMA LeadsToView ==
  ASSUME NEW u, NEW calls \in Seq(Calls), NEW v, Leads(u, calls, v)
  PROVE  u \in View /\ v \in View
<1>1. Len(calls) \in Nat
  OBVIOUS
<1>2. 0 \in 0 .. Len(calls) /\ Len(calls) \in 0 .. Len(calls)
  BY <1>1
<1> QED BY <1>2 DEF Leads

\* One more call
LEMMA LeadsOn ==
  ASSUME NEW u, NEW calls \in Seq(Calls), NEW v, Leads(u, calls, v),
         NEW c \in Calls, Allowed(v, c)
  PROVE  Leads(u, Append(calls, c), Told(v, c))
<1> DEFINE n == Len(calls)
<1>1. n \in Nat /\ Len(Append(calls, c)) = n + 1
  OBVIOUS
<1>2. Append(calls, c)[n + 1] = c /\ \A i \in 1 .. n : Append(calls, c)[i] = calls[i]
  OBVIOUS
<1>3. PICK h \in [0 .. n -> View] :
        /\ h[0] = u /\ h[n] = v
        /\ \A i \in 1 .. n : Allowed(h[i - 1], calls[i]) /\ h[i] = Told(h[i - 1], calls[i])
  BY DEF Leads
<1>4. v \in View /\ Told(v, c) \in View
  BY LeadsToView, ToldIsView
<1> DEFINE new == Append(calls, c)
           g == [i \in 0 .. (n + 1) |-> IF i = n + 1 THEN Told(v, c) ELSE h[i]]
<1> HIDE DEF n
<1>5. g \in [0 .. (n + 1) -> View] /\ g[0] = u /\ g[n + 1] = Told(v, c)
  BY <1>1, <1>3, <1>4
<1>6. ASSUME NEW i \in 1 .. (n + 1)
      PROVE  Allowed(g[i - 1], new[i]) /\ g[i] = Told(g[i - 1], new[i])
  <2>1. CASE i = n + 1
    <3>1. g[i - 1] = v /\ new[i] = c /\ g[i] = Told(v, c)
      BY <1>1, <1>2, <1>3, <2>1
    <3> QED BY <3>1
  <2>2. CASE i # n + 1
    <3>1. i \in 1 .. n /\ g[i - 1] = h[i - 1] /\ g[i] = h[i] /\ new[i] = calls[i]
      BY <1>1, <1>2, <2>2
    <3> HIDE DEF g, new
    <3> QED BY <1>3, <3>1
  <2> QED BY <2>1, <2>2
<1>7. Len(new) = n + 1
  BY <1>1
<1> HIDE DEF g, new
<1>8. Leads(u, new, Told(v, c))
  BY <1>5, <1>6, <1>7 DEF Leads
<1> QED BY <1>8 DEF new

\* The first call
LEMMA LeadsFirst ==
  ASSUME NEW u, NEW calls \in Seq(Calls), calls # <<>>, NEW v, Leads(u, calls, v)
  PROVE  /\ Head(calls) \in Calls /\ Tail(calls) \in Seq(Calls)
         /\ Allowed(u, Head(calls))
         /\ Leads(Told(u, Head(calls)), Tail(calls), v)
<1> DEFINE n == Len(calls)  t == Tail(calls)
<1>1. n \in Nat /\ n > 0 /\ Len(t) = n - 1
  OBVIOUS
<1>2. Head(calls) = calls[1] /\ \A i \in 1 .. (n - 1) : t[i] = calls[i + 1]
  OBVIOUS
<1>3. Head(calls) \in Calls /\ t \in Seq(Calls)
  OBVIOUS
<1>4. PICK h \in [0 .. n -> View] :
        /\ h[0] = u /\ h[n] = v
        /\ \A i \in 1 .. n : Allowed(h[i - 1], calls[i]) /\ h[i] = Told(h[i - 1], calls[i])
  BY DEF Leads
<1> HIDE DEF n, t
<1> DEFINE g == [i \in 0 .. (n - 1) |-> h[i + 1]]
<1>5. g \in [0 .. (n - 1) -> View]
  BY <1>1, <1>4
<1>6. Allowed(u, Head(calls)) /\ g[0] = Told(u, Head(calls)) /\ g[n - 1] = v
  <2>1. 1 \in 1 .. n /\ 1 - 1 = 0 /\ 0 \in 0 .. (n - 1) /\ n - 1 \in 0 .. (n - 1)
    BY <1>1
  <2>2. Allowed(h[0], calls[1]) /\ h[1] = Told(h[0], calls[1])
    BY <1>4, <2>1
  <2>3. g[0] = h[1] /\ g[n - 1] = h[n]
    BY <1>1, <2>1
  <2> QED BY <1>2, <1>4, <2>2, <2>3
<1>7. ASSUME NEW i \in 1 .. (n - 1)
      PROVE  Allowed(g[i - 1], t[i]) /\ g[i] = Told(g[i - 1], t[i])
  <2>1. /\ i + 1 \in 1 .. n /\ (i + 1) - 1 = i
        /\ g[i] = h[i + 1] /\ g[i - 1] = h[i]
    BY <1>1
  <2>2. Allowed(h[i], calls[i + 1]) /\ h[i + 1] = Told(h[i], calls[i + 1])
    BY <1>4, <2>1
  <2> QED BY <1>2, <2>1, <2>2
<1> HIDE DEF g
<1>8. Leads(Told(u, Head(calls)), t, v)
  BY <1>1, <1>5, <1>6, <1>7 DEF Leads
<1> QED BY <1>3, <1>6, <1>8 DEF t

\* Without a call that asks for a song, the current song is that of the start.
LEMMA LeadsToSame ==
  ASSUME NEW u, NEW calls \in Seq(Calls), NEW v, Leads(u, calls, v), v.cur # None,
         \A i \in DOMAIN calls : calls[i].cmd \notin {"PLAY", "SEEK"}
  PROVE  v.cur = u.cur
<1> DEFINE n == Len(calls)
<1>1. n \in Nat /\ DOMAIN calls = 1 .. n
  OBVIOUS
<1>2. PICK h \in [0 .. n -> View] :
        /\ h[0] = u /\ h[n] = v
        /\ \A i \in 1 .. n : Allowed(h[i - 1], calls[i]) /\ h[i] = Told(h[i - 1], calls[i])
  BY DEF Leads
<1> HIDE DEF n
<1> DEFINE bad == {i \in 0 .. n : h[i].cur \notin {u.cur, None}}
<1>3. bad = {}
  <2> SUFFICES ASSUME bad # {} PROVE FALSE
    OBVIOUS
  <2>1. PICK i \in bad : \A j \in bad : i <= j
    <3>1. bad \subseteq Nat
      BY <1>1
    <3> QED BY <3>1, LeastNatural
  <2>2. i # 0 /\ i \in 1 .. n /\ i - 1 \in 0 .. n /\ i - 1 \notin bad
    BY <1>1, <1>2, <2>1
  <2>3. h[i - 1].cur \in {u.cur, None} /\ h[i] = Told(h[i - 1], calls[i])
    BY <1>2, <2>2
  <2>4. calls[i].cmd \notin {"PLAY", "SEEK"}
    BY <1>1, <2>2
  <2>5. h[i].cur \in {h[i - 1].cur, None}
    BY <2>3, <2>4 DEF Told
  <2> QED BY <2>1, <2>3, <2>5
<1>4. n \in 0 .. n
  BY <1>1
<1> QED BY <1>2, <1>3, <1>4

-----------------------------------------------------------------------------
(* Playlists.                                                              *)

PlFields == {"queue", "playing", "current", "queued", "stop_on_error", "error_count",
             "bulk_edit", "bulk_modified", "appended", "calls", "ok"}

PlOK(s) ==
  /\ DOMAIN s = PlFields
  /\ QueueOK(s.queue)
  /\ s.current \in -1 .. (s.queue.length - 1)
  /\ s.queued \in -1 .. (MaxLength - 1)
  /\ s.playing \in BOOLEAN /\ s.bulk_edit \in BOOLEAN
  /\ s.playing => s.current >= 0
  /\ s.error_count \in 0 .. MaxLength
  /\ s.ok = TRUE
  /\ s.calls \in Seq(Calls)
  /\ s.queue.repeat => "repeat" \in Commands
  /\ s.queue.random => "random" \in Commands

(* In the middle of a handler that began with the queue q and a player that
   agrees with the view u: the song prev is queued in the player, once the
   calls so far are made, though queued may not be its order any more. *)
Pending(q, u, s, prev) ==
  /\ PlOK(s) /\ Grows(q, s.queue)
  /\ s.playing => s.error_count < MaxLength
  /\ prev \in SongIds
  /\ Leads(u, s.calls, ViewOf(s, prev))
  /\ s.playing => (s.queued < 0 <=> prev = None)
  /\ ~s.playing => prev = None

\* The queued song follows the current one: without repeat, directly.
QueuedFollows(s) ==
  s.playing /\ s.queued >= 0 =>
    s.queued < s.queue.length /\ (s.queue.repeat \/ s.queued = s.current + 1)

Good(q, u, s) == Pending(q, u, s, GetQueuedSong(s)) /\ QueuedFollows(s)

\* Whatever was called so far.
Loose(q, u, s) == PlOK(s) /\ Grows(q, s.queue) /\ \E v : Leads(u, s.calls, v)

LEMMA PendingIsLoose ==
  ASSUME NEW q, NEW u, NEW s, NEW prev, Pending(q, u, s, prev)
  PROVE  Loose(q, u, s)
  BY DEF Pending, Loose

LEMMA PlTypes ==
  ASSUME NEW s, PlOK(s)
  PROVE  /\ QueueOK(s.queue) /\ s.queue.length \in Nat /\ s.queue.length <= MaxLength
         /\ MaxLength \in Nat
         /\ Positions(s.queue) = 0 .. (s.queue.length - 1)
         /\ s.current \in Int /\ s.current >= -1 /\ s.current < s.queue.length
         /\ s.current >= 0 => s.current \in Positions(s.queue)
         /\ s.queued \in Int /\ s.queued >= -1
         /\ \A o \in Positions(s.queue) : SongAt(s, o) = IdAt(s.queue, o)
                                          /\ SongAt(s, o) \in Ids
         /\ Cur(s) \in SongIds
         /\ Cur(s) = None <=> ~s.playing
<1>1. /\ QueueOK(s.queue) /\ s.queue.length \in Nat /\ s.queue.length <= MaxLength
      /\ MaxLength \in Nat /\ Positions(s.queue) = 0 .. (s.queue.length - 1)
  BY QueueTypes DEF PlOK
<1>2. /\ s.current \in -1 .. (s.queue.length - 1) /\ s.queued \in -1 .. (MaxLength - 1)
      /\ s.playing => s.current >= 0
  BY DEF PlOK
<1>3. /\ s.current \in Int /\ s.current >= -1 /\ s.current < s.queue.length
      /\ s.current >= 0 => s.current \in Positions(s.queue)
      /\ s.queued \in Int /\ s.queued >= -1
  BY <1>1, <1>2
<1>4. \A o \in Positions(s.queue) : SongAt(s, o) = IdAt(s.queue, o) /\ SongAt(s, o) \in Ids
  BY <1>1, QueueTypes DEF SongAt, IdAt
<1>5. Cur(s) \in SongIds /\ (Cur(s) = None <=> ~s.playing)
  BY <1>2, <1>3, <1>4, IdFacts DEF Cur, SongIds
<1> QED BY <1>1, <1>3, <1>4, <1>5

\* A call leaves the rest of the playlist as it is.
LEMMA CallFields ==
  ASSUME NEW s, PlOK(s), NEW cmd \in Cmds, NEW song \in SongIds
  PROVE  LET t == Call(s, cmd, song)
             c == [cmd |-> cmd, song |-> song]
         IN  /\ c \in Calls /\ t.calls = Append(s.calls, c) /\ PlOK(t)
             /\ DOMAIN t = PlFields /\ t.queue = s.queue /\ t.playing = s.playing
             /\ t.current = s.current /\ t.queued = s.queued
             /\ t.error_count = s.error_count /\ t.bulk_edit = s.bulk_edit
             /\ Cur(t) = Cur(s)
<1> DEFINE t == Call(s, cmd, song)  c == [cmd |-> cmd, song |-> song]
<1>1. /\ t.calls = Append(s.calls, c)
      /\ DOMAIN t = PlFields /\ t.queue = s.queue /\ t.playing = s.playing
      /\ t.current = s.current /\ t.queued = s.queued
      /\ t.error_count = s.error_count /\ t.bulk_edit = s.bulk_edit /\ t.ok = s.ok
  BY DEF Call, PlOK, PlFields
<1>2. c \in Calls
  BY DEF Calls
<1> HIDE DEF t, c
<1>3. t.calls \in Seq(Calls)
  BY <1>1, <1>2 DEF PlOK
<1>4. PlOK(t)
  BY <1>1, <1>3 DEF PlOK
<1>5. Cur(t) = Cur(s)
  BY <1>1 DEF Cur, SongAt
<1> QED BY <1>1, <1>2, <1>4, <1>5 DEF t, c

\* Calls the view does not depend on.
LEMMA OtherCall ==
  ASSUME NEW q, NEW u, NEW s, NEW prev, Pending(q, u, s, prev),
         NEW cmd \in {"PAUSE", "UNPAUSE", "CLEAR_ERROR", "BORDER_PAUSE", "NO_BORDER_PAUSE"}
  PROVE  Pending(q, u, Call(s, cmd, None), prev)
<1> DEFINE t == Call(s, cmd, None)  c == [cmd |-> cmd, song |-> None]
<1>1. cmd \in Cmds /\ None \in SongIds /\ PlOK(s)
  BY DEF Cmds, SongIds, Pending
<1>2. /\ c \in Calls /\ t.calls = Append(s.calls, c) /\ PlOK(t)
      /\ t.queue = s.queue /\ t.playing = s.playing /\ t.queued = s.queued
      /\ t.error_count = s.error_count /\ Cur(t) = Cur(s)
  BY <1>1, CallFields
<1>3. Allowed(ViewOf(s, prev), c) /\ Told(ViewOf(s, prev), c) = ViewOf(s, prev)
  BY DEF Allowed, Told
<1> HIDE DEF t, c
<1>4. Leads(u, t.calls, ViewOf(s, prev))
  BY <1>1, <1>2, <1>3, LeadsOn DEF Pending, PlOK
<1>5. ViewOf(t, prev) = ViewOf(s, prev)
  BY <1>2 DEF ViewOf
<1> QED BY <1>2, <1>4, <1>5 DEF Pending, t

LEMMA PlayOrderOK ==
  ASSUME NEW q, NEW u, NEW s, Loose(q, u, s), NEW o \in Positions(s.queue),
         s.error_count < MaxLength
  PROVE  LET t == PlayOrder(s, o)
         IN  /\ Good(q, u, t)
             /\ t.playing /\ t.current = o /\ t.queued = -1 /\ t.queue = s.queue
             /\ t.bulk_edit = s.bulk_edit /\ Len(t.calls) = Len(s.calls) + 1
<1> DEFINE r == [s EXCEPT !.playing = TRUE, !.queued = -1, !.current = o]
           c == [cmd |-> "PLAY", song |-> SongAt(s, o)]
           t == PlayOrder(s, o)
<1>1. PlOK(s) /\ s.calls \in Seq(Calls)
  BY DEF Loose, PlOK
<1>2. PICK v : Leads(u, s.calls, v)
  BY DEF Loose
<1>3. /\ DOMAIN r = PlFields /\ r.queue = s.queue /\ r.playing = TRUE
      /\ r.current = o /\ r.queued = -1 /\ r.error_count = s.error_count
      /\ r.bulk_edit = s.bulk_edit /\ r.ok = s.ok /\ r.calls = s.calls
  BY <1>1 DEF PlOK, PlFields
<1>4. /\ SongAt(s, o) \in Ids /\ SongAt(s, o) \in SongIds /\ "PLAY" \in Cmds
      /\ t = Call(r, "PLAY", SongAt(s, o))
  BY <1>1, PlTypes DEF PlayOrder, SongIds, Cmds
<1> HIDE DEF r, t
<1>5. o \in Int /\ o >= 0 /\ o <= s.queue.length - 1 /\ MaxLength \in Nat
  BY <1>1, PlTypes
<1>6. PlOK(r)
  <2>1. r.current \in -1 .. (r.queue.length - 1) /\ r.queued \in -1 .. (MaxLength - 1)
        /\ r.current >= 0
    <3>1. s.queue.length \in Nat
      BY <1>1, PlTypes
    <3> QED BY <1>3, <1>5, <3>1
  <2> QED BY <1>1, <1>3, <2>1 DEF PlOK
<1>7. /\ c \in Calls /\ t.calls = Append(s.calls, c) /\ PlOK(t)
      /\ t.queue = s.queue /\ t.playing = TRUE /\ t.current = o /\ t.queued = -1
      /\ t.error_count = s.error_count /\ t.bulk_edit = s.bulk_edit
  BY <1>3, <1>4, <1>6, CallFields, SMTT(40)
<1>8. Cur(t) = SongAt(s, o) /\ GetQueuedSong(t) = None
  BY <1>7 DEF Cur, SongAt, GetQueuedSong
<1>9. Allowed(v, c) /\ Told(v, c) = ViewOf(t, None)
  BY <1>4, <1>8, IdFacts DEF Allowed, Told, ViewOf
<1>10. v \in View
  BY <1>1, <1>2, LeadsToView
<1> HIDE DEF c
<1>11. Leads(u, t.calls, ViewOf(t, None))
  BY <1>1, <1>2, <1>7, <1>9, LeadsOn
<1>12. Grows(q, t.queue) /\ t.error_count < MaxLength /\ None \in SongIds
  BY <1>7 DEF Loose, SongIds
<1>13. Pending(q, u, t, None)
  BY <1>7, <1>11, <1>12 DEF Pending
<1>14. Len(t.calls) = Len(s.calls) + 1
  BY <1>1, <1>7
<1> QED BY <1>7, <1>8, <1>13, <1>14 DEF Good, QueuedFollows, t

(* t is s with another queue or another current song, and nothing else that
   the player depends on. *)
Rest(s, t) ==
  /\ DOMAIN t = PlFields
  /\ t.playing = s.playing /\ t.queued = s.queued /\ t.error_count = s.error_count
  /\ t.calls = s.calls /\ t.ok = s.ok /\ t.bulk_edit \in BOOLEAN

\* A queue that a command of the instance may have made.
MayBe(r) ==
  /\ QueueOK(r)
  /\ r.repeat => "repeat" \in Commands
  /\ r.random => "random" \in Commands

\* An edit that keeps the current song current keeps what the player knows.
LEMMA EditKeepsPending ==
  ASSUME NEW q, NEW u, NEW s, NEW prev, Pending(q, u, s, prev),
         NEW t, Rest(s, t), MayBe(t.queue), Grows(q, t.queue),
         t.current \in -1 .. (t.queue.length - 1),
         s.playing => /\ t.current >= 0
                      /\ Exact => IdAt(t.queue, t.current) = IdAt(s.queue, s.current)
  PROVE  Pending(q, u, t, prev)
<1>1. PlOK(s) /\ MaxLength \in Nat
  BY PlTypes DEF Pending
<1>2. PlOK(t)
  BY <1>1 DEF PlOK, Rest, MayBe
<1>3. Shown(Cur(t)) = Shown(Cur(s))
  <2>1. CASE ~s.playing
    BY <2>1 DEF Rest, Cur
  <2>2. CASE s.playing
    <3>1. t.playing /\ t.current \in Positions(t.queue) /\ s.current \in Positions(s.queue)
      BY <1>1, <1>2, <2>2, PlTypes DEF Rest, PlOK
    <3>2. Cur(t) = IdAt(t.queue, t.current) /\ Cur(s) = IdAt(s.queue, s.current)
      BY <1>1, <1>2, <2>2, <3>1, PlTypes DEF Cur
    <3>3. Cur(t) # None /\ Cur(s) # None
      BY <1>1, <1>2, <2>2, <3>1, PlTypes
    <3> QED BY <2>2, <3>2, <3>3 DEF Shown
  <2> QED BY <1>1, <2>1, <2>2 DEF PlOK
<1>4. ViewOf(t, prev) = ViewOf(s, prev)
  BY <1>3 DEF ViewOf
<1> QED BY <1>2, <1>4 DEF Pending, Rest

LEMMA PendingQueue ==
  ASSUME NEW q, NEW u, NEW s, NEW prev, Pending(q, u, s, prev)
  PROVE  PlOK(s) /\ MayBe(s.queue) /\ Grows(q, s.queue)
  BY DEF Pending, PlOK, MayBe

LEMMA SameOptionsMayBe ==
  ASSUME NEW r, MayBe(r), NEW s, QueueOK(s), SameOptions(r, s)
  PROVE  MayBe(s)
  BY DEF MayBe, SameOptions

\* The order of the queue is shuffled, and current follows its song.
LEMMA ShuffledKeeps ==
  ASSUME NEW r, MayBe(r), r.random, NEW x \in ShuffleOrder(r)
  PROVE  /\ MayBe(x) /\ Keeps(r, x) /\ SamePlaces(r, x) /\ x.length = r.length
         /\ Positions(x) = Positions(r) /\ x.repeat = r.repeat /\ x.random = r.random
<1>1. QueueOK(r)
  BY DEF MayBe
<1>2. QueueOK(x) /\ Edits(r, x) /\ SameButOrder(r, x)
  BY <1>1, ShuffledOrderOK
<1>3. /\ Keeps(r, x) /\ SameOptions(r, x) /\ SamePlaces(r, x)
      /\ x.length = r.length /\ x.items = r.items /\ Positions(x) = Positions(r)
  BY <1>2, OrderEditKeeps
<1>4. MayBe(x)
  BY <1>2, <1>3, SameOptionsMayBe
<1> QED BY <1>3, <1>4 DEF SameOptions

\* Where FollowCurrent puts current.
LEMMA FollowCurrentOK ==
  ASSUME NEW s, PlOK(s), NEW x, QueueOK(x), SamePlaces(s.queue, x)
  PROVE  LET k == FollowCurrent(s, x)
         IN  /\ k \in -1 .. (x.length - 1)
             /\ s.current < 0 => k = s.current
             /\ s.current >= 0 => k >= 0 /\ IdAt(x, k) = IdAt(s.queue, s.current)
<1> DEFINE k == FollowCurrent(s, x)  r == s.queue
<1>1. /\ QueueOK(r) /\ s.current \in Int /\ s.current >= -1
      /\ s.current >= 0 => s.current \in Positions(r)
  BY PlTypes
<1>2. x.length \in Nat /\ Positions(x) = 0 .. (x.length - 1)
  BY QueueTypes
<1>3. CASE s.current < 0
  BY <1>1, <1>2, <1>3 DEF FollowCurrent
<1>4. CASE s.current >= 0
  <2>1. s.current \in Positions(r) /\ k = PositionToOrder(x, r.order[s.current])
    BY <1>1, <1>4 DEF FollowCurrent, GetCurrentPosition
  <2>2. k \in Positions(x) /\ IdAt(x, k) = IdAt(r, s.current)
    BY <1>1, <2>1, FoundAgain
  <2> HIDE DEF k
  <2>3. k \in -1 .. (x.length - 1) /\ k >= 0
    BY <1>2, <2>2
  <2>4. ~(s.current < 0)
    BY <1>1, <1>4
  <2> QED BY <2>2, <2>3, <2>4 DEF k
<1> QED BY <1>1, <1>3, <1>4

LEMMA ReshuffledOK ==
  ASSUME NEW q, NEW u, NEW s, NEW prev, Pending(q, u, s, prev), s.queue.random,
         NEW t \in Reshuffled(s)
  PROVE  /\ Pending(q, u, t, prev) /\ t.queue.length = s.queue.length
         /\ t.queue.repeat = s.queue.repeat /\ t.playing = s.playing
         /\ t.bulk_edit = s.bulk_edit /\ t.calls = s.calls /\ t.queued = s.queued
<1>1. PlOK(s) /\ MayBe(s.queue) /\ Grows(q, s.queue)
  BY PendingQueue
<1>2. PICK x \in ShuffleOrder(s.queue) :
        t = [s EXCEPT !.queue = x, !.current = FollowCurrent(s, x)]
  BY DEF Reshuffled
<1>3. /\ MayBe(x) /\ Keeps(s.queue, x) /\ SamePlaces(s.queue, x)
      /\ x.length = s.queue.length /\ x.repeat = s.queue.repeat
  BY <1>1, <1>2, ShuffledKeeps
<1>4. /\ FollowCurrent(s, x) \in -1 .. (x.length - 1)
      /\ s.current < 0 => FollowCurrent(s, x) = s.current
      /\ s.current >= 0 => /\ FollowCurrent(s, x) >= 0
                           /\ IdAt(x, FollowCurrent(s, x)) = IdAt(s.queue, s.current)
  BY <1>1, <1>3, FollowCurrentOK DEF MayBe
<1>5. /\ Rest(s, t) /\ t.queue = x /\ t.current = FollowCurrent(s, x)
      /\ t.playing = s.playing /\ t.bulk_edit = s.bulk_edit
  BY <1>1, <1>2 DEF Rest, PlOK, PlFields
<1>6. Grows(q, x)
  BY <1>1, <1>3, GrowsTrans
<1>7. s.playing => s.current >= 0
  BY <1>1 DEF PlOK
<1>8. Pending(q, u, t, prev)
  BY <1>3, <1>4, <1>5, <1>6, <1>7, EditKeepsPending
<1> QED BY <1>3, <1>5, <1>8 DEF Rest

LEMMA StopOK ==
  ASSUME NEW q, NEW u, NEW s, Loose(q, u, s), s.playing, NEW t \in Stop(s)
  PROVE  /\ Good(q, u, t) /\ ~t.playing /\ t.queue.length = s.queue.length
         /\ t.bulk_edit = s.bulk_edit
<1> DEFINE r == [s EXCEPT !.queued = -1, !.playing = FALSE]
           c == [cmd |-> "STOP", song |-> None]
           x == Call(r, "STOP", None)
<1>1. PlOK(s) /\ s.calls \in Seq(Calls) /\ Grows(q, s.queue)
  BY DEF Loose, PlOK
<1>2. PICK v : Leads(u, s.calls, v)
  BY DEF Loose
<1>3. /\ DOMAIN r = PlFields /\ r.queue = s.queue /\ r.playing = FALSE
      /\ r.current = s.current /\ r.queued = -1 /\ r.error_count = s.error_count
      /\ r.bulk_edit = s.bulk_edit /\ r.ok = s.ok /\ r.calls = s.calls
  BY <1>1 DEF PlOK, PlFields
<1> HIDE DEF r
<1>4. PlOK(r)
  <2>1. r.queued \in -1 .. (MaxLength - 1)
    BY <1>1, <1>3, PlTypes
  <2> QED BY <1>1, <1>3, <2>1 DEF PlOK
<1>5. "STOP" \in Cmds /\ None \in SongIds
  BY DEF Cmds, SongIds
<1>6. /\ c \in Calls /\ x.calls = Append(s.calls, c) /\ PlOK(x)
      /\ x.queue = s.queue /\ x.playing = FALSE /\ x.queued = -1
      /\ x.current = s.current /\ x.bulk_edit = s.bulk_edit
  BY <1>3, <1>4, <1>5, CallFields
<1>7. Allowed(v, c) /\ Told(v, c) = ViewOf(x, None)
  BY <1>6 DEF Allowed, Told, ViewOf, Cur, Shown
<1> HIDE DEF c, x
<1>8. Leads(u, x.calls, ViewOf(x, None))
  BY <1>1, <1>2, <1>6, <1>7, LeadsOn
<1>9. Pending(q, u, x, None)
  BY <1>1, <1>5, <1>6, <1>8 DEF Pending
<1>10. ~(s.current < 0)
  <2>1. s.current >= 0 /\ s.current \in Int
    BY <1>1, PlTypes DEF PlOK
  <2> QED BY <2>1
<1>11. t \in IF s.queue.random THEN Reshuffled(x) ELSE {x}
  BY <1>10 DEF Stop, x, r
<1>12. /\ Pending(q, u, t, None) /\ ~t.playing
       /\ t.queue.length = s.queue.length /\ t.bulk_edit = s.bulk_edit
  <2>1. CASE s.queue.random
    BY <1>6, <1>9, <1>11, <2>1, ReshuffledOK
  <2>2. CASE ~s.queue.random
    BY <1>6, <1>9, <1>11, <2>2
  <2> QED BY <2>1, <2>2
<1>13. GetQueuedSong(t) = None
  BY <1>12 DEF GetQueuedSong
<1> QED BY <1>12, <1>13 DEF Good, QueuedFollows

-----------------------------------------------------------------------------
(* The queued song.                                                        *)

LEMMA QueuedSongIs ==
  ASSUME NEW s, s.playing, s.queued \in Int
  PROVE  GetQueuedSong(s) = IF s.queued >= 0 THEN SongAt(s, s.queued) ELSE None
  BY DEF GetQueuedSong

\* The queued song is forgotten, by the playlist and by the player.
LEMMA CancelOK ==
  ASSUME NEW q, NEW u, NEW s, NEW prev, Pending(q, u, s, prev), s.playing
  PROVE  LET t == Call([s EXCEPT !.queued = -1], "CANCEL", None)
         IN  /\ Pending(q, u, t, None) /\ t.playing /\ t.queue = s.queue
             /\ t.current = s.current /\ t.queued = -1 /\ t.bulk_edit = s.bulk_edit
<1> DEFINE r == [s EXCEPT !.queued = -1]
           c == [cmd |-> "CANCEL", song |-> None]
           t == Call(r, "CANCEL", None)
<1>1. PlOK(s) /\ s.calls \in Seq(Calls)
  BY DEF Pending, PlOK
<1>2. /\ DOMAIN r = PlFields /\ r.queue = s.queue /\ r.playing = s.playing
      /\ r.current = s.current /\ r.queued = -1 /\ r.error_count = s.error_count
      /\ r.bulk_edit = s.bulk_edit /\ r.ok = s.ok /\ r.calls = s.calls
  BY <1>1 DEF PlOK, PlFields
<1> HIDE DEF r
<1>3. PlOK(r) /\ Cur(r) = Cur(s)
  <2>1. r.queued \in -1 .. (MaxLength - 1)
    BY <1>1, <1>2, PlTypes
  <2> QED BY <1>1, <1>2, <2>1 DEF PlOK, Cur, SongAt
<1>4. "CANCEL" \in Cmds /\ None \in SongIds
  BY DEF Cmds, SongIds
<1>5. /\ c \in Calls /\ t.calls = Append(s.calls, c) /\ PlOK(t)
      /\ t.queue = s.queue /\ t.playing = s.playing /\ t.queued = -1
      /\ t.current = s.current /\ t.bulk_edit = s.bulk_edit
      /\ t.error_count = s.error_count /\ Cur(t) = Cur(s)
  <2>1. /\ c \in Calls /\ t.calls = Append(r.calls, c) /\ PlOK(t)
        /\ t.queue = r.queue /\ t.playing = r.playing /\ t.queued = r.queued
        /\ t.current = r.current /\ t.bulk_edit = r.bulk_edit
        /\ t.error_count = r.error_count /\ Cur(t) = Cur(r)
    BY <1>3, <1>4, CallFields
  <2> HIDE DEF c, t
  <2> QED BY <1>2, <1>3, <2>1
<1>6. /\ Allowed(ViewOf(s, prev), c)
      /\ Told(ViewOf(s, prev), c) = ViewOf(t, None)
  BY <1>5 DEF Allowed, Told, ViewOf
<1>7. Leads(u, s.calls, ViewOf(s, prev)) /\ Grows(q, s.queue)
      /\ (s.playing => s.error_count < MaxLength)
  BY DEF Pending
<1> HIDE DEF c, t
<1>8. Leads(u, t.calls, ViewOf(t, None))
  BY <1>1, <1>5, <1>6, <1>7, LeadsOn
<1>9. Pending(q, u, t, None)
  BY <1>4, <1>5, <1>7, <1>8 DEF Pending
<1> QED BY <1>5, <1>9 DEF t, r

LEMMA QueueSongOrderOK ==
  ASSUME NEW q, NEW u, NEW s, Pending(q, u, s, None), s.playing,
         NEW o \in Positions(s.queue)
  PROVE  LET t == QueueSongOrder(s, o)
         IN  /\ Pending(q, u, t, GetQueuedSong(t)) /\ t.playing /\ t.queue = s.queue
             /\ t.current = s.current /\ t.queued = o /\ t.bulk_edit = s.bulk_edit
<1> DEFINE r == [s EXCEPT !.queued = o]
           c == [cmd |-> "ENQUEUE", song |-> SongAt(s, o)]
           t == Call(r, "ENQUEUE", SongAt(s, o))
<1>1. PlOK(s) /\ s.calls \in Seq(Calls)
  BY DEF Pending, PlOK
<1>2. /\ DOMAIN r = PlFields /\ r.queue = s.queue /\ r.playing = s.playing
      /\ r.current = s.current /\ r.queued = o /\ r.error_count = s.error_count
      /\ r.bulk_edit = s.bulk_edit /\ r.ok = s.ok /\ r.calls = s.calls
  BY <1>1 DEF PlOK, PlFields
<1> HIDE DEF r
<1>3. o \in Int /\ o >= 0 /\ o \in -1 .. (MaxLength - 1)
  <2>1. /\ s.queue.length \in Nat /\ s.queue.length <= MaxLength /\ MaxLength \in Nat
        /\ o \in 0 .. (s.queue.length - 1)
    BY <1>1, PlTypes
  <2> QED BY <2>1
<1>4. PlOK(r) /\ Cur(r) = Cur(s)
  BY <1>1, <1>2, <1>3 DEF PlOK, Cur, SongAt
<1>5. /\ "ENQUEUE" \in Cmds /\ SongAt(s, o) \in SongIds /\ SongAt(s, o) # None
      /\ None \in SongIds
  BY <1>1, PlTypes, IdFacts DEF Cmds, SongIds
<1>6. /\ c \in Calls /\ t.calls = Append(s.calls, c) /\ PlOK(t)
      /\ t.queue = s.queue /\ t.playing = s.playing /\ t.queued = o
      /\ t.current = s.current /\ t.bulk_edit = s.bulk_edit
      /\ t.error_count = s.error_count /\ Cur(t) = Cur(s)
  <2>1. /\ c \in Calls /\ t.calls = Append(r.calls, c) /\ PlOK(t)
        /\ t.queue = r.queue /\ t.playing = r.playing /\ t.queued = r.queued
        /\ t.current = r.current /\ t.bulk_edit = r.bulk_edit
        /\ t.error_count = r.error_count /\ Cur(t) = Cur(r)
    BY <1>4, <1>5, CallFields
  <2> HIDE DEF c, t
  <2> QED BY <1>2, <1>4, <2>1
<1>7. GetQueuedSong(t) = SongAt(s, o)
  BY <1>3, <1>6 DEF GetQueuedSong, SongAt
<1>8. /\ Allowed(ViewOf(s, None), c)
      /\ Told(ViewOf(s, None), c) = ViewOf(t, GetQueuedSong(t))
  <2>1. Shown(Cur(s)) # None
    BY <1>1, PlTypes, IdFacts
  <2> QED BY <1>5, <1>6, <1>7, <2>1 DEF Allowed, Told, ViewOf
<1>9. Leads(u, s.calls, ViewOf(s, None)) /\ Grows(q, s.queue)
      /\ (s.playing => s.error_count < MaxLength)
  BY DEF Pending
<1> HIDE DEF c, t
<1>10. Leads(u, t.calls, ViewOf(t, GetQueuedSong(t)))
  BY <1>1, <1>6, <1>8, <1>9, LeadsOn
<1>11. t.queued < 0 <=> GetQueuedSong(t) = None
  BY <1>3, <1>5, <1>6, <1>7
<1>12. Pending(q, u, t, GetQueuedSong(t))
  BY <1>5, <1>6, <1>7, <1>9, <1>10, <1>11 DEF Pending
<1> QED BY <1>6, <1>12 DEF t, r, QueueSongOrder

\* The song that comes next becomes the queued one, or none does.
LEMMA RequeueOK ==
  ASSUME NEW q, NEW u, NEW s, NEW prev, Pending(q, u, s, prev), s.playing,
         NEW next_order \in Int,
         next_order = -1 \/ next_order \in Positions(s.queue),
         s.queue.repeat \/ next_order \in {-1, s.current + 1}
  PROVE  LET t == Requeue(s, prev, next_order)
         IN  Good(q, u, t) /\ t.playing = s.playing /\ t.queue.length = s.queue.length
             /\ t.bulk_edit = s.bulk_edit
<1> DEFINE next == IF next_order >= 0 THEN SongAt(s, next_order) ELSE None
           t == IF prev # None /\ next # prev
                THEN Call([s EXCEPT !.queued = -1], "CANCEL", None) ELSE s
           p == IF prev # None /\ next # prev THEN None ELSE prev
           x == Requeue(s, prev, next_order)
<1>1. PlOK(s) /\ s.current \in Int /\ s.queued \in Int
      /\ Positions(s.queue) = 0 .. (s.queue.length - 1) /\ s.queue.length \in Nat
  BY PlTypes DEF Pending
<1>2. /\ Pending(q, u, t, p) /\ t.playing /\ t.queue = s.queue
      /\ t.current = s.current /\ t.bulk_edit = s.bulk_edit
      /\ p # prev => t.queued = -1 /\ p = None
      /\ t.queued \in Int /\ t.queued >= -1
  <2>1. CASE prev # None /\ next # prev
    <3>1. t = Call([s EXCEPT !.queued = -1], "CANCEL", None) /\ p = None
      BY <2>1
    <3> HIDE DEF t, p, next
    <3>2. /\ Pending(q, u, t, None) /\ t.playing /\ t.queue = s.queue
          /\ t.current = s.current /\ t.queued = -1 /\ t.bulk_edit = s.bulk_edit
      BY <3>1, CancelOK, ZenonT(60)
    <3> QED BY <3>1, <3>2
  <2>2. CASE ~(prev # None /\ next # prev)
    BY <1>1, <2>2, PlTypes
  <2> QED BY <2>1, <2>2
<1>3. x = IF next_order < 0 THEN t
          ELSE IF next # prev THEN QueueSongOrder(t, next_order)
          ELSE [t EXCEPT !.queued = next_order]
  BY DEF Requeue
<1> HIDE DEF t, x
<1>4. CASE next_order < 0
  <2>1. next = None /\ p = None
    BY <1>4
  <2>2. t.queued < 0
    BY <1>2, <2>1 DEF Pending
  <2>3. GetQueuedSong(t) = None
    BY <1>2, <2>2 DEF GetQueuedSong
  <2>4. x = t /\ ~(t.queued >= 0)
    BY <1>2, <1>3, <1>4, <2>2
  <2>5. Good(q, u, x)
    BY <1>2, <2>1, <2>3, <2>4 DEF Good, QueuedFollows
  <2> QED BY <1>2, <2>4, <2>5 DEF x
<1>5. CASE ~(next_order < 0) /\ next # prev
  <2>1. next_order \in Positions(t.queue) /\ next = SongAt(s, next_order)
    BY <1>2, <1>5
  <2>2. p = None
    BY <1>5
  <2>3. x = QueueSongOrder(t, next_order)
    BY <1>3, <1>5
  <2>4. /\ Pending(q, u, x, GetQueuedSong(x)) /\ x.playing /\ x.queue = t.queue
        /\ x.current = t.current /\ x.queued = next_order /\ x.bulk_edit = t.bulk_edit
    BY <1>2, <2>1, <2>2, <2>3, QueueSongOrderOK
  <2>5. x.queued < x.queue.length /\ (x.queue.repeat \/ x.queued = x.current + 1)
    BY <1>1, <1>2, <1>5, <2>1, <2>4
  <2> QED BY <1>2, <2>4, <2>5 DEF Good, QueuedFollows, x
<1>6. CASE ~(next_order < 0) /\ next = prev
  <2>1. /\ next_order \in Positions(s.queue) /\ next = SongAt(s, next_order)
        /\ next_order >= 0
    BY <1>6
  <2>2. next \in Ids /\ p = prev /\ t = s /\ prev # None
    BY <1>1, <1>6, <2>1, PlTypes, IdFacts DEF t
  <2>3. x = [s EXCEPT !.queued = next_order]
    BY <1>3, <1>6, <2>2
  <2>4. /\ DOMAIN x = PlFields /\ x.queue = s.queue /\ x.playing = s.playing
        /\ x.current = s.current /\ x.queued = next_order
        /\ x.error_count = s.error_count
        /\ x.bulk_edit = s.bulk_edit /\ x.ok = s.ok /\ x.calls = s.calls
    BY <1>1, <2>3 DEF PlOK, PlFields
  <2>5. x.queued \in -1 .. (MaxLength - 1) /\ x.queued < x.queue.length
    <3>1. s.queue.length <= MaxLength /\ MaxLength \in Nat
      BY <1>1, PlTypes
    <3> QED BY <1>1, <2>1, <2>4, <3>1
  <2>6. PlOK(x) /\ ViewOf(x, prev) = ViewOf(s, prev)
    BY <1>1, <2>4, <2>5 DEF PlOK, ViewOf, Cur, SongAt
  <2>7. GetQueuedSong(x) = prev
    BY <1>6, <2>1, <2>4 DEF GetQueuedSong, SongAt
  <2>8. x.queued >= 0 /\ ~(x.queued < 0)
    BY <2>1, <2>4
  <2>9. Pending(q, u, x, prev)
    BY <2>2, <2>4, <2>6, <2>8 DEF Pending
  <2>10. x.queue.repeat \/ x.queued = x.current + 1
    BY <1>1, <2>1, <2>4
  <2> QED BY <2>4, <2>5, <2>7, <2>9, <2>10 DEF Good, QueuedFollows, x
<1> QED BY <1>4, <1>5, <1>6

LEMMA NextOrderOK ==
  ASSUME NEW r, QueueOK(r), NEW o \in Positions(r)
  PROVE  LET n == GetNextOrder(r, o)
         IN  /\ n \in Int /\ (n = -1 \/ n \in Positions(r))
             /\ r.repeat \/ n \in {-1, o + 1}
<1>1. r.length \in Nat /\ Positions(r) = 0 .. (r.length - 1) /\ o \in Int
  BY QueueTypes
<1> QED BY <1>1 DEF GetNextOrder

LEMMA UpdateQueuedSongOK ==
  ASSUME NEW q, NEW u, NEW s, NEW prev, Pending(q, u, s, prev),
         NEW t \in UpdateQueuedSong(s, prev)
  PROVE  /\ Good(q, u, t) /\ t.playing = s.playing
         /\ t.queue.length = s.queue.length /\ t.bulk_edit = s.bulk_edit
<1> DEFINE next_order == IF s.current >= 0 THEN GetNextOrder(s.queue, s.current) ELSE 0
           again == next_order = 0 /\ s.queue.random /\ ~s.queue.single
           a == Assert(s, /\ s.queue.length > 0
                          /\ (s.queued < 0) = (prev = None)
                          /\ again => s.current >= 0)
<1>1. /\ PlOK(s) /\ s.current \in Int /\ s.queued \in Int
      /\ s.queue.length \in Nat /\ QueueOK(s.queue)
      /\ Positions(s.queue) = 0 .. (s.queue.length - 1)
  BY PlTypes DEF Pending
<1>2. CASE ~s.playing \/ (prev = None /\ s.bulk_edit)
  <2>1. t = s
    BY <1>2 DEF UpdateQueuedSong
  <2>2. GetQueuedSong(s) = prev /\ (s.playing => s.queued < 0)
    BY <1>1, <1>2 DEF GetQueuedSong, Pending
  <2>3. ~(s.playing /\ s.queued >= 0)
    BY <1>1, <2>2
  <2> QED BY <2>1, <2>2, <2>3 DEF Good, QueuedFollows
<1>3. CASE ~(~s.playing \/ (prev = None /\ s.bulk_edit))
  <2>1. s.playing /\ s.current >= 0 /\ s.current \in Positions(s.queue)
    BY <1>1, <1>3, PlTypes DEF PlOK
  <2>2. (s.queued < 0) = (prev = None) /\ s.queue.length > 0
    <3>1. s.queue.length > 0
      BY <1>1, <2>1
    <3>2. s.queued < 0 <=> prev = None
      BY <2>1 DEF Pending
    <3> QED BY <3>1, <3>2
  <2>3. a.ok = TRUE
    <3>1. s.ok = TRUE /\ DOMAIN s = PlFields
      BY <1>1 DEF PlOK
    <3> HIDE DEF again
    <3> QED BY <2>1, <2>2, <3>1 DEF Assert, PlFields
  <2>4. next_order = GetNextOrder(s.queue, s.current)
    BY <2>1
  <2>5. /\ next_order \in Int /\ (next_order = -1 \/ next_order \in Positions(s.queue))
        /\ s.queue.repeat \/ next_order \in {-1, s.current + 1}
    BY <1>1, <2>1, <2>4, NextOrderOK
  <2>6. t \in {Requeue(v, prev, next_order) : v \in IF again THEN Reshuffled(s) ELSE {s}}
    <3> HIDE DEF next_order, again, a
    <3>1. UpdateQueuedSong(s, prev) =
            IF ~s.playing \/ (prev = None /\ s.bulk_edit) THEN {s}
            ELSE IF ~a.ok THEN {a}
            ELSE {Requeue(v, prev, next_order) : v \in IF again THEN Reshuffled(s) ELSE {s}}
      BY DEF UpdateQueuedSong, next_order, again, a
    <3> QED BY <1>3, <2>3, <3>1
  <2> HIDE DEF next_order
  <2>7. again => s.queue.repeat
    BY <1>1, <2>1, <2>5
  <2>8. PICK v \in IF again THEN Reshuffled(s) ELSE {s} :
          t = Requeue(v, prev, next_order)
    BY <2>6
  <2>9. /\ Pending(q, u, v, prev) /\ v.playing /\ v.queue.length = s.queue.length
        /\ v.bulk_edit = s.bulk_edit /\ v.queue.repeat = s.queue.repeat
        /\ again \/ v = s
    <3>1. CASE again
      <4>1. v \in Reshuffled(s) /\ s.queue.random
        BY <2>8, <3>1
      <4> QED BY <2>1, <3>1, <4>1, ReshuffledOK
    <3>2. CASE ~again
      BY <2>1, <2>8, <3>2
    <3> QED BY <3>1, <3>2
  <2>10. /\ next_order = -1 \/ next_order \in Positions(v.queue)
         /\ v.queue.repeat \/ next_order \in {-1, v.current + 1}
    BY <2>5, <2>7, <2>9 DEF Positions
  <2> HIDE DEF again
  <2>11. v.playing
    BY <2>9
  <2>12. /\ Good(q, u, t) /\ t.playing = v.playing /\ t.queue.length = v.queue.length
         /\ t.bulk_edit = v.bulk_edit
    <3>1. Pending(q, u, v, prev) /\ next_order \in Int
      BY <2>5, <2>9
    <3>2. next_order = -1 \/ next_order \in Positions(v.queue)
      BY <2>10
    <3>3. v.queue.repeat \/ next_order \in {-1, v.current + 1}
      BY <2>10
    <3> HIDE DEF a
    <3>4. Good(q, u, Requeue(v, prev, next_order))
      BY <2>11, <3>1, <3>2, <3>3, RequeueOK
    <3>5. Requeue(v, prev, next_order).playing = v.playing
      BY <2>11, <3>1, <3>2, <3>3, RequeueOK
    <3>6. Requeue(v, prev, next_order).queue.length = v.queue.length
      BY <2>11, <3>1, <3>2, <3>3, RequeueOK
    <3>7. Requeue(v, prev, next_order).bulk_edit = v.bulk_edit
      BY <2>11, <3>1, <3>2, <3>3, RequeueOK
    <3> QED BY <2>8, <3>4, <3>5, <3>6, <3>7
  <2> QED BY <2>1, <2>9, <2>12
<1> QED BY <1>2, <1>3

-----------------------------------------------------------------------------
(* Deleting songs.                                                         *)

\* Pending after the queue has become r and current has become k.
LEMMA NewQueuePending ==
  ASSUME NEW q, NEW u, NEW s, NEW prev, Pending(q, u, s, prev),
         NEW r, MayBe(r), Grows(q, r), NEW k \in -1 .. (r.length - 1),
         s.playing => /\ k >= 0
                      /\ Exact => IdAt(r, k) = IdAt(s.queue, s.current)
  PROVE  LET t == [s EXCEPT !.queue = r, !.current = k]
         IN  /\ Pending(q, u, t, prev) /\ Rest(s, t) /\ t.queue = r /\ t.current = k
             /\ t.bulk_edit = s.bulk_edit
<1> DEFINE t == [s EXCEPT !.queue = r, !.current = k]
<1>1. PlOK(s)
  BY DEF Pending
<1>2. Rest(s, t) /\ t.queue = r /\ t.current = k /\ t.bulk_edit = s.bulk_edit
  BY <1>1 DEF Rest, PlOK, PlFields
<1> HIDE DEF t
<1>3. Pending(q, u, t, prev)
  BY <1>2, EditKeepsPending
<1> QED BY <1>2, <1>3 DEF t

\* The playlist goes on to the next song, or stops.
LEMMA LeaveCurrentOK ==
  ASSUME NEW q, NEW u, NEW s, NEW prev, Pending(q, u, s, prev), s.playing,
         NEW paused \in BOOLEAN
  PROVE  LET t == LeaveCurrent(s, s.current, paused)
         IN  /\ Pending(q, u, t, None) /\ t.queue = s.queue
             /\ t.current \in -1 .. (s.queue.length - 1) /\ t.current # s.current
             /\ t.playing => t.current >= 0
             /\ Len(t.calls) = Len(s.calls) + 1 /\ t.bulk_edit = s.bulk_edit
<1> DEFINE next == GetNextOrder(s.queue, s.current)
           current == IF next = s.current THEN -1 ELSE next
           t == LeaveCurrent(s, s.current, paused)
<1>1. /\ PlOK(s) /\ s.current \in Int /\ s.current >= 0 /\ s.queue.length \in Nat
      /\ s.current \in Positions(s.queue) /\ QueueOK(s.queue)
      /\ Positions(s.queue) = 0 .. (s.queue.length - 1)
      /\ s.calls \in Seq(Calls) /\ DOMAIN s = PlFields
  BY PlTypes DEF Pending, PlOK
<1>2. next \in Int /\ (next = -1 \/ next \in Positions(s.queue))
  BY <1>1, NextOrderOK
<1> HIDE DEF next
<1>3. /\ current \in -1 .. (s.queue.length - 1) /\ current # s.current
      /\ current >= 0 => current \in Positions(s.queue)
  BY <1>1, <1>2
<1>4. t = IF current >= 0 /\ ~paused THEN PlayOrder(s, current)
          ELSE Call([s EXCEPT !.current = current, !.playing = FALSE], "STOP", None)
  BY DEF LeaveCurrent, next
<1> HIDE DEF current, t
<1>5. CASE current >= 0 /\ ~paused
  <2>1. Loose(q, u, s) /\ s.error_count < MaxLength
    BY PendingIsLoose DEF Pending
  <2>2. t = PlayOrder(s, current) /\ current \in Positions(s.queue)
    BY <1>3, <1>4, <1>5
  <2>3. /\ Good(q, u, t)
        /\ t.playing /\ t.current = current /\ t.queued = -1 /\ t.queue = s.queue
        /\ t.bulk_edit = s.bulk_edit /\ Len(t.calls) = Len(s.calls) + 1
    BY <2>1, <2>2, PlayOrderOK
  <2>4. GetQueuedSong(t) = None
    BY <2>3 DEF GetQueuedSong
  <2> QED BY <1>3, <1>5, <2>3, <2>4 DEF Good, t
<1>6. CASE ~(current >= 0 /\ ~paused)
  <2> DEFINE r == [s EXCEPT !.current = current, !.playing = FALSE]
             c == [cmd |-> "STOP", song |-> None]
             x == Call(r, "STOP", None)
  <2>1. /\ DOMAIN r = PlFields /\ r.queue = s.queue /\ r.playing = FALSE
        /\ r.current = current /\ r.queued = s.queued /\ r.error_count = s.error_count
        /\ r.bulk_edit = s.bulk_edit /\ r.ok = s.ok /\ r.calls = s.calls
    BY <1>1 DEF PlFields
  <2>2. t = x
    BY <1>4, <1>6
  <2> HIDE DEF r
  <2>3. PlOK(r)
    BY <1>1, <1>3, <2>1 DEF PlOK
  <2>4. "STOP" \in Cmds /\ None \in SongIds
    BY DEF Cmds, SongIds
  <2>5. /\ c \in Calls /\ x.calls = Append(s.calls, c) /\ PlOK(x)
        /\ x.queue = s.queue /\ x.playing = FALSE
        /\ x.current = current /\ x.bulk_edit = s.bulk_edit
    BY <2>1, <2>3, <2>4, CallFields
  <2>6. Allowed(ViewOf(s, prev), c) /\ Told(ViewOf(s, prev), c) = ViewOf(x, None)
    BY <2>5 DEF Allowed, Told, ViewOf, Cur, Shown
  <2>7. Leads(u, s.calls, ViewOf(s, prev)) /\ Grows(q, s.queue)
    BY DEF Pending
  <2> HIDE DEF c, x
  <2>8. Leads(u, x.calls, ViewOf(x, None))
    BY <1>1, <2>5, <2>6, <2>7, LeadsOn
  <2>9. Pending(q, u, x, None)
    BY <2>4, <2>5, <2>7, <2>8 DEF Pending
  <2>10. Len(x.calls) = Len(s.calls) + 1
    BY <1>1, <2>5
  <2> QED BY <1>3, <2>2, <2>5, <2>9, <2>10 DEF t
<1> QED BY <1>5, <1>6

\* Where CurrentAfterDelete puts the current song of another order.
LEMMA CurrentAfterDeleteOK ==
  ASSUME NEW n \in Nat, NEW o \in 0 .. (n - 1), NEW c \in -1 .. (n - 1), c # o
  PROVE  LET k == CurrentAfterDelete(c, o)
         IN  /\ k \in -1 .. (n - 2)
             /\ c < 0 => k = c
             /\ c >= 0 => k >= 0 /\ (IF k < o THEN k ELSE k + 1) = c
  BY DEF CurrentAfterDelete

LEMMA DeleteInternalOK ==
  ASSUME NEW q, NEW u, NEW s, NEW prev, Pending(q, u, s, prev),
         NEW position \in Positions(s.queue), NEW paused \in BOOLEAN
  PROVE  LET t == DeleteInternal(s, position, paused)
             p == IF Len(t.calls) > Len(s.calls) THEN None ELSE prev
         IN  /\ Pending(q, u, t, p) /\ t.queue.length = s.queue.length - 1
             /\ t.bulk_edit = s.bulk_edit
<1> DEFINE o == PositionToOrder(s.queue, position)
           r == DeletePosition(s.queue, position)
           x == IF s.current # o THEN s
                ELSE IF s.playing THEN LeaveCurrent(s, o, paused)
                ELSE [s EXCEPT !.current = -1]
           k == CurrentAfterDelete(x.current, o)
           t == [x EXCEPT !.queue = r, !.current = k]
           p == IF Len(t.calls) > Len(s.calls) THEN None ELSE prev
<1>1. /\ PlOK(s) /\ s.current \in Int /\ s.queue.length \in Nat
      /\ s.current \in -1 .. (s.queue.length - 1)
      /\ QueueOK(s.queue) /\ MayBe(s.queue) /\ Grows(q, s.queue)
      /\ Positions(s.queue) = 0 .. (s.queue.length - 1)
      /\ s.calls \in Seq(Calls) /\ DOMAIN s = PlFields
      /\ s.playing => s.current >= 0
  BY PlTypes, PendingQueue DEF PlOK
<1>2. o \in Positions(s.queue) /\ o \in 0 .. (s.queue.length - 1)
  BY <1>1, PositionToOrderOK
<1>3. /\ QueueOK(r) /\ Keeps(s.queue, r) /\ SameOptions(s.queue, r)
      /\ r.length = s.queue.length - 1
      /\ \A i \in Positions(r) :
           IdAt(r, i) = IdAt(s.queue, IF i < o THEN i ELSE i + 1)
  BY <1>1, DeletePositionKeeps
<1>4. MayBe(r) /\ Grows(q, r)
  BY <1>1, <1>3, SameOptionsMayBe, GrowsTrans
<1>5. DeleteInternal(s, position, paused) = [x EXCEPT !.queue = r, !.current = k]
  <2>1. x.queue = s.queue
    <3>1. CASE s.current = o /\ s.playing
      BY <1>1, <3>1, LeaveCurrentOK
    <3>2. CASE s.current = o /\ ~s.playing
      BY <1>1, <3>2 DEF PlFields
    <3>3. CASE s.current # o
      BY <3>3
    <3> QED BY <1>1, <3>1, <3>2, <3>3 DEF PlOK
  <2>2. DeleteInternal(s, position, paused)
          = [x EXCEPT !.queue = DeletePosition(@, position),
                      !.current = CurrentAfterDelete(@, o)]
    BY DEF DeleteInternal
  <2> HIDE DEF x, o
  <2> QED BY <2>1, <2>2
<1> HIDE DEF o, r
<1>6. \E p0 : /\ Pending(q, u, x, p0) /\ x.queue = s.queue
              /\ x.current \in -1 .. (s.queue.length - 1) /\ x.current # o
              /\ x.bulk_edit = s.bulk_edit
              /\ p0 = IF Len(x.calls) > Len(s.calls) THEN None ELSE prev
  <2>1. CASE s.current # o
    BY <1>1, <2>1
  <2>2. CASE s.current = o /\ s.playing
    <3>1. x = LeaveCurrent(s, s.current, paused)
      BY <2>2
    <3> HIDE DEF x
    <3>2. /\ Pending(q, u, x, None) /\ x.queue = s.queue
          /\ x.current \in -1 .. (s.queue.length - 1) /\ x.current # s.current
          /\ Len(x.calls) = Len(s.calls) + 1 /\ x.bulk_edit = s.bulk_edit
      BY <2>2, <3>1, LeaveCurrentOK
    <3>3. Len(x.calls) > Len(s.calls)
      BY <1>1, <3>2
    <3> QED BY <2>2, <3>2, <3>3
  <2>3. CASE s.current = o /\ ~s.playing
    <3>1. x = [s EXCEPT !.current = -1]
      BY <2>3
    <3> HIDE DEF x
    <3>2. Rest(s, x) /\ x.current = -1 /\ x.queue = s.queue /\ x.bulk_edit = s.bulk_edit
      BY <1>1, <3>1 DEF Rest, PlOK, PlFields
    <3>3. x.current \in -1 .. (s.queue.length - 1) /\ x.current # o
      BY <1>1, <1>2, <3>2
    <3>4. Pending(q, u, x, prev)
      BY <1>1, <2>3, <3>2, <3>3, EditKeepsPending
    <3>5. ~(Len(x.calls) > Len(s.calls))
      BY <1>1, <3>2 DEF Rest
    <3> QED BY <3>2, <3>3, <3>4, <3>5
  <2> QED BY <1>1, <2>1, <2>2, <2>3 DEF PlOK
<1> HIDE DEF x
<1>7. PICK p0 : /\ Pending(q, u, x, p0) /\ x.queue = s.queue
                /\ x.current \in -1 .. (s.queue.length - 1) /\ x.current # o
                /\ x.bulk_edit = s.bulk_edit
                /\ p0 = IF Len(x.calls) > Len(s.calls) THEN None ELSE prev
  BY <1>6
<1>8. /\ k \in -1 .. (r.length - 1)
      /\ x.current >= 0 => k >= 0 /\ (IF k < o THEN k ELSE k + 1) = x.current
  <2>1. /\ k \in -1 .. (s.queue.length - 2)
        /\ x.current >= 0 => k >= 0 /\ (IF k < o THEN k ELSE k + 1) = x.current
    <3> DEFINE n == s.queue.length  c == x.current
    <3>1. n \in Nat /\ o \in 0 .. (n - 1) /\ c \in -1 .. (n - 1) /\ c # o
      BY <1>1, <1>2, <1>7
    <3> HIDE DEF n, c
    <3>2. /\ CurrentAfterDelete(c, o) \in -1 .. (n - 2)
          /\ c >= 0 => /\ CurrentAfterDelete(c, o) >= 0
                       /\ (IF CurrentAfterDelete(c, o) < o THEN CurrentAfterDelete(c, o)
                           ELSE CurrentAfterDelete(c, o) + 1) = c
      BY <3>1, CurrentAfterDeleteOK
    <3> QED BY <3>2 DEF n, c
  <2> HIDE DEF k
  <2>2. r.length - 1 = s.queue.length - 2
    BY <1>1, <1>3
  <2> QED BY <2>1, <2>2
<1> HIDE DEF k
<1>9. x.playing => k >= 0 /\ IdAt(r, k) = IdAt(x.queue, x.current)
  <2> SUFFICES ASSUME x.playing PROVE k >= 0 /\ IdAt(r, k) = IdAt(x.queue, x.current)
    OBVIOUS
  <2>1. x.current >= 0
    BY <1>7 DEF Pending, PlOK
  <2>2. k >= 0 /\ (IF k < o THEN k ELSE k + 1) = x.current
    BY <1>8, <2>1
  <2>3. k \in Positions(r)
    <3>1. Positions(r) = 0 .. (r.length - 1)
      BY DEF Positions
    <3> QED BY <1>8, <2>2, <3>1
  <2> QED BY <1>3, <1>7, <2>2, <2>3
<1>10. /\ Pending(q, u, t, p0) /\ Rest(x, t) /\ t.queue = r
       /\ t.bulk_edit = x.bulk_edit
  <2>1. Pending(q, u, x, p0) /\ MayBe(r) /\ Grows(q, r) /\ k \in -1 .. (r.length - 1)
    BY <1>4, <1>7, <1>8
  <2>2. x.playing => k >= 0 /\ (Exact => IdAt(r, k) = IdAt(x.queue, x.current))
    BY <1>9
  <2> DEFINE y == [x EXCEPT !.queue = r, !.current = k]
  <2>3. Pending(q, u, y, p0)
    BY <2>1, <2>2, NewQueuePending
  <2>4. Rest(x, y) /\ y.queue = r /\ y.bulk_edit = x.bulk_edit
    <3>1. DOMAIN x = PlFields /\ x.bulk_edit \in BOOLEAN
      BY <2>1 DEF Pending, PlOK
    <3> QED BY <3>1 DEF Rest, PlFields
  <2> QED BY <2>3, <2>4
<1>11. p = p0
  <2> HIDE DEF t
  <2>1. t.calls = x.calls
    BY <1>10 DEF Rest
  <2> QED BY <1>7, <2>1
<1> HIDE DEF t, p
<1>12. Pending(q, u, t, p) /\ t.queue.length = s.queue.length - 1 /\ t.bulk_edit = s.bulk_edit
  BY <1>3, <1>7, <1>10, <1>11
<1> QED BY <1>5, <1>12 DEF t, p

\* The version number changes, or the change is remembered for later.
LEMMA OnModifiedOK ==
  ASSUME NEW q, NEW u, NEW s, Good(q, u, s)
  PROVE  LET t == OnModified(s)
         IN  /\ Good(q, u, t) /\ t.playing = s.playing
             /\ t.queue.length = s.queue.length /\ t.bulk_edit = s.bulk_edit
<1> DEFINE t == OnModified(s)
<1>1. /\ PlOK(s) /\ MayBe(s.queue) /\ Grows(q, s.queue) /\ QueueOK(s.queue)
      /\ s.bulk_edit \in BOOLEAN /\ DOMAIN s = PlFields
      /\ s.queued \in Int /\ s.current \in -1 .. (s.queue.length - 1)
      /\ s.playing => s.current >= 0 /\ s.current \in Positions(s.queue)
      /\ Positions(s.queue) = 0 .. (s.queue.length - 1)
      /\ s.queue.length \in Nat
  BY PendingQueue, PlTypes DEF Good, PlOK
<1>2. CASE s.bulk_edit
  <2>1. t = [s EXCEPT !.bulk_modified = TRUE]
    BY <1>2 DEF OnModified
  <2>2. /\ Rest(s, t) /\ t.queue = s.queue /\ t.current = s.current
        /\ t.bulk_edit = s.bulk_edit /\ t.playing = s.playing
    BY <1>1, <2>1 DEF Rest, PlFields
  <2>3. Pending(q, u, t, GetQueuedSong(s))
    <3> HIDE DEF t
    <3> DEFINE p == GetQueuedSong(s)
    <3>1. Pending(q, u, s, p)
      BY DEF Good
    <3> HIDE DEF p
    <3>2. Pending(q, u, t, p)
      BY <1>1, <2>2, <3>1, EditKeepsPending
    <3> QED BY <3>2 DEF p
  <2>4. GetQueuedSong(t) = GetQueuedSong(s) /\ QueuedFollows(t)
    BY <2>2 DEF GetQueuedSong, SongAt, Rest, QueuedFollows, Good
  <2> QED BY <2>2, <2>3, <2>4 DEF Good
<1>3. CASE ~s.bulk_edit
  <2> DEFINE r == IncrementVersion(s.queue)
  <2>1. t = [s EXCEPT !.queue = r]
    BY <1>3 DEF OnModified
  <2>2. /\ QueueOK(r) /\ Keeps(s.queue, r) /\ SamePlaces(s.queue, r)
        /\ \A o \in Positions(s.queue) : IdAt(r, o) = IdAt(s.queue, o)
    BY <1>1, IncrementVersionKeeps
  <2> HIDE DEF r
  <2>3. /\ Rest(s, t) /\ t.queue = r /\ t.current = s.current
        /\ t.bulk_edit = s.bulk_edit /\ t.playing = s.playing
    BY <1>1, <2>1 DEF Rest, PlFields
  <2>4. MayBe(r) /\ Grows(q, r) /\ r.length = s.queue.length /\ r.repeat = s.queue.repeat
    BY <1>1, <2>2, SameOptionsMayBe, GrowsTrans DEF SamePlaces, SameOptions
  <2>5. Pending(q, u, t, GetQueuedSong(s))
    <3> HIDE DEF t
    <3> DEFINE p == GetQueuedSong(s)
    <3>1. Pending(q, u, s, p)
      BY DEF Good
    <3> HIDE DEF p
    <3>2. /\ t.current \in -1 .. (t.queue.length - 1)
          /\ s.playing => t.current >= 0 /\ IdAt(t.queue, t.current) = IdAt(s.queue, s.current)
      BY <1>1, <2>2, <2>3, <2>4
    <3>3. Pending(q, u, t, p)
      BY <2>3, <2>4, <3>1, <3>2, EditKeepsPending
    <3> QED BY <3>3 DEF p
  <2>6. QueuedFollows(t)
    BY <2>3, <2>4 DEF Rest, QueuedFollows, Good
  <2>7. GetQueuedSong(t) = GetQueuedSong(s)
    <3>1. CASE ~(s.playing /\ s.queued >= 0)
      BY <2>3, <3>1 DEF GetQueuedSong, Rest
    <3>2. CASE s.playing /\ s.queued >= 0
      <4>1. s.queued \in Positions(s.queue)
        BY <1>1, <3>2 DEF QueuedFollows, Good
      <4>2. GetQueuedSong(s) = IdAt(s.queue, s.queued) /\ GetQueuedSong(t) = IdAt(r, s.queued)
        BY <2>3, <3>2 DEF GetQueuedSong, SongAt, IdAt, Rest
      <4> QED BY <2>2, <4>1, <4>2
    <3> QED BY <3>1, <3>2
  <2>8. t.queue.length = s.queue.length
    BY <2>3, <2>4
  <2> HIDE DEF t
  <2> QED BY <2>3, <2>5, <2>6, <2>7, <2>8 DEF Good, t
<1> QED BY <1>1, <1>2, <1>3

\* An edit ends with the next song queued and the version number changed.
LEMMA UpdatedAndModified ==
  ASSUME NEW q, NEW u, NEW s, NEW prev, Pending(q, u, s, prev),
         NEW x \in UpdateQueuedSong(s, prev), NEW t, t = OnModified(x)
  PROVE  Good(q, u, t) /\ t.playing = s.playing /\ t.bulk_edit = s.bulk_edit
<1>1. Good(q, u, x) /\ x.playing = s.playing /\ x.bulk_edit = s.bulk_edit
  BY UpdateQueuedSongOK
<1> QED BY <1>1, OnModifiedOK

\* The recursion in DeleteRange
DeleteStep(x, position) ==
  UNION {
    {LET t == DeleteInternal(d.pl, position, paused)
     IN  [pl |-> t,
          prev |-> IF Len(t.calls) > Len(d.pl.calls) THEN None
                   ELSE d.prev] : paused \in Paused(d.pl)} :
    d \in x}

LeftLoop(s, end, m, f) ==
  f = [n \in 0 .. m |->
         IF n = 0 THEN {[pl |-> s, prev |-> GetQueuedSong(s)]}
         ELSE DeleteStep(f[n - 1], end - n)]

LEMMA LeftLoopExists ==
  ASSUME NEW s, NEW end \in Int, NEW m \in Nat
  PROVE  \E f : LeftLoop(s, end, m, f)
<1> DEFINE Has(k) == \E f : LeftLoop(s, end, k, f)
           bad == {k \in Nat : ~Has(k)}
           zero == {[pl |-> s, prev |-> GetQueuedSong(s)]}
<1> SUFFICES ASSUME bad # {} PROVE FALSE
  OBVIOUS
<1>1. PICK k \in bad : \A j \in bad : k <= j
  BY LeastNatural
<1>2. CASE k = 0
  <2> DEFINE g == [n \in 0 .. 0 |-> zero]
  <2>1. LeftLoop(s, end, 0, g)
    <3>1. 0 .. 0 = {0}
      OBVIOUS
    <3> QED BY <3>1 DEF LeftLoop
  <2> QED BY <1>2, <2>1
<1>3. CASE k # 0
  <2>1. k \in Nat /\ k > 0 /\ k - 1 \in Nat /\ k - 1 \notin bad
    BY <1>1, <1>3
  <2>2. PICK f : LeftLoop(s, end, k - 1, f)
    BY <2>1
  <2> HIDE DEF zero
  <2>3. f = [n \in 0 .. (k - 1) |-> IF n = 0 THEN zero ELSE DeleteStep(f[n - 1], end - n)]
    BY <2>2 DEF LeftLoop, zero
  <2> DEFINE g == [n \in 0 .. k |-> IF n = k THEN DeleteStep(f[k - 1], end - k) ELSE f[n]]
  <2>4. ASSUME NEW n \in 0 .. k
        PROVE  g[n] = IF n = 0 THEN zero ELSE DeleteStep(g[n - 1], end - n)
    <3>1. CASE n = k
      <4>1. n # 0 /\ n - 1 \in 0 .. k /\ n - 1 # k
        BY <2>1, <3>1
      <4> QED BY <3>1, <4>1
    <3>2. CASE n # k
      <4>1. n \in 0 .. (k - 1) /\ g[n] = f[n]
        BY <2>1, <3>2
      <4>2. n # 0 => n - 1 \in 0 .. k /\ n - 1 # k /\ g[n - 1] = f[n - 1]
        BY <2>1, <4>1
      <4>3. f[n] = IF n = 0 THEN zero ELSE DeleteStep(f[n - 1], end - n)
        BY <2>3, <4>1
      <4> QED BY <4>1, <4>2, <4>3
    <3> QED BY <3>1, <3>2
  <2>5. LeftLoop(s, end, k, g)
    <3>1. g = [n \in 0 .. k |-> g[n]]
      OBVIOUS
    <3>2. g = [n \in 0 .. k |-> IF n = 0 THEN zero ELSE DeleteStep(g[n - 1], end - n)]
      <4> HIDE DEF g
      <4> QED BY <2>4, <3>1
    <3> HIDE DEF g
    <3> QED BY <3>2 DEF LeftLoop, zero
  <2> QED BY <2>1, <2>5
<1> QED BY <1>2, <1>3

LEMMA DeleteRangeOK ==
  ASSUME NEW q, NEW u, NEW s, Good(q, u, s), NEW start \in Positions(s.queue),
         NEW end \in Int, start < end, end <= s.queue.length,
         NEW t \in DeleteRange(s, start, end)
  PROVE  Good(q, u, t) /\ t.bulk_edit = s.bulk_edit
<1> DEFINE m == end - start  len == s.queue.length
<1>1. /\ len \in Nat /\ Positions(s.queue) = 0 .. (len - 1) /\ start \in Nat
      /\ end \in Nat /\ m \in Nat
  BY PlTypes DEF Good, Pending
<1>2. \E f : LeftLoop(s, end, m, f)
  <2> HIDE DEF m
  <2> QED BY <1>1, LeftLoopExists, Zenon
<1>3. PICK f : /\ LeftLoop(s, end, m, f)
               /\ DeleteRange(s, start, end)
                    = {OnModified(y) : y \in UNION {UpdateQueuedSong(d.pl, d.prev) : d \in f[m]}}
  BY <1>2 DEF DeleteRange, LeftLoop, DeleteStep
<1> HIDE DEF m, len
<1> DEFINE Fine(d, n) == /\ Pending(q, u, d.pl, d.prev) /\ d.pl.queue.length = len - n
                         /\ d.pl.bulk_edit = s.bulk_edit
           bad == {n \in 0 .. m : ~\A d \in f[n] : Fine(d, n)}
<1>4. bad = {}
  <2> SUFFICES ASSUME bad # {} PROVE FALSE
    OBVIOUS
  <2>1. bad \subseteq Nat
    BY <1>1
  <2>2. PICK n \in bad : \A j \in bad : n <= j
    BY <2>1, LeastNatural
  <2>3. n \in 0 .. m /\ n \in Nat
    BY <1>1, <2>2
  <2>4. CASE n = 0
    <3>1. f[n] = {[pl |-> s, prev |-> GetQueuedSong(s)]}
      BY <1>3, <2>3, <2>4 DEF LeftLoop
    <3>2. Fine([pl |-> s, prev |-> GetQueuedSong(s)], 0)
      <4>1. s.queue.length = len - 0
        BY <1>1 DEF len
      <4> QED BY <4>1 DEF Good
    <3> QED BY <2>2, <2>4, <3>1, <3>2
  <2>5. CASE n # 0
    <3>1. n - 1 \in 0 .. m /\ n - 1 \notin bad
      BY <1>1, <2>2, <2>3, <2>5
    <3>2. \A d \in f[n - 1] : Fine(d, n - 1)
      BY <3>1
    <3>3. f[n] = DeleteStep(f[n - 1], end - n)
      BY <1>3, <2>3, <2>5 DEF LeftLoop
    <3>4. ASSUME NEW e \in f[n]
          PROVE  Fine(e, n)
      <4>1. PICK d \in f[n - 1], paused \in BOOLEAN :
              e = LET y == DeleteInternal(d.pl, end - n, paused)
                  IN  [pl |-> y,
                       prev |-> IF Len(y.calls) > Len(d.pl.calls) THEN None ELSE d.prev]
        <5> DEFINE R(d, paused) ==
                     LET y == DeleteInternal(d.pl, end - n, paused)
                     IN  [pl |-> y,
                          prev |-> IF Len(y.calls) > Len(d.pl.calls) THEN None ELSE d.prev]
        <5>1. f[n] = UNION {{R(d, paused) : paused \in Paused(d.pl)} : d \in f[n - 1]}
          BY <3>3 DEF DeleteStep
        <5>2. \A d : Paused(d.pl) \subseteq BOOLEAN
          BY DEF Paused
        <5> HIDE DEF R
        <5>3. \E d \in f[n - 1], paused \in BOOLEAN : e = R(d, paused)
          BY <5>1, <5>2
        <5> QED BY <5>3 DEF R
      <4> DEFINE x == d.pl
                 y == DeleteInternal(x, end - n, paused)
                 p == IF Len(y.calls) > Len(x.calls) THEN None ELSE d.prev
      <4>2. Pending(q, u, x, d.prev) /\ x.queue.length = len - (n - 1)
            /\ x.bulk_edit = s.bulk_edit
        BY <3>2
      <4>3. end - n \in Positions(x.queue)
        <5>1. end <= len /\ n <= end
          BY <1>1, <2>3 DEF m, len
        <5>2. end - n \in 0 .. ((len - (n - 1)) - 1)
          BY <1>1, <2>3, <5>1
        <5> QED BY <4>2, <5>2 DEF Positions
      <4>4. e.pl = y /\ e.prev = p
        BY <4>1
      <4> HIDE DEF x
      <4> DEFINE prev == d.prev
      <4>5. /\ Pending(q, u, y, p) /\ y.queue.length = x.queue.length - 1
            /\ y.bulk_edit = x.bulk_edit
        <5>1. Pending(q, u, x, prev)
          BY <4>2
        <5> HIDE DEF prev
        <5> DEFINE z == IF Len(y.calls) > Len(x.calls) THEN None ELSE prev
        <5>2. /\ Pending(q, u, y, z) /\ y.queue.length = x.queue.length - 1
              /\ y.bulk_edit = x.bulk_edit
          BY <4>3, <5>1, DeleteInternalOK
        <5> HIDE DEF y
        <5>3. z = p
          BY DEF prev
        <5> QED BY <5>2, <5>3
      <4> HIDE DEF y, p
      <4>6. y.queue.length = len - n
        BY <1>1, <2>3, <4>2, <4>5
      <4> QED BY <4>2, <4>4, <4>5, <4>6
    <3> QED BY <2>2, <3>4
  <2> QED BY <2>4, <2>5
<1>5. m \in 0 .. m
  BY <1>1
<1>6. PICK d \in f[m] : \E y \in UpdateQueuedSong(d.pl, d.prev) : t = OnModified(y)
  BY <1>3
<1> DEFINE x == d.pl  prev == d.prev
<1>7. Pending(q, u, x, prev) /\ x.bulk_edit = s.bulk_edit
  BY <1>4, <1>5, <1>6
<1>8. PICK y \in UpdateQueuedSong(x, prev) : t = OnModified(y)
  BY <1>6
<1> HIDE DEF x, prev
<1>9. Good(q, u, t) /\ t.bulk_edit = x.bulk_edit
  BY <1>7, <1>8, UpdatedAndModified
<1> QED BY <1>7, <1>9

-----------------------------------------------------------------------------
(* Adding and moving songs.                                                *)

LEMMA GoodTypes ==
  ASSUME NEW q, NEW u, NEW s, Good(q, u, s)
  PROVE  /\ PlOK(s) /\ MayBe(s.queue) /\ Grows(q, s.queue) /\ QueueOK(s.queue)
         /\ s.queue.length \in Nat /\ Positions(s.queue) = 0 .. (s.queue.length - 1)
         /\ s.current \in Int /\ s.current \in -1 .. (s.queue.length - 1)
         /\ s.queued \in Int /\ s.queued >= -1 /\ DOMAIN s = PlFields
         /\ s.current >= 0 => s.current \in Positions(s.queue)
         /\ s.playing => s.current >= 0
         /\ s.playing \in BOOLEAN /\ s.bulk_edit \in BOOLEAN
         /\ s.playing /\ s.queued >= 0 => s.queued \in Positions(s.queue)
<1>1. PlOK(s) /\ MayBe(s.queue) /\ Grows(q, s.queue) /\ QueuedFollows(s)
  BY PendingQueue DEF Good
<1>2. /\ QueueOK(s.queue) /\ s.queue.length \in Nat
      /\ Positions(s.queue) = 0 .. (s.queue.length - 1)
      /\ s.current \in Int /\ s.queued \in Int /\ s.queued >= -1
      /\ s.current >= 0 => s.current \in Positions(s.queue)
  BY <1>1, PlTypes
<1>3. /\ s.current \in -1 .. (s.queue.length - 1) /\ DOMAIN s = PlFields
      /\ s.playing => s.current >= 0
      /\ s.playing \in BOOLEAN /\ s.bulk_edit \in BOOLEAN
  BY <1>1 DEF PlOK
<1>4. s.playing /\ s.queued >= 0 => s.queued \in Positions(s.queue)
  BY <1>1, <1>2 DEF QueuedFollows
<1> QED BY <1>1, <1>2, <1>3, <1>4

LEMMA EditedOK ==
  ASSUME NEW q, NEW u, NEW s, Good(q, u, s),
         NEW r, MayBe(r), Grows(q, r), NEW k \in -1 .. (r.length - 1),
         s.playing => /\ k >= 0
                      /\ Exact => IdAt(r, k) = IdAt(s.queue, s.current),
         NEW t \in Edited(s, r, k)
  PROVE  Good(q, u, t)
<1> DEFINE prev == GetQueuedSong(s)
           x == [s EXCEPT !.queue = r, !.current = k]
<1>1. PICK y \in UpdateQueuedSong(x, prev) : t = OnModified(y)
  BY DEF Edited
<1>2. Pending(q, u, s, prev)
  BY DEF Good
<1> HIDE DEF prev
<1>3. Pending(q, u, x, prev)
  BY <1>2, NewQueuePending
<1> HIDE DEF x
<1> QED BY <1>1, <1>3, UpdatedAndModified

LEMMA SequentialOrder ==
  ASSUME NEW r, QueueOK(r), ~r.random, NEW o \in Positions(r)
  PROVE  r.order[o] = o /\ IdAt(r, o) = r.items[o].id
  BY DEF QueueOK, OrderIsPosition, IdAt, OrderItem

LEMMA SwapOK ==
  ASSUME NEW q, NEW u, NEW s, Good(q, u, s),
         NEW p1 \in Positions(s.queue), NEW p2 \in Positions(s.queue),
         NEW t \in Swap(s, p1, p2)
  PROVE  Good(q, u, t)
<1> DEFINE r == s.queue  x == SwapPositions(r, p1, p2)
<1>1. /\ QueueOK(r) /\ MayBe(r) /\ Grows(q, r) /\ r.length \in Nat
      /\ Positions(r) = 0 .. (r.length - 1)
      /\ s.current \in Int /\ s.current \in -1 .. (r.length - 1)
      /\ s.current >= 0 => s.current \in Positions(r)
      /\ s.playing => s.current >= 0
  BY GoodTypes
<1>2. /\ QueueOK(x) /\ Keeps(r, x) /\ SameOptions(r, x)
      /\ x.length = r.length /\ x.order = r.order
      /\ x.items[p1].id = r.items[p2].id /\ x.items[p2].id = r.items[p1].id
      /\ \A p \in Positions(r) \ {p1, p2} : x.items[p].id = r.items[p].id
  BY <1>1, SwapPositionsKeeps
<1>3. MayBe(x) /\ Grows(q, x) /\ Positions(x) = Positions(r)
  BY <1>1, <1>2, SameOptionsMayBe, GrowsTrans DEF Positions
<1>4. CASE r.random
  <2> DEFINE a == PositionToOrder(x, p1)  b == PositionToOrder(x, p2)
             y == SwapOrders(x, a, b)
  <2>1. t \in Edited(s, y, s.current)
    BY <1>4 DEF Swap
  <2> HIDE DEF x
  <2>2. /\ a \in Positions(x) /\ x.order[a] = p1
        /\ b \in Positions(x) /\ x.order[b] = p2 /\ x.random
    BY <1>2, <1>3, <1>4, PositionToOrderOK DEF SameOptions
  <2> HIDE DEF a, b
  <2>3. /\ QueueOK(y) /\ Keeps(x, y) /\ SameOptions(x, y) /\ y.length = x.length
        /\ IdAt(y, a) = IdAt(x, b) /\ IdAt(y, b) = IdAt(x, a)
        /\ \A o \in Positions(x) \ {a, b} : IdAt(y, o) = IdAt(x, o)
    BY <1>2, <2>2, SwapOrdersKeeps
  <2> HIDE DEF y
  <2>4. MayBe(y) /\ Grows(q, y)
    BY <1>3, <2>3, SameOptionsMayBe, GrowsTrans
  <2>5. ASSUME NEW o \in Positions(r)
        PROVE  IdAt(y, o) = IdAt(r, o)
    <3>1. CASE o = a
      BY <1>2, <2>2, <2>3, <3>1 DEF IdAt, OrderItem
    <3>2. CASE o = b
      BY <1>2, <2>2, <2>3, <3>2 DEF IdAt, OrderItem
    <3>3. CASE o \notin {a, b}
      <4>1. IdAt(y, o) = x.items[x.order[o]].id
        BY <1>3, <2>3, <3>3 DEF IdAt, OrderItem
      <4>2. x.order[o] \in Positions(r) \ {p1, p2}
        <5>1. x.order[o] \in Positions(r)
          BY <1>2, <1>3, QueueTypes
        <5>2. x.order[o] # x.order[a] /\ x.order[o] # x.order[b]
          BY <1>2, <1>3, <2>2, <3>3 DEF QueueOK, OrderIsPermutation
        <5> QED BY <2>2, <5>1, <5>2
      <4> QED BY <1>2, <4>1, <4>2 DEF IdAt, OrderItem
    <3> QED BY <3>1, <3>2, <3>3
  <2>6. /\ s.current \in -1 .. (y.length - 1)
        /\ s.playing => s.current >= 0 /\ IdAt(y, s.current) = IdAt(s.queue, s.current)
    BY <1>1, <1>2, <2>3, <2>5
  <2> DEFINE k == s.current
  <2>7. /\ k \in -1 .. (y.length - 1)
        /\ s.playing => k >= 0 /\ IdAt(y, k) = IdAt(s.queue, s.current)
        /\ t \in Edited(s, y, k)
    BY <2>1, <2>6
  <2> HIDE DEF k
  <2> QED BY <2>4, <2>7, EditedOK
<1>5. CASE ~r.random
  <2> DEFINE k == CurrentAfterSwap(s.current, p1, p2)
  <2>1. t \in Edited(s, x, k)
    BY <1>5 DEF Swap
  <2>2. ASSUME s.playing
        PROVE  IdAt(x, k) = IdAt(s.queue, s.current)
    <3>1. s.current \in Positions(r) /\ k \in Positions(x) /\ ~x.random
      BY <1>1, <1>2, <1>3, <1>5, <2>2 DEF CurrentAfterSwap, SameOptions
    <3>2. IdAt(x, k) = x.items[k].id /\ IdAt(r, s.current) = r.items[s.current].id
      BY <1>1, <1>2, <1>5, <3>1, SequentialOrder
    <3> HIDE DEF x, r
    <3>3. x.items[k].id = r.items[s.current].id
      BY <1>2, <3>1 DEF CurrentAfterSwap
    <3> QED BY <3>2, <3>3 DEF r
  <2>3. k \in -1 .. (x.length - 1) /\ (s.playing => k >= 0)
    BY <1>1, <1>2 DEF CurrentAfterSwap
  <2> HIDE DEF k, x
  <2> QED BY <1>3, <2>1, <2>2, <2>3, EditedOK
<1> QED BY <1>4, <1>5

\* Where a "move" command puts the block
LEMMA MoveToOK ==
  ASSUME NEW s, PlOK(s), NEW start \in Positions(s.queue), NEW end \in Int, start < end,
         NEW to \in -(s.queue.length) .. (s.queue.length - 1)
  PROVE  MoveTo(s, start, to) \in Int /\ MoveTo(s, start, to) >= 0
<1> DEFINE n == s.queue.length  p == GetCurrentPosition(s)
<1>1. n \in Nat /\ n > 0 /\ start \in Nat /\ to \in Int
  BY PlTypes
<1>2. p \in Int
  <2>1. /\ s.current >= 0 => s.current \in Positions(s.queue)
        /\ s.queue.order \in [Positions(s.queue) -> Positions(s.queue)]
        /\ Positions(s.queue) \subseteq Int
    BY PlTypes, QueueTypes
  <2> QED BY <2>1 DEF GetCurrentPosition
<1> DEFINE absolute == (p - to) % n
<1> HIDE DEF n, p
<1>3. absolute \in Int /\ absolute >= 0
  BY <1>1, <1>2
<1>4. MoveTo(s, start, to) = IF to >= 0 THEN to
                             ELSE IF start < absolute THEN absolute - 1 ELSE absolute
  BY DEF MoveTo, n, p
<1> HIDE DEF absolute
<1> QED BY <1>1, <1>3, <1>4

LEMMA CurrentAfterMoveOK ==
  ASSUME NEW n \in Nat, NEW start \in Int, NEW end \in Int, NEW to \in Int,
         0 <= start, start < end, end <= n, 0 <= to, to + end - start <= n,
         NEW c \in -1 .. (n - 1)
  PROVE  LET k == CurrentAfterMove(c, start, end, to)
         IN  /\ k \in -1 .. (n - 1)
             /\ c >= 0 => k >= 0
             /\ c >= 0 /\ end = start + 1 => k = MoveTarget(start, end, to, c)
  BY DEF CurrentAfterMove, MoveTarget

LEMMA MoveOK ==
  ASSUME NEW q, NEW u, NEW s, Good(q, u, s),
         NEW start \in Positions(s.queue), NEW end \in Int,
         start < end, end <= s.queue.length, end - start <= MaxBlock,
         NEW to \in Int, to >= 0, to + end - start <= s.queue.length,
         NEW t \in Move(s, start, end, to)
  PROVE  Good(q, u, t)
<1> DEFINE r == s.queue  x == MoveRange(r, start, end, to)
           k == IF r.random THEN s.current ELSE CurrentAfterMove(s.current, start, end, to)
<1>1. /\ QueueOK(r) /\ MayBe(r) /\ Grows(q, r) /\ r.length \in Nat
      /\ Positions(r) = 0 .. (r.length - 1)
      /\ s.current \in Int /\ s.current \in -1 .. (r.length - 1)
      /\ s.current >= 0 => s.current \in Positions(r)
      /\ s.playing => s.current >= 0
  BY GoodTypes
<1>2. to \in Positions(r) /\ start \in Int /\ start >= 0
  BY <1>1
<1>3. /\ QueueOK(x) /\ Keeps(r, x) /\ SameOptions(r, x)
      /\ x.length = r.length
      /\ r.random => \A o \in Positions(r) : IdAt(x, o) = IdAt(r, o)
      /\ ~r.random => /\ x.order = r.order
                      /\ \A p \in Positions(r) :
                           x.items[MoveTarget(start, end, to, p)].id = r.items[p].id
  BY <1>1, <1>2, MoveRangeKeeps, ZenonT(60)
<1>4. MayBe(x) /\ Grows(q, x) /\ Positions(x) = Positions(r)
  BY <1>1, <1>3, SameOptionsMayBe, GrowsTrans DEF Positions
<1>5. t \in Edited(s, x, k)
  BY DEF Move
<1>6. CASE r.random
  <2>1. k = s.current
    BY <1>6
  <2> HIDE DEF k, x
  <2>2. /\ k \in -1 .. (x.length - 1)
        /\ s.playing => k >= 0 /\ IdAt(x, k) = IdAt(s.queue, s.current)
    BY <1>1, <1>3, <1>6, <2>1
  <2> QED BY <1>4, <1>5, <2>2, EditedOK
<1>7. CASE ~r.random
  <2> DEFINE n == r.length  c == s.current
  <2>1. k = CurrentAfterMove(c, start, end, to)
    BY <1>7
  <2>2. /\ n \in Nat /\ 0 <= start /\ end <= n /\ to + end - start <= n
        /\ c \in -1 .. (n - 1)
    BY <1>1, <1>2
  <2> HIDE DEF k, x, n, c
  <2>3. /\ k \in -1 .. (n - 1)
        /\ c >= 0 => k >= 0
        /\ c >= 0 /\ end = start + 1 => k = MoveTarget(start, end, to, c)
    BY <1>2, <2>1, <2>2, CurrentAfterMoveOK
  <2>4. ASSUME s.playing, Exact
        PROVE  IdAt(x, k) = IdAt(s.queue, s.current)
    <3>1. MaxBlock <= 1 /\ MaxBlock \in Nat
      BY <2>4, PlaylistAssumption DEF Exact
    <3>2. end = start + 1 /\ c >= 0
      BY <1>1, <1>2, <2>4, <3>1 DEF c
    <3>3. k = MoveTarget(start, end, to, c) /\ c \in Positions(r)
      BY <1>1, <2>3, <2>4, <3>2 DEF c
    <3>4. x.items[k].id = r.items[c].id
      BY <1>3, <1>7, <3>3
    <3>5. k \in Positions(x) /\ ~x.random
      <4>1. k >= 0
        BY <2>3, <3>2
      <4> QED BY <1>1, <1>3, <1>4, <1>7, <2>3, <4>1 DEF n, SameOptions
    <3>6. IdAt(x, k) = x.items[k].id /\ IdAt(r, c) = r.items[c].id
      BY <1>1, <1>3, <1>7, <3>3, <3>5, SequentialOrder
    <3> QED BY <3>4, <3>6 DEF c
  <2>5. k \in -1 .. (x.length - 1) /\ (s.playing => k >= 0)
    BY <1>1, <1>3, <2>3 DEF n, c
  <2> QED BY <1>4, <1>5, <2>4, <2>5, EditedOK
<1> QED BY <1>6, <1>7

LEMMA ShuffleOK ==
  ASSUME NEW q, NEW u, NEW s, Good(q, u, s),
         NEW start \in Positions(s.queue), NEW end \in Int,
         start + 1 < end, end <= s.queue.length,
         NEW t \in Shuffle(s, start, end)
  PROVE  Good(q, u, t)
<1> DEFINE r == s.queue  position == GetCurrentPosition(s)
           first == s.playing /\ position \in start .. (end - 1)
           x == IF first THEN SwapPositions(r, start, position) ELSE r
           k == IF first
                THEN IF x.random THEN PositionToOrder(x, start) ELSE start
                ELSE IF s.playing THEN s.current ELSE -1
           from == IF first THEN start + 1 ELSE start
<1>1. /\ QueueOK(r) /\ MayBe(r) /\ Grows(q, r) /\ r.length \in Nat
      /\ Positions(r) = 0 .. (r.length - 1)
      /\ s.current \in Int /\ s.current \in -1 .. (r.length - 1)
      /\ s.current >= 0 => s.current \in Positions(r)
      /\ s.playing => s.current >= 0
      /\ r.order \in [Positions(r) -> Positions(r)]
  BY GoodTypes, QueueTypes
<1>2. PICK y \in ShuffleRange(x, from, end) : t \in Edited(s, y, k)
  BY DEF Shuffle
<1>3. from \in Positions(r) /\ start \in Int
  BY <1>1
<1>4. s.playing => /\ position = r.order[s.current] /\ position \in Positions(r)
                   /\ s.current \in Positions(r)
  BY <1>1 DEF GetCurrentPosition
<1> HIDE DEF position
<1>5. /\ QueueOK(x) /\ Keeps(r, x) /\ SameOptions(r, x) /\ x.length = r.length
      /\ first => /\ x.order = r.order
                  /\ x.items[start].id = r.items[position].id
      /\ ~first => x = r
  <2>1. CASE first
    <3>1. x = SwapPositions(r, start, position) /\ position \in Positions(r)
      BY <1>4, <2>1
    <3> HIDE DEF x, first
    <3> QED BY <1>1, <2>1, <3>1, SwapPositionsKeeps
  <2>2. CASE ~first
    BY <1>1, <2>2 DEF Keeps, From, SameOptions
  <2> QED BY <2>1, <2>2
<1>6. Positions(x) = Positions(r)
  BY <1>5 DEF Positions
<1>7. first => /\ k \in Positions(x) /\ x.order[k] = start /\ s.playing
               /\ from = start + 1
  <2> SUFFICES ASSUME first PROVE k \in Positions(x) /\ x.order[k] = start
    OBVIOUS
  <2> USE <1>5
  <2>1. CASE x.random
    <3>1. k = PositionToOrder(x, start)
      BY <2>1
    <3> HIDE DEF x, k
    <3> QED BY <1>6, <3>1, PositionToOrderOK
  <2>2. CASE ~x.random
    <3>1. k = start
      BY <2>2
    <3> HIDE DEF x, k
    <3> QED BY <1>6, <2>2, <3>1, SequentialOrder
  <2> QED BY <2>1, <2>2
<1>8. ~first => /\ k = (IF s.playing THEN s.current ELSE -1)
                /\ from = start
                /\ s.playing => position \notin start .. (end - 1)
  OBVIOUS
<1> HIDE DEF x, k, first, from
<1>9. /\ QueueOK(y) /\ Keeps(x, y) /\ SameOptions(x, y)
      /\ y.length = x.length /\ y.order = x.order
      /\ \A p \in Positions(x) \ (from .. (end - 1)) : y.items[p].id = x.items[p].id
  <2>1. from \in Positions(x) /\ end <= x.length
    BY <1>3, <1>5, <1>6
  <2> QED BY <1>2, <1>5, <2>1, ShuffleRangeKeeps
<1>10. MayBe(y) /\ Grows(q, y)
  BY <1>1, <1>5, <1>9, SameOptionsMayBe, GrowsTrans
<1>11. CASE first
  <2>1. start \in Positions(x) \ (from .. (end - 1))
    BY <1>3, <1>6, <1>7, <1>11
  <2>2. IdAt(y, k) = r.items[position].id
    BY <1>5, <1>7, <1>9, <1>11, <2>1 DEF IdAt, OrderItem
  <2>3. IdAt(r, s.current) = r.items[position].id
    BY <1>4, <1>7, <1>11 DEF IdAt, OrderItem
  <2>4. k \in -1 .. (y.length - 1) /\ k >= 0
    BY <1>1, <1>5, <1>6, <1>7, <1>9, <1>11
  <2>5. s.playing => /\ k >= 0
                     /\ Exact => IdAt(y, k) = IdAt(s.queue, s.current)
    BY <2>2, <2>3, <2>4
  <2> QED BY <1>2, <1>10, <2>4, <2>5, EditedOK
<1>12. CASE ~first
  <2>1. s.playing => IdAt(y, k) = IdAt(r, s.current)
    <3> SUFFICES ASSUME s.playing PROVE IdAt(y, k) = IdAt(r, s.current)
      OBVIOUS
    <3>1. /\ position \in Positions(x) \ (from .. (end - 1)) /\ k = s.current
          /\ position = r.order[s.current] /\ x = r
      BY <1>4, <1>5, <1>8, <1>12
    <3> QED BY <1>9, <3>1 DEF IdAt, OrderItem
  <2>2. k \in -1 .. (y.length - 1) /\ (s.playing => k >= 0)
    BY <1>1, <1>5, <1>8, <1>9, <1>12
  <2> QED BY <1>2, <1>10, <2>1, <2>2, EditedOK
<1> QED BY <1>11, <1>12

LEMMA SetPrioOK ==
  ASSUME NEW q, NEW u, NEW s, Good(q, u, s),
         NEW start \in Positions(s.queue), NEW end \in Int,
         start < end, end <= s.queue.length, NEW priority \in Priorities,
         NEW t \in SetPrio(s, start, end, priority)
  PROVE  Good(q, u, t)
<1>1. PICK r \in SetPriorityRange(s.queue, start, end, priority, s.current) :
        t \in Edited(s, r, FollowCurrent(s, r))
  BY DEF SetPrio
<1>2. /\ PlOK(s) /\ QueueOK(s.queue) /\ MayBe(s.queue) /\ Grows(q, s.queue)
      /\ s.current \in -1 .. (s.queue.length - 1)
      /\ s.playing => s.current >= 0
  BY GoodTypes
<1> DEFINE after == s.current  k == FollowCurrent(s, r)
<1>3. QueueOK(r) /\ Edits(s.queue, r) /\ SamePlaces(s.queue, r)
  <2>1. after \in -1 .. (s.queue.length - 1)
    BY <1>2
  <2>2. r \in SetPriorityRange(s.queue, start, end, priority, after)
    OBVIOUS
  <2> HIDE DEF after
  <2> QED BY <1>2, <2>1, <2>2, SetPriorityRangeOK
<1>4. /\ k \in -1 .. (r.length - 1)
      /\ s.current >= 0 => k >= 0 /\ IdAt(r, k) = IdAt(s.queue, s.current)
  BY <1>2, <1>3, FollowCurrentOK
<1>5. Keeps(s.queue, r) /\ SameOptions(s.queue, r)
  BY <1>3 DEF Edits, Keeps, SamePlaces, SameOptions
<1>6. MayBe(r) /\ Grows(q, r)
  BY <1>2, <1>3, <1>5, SameOptionsMayBe, GrowsTrans
<1>7. t \in Edited(s, r, k)
  BY <1>1
<1>8. s.playing => k >= 0 /\ (Exact => IdAt(r, k) = IdAt(s.queue, s.current))
  BY <1>2, <1>4
<1> HIDE DEF k, after
<1> QED BY <1>4, <1>6, <1>7, <1>8, EditedOK

LEMMA ClearOK ==
  ASSUME NEW q, NEW u, NEW s, Good(q, u, s), NEW t \in Clear(s)
  PROVE  Good(q, u, t)
<1>1. PICK x \in Stop(s) : t = OnModified([x EXCEPT !.queue = ClearQueue(@), !.current = -1])
  BY DEF Clear
<1>2. Good(q, u, x) /\ ~x.playing
  <2>1. CASE s.playing
    <3>1. Loose(q, u, s)
      BY PendingIsLoose DEF Good
    <3> QED BY <1>1, <2>1, <3>1, StopOK
  <2>2. CASE ~s.playing
    BY <1>1, <2>2 DEF Stop
  <2> QED BY <2>1, <2>2
<1> DEFINE r == ClearQueue(x.queue)  k == -1
           y == [x EXCEPT !.queue = r, !.current = k]
<1>3. QueueOK(x.queue) /\ MayBe(x.queue) /\ Grows(q, x.queue)
  BY <1>2, GoodTypes
<1>4. QueueOK(r) /\ Keeps(x.queue, r) /\ SameOptions(x.queue, r) /\ r.length = 0
  BY <1>3, ClearQueueKeeps
<1>5. MayBe(r) /\ Grows(q, r)
  BY <1>3, <1>4, SameOptionsMayBe, GrowsTrans
<1>6. t = OnModified(y)
  BY <1>1
<1> HIDE DEF r
<1>7. k \in -1 .. (r.length - 1)
  BY <1>4
<1> HIDE DEF k
<1>8. Pending(q, u, x, None) /\ GetQueuedSong(x) = None
  BY <1>2 DEF Good, GetQueuedSong
<1>9. Pending(q, u, y, None) /\ Rest(x, y)
  BY <1>2, <1>5, <1>7, <1>8, NewQueuePending
<1> HIDE DEF y
<1>10. Good(q, u, y)
  BY <1>2, <1>9 DEF Good, GetQueuedSong, QueuedFollows, Rest
<1> QED BY <1>6, <1>10, OnModifiedOK

LEMMA CommitBulkOK ==
  ASSUME NEW q, NEW u, NEW s, Good(q, u, s), NEW t \in CommitBulk(s)
  PROVE  Good(q, u, t)
<1> DEFINE x == [s EXCEPT !.bulk_edit = FALSE]
<1>1. /\ DOMAIN s = PlFields /\ MayBe(s.queue) /\ Grows(q, s.queue)
      /\ s.current \in -1 .. (s.queue.length - 1)
      /\ s.playing => s.current >= 0
  BY GoodTypes
<1>2. /\ Rest(s, x) /\ x.queue = s.queue /\ x.current = s.current
      /\ x.queued = s.queued /\ x.playing = s.playing
  BY <1>1 DEF Rest, PlFields
<1>3. t = x \/ \E y \in (IF s.queued < 0 THEN UpdateQueuedSong(x, None) ELSE {x}) :
                 t = OnModified(y)
  BY DEF CommitBulk
<1> HIDE DEF x
<1> DEFINE prev == GetQueuedSong(s)
<1>4. Pending(q, u, s, prev)
  BY DEF Good
<1>5. prev = GetQueuedSong(x)
  BY <1>2 DEF GetQueuedSong, SongAt
<1>6. s.queued < 0 => prev = None
  <2>1. s.queued \in Int
    BY GoodTypes
  <2> QED BY <2>1 DEF GetQueuedSong
<1> HIDE DEF prev
<1>7. Pending(q, u, x, prev)
  BY <1>1, <1>2, <1>4, EditKeepsPending
<1>8. Good(q, u, x)
  BY <1>2, <1>5, <1>7 DEF Good, QueuedFollows
<1>9. ASSUME NEW y \in (IF s.queued < 0 THEN UpdateQueuedSong(x, None) ELSE {x}),
             t = OnModified(y)
      PROVE  Good(q, u, t)
  <2>1. CASE s.queued < 0
    BY <1>6, <1>7, <1>9, <2>1, UpdatedAndModified
  <2>2. CASE ~(s.queued < 0)
    BY <1>8, <1>9, <2>2, OnModifiedOK
  <2> QED BY <2>1, <2>2
<1> QED BY <1>3, <1>8, <1>9

\* In random mode, the new songs are shuffled in behind the current one.
LEMMA AppendSongOK ==
  ASSUME NEW u, NEW s, Good(s.queue, u, s), "add" \in Commands, ~IsFull(s.queue),
         NEW song \in Songs, NEW t \in AppendSong(s, song)
  PROVE  Good(s.queue, u, t)
<1> DEFINE q == s.queue  x == AppendItem(q, song, 0)  start == AppendStart(s)
           queues == IF q.random /\ start < x.length
                     THEN ShuffleOrderLast(x, start, x.length) ELSE {x}
           prev == GetQueuedSong(s)
           y(r) == [s EXCEPT !.queue = r, !.appended = @ + 1]
<1>1. /\ QueueOK(q) /\ MayBe(q) /\ q.length \in Nat
      /\ Positions(q) = 0 .. (q.length - 1)
      /\ s.current \in Int /\ s.current \in -1 .. (q.length - 1)
      /\ s.queued \in Int /\ s.queued >= -1
      /\ s.current >= 0 => s.current \in Positions(q)
      /\ s.playing => s.current >= 0
      /\ DOMAIN s = PlFields /\ s.bulk_edit \in BOOLEAN
  BY GoodTypes
<1>2. /\ QueueOK(x) /\ Grows(q, x) /\ SameOptions(q, x) /\ x.length = q.length + 1
      /\ \A o \in Positions(q) : IdAt(x, o) = IdAt(q, o)
  <2>1. 0 \in Priorities
    BY QueueAssumption
  <2> QED BY <1>1, <2>1, AppendItemKeeps
<1>3. PICK r \in queues : \E z \in UpdateQueuedSong(y(r), prev) : t = OnModified(z)
  BY DEF AppendSong
<1>4. start \in Int /\ start >= 0
  BY <1>1 DEF AppendStart
<1>5. s.playing /\ q.random /\ Exact => s.current < start
  <2> SUFFICES ASSUME s.playing, q.random, Exact PROVE s.current < start
    OBVIOUS
  <2>1. "random" \in Commands
    BY <1>1 DEF MayBe
  <2>2. "repeat" \notin Commands
    BY <2>1 DEF Exact
  <2>3. ~q.repeat
    BY <1>1, <2>2 DEF MayBe
  <2>4. s.queued >= 0 => s.queued = s.current + 1
    BY <2>3 DEF Good, QueuedFollows
  <2> QED BY <1>1, <2>4 DEF AppendStart
<1> HIDE DEF start
<1>6. /\ QueueOK(r) /\ Grows(q, r) /\ SameOptions(q, r) /\ r.length = q.length + 1
      /\ s.playing /\ Exact => IdAt(r, s.current) = IdAt(q, s.current)
  <2> HIDE DEF x
  <2>1. CASE q.random /\ start < x.length
    <3>1. r \in ShuffleOrderLast(x, start, x.length) /\ x.random
      BY <1>2, <1>3, <2>1 DEF SameOptions
    <3>2. start \in Positions(x) /\ Positions(x) = 0 .. (x.length - 1)
      BY <1>1, <1>2, <1>4, <2>1, QueueTypes
    <3>3. /\ QueueOK(r) /\ Keeps(x, r) /\ SameOptions(x, r) /\ r.length = x.length
          /\ \A o \in Positions(x) : o < start => IdAt(r, o) = IdAt(x, o)
      BY <1>2, <3>1, <3>2, ShuffleOrderLastKeeps
    <3>4. ASSUME s.playing, Exact PROVE IdAt(r, s.current) = IdAt(q, s.current)
      <4>1. s.current < start /\ s.current \in Positions(q) /\ s.current \in Positions(x)
        BY <1>1, <1>2, <1>5, <2>1, <3>2, <3>4
      <4> QED BY <1>2, <3>3, <4>1
    <3>5. Grows(q, r)
      BY <1>2, <3>3, GrowsTrans
    <3>6. SameOptions(q, r)
      BY <1>2, <3>3 DEF SameOptions
    <3> QED BY <1>2, <3>3, <3>4, <3>5, <3>6
  <2>2. CASE ~(q.random /\ start < x.length)
    <3>1. r = x
      BY <1>3, <2>2
    <3> QED BY <1>1, <1>2, <3>1
  <2> QED BY <2>1, <2>2
<1> HIDE DEF x, queues, q
<1> DEFINE w == y(r)
<1>7. MayBe(r)
  BY <1>1, <1>6, SameOptionsMayBe
<1>8. Rest(s, w) /\ w.queue = r /\ w.current = s.current
  BY <1>1 DEF Rest, PlFields
<1>9. PICK z \in UpdateQueuedSong(w, prev) : t = OnModified(z)
  BY <1>3
<1>10. Pending(q, u, s, prev)
  BY DEF Good, q
<1> HIDE DEF w, prev
<1>11. w.current \in -1 .. (w.queue.length - 1)
  BY <1>1, <1>6, <1>8
<1>12. s.playing => /\ w.current >= 0
                    /\ Exact => IdAt(w.queue, w.current) = IdAt(s.queue, s.current)
  BY <1>1, <1>6, <1>8 DEF q
<1>13. Pending(q, u, w, prev)
  BY <1>6, <1>7, <1>8, <1>10, <1>11, <1>12, EditKeepsPending
<1>14. Good(q, u, t)
  BY <1>9, <1>13, UpdatedAndModified
<1> QED BY <1>14 DEF q

-----------------------------------------------------------------------------
(* Playback.                                                               *)

\* Another state of the playlist after the same calls
LEMMA LooseOK ==
  ASSUME NEW q, NEW u, NEW s, Loose(q, u, s), NEW t, DOMAIN t = PlFields,
         MayBe(t.queue), Grows(q, t.queue),
         t.current \in -1 .. (t.queue.length - 1),
         t.queued \in -1 .. (MaxLength - 1),
         t.playing \in BOOLEAN, t.playing => t.current >= 0,
         t.error_count \in 0 .. MaxLength,
         t.calls = s.calls, t.ok = s.ok, t.bulk_edit \in BOOLEAN
  PROVE  Loose(q, u, t)
<1>1. PlOK(s)
  BY DEF Loose
<1>2. PlOK(t)
  BY <1>1 DEF PlOK, MayBe
<1> QED BY <1>2 DEF Loose

LEMMA OtherCallGood ==
  ASSUME NEW q, NEW u, NEW s, Good(q, u, s),
         NEW cmd \in {"PAUSE", "UNPAUSE", "CLEAR_ERROR", "BORDER_PAUSE", "NO_BORDER_PAUSE"}
  PROVE  LET t == Call(s, cmd, None)
         IN  /\ Good(q, u, t) /\ t.queue = s.queue /\ t.playing = s.playing
             /\ t.current = s.current /\ t.queued = s.queued
             /\ t.error_count = s.error_count /\ t.bulk_edit = s.bulk_edit
<1> DEFINE t == Call(s, cmd, None)  prev == GetQueuedSong(s)
<1>1. PlOK(s) /\ cmd \in Cmds /\ None \in SongIds
  BY GoodTypes DEF Cmds, SongIds
<1>2. /\ t.queue = s.queue /\ t.playing = s.playing
      /\ t.current = s.current /\ t.queued = s.queued
      /\ t.error_count = s.error_count /\ t.bulk_edit = s.bulk_edit
  BY <1>1, CallFields
<1>3. Pending(q, u, s, prev) /\ QueuedFollows(s)
  BY DEF Good
<1> HIDE DEF prev
<1>4. Pending(q, u, t, prev)
  BY <1>3, OtherCall
<1> HIDE DEF t
<1>5. prev = GetQueuedSong(t)
  BY <1>2 DEF prev, GetQueuedSong, SongAt
<1>6. Good(q, u, t)
  BY <1>2, <1>3, <1>4, <1>5 DEF Good, QueuedFollows
<1> QED BY <1>2, <1>6 DEF t

\* A song is asked for: the error of the last one is forgotten.
LEMMA PlayFrom ==
  ASSUME NEW q, NEW u, NEW s, Good(q, u, s), NEW error \in BOOLEAN
  PROVE  LET t == [Call(s, "CLEAR_ERROR", None)
                     EXCEPT !.stop_on_error = error, !.error_count = 0]
         IN  /\ Loose(q, u, t) /\ t.error_count = 0 /\ DOMAIN t = PlFields
             /\ t.queue = s.queue /\ t.playing = s.playing /\ t.current = s.current
             /\ t.bulk_edit = s.bulk_edit
<1> DEFINE c == Call(s, "CLEAR_ERROR", None)
           t == [c EXCEPT !.stop_on_error = error, !.error_count = 0]
<1>1. /\ Good(q, u, c) /\ c.queue = s.queue /\ c.playing = s.playing
      /\ c.current = s.current /\ c.queued = s.queued /\ c.bulk_edit = s.bulk_edit
  BY OtherCallGood
<1> HIDE DEF c
<1>2. PlOK(c) /\ DOMAIN c = PlFields /\ MayBe(c.queue) /\ Grows(q, c.queue)
  BY <1>1, GoodTypes
<1>3. Loose(q, u, c) /\ MaxLength \in Nat
  BY <1>1, QueueAssumption, PendingIsLoose DEF Good
<1>4. /\ t.error_count = 0 /\ DOMAIN t = PlFields
      /\ t.queue = c.queue /\ t.playing = c.playing /\ t.current = c.current
      /\ t.bulk_edit = c.bulk_edit /\ t.queued = c.queued /\ t.calls = c.calls
      /\ t.ok = c.ok
  BY <1>2 DEF PlFields
<1> HIDE DEF t
<1>5. t.error_count \in 0 .. MaxLength
  BY <1>3, <1>4
<1>6. Loose(q, u, t)
  BY <1>2, <1>3, <1>4, <1>5, LooseOK DEF PlOK
<1> QED BY <1>1, <1>4, <1>6 DEF t, c

\* ... and then it is played, in random mode at the place of another one.
LEMMA PlaySwapped ==
  ASSUME NEW q, NEW u, NEW s, Loose(q, u, s), s.error_count = 0, s.queue.random,
         NEW i \in Positions(s.queue), NEW k \in Positions(s.queue)
  PROVE  Good(q, u, PlayOrder([s EXCEPT !.queue = SwapOrders(@, i, k)], k))
<1> DEFINE r == s.queue  x == SwapOrders(r, i, k)
           t == [s EXCEPT !.queue = x]
<1>1. PlOK(s) /\ DOMAIN s = PlFields /\ QueueOK(r) /\ MayBe(r) /\ Grows(q, r)
  BY DEF Loose, PlOK, MayBe
<1>2. QueueOK(x) /\ Keeps(r, x) /\ SameOptions(r, x) /\ x.length = r.length
  BY <1>1, SwapOrdersKeeps
<1> HIDE DEF x
<1>3. MayBe(x) /\ Grows(q, x) /\ Positions(x) = Positions(r)
  BY <1>1, <1>2, SameOptionsMayBe, GrowsTrans DEF Positions
<1>4. /\ DOMAIN t = PlFields /\ t.queue = x /\ t.current = s.current
      /\ t.queued = s.queued /\ t.playing = s.playing
      /\ t.error_count = s.error_count /\ t.calls = s.calls /\ t.ok = s.ok
      /\ t.bulk_edit = s.bulk_edit
  BY <1>1 DEF PlFields
<1> HIDE DEF t
<1>5. t.current \in -1 .. (t.queue.length - 1)
  BY <1>1, <1>2, <1>4 DEF PlOK
<1>6. Loose(q, u, t)
  BY <1>1, <1>3, <1>4, <1>5, LooseOK DEF PlOK
<1>7. t.error_count < MaxLength /\ k \in Positions(t.queue)
  BY <1>3, <1>4, QueueAssumption
<1>8. Good(q, u, PlayOrder(t, k))
  BY <1>6, <1>7, PlayOrderOK
<1> QED BY <1>8 DEF t, x

LEMMA PlayAnyOK ==
  ASSUME NEW q, NEW u, NEW s, Good(q, u, s), NEW t \in PlayAny(s)
  PROVE  Good(q, u, t)
<1> DEFINE c == Call(s, "CLEAR_ERROR", None)
           x == [c EXCEPT !.stop_on_error = FALSE, !.error_count = 0]
           i == IF s.current >= 0 THEN s.current ELSE 0
<1>1. /\ s.queue.length \in Nat /\ Positions(s.queue) = 0 .. (s.queue.length - 1)
      /\ s.current >= 0 => s.current \in Positions(s.queue)
  BY GoodTypes
<1>2. Good(q, u, c)
  BY OtherCallGood
<1>3. Loose(q, u, x) /\ x.error_count = 0 /\ x.queue = s.queue
  BY PlayFrom
<1>4. t \in IF s.queue.length = 0 THEN {c}
            ELSE IF s.playing THEN {Call(c, "UNPAUSE", None)}
            ELSE IF s.queue.random
            THEN {PlayOrder([x EXCEPT !.queue = SwapOrders(@, i, 0)], 0)}
            ELSE {PlayOrder(x, i)}
  BY DEF PlayAny
<1> HIDE DEF x, c
<1>5. CASE s.queue.length = 0
  BY <1>2, <1>4, <1>5
<1>6. CASE s.queue.length # 0 /\ s.playing
  BY <1>2, <1>4, <1>6, OtherCallGood
<1>7. CASE s.queue.length # 0 /\ ~s.playing
  <2>1. i \in Positions(x.queue) /\ 0 \in Positions(x.queue)
    BY <1>1, <1>3, <1>7
  <2> HIDE DEF i
  <2>2. x.error_count < MaxLength
    BY <1>3, QueueAssumption
  <2>3. CASE s.queue.random
    BY <1>3, <1>4, <1>7, <2>1, <2>3, PlaySwapped
  <2>4. CASE ~s.queue.random
    BY <1>3, <1>4, <1>7, <2>1, <2>2, <2>4, PlayOrderOK
  <2> QED BY <2>3, <2>4
<1> QED BY <1>5, <1>6, <1>7

LEMMA PlayPositionOK ==
  ASSUME NEW q, NEW u, NEW s, Good(q, u, s), NEW position \in Positions(s.queue),
         NEW t \in PlayPosition(s, position)
  PROVE  Good(q, u, t)
<1> DEFINE x == [Call(s, "CLEAR_ERROR", None)
                   EXCEPT !.stop_on_error = FALSE, !.error_count = 0]
           i == PositionToOrder(s.queue, position)
           current == IF s.playing THEN s.current ELSE 0
<1>1. /\ s.queue.length \in Nat /\ Positions(s.queue) = 0 .. (s.queue.length - 1)
      /\ s.current >= 0 => s.current \in Positions(s.queue)
      /\ s.playing => s.current >= 0
      /\ QueueOK(s.queue)
  BY GoodTypes
<1>2. Loose(q, u, x) /\ x.error_count = 0 /\ x.queue = s.queue
  BY PlayFrom
<1>3. t \in IF s.queue.random
            THEN {PlayOrder([x EXCEPT !.queue = SwapOrders(@, i, current)], current)}
            ELSE {PlayOrder(x, position)}
  BY DEF PlayPosition
<1>4. i \in Positions(x.queue)
  BY <1>1, <1>2, PositionToOrderOK
<1>5. current \in Positions(x.queue)
  BY <1>1, <1>2
<1> HIDE DEF x, i, current
<1>6. x.error_count < MaxLength
  BY <1>2, QueueAssumption
<1>7. CASE s.queue.random
  BY <1>2, <1>3, <1>4, <1>5, <1>7, PlaySwapped
<1>8. CASE ~s.queue.random
  BY <1>2, <1>3, <1>6, <1>8, PlayOrderOK
<1> QED BY <1>7, <1>8

LEMMA ConsumeOK ==
  ASSUME NEW q, NEW u, NEW s, Good(q, u, s), NEW o \in Positions(s.queue),
         NEW t \in Consume(s, o)
  PROVE  Good(q, u, t)
<1>1. CASE s.queue.consume
  <2> DEFINE position == s.queue.order[o]  end == position + 1
  <2>1. /\ position \in Positions(s.queue) /\ s.queue.length \in Nat
        /\ Positions(s.queue) = 0 .. (s.queue.length - 1)
    BY GoodTypes, QueueTypes
  <2>2. t \in DeleteRange(s, position, end)
    BY <1>1 DEF Consume, DeleteOrder
  <2> HIDE DEF position
  <2>3. end \in Int /\ position < end /\ end <= s.queue.length
    BY <2>1
  <2> HIDE DEF end
  <2> QED BY <2>1, <2>2, <2>3, DeleteRangeOK
<1>2. CASE ~s.queue.consume
  BY <1>2 DEF Consume
<1> QED BY <1>1, <1>2

\* A stopped playlist may have no current song.
LEMMA ForgetCurrent ==
  ASSUME NEW q, NEW u, NEW s, Good(q, u, s), ~s.playing
  PROVE  LET t == [s EXCEPT !.current = -1]
         IN  Good(q, u, t) /\ t.queue = s.queue
<1> DEFINE t == [s EXCEPT !.current = -1]
<1>1. /\ DOMAIN s = PlFields /\ MayBe(s.queue) /\ Grows(q, s.queue)
      /\ s.queue.length \in Nat /\ s.bulk_edit \in BOOLEAN
  BY GoodTypes
<1>2. Rest(s, t) /\ t.queue = s.queue /\ t.current = -1
  BY <1>1 DEF Rest, PlFields
<1>3. Pending(q, u, s, None)
  BY DEF Good, GetQueuedSong
<1> HIDE DEF t
<1>4. t.current \in -1 .. (t.queue.length - 1)
  BY <1>1, <1>2
<1>5. Pending(q, u, t, None)
  BY <1>1, <1>2, <1>3, <1>4, EditKeepsPending
<1>6. Good(q, u, t)
  BY <1>2, <1>5 DEF Good, GetQueuedSong, QueuedFollows, Rest
<1> QED BY <1>2, <1>6 DEF t

LEMMA PlayNextOK ==
  ASSUME NEW q, NEW u, NEW s, Good(q, u, s), NEW t \in PlayNext(s)
  PROVE  Good(q, u, t)
<1> DEFINE next_order == GetNextOrder(s.queue, s.current)
           x == [s EXCEPT !.stop_on_error = FALSE]
           next == IF next_order < 0
                   THEN {[v EXCEPT !.current = -1] : v \in Stop(x)}
                   ELSE {PlayOrder([x EXCEPT !.queue = r], next_order) :
                           r \in IF next_order = 0 /\ s.queue.random
                                 THEN ShuffleOrder(s.queue) ELSE {s.queue}}
<1>1. /\ DOMAIN s = PlFields /\ PlOK(s) /\ QueueOK(s.queue) /\ MayBe(s.queue)
      /\ Grows(q, s.queue)
      /\ s.queue.length \in Nat /\ Positions(s.queue) = 0 .. (s.queue.length - 1)
      /\ s.current >= 0 => s.current \in Positions(s.queue)
      /\ s.playing => s.current >= 0
      /\ s.current \in -1 .. (s.queue.length - 1)
  BY GoodTypes
<1>2. CASE ~s.playing
  BY <1>2 DEF PlayNext
<1>3. CASE s.playing
  <2>1. s.current \in Positions(s.queue)
    BY <1>1, <1>3
  <2>2. PICK v \in next : t \in Consume(v, s.current)
    BY <1>3, <2>1 DEF PlayNext
  <2>3. next_order \in Int /\ (next_order = -1 \/ next_order \in Positions(s.queue))
    BY <1>1, <2>1, NextOrderOK
  <2>4. /\ DOMAIN x = PlFields /\ x.queue = s.queue /\ x.current = s.current
        /\ x.queued = s.queued /\ x.playing = s.playing
        /\ x.error_count = s.error_count /\ x.calls = s.calls /\ x.ok = s.ok
        /\ x.bulk_edit = s.bulk_edit
    BY <1>1 DEF PlFields
  <2>5. Loose(q, u, s) /\ s.error_count < MaxLength
    BY <1>3, PendingIsLoose DEF Good, Pending
  <2>6. v \in IF next_order < 0
              THEN {[y EXCEPT !.current = -1] : y \in Stop(x)}
              ELSE {PlayOrder([x EXCEPT !.queue = r], next_order) :
                      r \in IF next_order = 0 /\ s.queue.random
                            THEN ShuffleOrder(s.queue) ELSE {s.queue}}
    BY <2>2
  <2> HIDE DEF x, next, next_order
  <2>7. Loose(q, u, x)
    BY <1>1, <2>4, <2>5, LooseOK DEF PlOK
  <2>8. CASE next_order < 0
    <3>1. PICK y \in Stop(x) : v = [y EXCEPT !.current = -1]
      BY <2>6, <2>8
    <3>2. Good(q, u, y) /\ ~y.playing /\ y.queue.length = s.queue.length
      BY <1>3, <2>4, <2>7, StopOK
    <3>3. Good(q, u, v) /\ v.queue = y.queue
      BY <3>1, <3>2, ForgetCurrent
    <3>4. s.current \in Positions(v.queue)
      BY <2>1, <3>2, <3>3 DEF Positions
    <3> QED BY <2>2, <3>3, <3>4, ConsumeOK
  <2>9. CASE ~(next_order < 0)
    <3>1. PICK r \in IF next_order = 0 /\ s.queue.random
                     THEN ShuffleOrder(s.queue) ELSE {s.queue} :
            v = PlayOrder([x EXCEPT !.queue = r], next_order)
      BY <2>6, <2>9
    <3>2. MayBe(r) /\ Grows(q, r) /\ r.length = s.queue.length
          /\ Positions(r) = Positions(s.queue)
      <4>1. CASE r = s.queue
        BY <1>1, <4>1
      <4>2. CASE r \in ShuffleOrder(s.queue) /\ s.queue.random
        <5>1. MayBe(r) /\ Keeps(s.queue, r) /\ r.length = s.queue.length
              /\ Positions(r) = Positions(s.queue)
          BY <1>1, <4>2, ShuffledKeeps
        <5> QED BY <1>1, <5>1, GrowsTrans
      <4> QED BY <3>1, <4>1, <4>2
    <3> DEFINE y == [x EXCEPT !.queue = r]
    <3>3. /\ DOMAIN y = PlFields /\ y.queue = r /\ y.current = s.current
          /\ y.queued = s.queued /\ y.playing = s.playing
          /\ y.error_count = s.error_count /\ y.calls = s.calls /\ y.ok = s.ok
          /\ y.bulk_edit = s.bulk_edit
      BY <2>4 DEF PlFields
    <3>4. v = PlayOrder(y, next_order)
      BY <3>1
    <3> HIDE DEF y
    <3>5. Loose(q, u, y)
      <4>1. y.current \in -1 .. (y.queue.length - 1)
        BY <1>1, <3>2, <3>3
      <4> QED BY <1>1, <2>5, <3>2, <3>3, <4>1, LooseOK DEF PlOK
    <3>6. next_order \in Positions(y.queue) /\ y.error_count < MaxLength
      BY <2>3, <2>5, <2>9, <3>2, <3>3
    <3>7. Good(q, u, v) /\ v.queue = r
      BY <3>3, <3>4, <3>5, <3>6, PlayOrderOK
    <3>8. s.current \in Positions(v.queue)
      BY <2>1, <3>2, <3>7
    <3> QED BY <2>2, <3>7, <3>8, ConsumeOK
  <2> QED BY <2>8, <2>9
<1> QED BY <1>1, <1>2, <1>3 DEF PlOK

LEMMA PlayPreviousOK ==
  ASSUME NEW q, NEW u, NEW s, Good(q, u, s), NEW t \in PlayPrevious(s)
  PROVE  Good(q, u, t)
<1> DEFINE o == IF s.current > 0 THEN s.current - 1
                ELSE IF s.queue.repeat THEN s.queue.length - 1 ELSE s.current
<1>1. /\ s.queue.length \in Nat /\ Positions(s.queue) = 0 .. (s.queue.length - 1)
      /\ s.current >= 0 => s.current \in Positions(s.queue)
      /\ s.playing => s.current >= 0
  BY GoodTypes
<1>2. t = IF s.playing THEN PlayOrder(s, o) ELSE s
  BY DEF PlayPrevious
<1>3. CASE s.playing
  <2>1. o \in Positions(s.queue)
    BY <1>1, <1>3
  <2>2. Loose(q, u, s) /\ s.error_count < MaxLength
    BY <1>3, PendingIsLoose DEF Good, Pending
  <2> HIDE DEF o
  <2> QED BY <1>2, <1>3, <2>1, <2>2, PlayOrderOK
<1>4. CASE ~s.playing
  BY <1>2, <1>4
<1> QED BY <1>3, <1>4

LEMMA SeekSongOrderOK ==
  ASSUME NEW q, NEW u, NEW s, Good(q, u, s), NEW o \in Positions(s.queue),
         NEW t \in SeekSongOrder(s, o)
  PROVE  Good(q, u, t)
<1> DEFINE w == [Call(s, "CLEAR_ERROR", None)
                   EXCEPT !.stop_on_error = TRUE, !.error_count = 0]
           r == [Call(s, "CLEAR_ERROR", None)
                   EXCEPT !.stop_on_error = TRUE, !.error_count = 0,
                          !.playing = TRUE, !.current = o]
           song == SongAt(s, o)
           c == [cmd |-> "SEEK", song |-> song]
           y == Call(r, "SEEK", song)
           x == [y EXCEPT !.queued = -1]
<1>1. t \in UpdateQueuedSong(x, None)
  BY DEF SeekSongOrder
<1>2. /\ Loose(q, u, w) /\ w.error_count = 0 /\ DOMAIN w = PlFields
      /\ w.queue = s.queue /\ w.bulk_edit = s.bulk_edit
  BY PlayFrom
<1>3. /\ PlOK(s) /\ QueueOK(s.queue) /\ Positions(s.queue) = 0 .. (s.queue.length - 1)
      /\ s.queue.length \in Nat /\ MayBe(s.queue) /\ Grows(q, s.queue)
  BY GoodTypes
<1>4. r = [w EXCEPT !.playing = TRUE, !.current = o]
  <2>1. DOMAIN Call(s, "CLEAR_ERROR", None) = PlFields
    BY <1>3 DEF Call, PlOK
  <2> DEFINE d == Call(s, "CLEAR_ERROR", None)
  <2> HIDE DEF d
  <2>2. [d EXCEPT !.stop_on_error = TRUE, !.error_count = 0, !.playing = TRUE, !.current = o]
          = [[d EXCEPT !.stop_on_error = TRUE, !.error_count = 0]
               EXCEPT !.playing = TRUE, !.current = o]
    BY <2>1 DEF d, PlFields
  <2> QED BY <2>2 DEF d
<1> HIDE DEF w
<1>5. /\ DOMAIN r = PlFields /\ r.queue = s.queue /\ r.playing = TRUE /\ r.current = o
      /\ r.queued = w.queued /\ r.error_count = 0 /\ r.calls = w.calls /\ r.ok = w.ok
      /\ r.bulk_edit = w.bulk_edit
  BY <1>2, <1>4 DEF PlFields
<1>6. PlOK(w)
  BY <1>2 DEF Loose
<1> HIDE DEF r
<1>7. PlOK(r) /\ Loose(q, u, r)
  <2>1. r.current \in -1 .. (r.queue.length - 1) /\ r.current >= 0
        /\ r.error_count \in 0 .. MaxLength
    BY <1>3, <1>5, QueueAssumption
  <2>2. Loose(q, u, r)
    BY <1>2, <1>3, <1>5, <1>6, <2>1, LooseOK DEF PlOK
  <2> QED BY <2>2 DEF Loose
<1>8. PICK v : Leads(u, r.calls, v)
  BY <1>7 DEF Loose
<1>9. "SEEK" \in Cmds /\ song \in SongIds /\ song \in Ids /\ None \in SongIds
  BY <1>3, PlTypes DEF Cmds, SongIds
<1>10. Cur(r) = song
  BY <1>5 DEF Cur, SongAt
<1> HIDE DEF song
<1>11. /\ c \in Calls /\ y.calls = Append(r.calls, c) /\ PlOK(y)
       /\ DOMAIN y = PlFields /\ y.queue = r.queue /\ y.playing = r.playing
       /\ y.current = r.current /\ y.queued = r.queued
       /\ y.error_count = r.error_count /\ y.bulk_edit = r.bulk_edit
       /\ Cur(y) = Cur(r)
  BY <1>7, <1>9, CallFields
<1> HIDE DEF y
<1>12. /\ DOMAIN x = PlFields /\ x.queue = y.queue /\ x.playing = TRUE
       /\ x.current = y.current /\ x.queued = -1 /\ x.error_count = 0
       /\ x.calls = y.calls /\ x.ok = y.ok /\ x.bulk_edit = y.bulk_edit
  BY <1>5, <1>11 DEF PlFields
<1> HIDE DEF x
<1>13. PlOK(x) /\ Cur(x) = song
  <2>1. x.queued \in -1 .. (MaxLength - 1)
    BY <1>12, QueueAssumption
  <2>2. PlOK(x)
    BY <1>5, <1>11, <1>12, <2>1 DEF PlOK
  <2> QED BY <1>5, <1>10, <1>11, <1>12, <2>2 DEF Cur, SongAt
<1>14. Allowed(v, c) /\ Told(v, c) = ViewOf(x, None)
  BY <1>9, <1>13, IdFacts DEF Allowed, Told, ViewOf
<1> HIDE DEF c
<1>15. Leads(u, x.calls, ViewOf(x, None))
  BY <1>7, <1>8, <1>11, <1>12, <1>14, LeadsOn DEF PlOK
<1>16. Pending(q, u, x, None)
  <2>1. Grows(q, x.queue) /\ x.error_count < MaxLength
    BY <1>3, <1>5, <1>11, <1>12, QueueAssumption
  <2> QED BY <1>9, <1>12, <1>13, <1>15, <2>1 DEF Pending
<1> QED BY <1>1, <1>16, UpdateQueuedSongOK

-----------------------------------------------------------------------------
(* Options.                                                                *)

LEMMA OptionKeeps ==
  ASSUME NEW r, QueueOK(r), NEW x, DOMAIN x = QueueFields,
         x.length = r.length, x.items = r.items, x.order = r.order, x.data = r.data,
         x.next = r.next, x.version = r.version, x.random = r.random,
         x.repeat \in BOOLEAN, x.single \in BOOLEAN, x.consume \in BOOLEAN
  PROVE  /\ QueueOK(x) /\ Keeps(r, x) /\ Positions(x) = Positions(r)
         /\ \A o \in Positions(r) : IdAt(x, o) = IdAt(r, o)
<1>1. Positions(x) = Positions(r)
  BY DEF Positions
<1>2. QueueTypeOK(x)
  BY <1>1 DEF QueueOK, QueueTypeOK
<1>3. OrderIsPermutation(x) /\ IdTableMatches(x) /\ OrderIsPosition(x)
  BY <1>1 DEF QueueOK, OrderIsPermutation, IdTableMatches, OrderIsPosition
<1>4. Keeps(r, x)
  BY <1>1 DEF Keeps, From
<1>5. \A o \in Positions(r) : IdAt(x, o) = IdAt(r, o)
  BY DEF IdAt, OrderItem
<1> QED BY <1>1, <1>2, <1>3, <1>4, <1>5 DEF QueueOK

\* An option is set to another value.
LEMMA OptionPending ==
  ASSUME NEW q, NEW u, NEW s, NEW prev, Pending(q, u, s, prev),
         NEW x, DOMAIN x = QueueFields,
         x.length = s.queue.length, x.items = s.queue.items, x.order = s.queue.order,
         x.data = s.queue.data, x.next = s.queue.next, x.version = s.queue.version,
         x.random = s.queue.random, x.repeat \in BOOLEAN, x.single \in BOOLEAN,
         x.consume \in BOOLEAN, x.repeat => "repeat" \in Commands,
         NEW t, Rest(s, t), t.queue = x, t.current = s.current
  PROVE  Pending(q, u, t, prev)
<1>1. /\ PlOK(s) /\ QueueOK(s.queue) /\ MayBe(s.queue) /\ Grows(q, s.queue)
      /\ s.current \in -1 .. (s.queue.length - 1)
      /\ s.current >= 0 => s.current \in Positions(s.queue)
      /\ s.playing => s.current >= 0
  BY PendingQueue, PlTypes DEF PlOK
<1>2. /\ QueueOK(x) /\ Keeps(s.queue, x)
      /\ \A o \in Positions(s.queue) : IdAt(x, o) = IdAt(s.queue, o)
  BY <1>1, OptionKeeps
<1>3. MayBe(x) /\ Grows(q, x)
  BY <1>1, <1>2, GrowsTrans DEF MayBe
<1>4. /\ t.current \in -1 .. (t.queue.length - 1)
      /\ s.playing => t.current >= 0 /\ IdAt(t.queue, t.current) = IdAt(s.queue, s.current)
  BY <1>1, <1>2
<1> QED BY <1>3, <1>4, EditKeepsPending

LEMMA OptionGood ==
  ASSUME NEW q, NEW u, NEW s, Good(q, u, s),
         NEW x, DOMAIN x = QueueFields,
         x.length = s.queue.length, x.items = s.queue.items, x.order = s.queue.order,
         x.data = s.queue.data, x.next = s.queue.next, x.version = s.queue.version,
         x.random = s.queue.random, x.repeat = s.queue.repeat, x.single \in BOOLEAN,
         x.consume \in BOOLEAN,
         NEW t, Rest(s, t), t.queue = x, t.current = s.current
  PROVE  Good(q, u, t)
<1> DEFINE prev == GetQueuedSong(s)
<1>1. Pending(q, u, s, prev) /\ QueuedFollows(s)
  BY DEF Good
<1>2. x.repeat \in BOOLEAN /\ (x.repeat => "repeat" \in Commands)
  BY GoodTypes, QueueTypes DEF MayBe
<1>3. prev = GetQueuedSong(t)
  BY DEF Rest, GetQueuedSong, SongAt, OrderItem
<1> HIDE DEF prev
<1>4. Pending(q, u, t, prev)
  BY <1>1, <1>2, OptionPending
<1> QED BY <1>1, <1>3, <1>4 DEF Good, QueuedFollows, Rest

LEMMA QueueOptions ==
  ASSUME NEW r, QueueOK(r)
  PROVE  /\ DOMAIN r = QueueFields /\ r.repeat \in BOOLEAN /\ r.single \in BOOLEAN
         /\ r.consume \in BOOLEAN /\ r.random \in BOOLEAN
  BY DEF QueueOK, QueueTypeOK

\* setBorderPauseInPlayer() and UpdateQueuedSong() after an option was set
LEMMA BorderPauseOK ==
  ASSUME NEW q, NEW u, NEW s, NEW prev, Pending(q, u, s, prev),
         NEW t \in UpdateQueuedSong(BorderPause(s), prev)
  PROVE  Good(q, u, t)
<1> DEFINE cmd == IF s.queue.single /\ ~s.queue.repeat THEN "BORDER_PAUSE"
                                                       ELSE "NO_BORDER_PAUSE"
           x == Call(s, cmd, None)
<1>1. cmd \in {"PAUSE", "UNPAUSE", "CLEAR_ERROR", "BORDER_PAUSE", "NO_BORDER_PAUSE"}
  OBVIOUS
<1>2. t \in UpdateQueuedSong(x, prev)
  BY DEF BorderPause
<1> HIDE DEF cmd
<1>3. Pending(q, u, x, prev)
  BY <1>1, OtherCall
<1> HIDE DEF x
<1> QED BY <1>2, <1>3, UpdateQueuedSongOK

LEMMA SetRepeatOK ==
  ASSUME NEW q, NEW u, NEW s, Good(q, u, s), "repeat" \in Commands,
         NEW t \in SetRepeat(s)
  PROVE  Good(q, u, t)
<1> DEFINE r == s.queue
           x == [r EXCEPT !.repeat = ~@]
           y == [s EXCEPT !.queue.repeat = ~@]
           prev == GetQueuedSong(s)
<1>1. /\ DOMAIN s = PlFields /\ QueueOK(r) /\ s.bulk_edit \in BOOLEAN
      /\ Pending(q, u, s, prev)
  BY GoodTypes DEF Good
<1>2. DOMAIN r = QueueFields /\ r.repeat \in BOOLEAN /\ r.single \in BOOLEAN
      /\ r.consume \in BOOLEAN
  BY <1>1, QueueOptions
<1>3. t \in UpdateQueuedSong(BorderPause(y), prev)
  BY DEF SetRepeat
<1>4. Rest(s, y) /\ y.queue = x /\ y.current = s.current
  BY <1>1 DEF Rest, PlFields
<1>5. /\ DOMAIN x = QueueFields /\ x.length = r.length /\ x.items = r.items
      /\ x.order = r.order /\ x.data = r.data /\ x.next = r.next
      /\ x.version = r.version /\ x.random = r.random /\ x.repeat \in BOOLEAN
      /\ x.single \in BOOLEAN /\ x.consume \in BOOLEAN
  BY <1>2 DEF QueueFields
<1> HIDE DEF x, y, prev
<1>6. Pending(q, u, y, prev)
  BY <1>1, <1>4, <1>5, OptionPending
<1> QED BY <1>3, <1>6, BorderPauseOK

LEMMA SetSingleOK ==
  ASSUME NEW q, NEW u, NEW s, Good(q, u, s), NEW t \in SetSingle(s)
  PROVE  Good(q, u, t)
<1> DEFINE r == s.queue
           x == [r EXCEPT !.single = ~@]
           y == [s EXCEPT !.queue.single = ~@]
           prev == GetQueuedSong(s)
<1>1. /\ DOMAIN s = PlFields /\ QueueOK(r) /\ s.bulk_edit \in BOOLEAN
      /\ Pending(q, u, s, prev) /\ MayBe(r)
  BY GoodTypes DEF Good
<1>2. DOMAIN r = QueueFields /\ r.repeat \in BOOLEAN /\ r.single \in BOOLEAN
      /\ r.consume \in BOOLEAN
  BY <1>1, QueueOptions
<1>3. t \in UpdateQueuedSong(BorderPause(y), prev)
  BY DEF SetSingle
<1>4. Rest(s, y) /\ y.queue = x /\ y.current = s.current
  BY <1>1 DEF Rest, PlFields
<1>5. /\ DOMAIN x = QueueFields /\ x.length = r.length /\ x.items = r.items
      /\ x.order = r.order /\ x.data = r.data /\ x.next = r.next
      /\ x.version = r.version /\ x.random = r.random /\ x.repeat \in BOOLEAN
      /\ x.single \in BOOLEAN /\ x.consume \in BOOLEAN
      /\ x.repeat => "repeat" \in Commands
  BY <1>1, <1>2 DEF QueueFields, MayBe
<1> HIDE DEF x, y, prev
<1>6. Pending(q, u, y, prev)
  BY <1>1, <1>4, <1>5, OptionPending
<1> QED BY <1>3, <1>6, BorderPauseOK

\* consume has no effect before the song ends.
LEMMA SetConsumeOK ==
  ASSUME NEW q, NEW u, NEW s, Good(q, u, s), NEW t \in SetConsume(s)
  PROVE  Good(q, u, t)
<1> DEFINE r == s.queue  x == [r EXCEPT !.consume = ~@]
<1>1. /\ DOMAIN s = PlFields /\ QueueOK(r) /\ s.bulk_edit \in BOOLEAN
  BY GoodTypes
<1>2. DOMAIN r = QueueFields /\ r.repeat \in BOOLEAN /\ r.single \in BOOLEAN
      /\ r.consume \in BOOLEAN
  BY <1>1, QueueOptions
<1>3. Rest(s, t) /\ t.queue = x /\ t.current = s.current
  BY <1>1 DEF Rest, PlFields, SetConsume
<1>4. /\ DOMAIN x = QueueFields /\ x.length = r.length /\ x.items = r.items
      /\ x.order = r.order /\ x.data = r.data /\ x.next = r.next
      /\ x.version = r.version /\ x.random = r.random /\ x.repeat = r.repeat
      /\ x.single \in BOOLEAN /\ x.consume \in BOOLEAN
  BY <1>2 DEF QueueFields
<1> HIDE DEF x
<1> QED BY <1>3, <1>4, OptionGood

\* "next" turns single off while it runs, and back on.
LEMMA SingleGood ==
  ASSUME NEW q, NEW u, NEW s, Good(q, u, s), NEW single \in BOOLEAN
  PROVE  Good(q, u, [s EXCEPT !.queue.single = single])
<1> DEFINE r == s.queue  x == [r EXCEPT !.single = single]
           t == [s EXCEPT !.queue.single = single]
<1>1. /\ DOMAIN s = PlFields /\ QueueOK(r) /\ s.bulk_edit \in BOOLEAN
  BY GoodTypes
<1>2. DOMAIN r = QueueFields /\ r.repeat \in BOOLEAN /\ r.single \in BOOLEAN
      /\ r.consume \in BOOLEAN
  BY <1>1, QueueOptions
<1>3. Rest(s, t) /\ t.queue = x /\ t.current = s.current
  BY <1>1 DEF Rest, PlFields
<1>4. /\ DOMAIN x = QueueFields /\ x.length = r.length /\ x.items = r.items
      /\ x.order = r.order /\ x.data = r.data /\ x.next = r.next
      /\ x.version = r.version /\ x.random = r.random /\ x.repeat = r.repeat
      /\ x.single \in BOOLEAN /\ x.consume \in BOOLEAN
  BY <1>2 DEF QueueFields
<1> HIDE DEF x, t
<1>5. Good(q, u, t)
  BY <1>3, <1>4, OptionGood
<1> QED BY <1>5 DEF t

\* The current song becomes the first of the new order.
LEMMA RandomOnPending ==
  ASSUME NEW q, NEW u, NEW s, NEW prev, Pending(q, u, s, prev),
         "random" \in Commands, NEW t \in RandomOn(s)
  PROVE  Pending(q, u, t, prev)
<1> DEFINE position == IF s.playing THEN GetCurrentPosition(s) ELSE -1
           on == [s.queue EXCEPT !.random = TRUE]
           First(x) == IF position >= 0
                       THEN SwapOrders(x, 0, PositionToOrder(x, position)) ELSE x
           k == IF position >= 0 THEN 0 ELSE -1
<1>1. /\ PlOK(s) /\ DOMAIN s = PlFields /\ QueueOK(s.queue) /\ MayBe(s.queue)
      /\ Grows(q, s.queue)
      /\ Positions(s.queue) = 0 .. (s.queue.length - 1) /\ s.queue.length \in Nat
      /\ s.current >= 0 => s.current \in Positions(s.queue)
      /\ s.playing => s.current >= 0
      /\ s.queue.order \in [Positions(s.queue) -> Positions(s.queue)]
  BY PendingQueue, PlTypes, QueueTypes DEF PlOK
<1>2. PICK x \in ShuffleOrder(on) : t = [s EXCEPT !.queue = First(x), !.current = k]
  BY DEF RandomOn
<1>3. /\ QueueOK(on) /\ Edits(s.queue, on) /\ on.random /\ on.length = s.queue.length
      /\ on.repeat = s.queue.repeat /\ on.items = s.queue.items
      /\ on.order = s.queue.order
  BY <1>1, RandomOnOK
<1>4. MayBe(on) /\ Keeps(s.queue, on)
  BY <1>1, <1>3 DEF MayBe, Edits, Keeps
<1> HIDE DEF on
<1>5. /\ MayBe(x) /\ Keeps(on, x) /\ SamePlaces(on, x) /\ x.length = on.length
      /\ Positions(x) = Positions(on) /\ x.random
  BY <1>3, <1>4, ShuffledKeeps
<1>6. Grows(q, x)
  BY <1>1, <1>4, <1>5, GrowsTrans
<1>7. Positions(x) = Positions(s.queue) /\ QueueOK(x)
  BY <1>3, <1>5 DEF Positions, MayBe
<1>8. position >= 0 => /\ s.playing /\ position = s.queue.order[s.current]
                       /\ position \in Positions(s.queue)
                       /\ s.current \in Positions(s.queue)
  <2>1. s.playing => GetCurrentPosition(s) = s.queue.order[s.current]
    BY <1>1 DEF GetCurrentPosition
  <2> QED BY <1>1, <2>1
<1>9. s.playing => position >= 0
  <2>1. s.playing => GetCurrentPosition(s) = s.queue.order[s.current]
    BY <1>1 DEF GetCurrentPosition
  <2>2. s.playing => s.queue.order[s.current] \in 0 .. (s.queue.length - 1)
    BY <1>1
  <2> QED BY <2>1, <2>2
<1> HIDE DEF position
<1>10. CASE position >= 0
  <2> DEFINE o == PositionToOrder(x, position)  y == SwapOrders(x, 0, o)
             zero == 0
  <2>1. o \in Positions(x) /\ x.order[o] = position
    BY <1>7, <1>8, <1>10, PositionToOrderOK
  <2>2. t = [s EXCEPT !.queue = y, !.current = zero]
    BY <1>2, <1>10
  <2>3. zero \in Positions(x)
    BY <1>1, <1>7, <1>8, <1>10
  <2> HIDE DEF o
  <2>4. /\ QueueOK(y) /\ Keeps(x, y) /\ SameOptions(x, y) /\ y.length = x.length
        /\ IdAt(y, zero) = IdAt(x, o)
    BY <1>5, <1>7, <2>1, <2>3, SwapOrdersKeeps
  <2> HIDE DEF y
  <2>5. MayBe(y) /\ Grows(q, y)
    BY <1>5, <1>6, <2>4, SameOptionsMayBe, GrowsTrans
  <2>6. IdAt(x, o) = IdAt(s.queue, s.current)
    <3>1. x.items[position].id = s.queue.items[position].id
      BY <1>3, <1>5, <1>7, <1>8, <1>10 DEF SamePlaces
    <3> QED BY <1>8, <1>10, <2>1, <3>1 DEF IdAt, OrderItem
  <2>7. zero \in -1 .. (y.length - 1) /\ zero >= 0
    BY <1>1, <1>3, <1>5, <1>7, <2>3, <2>4
  <2>8. s.playing => zero >= 0 /\ (Exact => IdAt(y, zero) = IdAt(s.queue, s.current))
    BY <2>4, <2>6, <2>7
  <2> HIDE DEF zero
  <2> QED BY <2>2, <2>5, <2>7, <2>8, NewQueuePending
<1>11. CASE ~(position >= 0)
  <2> DEFINE none == -1
  <2>1. t = [s EXCEPT !.queue = x, !.current = none] /\ ~s.playing
    BY <1>2, <1>9, <1>11
  <2>2. none \in -1 .. (x.length - 1)
    BY <1>1, <1>3, <1>5
  <2> HIDE DEF none
  <2> QED BY <1>5, <1>6, <2>1, <2>2, NewQueuePending
<1> QED BY <1>10, <1>11

LEMMA RandomOffPending ==
  ASSUME NEW q, NEW u, NEW s, NEW prev, Pending(q, u, s, prev), NEW t \in RandomOff(s)
  PROVE  Pending(q, u, t, prev)
<1> DEFINE r == s.queue
           x == RestoreOrder([r EXCEPT !.random = FALSE])
           k == GetCurrentPosition(s)
<1>1. /\ PlOK(s) /\ DOMAIN s = PlFields /\ QueueOK(r) /\ MayBe(r)
      /\ Grows(q, r) /\ s.current \in Int /\ s.current >= -1
      /\ Positions(r) = 0 .. (r.length - 1) /\ r.length \in Nat
      /\ s.current >= 0 => s.current \in Positions(r)
      /\ s.playing => s.current >= 0
      /\ r.order \in [Positions(r) -> Positions(r)]
  BY PendingQueue, PlTypes, QueueTypes DEF PlOK
<1>2. t = [s EXCEPT !.queue = x, !.current = k]
  BY DEF RandomOff
<1>3. /\ QueueOK(x) /\ Edits(r, x) /\ ~x.random
      /\ x.length = r.length /\ x.repeat = r.repeat /\ x.items = r.items
      /\ x.order = [o \in Positions(r) |-> o]
  BY <1>1, RestoreOrderOK
<1> HIDE DEF x
<1>4. MayBe(x) /\ Keeps(r, x)
  BY <1>1, <1>3 DEF MayBe, Edits, Keeps
<1>5. Grows(q, x)
  BY <1>1, <1>4, GrowsTrans
<1>6. s.current >= 0 => k = r.order[s.current] /\ k \in Positions(r)
  BY <1>1 DEF GetCurrentPosition
<1>7. ~(s.current >= 0) => k = -1
  BY DEF GetCurrentPosition
<1> HIDE DEF k
<1>8. k \in -1 .. (x.length - 1) /\ (s.current >= 0 => k >= 0)
  BY <1>1, <1>3, <1>6, <1>7
<1>9. s.playing => k >= 0 /\ (Exact => IdAt(x, k) = IdAt(s.queue, s.current))
  BY <1>1, <1>3, <1>6, <1>8 DEF IdAt, OrderItem
<1> QED BY <1>2, <1>4, <1>5, <1>8, <1>9, NewQueuePending

LEMMA SetRandomOK ==
  ASSUME NEW q, NEW u, NEW s, Good(q, u, s), "random" \in Commands,
         NEW t \in SetRandom(s)
  PROVE  Good(q, u, t)
<1> DEFINE prev == GetQueuedSong(s)
<1>1. PICK x \in IF s.queue.random THEN RandomOff(s) ELSE RandomOn(s) :
        t \in UpdateQueuedSong(x, prev)
  BY DEF SetRandom, Then
<1>2. Pending(q, u, s, prev)
  BY DEF Good
<1> HIDE DEF prev
<1>3. Pending(q, u, x, prev)
  BY <1>1, <1>2, RandomOnPending, RandomOffPending
<1> QED BY <1>1, <1>3, UpdateQueuedSongOK

-----------------------------------------------------------------------------
(* The player, and the PLAYLIST event.                                     *)

PlayerOK ==
  player \in [state : {"STOP", "PLAY", "PAUSE"}, song : SongIds, next : SongIds,
              error : {"NONE", "DECODER", "OUTPUT"}, border_pause : BOOLEAN]

(* The player plays the song of the view v that is current, or has gone on to
   the next one, which it then no longer holds as next; a seek that failed may
   have left another song. *)
Agrees(v) ==
  /\ player.next \in {v.next, None}
  /\ player.state = "STOP" => player.next = None
  /\ player.state # "STOP" => v.cur # None
  /\ Exact /\ player.state # "STOP" =>
       \/ player.next = v.next /\ (player.song = v.cur \/ CanFail(v.cur))
       \/ player.next = None /\ v.next # None /\ player.song = v.next

\* The view shows a song of the queue, or none.
InQueue(v) ==
  Exact => \/ v.cur = None
           \/ \E p \in Positions(pl.queue) : pl.queue.items[p].id = v.cur

(* The inductive invariant: the calls yet to be made lead from what the player
   does to what the playlist shows. *)
PlInv == PlayerOK /\ \E u : Good(pl.queue, u, pl) /\ Agrees(u)

LEMMA GrowsRefl ==
  ASSUME NEW r
  PROVE  Grows(r, r)
  BY DEF Grows, From

\* A handler is done: the queue it began with is history.
LEMMA Rebase ==
  ASSUME NEW q, NEW u, NEW s, Good(q, u, s)
  PROVE  Good(s.queue, u, s)
<1> DEFINE prev == GetQueuedSong(s)
<1>1. Grows(s.queue, s.queue)
  BY GrowsRefl
<1>2. Pending(q, u, s, prev)
  BY DEF Good
<1>3. Pending(s.queue, u, s, prev)
  BY <1>1, <1>2 DEF Pending
<1> QED BY <1>3 DEF Good

LEMMA ViewInQueue ==
  ASSUME PlOK(pl), NEW prev
  PROVE  InQueue(ViewOf(pl, prev))
<1>1. CASE ~pl.playing
  BY <1>1 DEF InQueue, ViewOf, Cur, Shown
<1>2. CASE pl.playing
  <2>1. pl.current \in Positions(pl.queue) /\ QueueOK(pl.queue)
    BY <1>2, PlTypes DEF PlOK
  <2>2. pl.queue.order[pl.current] \in Positions(pl.queue)
    BY <2>1, QueueTypes
  <2>3. Cur(pl) = pl.queue.items[pl.queue.order[pl.current]].id
    BY <1>2 DEF Cur, SongAt, OrderItem
  <2> QED BY <2>2, <2>3 DEF InQueue, ViewOf, Shown
<1> QED BY <1>1, <1>2 DEF PlOK

\* While a handler runs, the songs of the queue only become fewer, but for
\* new ones: what the player does still agrees with the view.
LEMMA AgreesKept ==
  ASSUME NEW v, Agrees(v), InQueue(v), QueueOK(pl.queue),
         player' = player, Grows(pl.queue, pl'.queue)
  PROVE  Agrees(v)'
<1>1. ASSUME Exact, v.cur # None, CanFail(v.cur)
      PROVE  CanFail(v.cur)'
  <2>1. PICK p \in Positions(pl.queue) : pl.queue.items[p].id = v.cur
    BY <1>1 DEF InQueue
  <2>2. ~(pl.queue.data[v.cur] < 0)
    <3>1. pl.queue.data[v.cur] = p /\ p \in Int /\ p >= 0
      BY <2>1, QueueTypes DEF QueueOK, IdTableMatches
    <3> QED BY <3>1
  <2>3. SongsOf(v.cur)' \subseteq SongsOf(v.cur)
    <3> SUFFICES ASSUME NEW k \in Positions(pl'.queue), pl'.queue.items[k].id = v.cur
                 PROVE  pl'.queue.items[k].song \in SongsOf(v.cur)
      BY DEF SongsOf, Positions
    <3>1. From(pl.queue, pl'.queue.items[k])
      BY <2>2 DEF Grows
    <3> QED BY <3>1 DEF From, SongsOf
  <2> QED BY <1>1, <2>3 DEF CanFail
<1> QED BY <1>1 DEF Agrees

LEMMA SongStartedOK ==
  ASSUME NEW u, Good(pl.queue, u, pl), Agrees(u), PlayerOK, pl.calls = <<>>, pl.playing,
         player.state # "STOP", player.next = None, pl.queued # -1,
         NEW t \in SongStarted(pl)
  PROVE  \E w : Good(pl.queue, w, t) /\ Agrees(w) /\ InQueue(w)
<1> DEFINE q == pl.queue
           x == [pl EXCEPT !.current = pl.queued, !.queued = -1]
           id == SongAt(pl, pl.queued)
           w == ViewOf(x, None)
<1>1. /\ PlOK(pl) /\ QueueOK(q) /\ MayBe(q) /\ Grows(q, q) /\ DOMAIN pl = PlFields
      /\ q.length \in Nat /\ Positions(q) = 0 .. (q.length - 1)
      /\ pl.queued \in Positions(q) /\ pl.queued >= 0 /\ pl.current \in Positions(q)
      /\ u = ViewOf(pl, GetQueuedSong(pl)) /\ id \in Ids
      /\ pl.error_count < MaxLength
  <2>1. PlOK(pl) /\ pl.queued >= 0 /\ pl.queued \in Positions(q)
    BY GoodTypes
  <2>2. u = ViewOf(pl, GetQueuedSong(pl))
    BY LeadsNowhere DEF Good, Pending
  <2>3. id \in Ids
    BY <2>1, PlTypes
  <2>4. pl.error_count < MaxLength
    BY DEF Good, Pending
  <2> QED BY <2>1, <2>2, <2>3, <2>4, GoodTypes
<1>2. /\ DOMAIN x = PlFields /\ x.queue = q /\ x.playing = TRUE
      /\ x.current = pl.queued /\ x.queued = -1 /\ x.error_count = pl.error_count
      /\ x.calls = pl.calls /\ x.ok = pl.ok /\ x.bulk_edit = pl.bulk_edit
  BY <1>1 DEF PlFields, PlOK
<1>3. t \in Consume(x, pl.current)
  BY DEF SongStarted
<1> HIDE DEF x
<1>4. PlOK(x)
  <2>1. x.current \in -1 .. (x.queue.length - 1) /\ x.current >= 0
        /\ x.queued \in -1 .. (MaxLength - 1)
    BY <1>1, <1>2, QueueAssumption
  <2> QED BY <1>1, <1>2, <2>1 DEF PlOK
<1>5. Cur(x) = id /\ GetQueuedSong(x) = None
  BY <1>2 DEF Cur, SongAt, GetQueuedSong
<1>6. Leads(w, x.calls, w)
  <2>1. w \in View
    BY <1>1, <1>5, IdFacts DEF View, ViewOf, SongIds
  <2> HIDE DEF w
  <2> QED BY <1>2, <2>1, LeadsNothing
<1>7. Good(q, w, x)
  <2>1. None \in SongIds
    BY DEF SongIds
  <2>2. Pending(q, w, x, None)
    BY <1>1, <1>2, <1>4, <1>6, <2>1 DEF Pending
  <2> QED BY <1>2, <1>5, <2>2 DEF Good, QueuedFollows
<1>8. Good(q, w, t)
  <2>1. pl.current \in Positions(x.queue)
    BY <1>1, <1>2
  <2> HIDE DEF w, q
  <2> QED BY <1>3, <1>7, <2>1, ConsumeOK
<1>9. w.cur = Shown(id) /\ w.next = None /\ w.cur # None
  BY <1>1, <1>5, IdFacts DEF ViewOf, Shown
<1>10. GetQueuedSong(pl) = id
  BY <1>1 DEF GetQueuedSong
<1>11. Agrees(w)
  <2>1. u.next = id /\ id # None
    BY <1>1, <1>10, IdFacts DEF ViewOf
  <2>2. Exact => player.song = id /\ w.cur = id
    BY <1>9, <2>1 DEF Agrees, Shown
  <2> HIDE DEF w, id
  <2> QED BY <1>9, <2>2 DEF Agrees
<1>12. InQueue(w)
  <2>1. q.order[pl.queued] \in Positions(q)
    BY <1>1, QueueTypes
  <2>2. id = q.items[q.order[pl.queued]].id
    BY DEF SongAt, OrderItem
  <2> QED BY <1>9, <2>1, <2>2 DEF InQueue, Shown
<1> HIDE DEF w
<1> QED BY <1>8, <1>11, <1>12

LEMMA ResumePlaybackOK ==
  ASSUME NEW q, NEW u, NEW s, Good(q, u, s), s.playing, NEW t \in ResumePlayback(s)
  PROVE  Good(q, u, t)
<1> DEFINE count == IF player.error = "NONE" THEN 0 ELSE s.error_count + 1
           x == [s EXCEPT !.error_count = count]
<1>1. /\ DOMAIN s = PlFields /\ PlOK(s) /\ MayBe(s.queue) /\ Grows(q, s.queue)
      /\ s.queue.length \in Nat /\ s.queue.length <= MaxLength /\ MaxLength \in Nat
      /\ s.error_count \in 0 .. MaxLength /\ s.error_count < MaxLength
  BY GoodTypes, PlTypes DEF PlOK, Good, Pending
<1>2. count \in 0 .. MaxLength /\ (~(count >= s.queue.length) => count < MaxLength)
  BY <1>1
<1>3. \/ t \in Stop(x)
      \/ t \in PlayNext(x) /\ ~(count >= s.queue.length)
  BY DEF ResumePlayback
<1>4. /\ DOMAIN x = PlFields /\ x.queue = s.queue /\ x.playing = s.playing
      /\ x.current = s.current /\ x.queued = s.queued /\ x.error_count = count
      /\ x.calls = s.calls /\ x.ok = s.ok /\ x.bulk_edit = s.bulk_edit
  BY <1>1 DEF PlFields
<1> HIDE DEF x, count
<1>5. PlOK(x)
  BY <1>1, <1>2, <1>4 DEF PlOK
<1>6. CASE t \in Stop(x)
  <2>1. Loose(q, u, s)
    BY PendingIsLoose DEF Good
  <2>2. Loose(q, u, x)
    BY <1>1, <1>4, <1>5, <2>1 DEF Loose
  <2> QED BY <1>4, <1>6, <2>2, StopOK
<1>7. CASE t \in PlayNext(x) /\ ~(count >= s.queue.length)
  <2> DEFINE prev == GetQueuedSong(s)
  <2>1. Pending(q, u, s, prev) /\ QueuedFollows(s)
    BY DEF Good
  <2>2. prev = GetQueuedSong(x)
    BY <1>4 DEF GetQueuedSong, SongAt
  <2> HIDE DEF prev
  <2>3. ViewOf(x, prev) = ViewOf(s, prev)
    BY <1>4 DEF ViewOf, Cur, SongAt
  <2>4. Pending(q, u, x, prev)
    BY <1>2, <1>4, <1>5, <1>7, <2>1, <2>3 DEF Pending
  <2>5. Good(q, u, x)
    BY <1>4, <2>1, <2>2, <2>4 DEF Good, QueuedFollows
  <2> QED BY <1>7, <2>5, PlayNextOK
<1> QED BY <1>3, <1>6, <1>7

LEMMA SyncOK ==
  ASSUME NEW u, Good(pl.queue, u, pl), Agrees(u), PlayerOK, pl.calls = <<>>,
         NEW t \in SyncWithPlayer(pl)
  PROVE  \E w : Good(pl.queue, w, t) /\ Agrees(w) /\ InQueue(w)
<1>1. InQueue(u)
  <2>1. u = ViewOf(pl, GetQueuedSong(pl)) /\ PlOK(pl)
    BY LeadsNowhere DEF Good, Pending
  <2> QED BY <2>1, ViewInQueue
<1>2. CASE ~pl.playing
  <2>1. t = pl
    BY <1>2 DEF SyncWithPlayer
  <2> QED BY <1>1, <2>1
<1>3. CASE pl.playing /\ player.state = "STOP"
  <2>1. t \in ResumePlayback(pl)
    BY <1>3 DEF SyncWithPlayer
  <2>2. Good(pl.queue, u, t)
    <3> DEFINE q == pl.queue
    <3>1. Good(q, u, pl)
      OBVIOUS
    <3> HIDE DEF q
    <3>2. Good(q, u, t)
      BY <1>3, <2>1, <3>1, ResumePlaybackOK
    <3> QED BY <3>2 DEF q
  <2> QED BY <1>1, <2>2
<1>4. CASE pl.playing /\ player.state # "STOP"
  <2>1. PICK x \in IF player.next = None /\ pl.queued # -1
                   THEN SongStarted(pl) ELSE {pl} :
          t \in IF player.next = None /\ x.queued < 0
                THEN UpdateQueuedSong(x, None) ELSE {x}
    BY <1>4 DEF SyncWithPlayer, Then
  <2>2. \E w : Good(pl.queue, w, x) /\ Agrees(w) /\ InQueue(w)
    <3>1. CASE player.next = None /\ pl.queued # -1
      BY <1>4, <2>1, <3>1, SongStartedOK
    <3>2. CASE ~(player.next = None /\ pl.queued # -1)
      BY <1>1, <2>1, <3>2
    <3> QED BY <3>1, <3>2
  <2>3. PICK w : Good(pl.queue, w, x) /\ Agrees(w) /\ InQueue(w)
    BY <2>2
  <2> DEFINE q == pl.queue
  <2>4. Good(q, w, x)
    BY <2>3
  <2> HIDE DEF q
  <2>5. Good(q, w, t)
    <3>1. CASE player.next = None /\ x.queued < 0
      <4>1. ~(x.queued >= 0)
        BY <2>4, <3>1, GoodTypes
      <4>2. GetQueuedSong(x) = None
        BY <4>1 DEF GetQueuedSong
      <4>3. Pending(q, w, x, None)
        BY <2>4, <4>2 DEF Good
      <4> QED BY <2>1, <3>1, <4>3, UpdateQueuedSongOK
    <3>2. CASE ~(player.next = None /\ x.queued < 0)
      BY <2>1, <2>4, <3>2
    <3> QED BY <3>1, <3>2
  <2> QED BY <2>3, <2>5 DEF q
<1> QED BY <1>2, <1>3, <1>4, GoodTypes

-----------------------------------------------------------------------------
(* Every command of a client.                                              *)

LEMMA BulkGood ==
  ASSUME NEW q, NEW u, NEW s, Good(q, u, s)
  PROVE  Good(q, u, [s EXCEPT !.bulk_edit = TRUE, !.bulk_modified = FALSE])
<1> DEFINE t == [s EXCEPT !.bulk_edit = TRUE, !.bulk_modified = FALSE]
           prev == GetQueuedSong(s)
<1>1. /\ DOMAIN s = PlFields /\ MayBe(s.queue) /\ Grows(q, s.queue)
      /\ s.current \in -1 .. (s.queue.length - 1)
      /\ s.playing => s.current >= 0
  BY GoodTypes
<1>2. Rest(s, t) /\ t.queue = s.queue /\ t.current = s.current
  BY <1>1 DEF Rest, PlFields
<1> HIDE DEF t
<1>3. prev = GetQueuedSong(t)
  BY <1>2 DEF Rest, GetQueuedSong, SongAt
<1>4. Pending(q, u, s, prev) /\ QueuedFollows(s)
  BY DEF Good
<1> HIDE DEF prev
<1>5. Pending(q, u, t, prev)
  BY <1>1, <1>2, <1>4, EditKeepsPending
<1>6. Good(q, u, t)
  BY <1>2, <1>3, <1>4, <1>5 DEF Good, QueuedFollows, Rest
<1> QED BY <1>6 DEF t

LEMMA EditOK ==
  ASSUME NEW u, Good(pl.queue, u, pl), Edit
  PROVE  Good(pl.queue, u, pl') /\ Idle /\ UNCHANGED <<player, event>>
<1> USE DEF Command, Handler
<1> DEFINE q == pl.queue
<1>1. /\ PlOK(pl) /\ q.length \in Nat /\ Positions(q) = 0 .. (q.length - 1)
      /\ Good(q, u, pl)
  BY GoodTypes
<1>2. ASSUME NEW r \in Ranges
      PROVE  /\ r[1] \in Positions(q) /\ r[2] \in Int /\ r[1] \in Int
             /\ r[1] < r[2] /\ r[2] <= q.length
  BY <1>1, <1>2 DEF Ranges
<1>3. CASE \E song \in Songs :
             /\ "add" \in Commands
             /\ ~IsFull(pl.queue) /\ pl.appended < MaxAppends
             /\ Handler(AppendSong(pl, song))
  <2>1. PICK song \in Songs : /\ "add" \in Commands /\ ~IsFull(pl.queue)
                              /\ Handler(AppendSong(pl, song))
    BY <1>3
  <2> QED BY <2>1, AppendSongOK
<1>4. CASE Command("add", {[pl EXCEPT !.bulk_edit = TRUE, !.bulk_modified = FALSE]})
  <2> DEFINE t == [pl EXCEPT !.bulk_edit = TRUE, !.bulk_modified = FALSE]
  <2>1. pl' = t /\ Idle /\ UNCHANGED <<player, event>>
    BY <1>4
  <2>2. Good(pl.queue, u, t)
    BY BulkGood
  <2> HIDE DEF t
  <2> QED BY <2>1, <2>2
<1>5. CASE pl.bulk_edit /\ Handler(CommitBulk(pl))
  BY <1>1, <1>5, CommitBulkOK
<1>6. CASE \E p1, p2 \in Positions(pl.queue) : Command("swap", Swap(pl, p1, p2))
  BY <1>1, <1>6, SwapOK
<1>7. CASE \E r \in Blocks, to \in -(pl.queue.length) .. (pl.queue.length - 1) :
             /\ MoveAccepted(pl, r[1], r[2], to)
             /\ MoveTo(pl, r[1], to) + r[2] - r[1] <= pl.queue.length
             /\ Command("move", Move(pl, r[1], r[2], MoveTo(pl, r[1], to)))
  <2>1. PICK r \in Blocks, to \in -(pl.queue.length) .. (pl.queue.length - 1) :
          /\ MoveTo(pl, r[1], to) + r[2] - r[1] <= pl.queue.length
          /\ Command("move", Move(pl, r[1], r[2], MoveTo(pl, r[1], to)))
    BY <1>7
  <2> DEFINE start == r[1]  end == r[2]  where == MoveTo(pl, start, to)
  <2>2. /\ start \in Positions(pl.queue) /\ end \in Int /\ start < end
        /\ end <= pl.queue.length /\ end - start <= MaxBlock
    BY <1>2, <2>1 DEF Blocks
  <2> HIDE DEF start, end
  <2>3. where \in Int /\ where >= 0
    BY <1>1, <2>2, MoveToOK
  <2>4. /\ where + end - start <= pl.queue.length
        /\ pl' \in Move(pl, start, end, where)
        /\ Idle /\ UNCHANGED <<player, event>>
    BY <2>1 DEF start, end
  <2> HIDE DEF where
  <2> QED BY <1>1, <2>2, <2>3, <2>4, MoveOK
<1>8. CASE \E r \in Ranges : Command("delete", DeleteRange(pl, r[1], r[2]))
  <2>1. PICK r \in Ranges : Command("delete", DeleteRange(pl, r[1], r[2]))
    BY <1>8
  <2> DEFINE start == r[1]  end == r[2]
  <2>2. /\ start \in Positions(pl.queue) /\ end \in Int /\ start < end
        /\ end <= pl.queue.length
    BY <1>2
  <2>3. pl' \in DeleteRange(pl, start, end) /\ Idle /\ UNCHANGED <<player, event>>
    BY <2>1
  <2> HIDE DEF start, end
  <2> QED BY <1>1, <2>2, <2>3, DeleteRangeOK
<1>9. CASE Command("clear", Clear(pl))
  BY <1>1, <1>9, ClearOK
<1>10. CASE \E r \in Ranges : /\ r[1] + 1 < r[2]
                              /\ Command("shuffle", Shuffle(pl, r[1], r[2]))
  <2>1. PICK r \in Ranges : r[1] + 1 < r[2] /\ Command("shuffle", Shuffle(pl, r[1], r[2]))
    BY <1>10
  <2> DEFINE start == r[1]  end == r[2]
  <2>2. /\ start \in Positions(pl.queue) /\ end \in Int /\ start + 1 < end
        /\ end <= pl.queue.length
    BY <1>2, <2>1
  <2>3. pl' \in Shuffle(pl, start, end) /\ Idle /\ UNCHANGED <<player, event>>
    BY <2>1
  <2> HIDE DEF start, end
  <2> QED BY <1>1, <2>2, <2>3, ShuffleOK
<1>11. CASE \E r \in Ranges, priority \in Priorities :
              Command("prio", SetPrio(pl, r[1], r[2], priority))
  <2>1. PICK r \in Ranges, priority \in Priorities :
          Command("prio", SetPrio(pl, r[1], r[2], priority))
    BY <1>11
  <2> DEFINE start == r[1]  end == r[2]
  <2>2. /\ start \in Positions(pl.queue) /\ end \in Int /\ start < end
        /\ end <= pl.queue.length
    BY <1>2
  <2>3. pl' \in SetPrio(pl, start, end, priority) /\ Idle /\ UNCHANGED <<player, event>>
    BY <2>1
  <2> HIDE DEF start, end
  <2> QED BY <1>1, <2>2, <2>3, SetPrioOK
<1> QED BY <1>3, <1>4, <1>5, <1>6, <1>7, <1>8, <1>9, <1>10, <1>11 DEF Edit

LEMMA NextCommandOK ==
  ASSUME NEW u, Good(pl.queue, u, pl), NextCommand
  PROVE  Good(pl.queue, u, pl') /\ Idle /\ UNCHANGED <<player, event>>
<1> DEFINE x == [pl EXCEPT !.queue.single = FALSE]  b == pl.queue.single  q == pl.queue
<1>1. /\ pl' \in {[s EXCEPT !.queue.single = b] : s \in PlayNext(x)}
      /\ Idle /\ UNCHANGED <<player, event>>
  BY DEF NextCommand, Command, Handler
<1>2. PICK s \in PlayNext(x) : pl' = [s EXCEPT !.queue.single = b]
  BY <1>1
<1>3. b \in BOOLEAN
  BY GoodTypes, QueueOptions
<1>4. Good(q, u, pl)
  OBVIOUS
<1> HIDE DEF b, q
<1>5. Good(q, u, x)
  BY <1>4, SingleGood
<1> HIDE DEF x
<1>6. Good(q, u, s)
  BY <1>5, PlayNextOK
<1>7. Good(q, u, pl')
  BY <1>2, <1>3, <1>6, SingleGood
<1> QED BY <1>1, <1>7 DEF q

LEMMA ControlOK ==
  ASSUME NEW u, Good(pl.queue, u, pl), Control
  PROVE  Good(pl.queue, u, pl') /\ Idle /\ UNCHANGED <<player, event>>
<1> DEFINE q == pl.queue
<1>1. Good(q, u, pl)
  OBVIOUS
<1>2. ASSUME NEW name, NEW states, Command(name, states)
      PROVE  /\ name \in Commands /\ pl' \in states
             /\ Idle /\ UNCHANGED <<player, event>>
  BY <1>2 DEF Command, Handler
<1>3. CASE Command("play", PlayAny(pl))
  BY <1>1, <1>2, <1>3, PlayAnyOK
<1>4. CASE \E p \in Positions(pl.queue) : Command("playpos", PlayPosition(pl, p))
  BY <1>1, <1>2, <1>4, PlayPositionOK
<1>5. CASE Command("stop", Stop(pl))
  <2>1. pl' \in Stop(pl) /\ Idle /\ UNCHANGED <<player, event>>
    BY <1>2, <1>5
  <2>2. CASE pl.playing
    <3>1. Loose(q, u, pl)
      BY PendingIsLoose DEF Good
    <3> HIDE DEF q
    <3>2. Good(q, u, pl')
      BY <2>1, <2>2, <3>1, StopOK
    <3> QED BY <2>1, <3>2 DEF q
  <2>3. CASE ~pl.playing
    BY <2>1, <2>3 DEF Stop
  <2> QED BY <2>2, <2>3
<1>6. CASE NextCommand
  BY <1>6, NextCommandOK
<1>7. CASE Command("previous", PlayPrevious(pl))
  BY <1>1, <1>2, <1>7, PlayPreviousOK
<1>8. CASE \E o \in Positions(pl.queue) : Command("seek", SeekSongOrder(pl, o))
  BY <1>1, <1>2, <1>8, SeekSongOrderOK
<1>9. CASE Command("pause", {Call(pl, "PAUSE", None)})
  BY <1>1, <1>2, <1>9, OtherCallGood
<1>10. CASE Command("clearerror", {Call(pl, "CLEAR_ERROR", None)})
  BY <1>1, <1>2, <1>10, OtherCallGood
<1>11. CASE Command("repeat", SetRepeat(pl))
  BY <1>1, <1>2, <1>11, SetRepeatOK
<1>12. CASE Command("single", SetSingle(pl))
  BY <1>1, <1>2, <1>12, SetSingleOK
<1>13. CASE Command("consume", SetConsume(pl))
  BY <1>1, <1>2, <1>13, SetConsumeOK
<1>14. CASE Command("random", SetRandom(pl))
  BY <1>1, <1>2, <1>14, SetRandomOK
<1> QED BY <1>3, <1>4, <1>5, <1>6, <1>7, <1>8, <1>9, <1>10, <1>11, <1>12, <1>13, <1>14 DEF Control

-----------------------------------------------------------------------------
(* Every step of the player.                                               *)

LEMMA PlayerTypes ==
  ASSUME PlayerOK
  PROVE  /\ DOMAIN player = {"state", "song", "next", "error", "border_pause"}
         /\ player.state \in {"STOP", "PLAY", "PAUSE"}
         /\ player.song \in SongIds /\ player.next \in SongIds
         /\ player.error \in {"NONE", "DECODER", "OUTPUT"}
         /\ player.border_pause \in BOOLEAN /\ None \in SongIds
  BY DEF PlayerOK, SongIds

LEMMA StoppedAgrees ==
  ASSUME PlayerOK, NEW v, NEW error \in {"NONE", "DECODER", "OUTPUT"},
         player' \in {Stopped, [Stopped EXCEPT !.error = error]}
  PROVE  PlayerOK' /\ Agrees(v)'
<1>1. /\ player' \in [state : {"STOP", "PLAY", "PAUSE"}, song : SongIds, next : SongIds,
                      error : {"NONE", "DECODER", "OUTPUT"}, border_pause : BOOLEAN]
      /\ player'.state = "STOP" /\ player'.next = None
  BY PlayerTypes DEF Stopped, PlayerOK
<1> QED BY <1>1 DEF PlayerOK, Agrees

LEMMA StartAgrees ==
  ASSUME PlayerOK, NEW id \in SongIds, StartSong(id), NEW v, v.cur # None,
         Exact => \/ v.next = None /\ v.cur = id
                  \/ v.next = id /\ id # None
  PROVE  PlayerOK' /\ Agrees(v)'
<1>1. CASE player' = [player EXCEPT !.state = "PLAY", !.song = id, !.next = None]
  <2>1. /\ player' \in [state : {"STOP", "PLAY", "PAUSE"}, song : SongIds, next : SongIds,
                        error : {"NONE", "DECODER", "OUTPUT"}, border_pause : BOOLEAN]
        /\ player'.state = "PLAY" /\ player'.next = None /\ player'.song = id
    BY <1>1, PlayerTypes DEF PlayerOK
  <2> QED BY <2>1 DEF PlayerOK, Agrees
<1>2. CASE player' = [player EXCEPT !.state = "STOP", !.song = None,
                                    !.next = None, !.error = "DECODER"]
  <2>1. /\ player' \in [state : {"STOP", "PLAY", "PAUSE"}, song : SongIds, next : SongIds,
                        error : {"NONE", "DECODER", "OUTPUT"}, border_pause : BOOLEAN]
        /\ player'.state = "STOP" /\ player'.next = None
    BY <1>2, PlayerTypes DEF PlayerOK
  <2> QED BY <2>1 DEF PlayerOK, Agrees
<1> QED BY <1>1, <1>2 DEF StartSong

\* A call changes what the player does as it changes the view.
LEMMA CallAgrees ==
  ASSUME PlayerOK, NEW u \in View, Agrees(u), NEW c \in Calls, Allowed(u, c),
         \A id : CanFail(id)' <=> CanFail(id),
         DoPlay(c) \/ DoEnqueue(c) \/ DoCancel(c) \/ DoStop(c) \/ DoSeek(c)
           \/ DoPause(c) \/ DoSet(c)
  PROVE  PlayerOK' /\ Agrees(Told(u, c))' /\ CallAssertion(c)
<1> DEFINE v == Told(u, c)
           Records == [state : {"STOP", "PLAY", "PAUSE"}, song : SongIds, next : SongIds,
                       error : {"NONE", "DECODER", "OUTPUT"}, border_pause : BOOLEAN]
<1>1. /\ c.song \in SongIds /\ player \in Records
      /\ player.next \in {u.next, None} /\ (player.state = "STOP" => player.next = None)
      /\ player.state # "STOP" => u.cur # None
  BY DEF Calls, Agrees, PlayerOK
<1>2. CallAssertion(c)
  BY <1>1 DEF CallAssertion, Allowed
<1>3. CASE DoPlay(c)
  <2>1. /\ StartSong(c.song) /\ v = [cur |-> Shown(c.song), next |-> None]
        /\ c.song # None
    BY <1>3 DEF DoPlay, Told, Allowed
  <2>2. v.cur # None /\ v.next = None /\ (Exact => v.cur = c.song)
    BY <1>1, <2>1, IdFacts DEF Shown
  <2> HIDE DEF v
  <2>3. PlayerOK' /\ Agrees(v)'
    BY <1>1, <2>1, <2>2, StartAgrees
  <2> QED BY <1>2, <2>3 DEF v
<1>4. CASE DoEnqueue(c)
  <2>1. /\ v = [cur |-> u.cur, next |-> c.song] /\ c.song # None
        /\ u.cur # None /\ u.next = None
    BY <1>4 DEF DoEnqueue, Told, Allowed
  <2>2. v.cur = u.cur /\ v.next = c.song /\ player.next = None
    BY <1>1, <2>1
  <2> HIDE DEF v
  <2>3. CASE player.state = "STOP"
    <3>1. StartSong(c.song)
      BY <1>4, <2>3 DEF DoEnqueue
    <3>2. PlayerOK' /\ Agrees(v)'
      BY <1>1, <2>1, <2>2, <3>1, StartAgrees
    <3> QED BY <1>2, <3>2 DEF v
  <2>4. CASE player.state # "STOP"
    <3>1. player' = [player EXCEPT !.next = c.song]
      BY <1>4, <2>4 DEF DoEnqueue
    <3>2. /\ player' \in Records /\ player'.state = player.state
          /\ player'.song = player.song /\ player'.next = c.song
      BY <1>1, <3>1
    <3>3. Agrees(v)'
      BY <2>1, <2>2, <2>4, <3>2 DEF Agrees
    <3> QED BY <1>2, <3>2, <3>3 DEF PlayerOK, v
  <2> QED BY <2>3, <2>4
<1>5. CASE DoCancel(c)
  <2>1. v = [cur |-> u.cur, next |-> None]
    BY <1>5 DEF DoCancel, Told
  <2>2. v.cur = u.cur /\ v.next = None
    BY <2>1
  <2> HIDE DEF v
  <2>3. CASE player.state # "STOP" /\ player.next = None
    <3>1. player' = Stopped
      BY <1>5, <2>3 DEF DoCancel
    <3>2. PlayerOK' /\ Agrees(v)'
      BY <3>1, StoppedAgrees
    <3> QED BY <1>2, <3>2 DEF v
  <2>4. CASE ~(player.state # "STOP" /\ player.next = None)
    <3>1. player' = [player EXCEPT !.next = None]
      BY <1>5, <2>4 DEF DoCancel
    <3>2. /\ player' \in Records /\ player'.state = player.state
          /\ player'.song = player.song /\ player'.next = None
      BY <1>1, <3>1, PlayerTypes
    <3>3. Agrees(v)'
      BY <1>1, <2>2, <2>4, <3>2 DEF Agrees
    <3> QED BY <1>2, <3>2, <3>3 DEF PlayerOK, v
  <2> QED BY <2>3, <2>4
<1>6. CASE DoStop(c)
  <2>1. player' = Stopped
    BY <1>6 DEF DoStop
  <2> HIDE DEF v
  <2>2. PlayerOK' /\ Agrees(v)'
    BY <2>1, StoppedAgrees
  <2> QED BY <1>2, <2>2 DEF v
<1>7. CASE DoSeek(c)
  <2>1. v = [cur |-> Shown(c.song), next |-> None] /\ c.song # None
    BY <1>7 DEF DoSeek, Told, Allowed
  <2>2. v.cur # None /\ v.next = None /\ (Exact => v.cur = c.song)
    BY <1>1, <2>1, IdFacts DEF Shown
  <2> HIDE DEF v
  <2>3. CASE StartSong(c.song)
    <3>1. PlayerOK' /\ Agrees(v)'
      BY <1>1, <2>1, <2>2, <2>3, StartAgrees
    <3> QED BY <1>2, <3>1 DEF v
  <2>4. CASE player.state # "STOP" /\ player' = [player EXCEPT !.song = c.song, !.next = None]
    <3>1. /\ player' \in Records /\ player'.state = player.state
          /\ player'.song = c.song /\ player'.next = None
      BY <1>1, <2>4, PlayerTypes
    <3>2. Agrees(v)'
      BY <2>2, <2>4, <3>1 DEF Agrees
    <3> QED BY <1>2, <3>1, <3>2 DEF PlayerOK, v
  <2>5. CASE /\ player.state # "STOP" /\ CanFail(c.song)
             /\ player' = [player EXCEPT !.next = None, !.error = "DECODER"]
    <3>1. /\ player' \in Records /\ player'.state = player.state /\ player'.next = None
      BY <1>1, <2>5, PlayerTypes
    <3>2. Exact => CanFail(v.cur)'
      BY <2>2, <2>5
    <3>3. Agrees(v)'
      BY <2>2, <2>5, <3>1, <3>2 DEF Agrees
    <3> QED BY <1>2, <3>1, <3>3 DEF PlayerOK, v
  <2>6. CASE player' = [Stopped EXCEPT !.error = "DECODER"]
    <3>1. PlayerOK' /\ Agrees(v)'
      BY <2>6, StoppedAgrees
    <3> QED BY <1>2, <3>1 DEF v
  <2> QED BY <1>7, <2>3, <2>4, <2>5, <2>6 DEF DoSeek
<1>8. CASE DoPause(c) \/ DoSet(c)
  <2>1. v = u
    BY <1>8 DEF DoPause, DoSet, Told
  <2>2. /\ player' \in Records /\ (player'.state = "STOP" <=> player.state = "STOP")
        /\ player'.song = player.song /\ player'.next = player.next
    <3>1. CASE DoPause(c)
      BY <1>1, <3>1 DEF DoPause, Resume
    <3>2. CASE DoSet(c)
      BY <1>1, <3>2 DEF DoSet
    <3> QED BY <1>8, <3>1, <3>2
  <2>3. Agrees(u)'
    BY <2>2 DEF Agrees
  <2> QED BY <1>2, <2>1, <2>2, <2>3 DEF PlayerOK
<1> QED BY <1>3, <1>4, <1>5, <1>6, <1>7, <1>8

\* What the player does by itself agrees with the same view.
LEMMA PlayerStepAgrees ==
  ASSUME PlayerOK, NEW u, Agrees(u), PlayerStep
  PROVE  PlayerOK' /\ Agrees(u)' /\ pl' = pl
<1> DEFINE Records == [state : {"STOP", "PLAY", "PAUSE"}, song : SongIds, next : SongIds,
                       error : {"NONE", "DECODER", "OUTPUT"}, border_pause : BOOLEAN]
<1>1. pl' = pl /\ player \in Records
  BY DEF PlayerStep, SongBorder, SongEnd, DecoderFailure, OutputFailure, PlayerOK
<1>2. \A id : CanFail(id)' <=> CanFail(id)
  BY <1>1 DEF CanFail, SongsOf, Positions
<1>3. CASE player' \in {Stopped, [Stopped EXCEPT !.error = "DECODER"]}
  <2>1. PlayerOK' /\ Agrees(u)'
    BY <1>3, StoppedAgrees
  <2> QED BY <1>1, <2>1
<1>4. CASE /\ player.state = "PLAY" /\ player.next # None
           /\ player' = [player EXCEPT !.song = player.next, !.next = None,
                           !.state = IF player.border_pause THEN "PAUSE" ELSE @]
  <2>1. /\ player' \in Records /\ player'.state \in {"PLAY", "PAUSE"}
        /\ player'.song = player.next /\ player'.next = None
    BY <1>1, <1>4, PlayerTypes
  <2>2. Agrees(u)'
    BY <1>4, <2>1 DEF Agrees
  <2> QED BY <1>1, <2>1, <2>2 DEF PlayerOK
<1>5. CASE /\ player.state = "PLAY"
           /\ player' = [player EXCEPT !.state = "PAUSE", !.error = "OUTPUT"]
  <2>1. /\ player' \in Records /\ player'.state = "PAUSE"
        /\ player'.song = player.song /\ player'.next = player.next
    BY <1>1, <1>5
  <2>2. Agrees(u)'
    BY <1>2, <1>5, <2>1 DEF Agrees
  <2> QED BY <1>1, <2>1, <2>2 DEF PlayerOK
<1> QED BY <1>3, <1>4, <1>5
        DEF PlayerStep, SongBorder, SongEnd, DecoderFailure, OutputFailure

\* A call that is made leaves the rest of the calls to be made.
LEMMA CallMade ==
  ASSUME NEW u, Good(pl.queue, u, pl), pl.calls # <<>>, NEW c, c = Head(pl.calls),
         pl' = Assert([pl EXCEPT !.calls = Tail(@)], TRUE)
  PROVE  Good(pl'.queue, Told(u, c), pl') /\ c \in Calls /\ Allowed(u, c) /\ u \in View
<1> DEFINE prev == GetQueuedSong(pl)
<1>1. PlOK(pl) /\ DOMAIN pl = PlFields /\ pl.calls \in Seq(Calls) /\ pl.ok = TRUE
  BY GoodTypes DEF PlOK
<1>2. Pending(pl.queue, u, pl, prev) /\ QueuedFollows(pl)
  BY DEF Good
<1>3. /\ pl'.queue = pl.queue /\ pl'.playing = pl.playing /\ pl'.current = pl.current
      /\ pl'.queued = pl.queued /\ pl'.error_count = pl.error_count
      /\ pl'.bulk_edit = pl.bulk_edit /\ pl'.calls = Tail(pl.calls) /\ pl'.ok = TRUE
      /\ DOMAIN pl' = PlFields
  BY <1>1 DEF Assert, PlFields
<1>4. prev = GetQueuedSong(pl')
  BY <1>3 DEF GetQueuedSong, SongAt
<1> HIDE DEF prev
<1> DEFINE v == ViewOf(pl, prev)  calls == pl.calls
<1>5. Leads(u, calls, v)
  BY <1>2 DEF Pending
<1>6. v = ViewOf(pl', prev)
  BY <1>3 DEF ViewOf, Cur, SongAt
<1>7. calls \in Seq(Calls) /\ calls # <<>>
  BY <1>1
<1> HIDE DEF v, calls
<1>8. /\ Head(calls) \in Calls /\ Tail(calls) \in Seq(Calls)
      /\ Allowed(u, Head(calls)) /\ Leads(Told(u, Head(calls)), Tail(calls), v)
  BY <1>5, <1>7, LeadsFirst
<1>9. u \in View
  BY <1>5, <1>7, LeadsToView
<1>10. PlOK(pl')
  BY <1>1, <1>3, <1>8 DEF PlOK, calls
<1>11. Pending(pl'.queue, Told(u, c), pl', prev)
  <2>1. Leads(Told(u, c), pl'.calls, ViewOf(pl', prev))
    BY <1>3, <1>6, <1>8 DEF calls
  <2>2. Grows(pl'.queue, pl'.queue)
    BY GrowsRefl
  <2> QED BY <1>2, <1>3, <1>10, <2>1, <2>2 DEF Pending
<1>12. Good(pl'.queue, Told(u, c), pl')
  BY <1>2, <1>3, <1>4, <1>11 DEF Good, QueuedFollows
<1> QED BY <1>8, <1>9, <1>12 DEF calls

-----------------------------------------------------------------------------
(* The theorems.                                                           *)

\* The recursion in QueueOf
QueueLoop(songs, m, f) ==
  f = [n \in 0 .. m |-> IF n = 0 THEN EmptyQueue ELSE AppendItem(f[n - 1], songs[n], 0)]

LEMMA QueueLoopExists ==
  ASSUME NEW songs, NEW m \in Nat
  PROVE  \E f : QueueLoop(songs, m, f)
<1> DEFINE Has(k) == \E f : QueueLoop(songs, k, f)
           bad == {k \in Nat : ~Has(k)}
<1> SUFFICES ASSUME bad # {} PROVE FALSE
  OBVIOUS
<1>1. PICK k \in bad : \A j \in bad : k <= j
  BY LeastNatural
<1>2. CASE k = 0
  <2> DEFINE g == [n \in 0 .. 0 |-> EmptyQueue]
  <2>1. QueueLoop(songs, 0, g)
    <3>1. 0 .. 0 = {0}
      OBVIOUS
    <3> QED BY <3>1 DEF QueueLoop
  <2> QED BY <1>2, <2>1
<1>3. CASE k # 0
  <2>1. k \in Nat /\ k > 0 /\ k - 1 \in Nat /\ k - 1 \notin bad
    BY <1>1, <1>3
  <2>2. PICK f : QueueLoop(songs, k - 1, f)
    BY <2>1
  <2>3. f = [n \in 0 .. (k - 1) |-> IF n = 0 THEN EmptyQueue
                                    ELSE AppendItem(f[n - 1], songs[n], 0)]
    BY <2>2 DEF QueueLoop
  <2> DEFINE g == [n \in 0 .. k |-> IF n = k THEN AppendItem(f[k - 1], songs[k], 0) ELSE f[n]]
  <2>4. ASSUME NEW n \in 0 .. k
        PROVE  g[n] = IF n = 0 THEN EmptyQueue ELSE AppendItem(g[n - 1], songs[n], 0)
    <3>1. CASE n = k
      <4>1. n # 0 /\ n - 1 \in 0 .. k /\ n - 1 # k
        BY <2>1, <3>1
      <4> QED BY <3>1, <4>1
    <3>2. CASE n # k
      <4>1. n \in 0 .. (k - 1) /\ g[n] = f[n]
        BY <2>1, <3>2
      <4>2. n # 0 => n - 1 \in 0 .. k /\ n - 1 # k /\ g[n - 1] = f[n - 1]
        BY <2>1, <4>1
      <4>3. f[n] = IF n = 0 THEN EmptyQueue ELSE AppendItem(f[n - 1], songs[n], 0)
        BY <2>3, <4>1
      <4> QED BY <4>1, <4>2, <4>3
    <3> QED BY <3>1, <3>2
  <2>5. QueueLoop(songs, k, g)
    <3>1. g = [n \in 0 .. k |-> g[n]]
      OBVIOUS
    <3>2. g = [n \in 0 .. k |-> IF n = 0 THEN EmptyQueue
                                ELSE AppendItem(g[n - 1], songs[n], 0)]
      <4> HIDE DEF g
      <4> QED BY <2>4, <3>1
    <3> HIDE DEF g
    <3> QED BY <3>2 DEF QueueLoop
  <2> QED BY <2>1, <2>5
<1> QED BY <1>2, <1>3

\* The queue is restored by appending one song after the other.
LEMMA QueueOfOK ==
  LET r == QueueOf(Loaded)
  IN  QueueOK(r) /\ ~r.random /\ ~r.repeat /\ r.length = Len(Loaded)
<1> DEFINE m == Len(Loaded)
<1>1. /\ m \in Nat /\ m <= MaxLength /\ MaxLength \in Nat
      /\ \A n \in 1 .. m : Loaded[n] \in Songs
  BY PlaylistAssumption, QueueAssumption
<1>2. \E f : QueueLoop(Loaded, m, f)
  <2> HIDE DEF m
  <2> QED BY <1>1, QueueLoopExists
<1>3. PICK f : QueueLoop(Loaded, m, f) /\ QueueOf(Loaded) = f[m]
  BY <1>2 DEF QueueOf, QueueLoop
<1> HIDE DEF m
<1> DEFINE Fine(n) == /\ QueueOK(f[n]) /\ ~f[n].random /\ ~f[n].repeat
                      /\ f[n].length = n
           bad == {n \in 0 .. m : ~Fine(n)}
<1>4. bad = {}
  <2> SUFFICES ASSUME bad # {} PROVE FALSE
    OBVIOUS
  <2>1. bad \subseteq Nat
    BY <1>1
  <2>2. PICK n \in bad : \A j \in bad : n <= j
    BY <2>1, LeastNatural
  <2>3. n \in 0 .. m /\ n \in Nat
    BY <1>1, <2>2
  <2>4. CASE n = 0
    <3>1. f[n] = EmptyQueue
      BY <1>3, <2>3, <2>4 DEF QueueLoop
    <3>2. ~EmptyQueue.random /\ ~EmptyQueue.repeat /\ EmptyQueue.length = 0
      BY DEF EmptyQueue
    <3> QED BY <2>2, <2>4, <3>1, <3>2, EmptyQueueOK
  <2>5. CASE n # 0
    <3>1. n - 1 \in 0 .. m /\ n - 1 \notin bad /\ n \in 1 .. m
      BY <1>1, <2>2, <2>3, <2>5
    <3> DEFINE r == f[n - 1]  song == Loaded[n]
    <3>2. Fine(n - 1)
      BY <3>1
    <3>3. QueueOK(r) /\ ~r.random /\ ~r.repeat /\ r.length = n - 1 /\ song \in Songs
      BY <1>1, <3>1, <3>2
    <3>4. f[n] = AppendItem(r, song, 0)
      BY <1>3, <2>3, <2>5 DEF QueueLoop
    <3> HIDE DEF r, song
    <3>5. ~IsFull(r)
      BY <1>1, <2>3, <3>1, <3>3 DEF IsFull
    <3> DEFINE x == AppendItem(r, song, 0)
    <3>6. QueueOK(x) /\ SameOptions(r, x) /\ x.length = r.length + 1
      <4>1. 0 \in Priorities
        BY QueueAssumption
      <4> QED BY <3>3, <3>5, <4>1, AppendItemKeeps
    <3> HIDE DEF x
    <3>7. f[n] = x
      BY <3>4 DEF x
    <3>8. Fine(n)
      BY <2>3, <3>3, <3>6, <3>7 DEF SameOptions
    <3> QED BY <2>2, <3>8
  <2> QED BY <2>4, <2>5
<1>5. m \in 0 .. m
  BY <1>1
<1>6. Fine(m)
  BY <1>4, <1>5
<1> QED BY <1>3, <1>6 DEF m

LEMMA InitInv == ASSUME Init PROVE PlInv
<1> DEFINE v == [cur |-> None, next |-> None]
<1>1. /\ QueueOK(pl.queue) /\ ~pl.queue.random /\ ~pl.queue.repeat
      /\ ~pl.playing /\ pl.current = -1 /\ pl.queued = -1 /\ pl.error_count = 0
      /\ pl.bulk_edit = FALSE /\ pl.calls = <<>> /\ pl.ok = TRUE
      /\ DOMAIN pl = PlFields
  BY QueueOfOK DEF Init, PlFields
<1>2. pl.playing = FALSE
  BY DEF Init
<1>3. PlOK(pl)
  <2>1. /\ pl.current \in -1 .. (pl.queue.length - 1)
        /\ pl.queued \in -1 .. (MaxLength - 1) /\ pl.error_count \in 0 .. MaxLength
    BY <1>1, QueueTypes
  <2>2. pl.calls \in Seq(Calls)
    BY <1>1
  <2> QED BY <1>1, <1>2, <2>1, <2>2 DEF PlOK
<1>4. ViewOf(pl, None) = v /\ GetQueuedSong(pl) = None
  BY <1>1 DEF ViewOf, Cur, Shown, GetQueuedSong
<1>5. Leads(v, pl.calls, v)
  <2>1. v \in View
    BY DEF View, SongIds
  <2> HIDE DEF v
  <2> QED BY <1>1, <2>1, LeadsNothing
<1>6. Good(pl.queue, v, pl)
  <2>1. Grows(pl.queue, pl.queue) /\ None \in SongIds
    BY GrowsRefl DEF SongIds
  <2> HIDE DEF v
  <2> QED BY <1>1, <1>3, <1>4, <1>5, <2>1 DEF Good, Pending, QueuedFollows
<1>7. PlayerOK /\ Agrees(v)
  BY DEF Init, PlayerOK, Agrees, SongIds
<1> HIDE DEF v
<1> QED BY <1>6, <1>7 DEF PlInv

\* A handler of a client command or of the event, that begins when all calls
\* of the last one are made
LEMMA HandlerInv ==
  ASSUME NEW u, Good(pl.queue, u, pl), Agrees(u), InQueue(u), PlayerOK,
         Good(pl.queue, u, pl'), player' = player
  PROVE  PlInv'
<1>1. QueueOK(pl.queue) /\ Grows(pl.queue, pl'.queue)
  BY GoodTypes
<1>2. Agrees(u)'
  BY <1>1, AgreesKept
<1>3. Good(pl'.queue, u, pl')
  BY Rebase
<1>4. PlayerOK'
  BY DEF PlayerOK
<1> QED BY <1>2, <1>3, <1>4 DEF PlInv

LEMMA IdleView ==
  ASSUME NEW u, Good(pl.queue, u, pl), Idle
  PROVE  u = ViewOf(pl, GetQueuedSong(pl)) /\ InQueue(u)
<1>1. u = ViewOf(pl, GetQueuedSong(pl)) /\ PlOK(pl)
  BY LeadsNowhere DEF Good, Pending, Idle
<1> QED BY <1>1, ViewInQueue

LEMMA NextInv == ASSUME PlInv, [Next]_vars PROVE PlInv'
<1>1. PICK u : Good(pl.queue, u, pl) /\ Agrees(u)
  BY DEF PlInv
<1>2. PlayerOK
  BY DEF PlInv
<1>3. CASE Edit
  <2>1. Good(pl.queue, u, pl') /\ Idle /\ player' = player
    BY <1>1, <1>3, EditOK
  <2>2. InQueue(u)
    BY <1>1, <2>1, IdleView
  <2> QED BY <1>1, <1>2, <2>1, <2>2, HandlerInv
<1>4. CASE Control
  <2>1. Good(pl.queue, u, pl') /\ Idle /\ player' = player
    BY <1>1, <1>4, ControlOK
  <2>2. InQueue(u)
    BY <1>1, <2>1, IdleView
  <2> QED BY <1>1, <1>2, <2>1, <2>2, HandlerInv
<1>5. CASE Sync
  <2>1. pl' \in SyncWithPlayer(pl) /\ Idle /\ player' = player /\ pl.calls = <<>>
    BY <1>5 DEF Sync, Idle
  <2>2. PICK w : Good(pl.queue, w, pl') /\ Agrees(w) /\ InQueue(w)
    BY <1>1, <1>2, <2>1, SyncOK
  <2>3. QueueOK(pl.queue) /\ Grows(pl.queue, pl'.queue)
    BY <1>1, <2>2, GoodTypes
  <2>4. Agrees(w)'
    BY <2>1, <2>2, <2>3, AgreesKept
  <2>5. Good(pl'.queue, w, pl')
    BY <2>2, Rebase
  <2>6. PlayerOK'
    BY <1>2, <2>1 DEF PlayerOK
  <2> QED BY <2>4, <2>5, <2>6 DEF PlInv
<1>6. CASE PlayerCall
  <2>1. PICK c : c = Head(pl.calls)
    OBVIOUS
  <2>2. /\ pl.calls # <<>>
        /\ pl' = Assert([pl EXCEPT !.calls = Tail(@)], CallAssertion(c))
        /\ DoPlay(c) \/ DoEnqueue(c) \/ DoCancel(c) \/ DoStop(c) \/ DoSeek(c)
             \/ DoPause(c) \/ DoSet(c)
    BY <1>6, <2>1 DEF PlayerCall
  <2>3. c \in Calls /\ Allowed(u, c) /\ u \in View
    <3> DEFINE calls == pl.calls  v == ViewOf(pl, GetQueuedSong(pl))
    <3>1. calls \in Seq(Calls) /\ calls # <<>> /\ Leads(u, calls, v)
      BY <1>1, <2>2 DEF Good, Pending, PlOK
    <3>2. c = Head(calls)
      BY <2>1
    <3> HIDE DEF calls, v
    <3> QED BY <3>1, <3>2, LeadsFirst, LeadsToView
  <2>4. \A id : CanFail(id)' <=> CanFail(id)
    <3>1. DOMAIN pl = PlFields
      BY <1>1, GoodTypes
    <3>2. pl'.queue = pl.queue
      BY <2>2, <3>1 DEF Assert, PlFields
    <3> QED BY <3>2 DEF CanFail, SongsOf, Positions
  <2>5. PlayerOK' /\ Agrees(Told(u, c))' /\ CallAssertion(c)
    BY <1>1, <1>2, <2>2, <2>3, <2>4, CallAgrees
  <2>6. pl' = Assert([pl EXCEPT !.calls = Tail(@)], TRUE)
    BY <2>2, <2>5 DEF Assert
  <2>7. Good(pl'.queue, Told(u, c), pl')
    BY <1>1, <2>1, <2>2, <2>6, CallMade
  <2> QED BY <2>5, <2>7 DEF PlInv
<1>7. CASE PlayerStep
  <2>1. PlayerOK' /\ Agrees(u)' /\ pl' = pl
    BY <1>1, <1>2, <1>7, PlayerStepAgrees
  <2> QED BY <1>1, <2>1 DEF PlInv
<1>8. CASE UNCHANGED vars
  BY <1>8 DEF vars, PlInv, PlayerOK, Agrees, CanFail, SongsOf, Positions
<1> QED BY <1>3, <1>4, <1>5, <1>6, <1>7, <1>8 DEF Next

LEMMA PlaylistInvariant == Spec => []PlInv
<1> QED BY InitInv, NextInv, PTL DEF Spec

(* The queue that the playlist edits keeps its shape, playing means that there
   is a current song, and the queued one is in the queue (Playlist.cxx,
   PlaylistEdit.cxx, PlaylistControl.cxx). *)
THEOREM PlaylistTypeCorrect == Spec => []PlaylistTypeOK
<1>1. ASSUME PlInv PROVE PlaylistTypeOK
  <2>1. PICK u : Good(pl.queue, u, pl)
    BY <1>1 DEF PlInv
  <2>2. /\ PlOK(pl) /\ QueueOK(pl.queue) /\ pl.queue.length \in Nat
        /\ Positions(pl.queue) = 0 .. (pl.queue.length - 1)
        /\ pl.current \in Int /\ pl.queued \in Int
        /\ pl.playing => pl.current >= 0
        /\ pl.playing /\ pl.queued >= 0 => pl.queued \in Positions(pl.queue)
        /\ pl.current \in -1 .. (pl.queue.length - 1)
    BY <2>1, GoodTypes
  <2>3. pl.playing => pl.queued < pl.queue.length
    BY <2>2
  <2> QED BY <2>2, <2>3 DEF PlaylistTypeOK, PlOK
<1> QED BY <1>1, PlaylistInvariant, PTL

(* No assertion fails: those of UpdateQueuedSongLocked, Stop and PlayNext, and
   those of EnqueueSongLocked and Play, that the player holds no next song. *)
THEOREM PlaylistAssertionsHold == Spec => []AssertionsHold
<1>1. ASSUME PlInv PROVE AssertionsHold
  <2>1. PICK u : Good(pl.queue, u, pl)
    BY <1>1 DEF PlInv
  <2> QED BY <2>1 DEF Good, Pending, PlOK, AssertionsHold
<1> QED BY <1>1, PlaylistInvariant, PTL

(* What the player plays is the current song of the playlist or the queued one,
   unless a failed seek has left another (SyncWithPlayer, PlayerControl.cxx). *)
THEOREM CurrentOrQueuedPlays ==
  ASSUME Exact
  PROVE  Spec => []PlaysCurrentOrQueued
<1>1. ASSUME PlInv PROVE PlaysCurrentOrQueued
  <2> SUFFICES ASSUME pl.calls = <<>>, player.state # "STOP"
               PROVE  \/ player.song \in {CurrentSong, GetQueuedSong(pl)} \ {None}
                      \/ CurrentSong # None /\ CanFail(CurrentSong)
    BY DEF PlaysCurrentOrQueued
  <2>1. PICK u : Good(pl.queue, u, pl) /\ Agrees(u)
    BY <1>1 DEF PlInv
  <2>2. u = ViewOf(pl, GetQueuedSong(pl))
    BY <2>1, LeadsNowhere DEF Good, Pending
  <2>3. u.cur = CurrentSong /\ u.next = GetQueuedSong(pl)
    BY <2>2 DEF ViewOf, Shown, Cur, CurrentSong
  <2> QED BY <2>1, <2>3 DEF Agrees
<1> QED BY <1>1, PlaylistInvariant, PTL

(* An edit, a seek in the queue's order or a new option leaves the current song
   current, unless the handler asks the player for another one. *)
THEOREM CurrentSongIsKept ==
  ASSUME Exact
  PROVE  Spec => CurrentSongKept
<1>1. ASSUME PlInv, [Next]_vars, pl.playing, pl'.playing, ~AsksForSong',
             ~(event /\ ~event')
      PROVE  CurrentSong' = CurrentSong
  <2>1. PICK u : Good(pl.queue, u, pl) /\ Agrees(u)
    BY <1>1 DEF PlInv
  <2>2. CASE Edit \/ Control
    <3>1. Good(pl.queue, u, pl') /\ Idle
      BY <2>1, <2>2, EditOK, ControlOK
    <3>2. u = ViewOf(pl, GetQueuedSong(pl))
      BY <2>1, <3>1, IdleView
    <3> DEFINE calls == pl'.calls  v == ViewOf(pl', GetQueuedSong(pl'))
    <3>3. PlOK(pl') /\ calls \in Seq(Calls) /\ Leads(u, calls, v)
      BY <3>1 DEF Good, Pending, PlOK
    <3>4. \A i \in DOMAIN calls : calls[i].cmd \notin {"PLAY", "SEEK"}
      BY <1>1 DEF AsksForSong
    <3>5. v.cur = Cur(pl') /\ u.cur = Cur(pl)
      BY <3>2 DEF ViewOf, Shown
    <3>6. v.cur # None
      BY <1>1, <3>3, <3>5, PlTypes
    <3> HIDE DEF calls, v
    <3>7. v.cur = u.cur
      BY <3>3, <3>4, <3>6, LeadsToSame
    <3> QED BY <3>5, <3>7 DEF CurrentSong, Cur
  <2>3. CASE Sync
    BY <1>1, <2>3 DEF Sync
  <2>4. CASE PlayerCall
    <3>1. DOMAIN pl = PlFields
      BY <2>1, GoodTypes
    <3>2. pl'.queue = pl.queue /\ pl'.playing = pl.playing /\ pl'.current = pl.current
      BY <2>4, <3>1 DEF PlayerCall, Assert, PlFields
    <3> QED BY <3>2 DEF CurrentSong, SongAt, OrderItem
  <2>5. CASE PlayerStep \/ UNCHANGED vars
    <3>1. pl' = pl
      BY <2>5 DEF PlayerStep, SongBorder, SongEnd, DecoderFailure, OutputFailure, vars
    <3> QED BY <3>1 DEF CurrentSong, SongAt, OrderItem
  <2> QED BY <1>1, <2>2, <2>3, <2>4, <2>5 DEF Next
<1>2. ASSUME PlInv, [Next]_vars
      PROVE  [pl.playing /\ pl'.playing /\ ~AsksForSong' /\ ~(event /\ ~event')
                => CurrentSong' = CurrentSong]_vars
  BY <1>1, <1>2
<1> QED BY <1>2, PlaylistInvariant, PTL DEF Spec, CurrentSongKept

-----------------------------------------------------------------------------
(* What a handler does to the songs of the queue, and whether the version  *)
(* says so: the state file is written for the version.                     *)

Shape(s) == DOMAIN s = PlFields /\ DOMAIN s.queue = QueueFields

\* A bulk edit that has changed the queue and has not told so
Untold(s) == s.bulk_edit /\ s.bulk_modified

SameSongs(s, t) ==
  /\ Shape(t)
  /\ t.queue.items = s.queue.items /\ t.queue.length = s.queue.length
  /\ t.queue.version = s.queue.version
  /\ t.bulk_edit = s.bulk_edit /\ t.bulk_modified = s.bulk_modified

\* Of the queue, at most the order.
SameButQueueOrder(s, t) ==
  SameSongs(s, t) /\ Options(t.queue) = Options(s.queue)

\* The queue may have been edited, and nobody has been told yet.
SameVersion(s, t) == Shape(t) /\ t.queue.version = s.queue.version

\* If there are other songs then there is another version, or will be.
Noticed(s, t) ==
  \/ /\ t.queue.items = s.queue.items /\ t.queue.length = s.queue.length
     /\ Untold(s) => Untold(t)
  \/ t.queue.version # s.queue.version
  \/ Untold(t)

LEMMA SameTrans ==
  ASSUME NEW r, NEW s, NEW t, SameButQueueOrder(r, s), SameButQueueOrder(s, t)
  PROVE  SameButQueueOrder(r, t)
BY DEF SameButQueueOrder, SameSongs

LEMMA SameIsNoticed ==
  ASSUME NEW s, NEW t, SameSongs(s, t)
  PROVE  Noticed(s, t)
BY DEF SameSongs, Noticed, Untold

LEMMA CallSame ==
  ASSUME NEW s, Shape(s), NEW cmd, NEW song
  PROVE  SameButQueueOrder(s, Call(s, cmd, song))
BY DEF Call, Shape, PlFields, SameButQueueOrder, SameSongs

\* Another queue with the same songs
LEMMA QueueSame ==
  ASSUME NEW s, Shape(s), NEW t, DOMAIN t = PlFields,
         t.bulk_edit = s.bulk_edit, t.bulk_modified = s.bulk_modified,
         SameButOrder(s.queue, t.queue)
  PROVE  SameButQueueOrder(s, t)
BY DEF Shape, SameButQueueOrder, SameSongs, SameButOrder, Options

\* The fields that only the playlist looks at
LEMMA FieldsSame ==
  ASSUME NEW s, Shape(s), NEW t, DOMAIN t = PlFields, t.queue = s.queue,
         t.bulk_edit = s.bulk_edit, t.bulk_modified = s.bulk_modified
  PROVE  SameButQueueOrder(s, t)
BY DEF Shape, SameButQueueOrder, SameSongs

\* An assignment to order alone
LEMMA OrderSame ==
  ASSUME NEW r, DOMAIN r = QueueFields, NEW f
  PROVE  SameButOrder(r, [r EXCEPT !.order = f])
BY DEF SameButOrder, QueueFields

LEMMA SwapOrdersSame ==
  ASSUME NEW r, DOMAIN r = QueueFields, NEW i, NEW k
  PROVE  SameButOrder(r, SwapOrders(r, i, k))
<1> DEFINE f == [o \in Positions(r) |->
                   IF o = i THEN r.order[k]
                   ELSE IF o = k THEN r.order[i] ELSE r.order[o]]
<1>1. SwapOrders(r, i, k) = [r EXCEPT !.order = f]
  BY DEF SwapOrders
<1> HIDE DEF f
<1> QED BY <1>1, OrderSame

LEMMA ShuffleOrderSame ==
  ASSUME NEW r, DOMAIN r = QueueFields, NEW x \in ShuffleOrder(r)
  PROVE  SameButOrder(r, x)
<1>1. PICK f : x = [r EXCEPT !.order = f]
  BY DEF ShuffleOrder, ShuffleOrderRangeWithPriority
<1> QED BY <1>1, OrderSame

LEMMA ReshuffledSame ==
  ASSUME NEW s, Shape(s), NEW t \in Reshuffled(s)
  PROVE  SameButQueueOrder(s, t)
<1>1. PICK x \in ShuffleOrder(s.queue) :
        t = [s EXCEPT !.queue = x, !.current = FollowCurrent(s, x)]
  BY DEF Reshuffled
<1>2. DOMAIN t = PlFields /\ t.queue = x /\ t.bulk_edit = s.bulk_edit
      /\ t.bulk_modified = s.bulk_modified
  BY <1>1 DEF Shape, PlFields
<1>3. SameButOrder(s.queue, x)
  BY ShuffleOrderSame DEF Shape
<1> QED BY <1>2, <1>3, QueueSame

LEMMA RequeueSame ==
  ASSUME NEW s, Shape(s), NEW prev, NEW next_order
  PROVE  SameButQueueOrder(s, Requeue(s, prev, next_order))
<1> DEFINE next == IF next_order >= 0 THEN SongAt(s, next_order) ELSE None
           r == [s EXCEPT !.queued = -1]
           x == Call(r, "CANCEL", None)
           t == IF prev # None /\ next # prev THEN x ELSE s
           y == [t EXCEPT !.queued = next_order]
           z == Call(y, "ENQUEUE", SongAt(t, next_order))
<1>1. SameButQueueOrder(s, s) /\ SameButQueueOrder(s, r) /\ Shape(r)
  BY FieldsSame DEF Shape, PlFields
<1> HIDE DEF r
<1>2. SameButQueueOrder(s, x)
  BY <1>1, CallSame, SameTrans
<1> HIDE DEF x
<1>3. SameButQueueOrder(s, t) /\ Shape(t)
  BY <1>1, <1>2 DEF SameButQueueOrder, SameSongs
<1> HIDE DEF next
<1>4. Requeue(s, prev, next_order) \in {t, y, z}
  BY DEF Requeue, QueueSongOrder, r, x, next
<1> HIDE DEF t
<1>5. SameButQueueOrder(t, y) /\ Shape(y)
  BY <1>3, FieldsSame DEF Shape, PlFields
<1> HIDE DEF y
<1>6. SameButQueueOrder(y, z)
  BY <1>5, CallSame
<1> HIDE DEF z
<1> QED BY <1>3, <1>4, <1>5, <1>6, SameTrans

LEMMA UpdateSame ==
  ASSUME NEW s, Shape(s), NEW prev, NEW t \in UpdateQueuedSong(s, prev)
  PROVE  SameButQueueOrder(s, t)
<1>1. SameButQueueOrder(s, s)
  BY FieldsSame DEF Shape
<1>2. ASSUME NEW c
      PROVE  SameButQueueOrder(s, Assert(s, c))
  <2> DEFINE x == Assert(s, c)
  <2>1. DOMAIN x = PlFields /\ x.queue = s.queue /\ x.bulk_edit = s.bulk_edit
        /\ x.bulk_modified = s.bulk_modified
    BY DEF Assert, Shape, PlFields
  <2> HIDE DEF x
  <2>2. SameButQueueOrder(s, x)
    BY <2>1, FieldsSame
  <2> QED BY <2>2 DEF x
<1>3. \/ t = s
      \/ \E c : t = Assert(s, c)
      \/ \E n : \E u \in Reshuffled(s) \cup {s} : t = Requeue(u, prev, n)
  BY DEF UpdateQueuedSong
<1>4. ASSUME NEW u \in Reshuffled(s) \cup {s}, NEW n
      PROVE  SameButQueueOrder(s, Requeue(u, prev, n))
  <2>1. SameButQueueOrder(s, u) /\ Shape(u)
    BY <1>1, ReshuffledSame DEF SameButQueueOrder, SameSongs
  <2>2. SameButQueueOrder(u, Requeue(u, prev, n))
    BY <2>1, RequeueSame
  <2> QED BY <2>1, <2>2, SameTrans
<1> QED BY <1>1, <1>2, <1>3, <1>4

LEMMA PlayOrderSame ==
  ASSUME NEW s, Shape(s), NEW o
  PROVE  /\ SameButQueueOrder(s, PlayOrder(s, o))
         /\ PlayOrder(s, o).playing = TRUE /\ PlayOrder(s, o).current = o
         /\ PlayOrder(s, o).queue = s.queue
<1> DEFINE r == [s EXCEPT !.playing = TRUE, !.queued = -1, !.current = o]
           t == Call(r, "PLAY", SongAt(s, o))
<1>1. /\ DOMAIN r = PlFields /\ r.queue = s.queue /\ r.bulk_edit = s.bulk_edit
      /\ r.bulk_modified = s.bulk_modified /\ r.playing = TRUE /\ r.current = o
  BY DEF Shape, PlFields
<1>2. PlayOrder(s, o) = t
  BY DEF PlayOrder
<1> HIDE DEF r
<1>3. SameButQueueOrder(s, r) /\ Shape(r)
  BY <1>1, FieldsSame DEF Shape
<1>4. SameButQueueOrder(r, t)
  BY <1>3, CallSame
<1>5. t.playing = r.playing /\ t.current = r.current /\ t.queue = r.queue
  BY <1>1 DEF Call, PlFields
<1> HIDE DEF t
<1> QED BY <1>1, <1>2, <1>3, <1>4, <1>5, SameTrans

LEMMA StopSame ==
  ASSUME NEW s, Shape(s), NEW t \in Stop(s)
  PROVE  SameButQueueOrder(s, t)
<1> DEFINE r == [s EXCEPT !.queued = -1, !.playing = FALSE]
           x == Call(r, "STOP", None)
           a == Assert(s, FALSE)
<1>1. SameButQueueOrder(s, s) /\ SameButQueueOrder(s, r) /\ Shape(r)
  <2>1. /\ DOMAIN r = PlFields /\ r.queue = s.queue /\ r.bulk_edit = s.bulk_edit
        /\ r.bulk_modified = s.bulk_modified
    BY DEF Shape, PlFields
  <2> HIDE DEF r
  <2>2. SameButQueueOrder(s, r) /\ Shape(r)
    BY <2>1, FieldsSame DEF Shape
  <2>3. SameButQueueOrder(s, s)
    BY FieldsSame DEF Shape
  <2> QED BY <2>2, <2>3
<1>2. SameButQueueOrder(s, a)
  <2>1. DOMAIN a = PlFields /\ a.queue = s.queue /\ a.bulk_edit = s.bulk_edit
        /\ a.bulk_modified = s.bulk_modified
    BY DEF Assert, Shape, PlFields
  <2> HIDE DEF a
  <2> QED BY <2>1, FieldsSame
<1>3. t \in {s, a, x} \/ t \in Reshuffled(x)
  BY DEF Stop
<1> HIDE DEF r, a
<1>4. SameButQueueOrder(s, x) /\ Shape(x)
  <2>1. SameButQueueOrder(r, x)
    BY <1>1, CallSame
  <2> HIDE DEF x
  <2> QED BY <1>1, <2>1, SameTrans DEF SameButQueueOrder, SameSongs
<1> HIDE DEF x
<1>5. ASSUME t \in Reshuffled(x)
      PROVE  SameButQueueOrder(s, t)
  BY <1>4, <1>5, ReshuffledSame, SameTrans
<1> QED BY <1>1, <1>2, <1>3, <1>4, <1>5

\* The error of the last song is forgotten.
LEMMA ClearedSame ==
  ASSUME NEW s, Shape(s), NEW error
  PROVE  LET t == [Call(s, "CLEAR_ERROR", None)
                     EXCEPT !.stop_on_error = error, !.error_count = 0]
         IN  SameButQueueOrder(s, t) /\ Shape(t) /\ t.queue = s.queue
             /\ t.playing = s.playing /\ t.current = s.current
<1> DEFINE c == Call(s, "CLEAR_ERROR", None)
           t == [c EXCEPT !.stop_on_error = error, !.error_count = 0]
<1>1. SameButQueueOrder(s, c)
  BY CallSame
<1>2. c.queue = s.queue /\ c.playing = s.playing /\ c.current = s.current
  BY DEF Call, Shape, PlFields
<1> HIDE DEF c
<1>3. Shape(c)
  BY <1>1 DEF SameButQueueOrder, SameSongs
<1>4. /\ DOMAIN t = PlFields /\ t.queue = c.queue /\ t.bulk_edit = c.bulk_edit
      /\ t.bulk_modified = c.bulk_modified
      /\ t.playing = c.playing /\ t.current = c.current
  BY <1>3 DEF Shape, PlFields
<1> HIDE DEF t
<1>5. SameButQueueOrder(c, t) /\ Shape(t)
  BY <1>3, <1>4, FieldsSame DEF Shape
<1> QED BY <1>1, <1>2, <1>4, <1>5, SameTrans DEF t, c

\* Playing at a position makes it the current one.
LEMMA PlayPositionSame ==
  ASSUME NEW s, Shape(s), QueueOK(s.queue), NEW position \in Positions(s.queue),
         s.playing => s.current \in Positions(s.queue),
         NEW t \in PlayPosition(s, position)
  PROVE  /\ SameButQueueOrder(s, t) /\ t.playing = TRUE
         /\ t.current >= 0 /\ GetCurrentPosition(t) = position
<1> DEFINE x == [Call(s, "CLEAR_ERROR", None)
                   EXCEPT !.stop_on_error = FALSE, !.error_count = 0]
           i == PositionToOrder(s.queue, position)
           current == IF s.playing THEN s.current ELSE 0
           r == SwapOrders(x.queue, i, current)
           y == [x EXCEPT !.queue = r]
<1>1. SameButQueueOrder(s, x) /\ Shape(x) /\ x.queue = s.queue
  BY ClearedSame
<1>2. CASE s.queue.random
  <2>1. t = PlayOrder([x EXCEPT !.queue = SwapOrders(@, i, current)], current)
    BY <1>2 DEF PlayPosition
  <2>2. t = PlayOrder(y, current)
    BY <2>1
  <2>3. /\ current \in Positions(s.queue) /\ current >= 0 /\ i \in Positions(s.queue)
        /\ s.queue.order[i] = position
    <3>1. s.queue.length \in Nat /\ Positions(s.queue) = 0 .. (s.queue.length - 1)
      BY QueueTypes
    <3>2. 0 \in Positions(s.queue)
      BY <3>1
    <3>3. current \in Positions(s.queue)
      BY <3>2
    <3> QED BY <3>1, <3>3, PositionToOrderOK
  <2> HIDE DEF x, i, current
  <2>4. SameButOrder(x.queue, r)
    BY <1>1, SwapOrdersSame DEF Shape
  <2>5. r.order[current] = position
    <3>1. r.order = [o \in Positions(s.queue) |->
                       IF o = i THEN s.queue.order[current]
                       ELSE IF o = current THEN s.queue.order[i] ELSE s.queue.order[o]]
      BY <1>1 DEF SwapOrders, Shape, QueueFields
    <3> HIDE DEF r
    <3> QED BY <2>3, <3>1
  <2> HIDE DEF r
  <2>6. DOMAIN y = PlFields /\ y.queue = r /\ y.bulk_edit = x.bulk_edit
        /\ y.bulk_modified = x.bulk_modified
    BY <1>1 DEF Shape, PlFields
  <2> HIDE DEF y
  <2>7. SameButQueueOrder(x, y) /\ Shape(y)
    <3>1. SameButQueueOrder(x, y)
      BY <1>1, <2>4, <2>6, QueueSame
    <3> QED BY <3>1 DEF SameButQueueOrder, SameSongs
  <2>8. /\ SameButQueueOrder(y, t) /\ t.playing = TRUE /\ t.current = current
        /\ t.queue = y.queue
    BY <2>2, <2>7, PlayOrderSame
  <2>9. GetCurrentPosition(t) = position
    BY <2>3, <2>5, <2>6, <2>8 DEF GetCurrentPosition
  <2> QED BY <1>1, <2>3, <2>7, <2>8, <2>9, SameTrans
<1>3. CASE ~s.queue.random
  <2>1. t = PlayOrder(x, position)
    BY <1>3 DEF PlayPosition
  <2> HIDE DEF x
  <2>2. /\ SameButQueueOrder(x, t) /\ t.playing = TRUE /\ t.current = position
        /\ t.queue = x.queue
    BY <1>1, <2>1, PlayOrderSame
  <2>3. s.queue.order[position] = position /\ position >= 0
    <3>1. \A o \in Positions(s.queue) : s.queue.order[o] = o
      BY <1>3 DEF QueueOK, OrderIsPosition
    <3>2. Positions(s.queue) \subseteq Nat
      BY QueueTypes
    <3> QED BY <3>1, <3>2
  <2>4. GetCurrentPosition(t) = position
    BY <1>1, <2>2, <2>3 DEF GetCurrentPosition
  <2> QED BY <1>1, <2>2, <2>3, <2>4, SameTrans
<1> QED BY <1>2, <1>3

\* A reshuffled order has the current song at another place.
LEMMA UpdateCurrent ==
  ASSUME NEW s, Shape(s), QueueOK(s.queue), s.current \in Positions(s.queue),
         NEW prev, NEW t \in UpdateQueuedSong(s, prev)
  PROVE  /\ t.playing = s.playing /\ t.current >= 0
         /\ GetCurrentPosition(t) = GetCurrentPosition(s)
<1> DEFINE Kept(x) == /\ x.playing = s.playing /\ x.current >= 0
                      /\ GetCurrentPosition(x) = GetCurrentPosition(s)
<1>1. /\ s.current >= 0 /\ s.current \in Int
      /\ GetCurrentPosition(s) \in Positions(s.queue)
      /\ Positions(s.queue) = 0 .. (s.queue.length - 1) /\ s.queue.length \in Nat
  <2>1. /\ Positions(s.queue) = 0 .. (s.queue.length - 1) /\ s.queue.length \in Nat
        /\ s.queue.order \in [Positions(s.queue) -> Positions(s.queue)]
    BY QueueTypes
  <2>2. s.current >= 0 /\ s.current \in Int
    BY <2>1
  <2> QED BY <2>1, <2>2 DEF GetCurrentPosition
<1>2. ASSUME NEW c
      PROVE  Kept(Assert(s, c))
  <2>1. /\ Assert(s, c).playing = s.playing /\ Assert(s, c).current = s.current
        /\ Assert(s, c).queue = s.queue
    BY DEF Assert, Shape, PlFields
  <2> QED BY <1>1, <2>1 DEF GetCurrentPosition
<1>3. ASSUME NEW u \in Reshuffled(s), s.queue.random
      PROVE  Kept(u)
  <2>1. PICK x \in ShuffleOrder(s.queue) :
          u = [s EXCEPT !.queue = x, !.current = FollowCurrent(s, x)]
    BY DEF Reshuffled
  <2>2. QueueOK(x) /\ SameButOrder(s.queue, x)
    BY <1>3, ShuffledOrderOK
  <2>3. Positions(x) = Positions(s.queue)
    BY <2>2 DEF SameButOrder, Positions
  <2> DEFINE p == GetCurrentPosition(s)
  <2>4. FollowCurrent(s, x) = PositionToOrder(x, p)
    BY <1>1 DEF FollowCurrent
  <2>5. u.queue = x /\ u.current = PositionToOrder(x, p) /\ u.playing = s.playing
    BY <2>1, <2>4 DEF Shape, PlFields
  <2> HIDE DEF p
  <2>6. PositionToOrder(x, p) \in Positions(x) /\ x.order[PositionToOrder(x, p)] = p
    BY <1>1, <2>2, <2>3, PositionToOrderOK DEF p
  <2>7. u.current >= 0
    BY <1>1, <2>3, <2>5, <2>6
  <2>8. GetCurrentPosition(u) = p
    BY <2>5, <2>6, <2>7 DEF GetCurrentPosition
  <2> QED BY <2>5, <2>7, <2>8 DEF p
<1>4. ASSUME NEW u, Shape(u), Kept(u), NEW n
      PROVE  Kept(Requeue(u, prev, n))
  <2> DEFINE next == IF n >= 0 THEN SongAt(u, n) ELSE None
             r == [u EXCEPT !.queued = -1]
             x == Call(r, "CANCEL", None)
             v == IF prev # None /\ next # prev THEN x ELSE u
             y == [v EXCEPT !.queued = n]
             z == Call(y, "ENQUEUE", SongAt(v, n))
             Field(w) == /\ DOMAIN w = PlFields /\ w.playing = u.playing
                         /\ w.current = u.current /\ w.queue = u.queue
  <2>1. Field(u) /\ Field(r)
    BY <1>4 DEF Shape, PlFields
  <2> HIDE DEF r
  <2>2. Field(x)
    BY <2>1 DEF Call, PlFields
  <2> HIDE DEF x, next
  <2>3. Field(v)
    BY <2>1, <2>2
  <2>4. Requeue(u, prev, n) \in {v, y, z}
    BY DEF Requeue, QueueSongOrder, v, x, r, next
  <2> HIDE DEF v
  <2>5. Field(y)
    BY <2>3 DEF PlFields
  <2> HIDE DEF y
  <2>6. Field(z)
    BY <2>5 DEF Call, PlFields
  <2> HIDE DEF z
  <2> QED BY <1>4, <2>3, <2>4, <2>5, <2>6 DEF GetCurrentPosition
<1>5. \/ t = s
      \/ \E c : t = Assert(s, c)
      \/ \E n : \E u \in {s} : t = Requeue(u, prev, n)
      \/ s.queue.random /\ \E n : \E u \in Reshuffled(s) : t = Requeue(u, prev, n)
  BY DEF UpdateQueuedSong
<1>6. Kept(s)
  BY <1>1
<1>7. \A u \in Reshuffled(s) : Shape(u)
  BY ReshuffledSame DEF SameButQueueOrder, SameSongs
<1> HIDE DEF Kept
<1>8. Kept(t)
  BY <1>2, <1>3, <1>4, <1>5, <1>6, <1>7
<1> QED BY <1>8 DEF Kept

LEMMA SeekSame ==
  ASSUME NEW s, Shape(s), NEW o, NEW t \in SeekSongOrder(s, o)
  PROVE  /\ SameButQueueOrder(s, t)
         /\ QueueOK(s.queue) /\ o \in Positions(s.queue) =>
              /\ t.playing = TRUE /\ t.current >= 0
              /\ GetCurrentPosition(t) = s.queue.order[o]
<1> DEFINE c == Call(s, "CLEAR_ERROR", None)
           r == [c EXCEPT !.stop_on_error = TRUE, !.error_count = 0,
                          !.playing = TRUE, !.current = o]
           y == Call(r, "SEEK", SongAt(s, o))
           x == [y EXCEPT !.queued = -1]
<1>1. t \in UpdateQueuedSong(x, None)
  BY DEF SeekSongOrder
<1>2. SameButQueueOrder(s, c) /\ Shape(c) /\ c.queue = s.queue
  <2>1. SameButQueueOrder(s, c)
    BY CallSame
  <2>2. c.queue = s.queue
    BY DEF Call, Shape, PlFields
  <2> HIDE DEF c
  <2> QED BY <2>1, <2>2 DEF SameButQueueOrder, SameSongs
<1> HIDE DEF c
<1>3. /\ DOMAIN r = PlFields /\ r.queue = c.queue /\ r.bulk_edit = c.bulk_edit
      /\ r.bulk_modified = c.bulk_modified /\ r.playing = TRUE /\ r.current = o
  BY <1>2 DEF Shape, PlFields
<1> HIDE DEF r
<1>4. SameButQueueOrder(c, r) /\ Shape(r)
  BY <1>2, <1>3, FieldsSame DEF Shape
<1>5. /\ SameButQueueOrder(r, y)
      /\ y.queue = r.queue /\ y.playing = r.playing /\ y.current = r.current
  <2>1. SameButQueueOrder(r, y)
    BY <1>4, CallSame
  <2>2. y.queue = r.queue /\ y.playing = r.playing /\ y.current = r.current
    BY <1>4 DEF Call, Shape, PlFields
  <2> QED BY <2>1, <2>2
<1> HIDE DEF y
<1>6. Shape(y)
  BY <1>5 DEF SameButQueueOrder, SameSongs
<1>7. /\ DOMAIN x = PlFields /\ x.queue = y.queue /\ x.bulk_edit = y.bulk_edit
      /\ x.bulk_modified = y.bulk_modified /\ x.playing = y.playing
      /\ x.current = y.current
  BY <1>6 DEF Shape, PlFields
<1> HIDE DEF x
<1>8. SameButQueueOrder(y, x) /\ Shape(x)
  BY <1>6, <1>7, FieldsSame DEF Shape
<1>9. SameButQueueOrder(x, t)
  BY <1>1, <1>8, UpdateSame
<1>10. SameButQueueOrder(s, t)
  BY <1>2, <1>4, <1>5, <1>8, <1>9, SameTrans
<1>11. ASSUME QueueOK(s.queue), o \in Positions(s.queue)
       PROVE  /\ t.playing = TRUE /\ t.current >= 0
              /\ GetCurrentPosition(t) = s.queue.order[o]
  <2>1. x.queue = s.queue /\ x.playing = TRUE /\ x.current = o
    BY <1>2, <1>3, <1>5, <1>7
  <2>2. /\ t.playing = x.playing /\ t.current >= 0
        /\ GetCurrentPosition(t) = GetCurrentPosition(x)
    BY <1>1, <1>8, <1>11, <2>1, UpdateCurrent
  <2>3. o >= 0
    BY <1>11, QueueTypes
  <2> QED BY <2>1, <2>2, <2>3 DEF GetCurrentPosition
<1> QED BY <1>10, <1>11


-----------------------------------------------------------------------------
(* Whatever edits the songs of the queue is noticed.                       *)

\* The version of s, as IncrementVersion() needs it
Versioned(s) == s.queue.version \in 1 .. (VersionMax - 1)

\* The methods of the queue leave its version alone.
SameRecord(r, x) == DOMAIN x = QueueFields /\ x.version = r.version

LEMMA ModifiedNoticed ==
  ASSUME NEW s, Versioned(s), NEW t, SameVersion(s, t)
  PROVE  /\ Noticed(s, OnModified(t))
         /\ ~t.bulk_edit => OnModified(t).queue.version # s.queue.version
<1>1. CASE t.bulk_edit
  <2>1. OnModified(t) = [t EXCEPT !.bulk_modified = TRUE]
    BY <1>1 DEF OnModified
  <2>2. OnModified(t).bulk_edit /\ OnModified(t).bulk_modified
    BY <1>1, <2>1 DEF SameVersion, Shape, PlFields
  <2> QED BY <1>1, <2>2 DEF Noticed, Untold
<1>2. CASE ~t.bulk_edit
  <2> DEFINE r == IncrementVersion(t.queue)
  <2>1. OnModified(t) = [t EXCEPT !.queue = r]
    BY <1>2 DEF OnModified
  <2>2. OnModified(t).queue = r
    BY <2>1 DEF SameVersion, Shape, PlFields
  <2>3. r.version = IF t.queue.version + 1 >= VersionMax THEN 1 ELSE t.queue.version + 1
    BY DEF IncrementVersion, SameVersion, Shape, QueueFields
  <2>4. r.version # t.queue.version
    <3>1. VersionMax \in Nat /\ VersionMax > 2
      BY QueueAssumption, StateFileAssumption
    <3>2. t.queue.version \in Int /\ t.queue.version >= 1
          /\ t.queue.version <= VersionMax - 1
      BY <3>1 DEF Versioned, SameVersion
    <3> HIDE DEF r
    <3> QED BY <2>3, <3>1, <3>2
  <2> HIDE DEF r
  <2> QED BY <2>2, <2>4 DEF Noticed, SameVersion
<1> QED BY <1>1, <1>2

LEMMA NoticedSame ==
  ASSUME NEW r, NEW s, NEW t,
         \/ SameSongs(r, s) /\ Noticed(s, t)
         \/ Noticed(r, s) /\ SameSongs(s, t)
  PROVE  Noticed(r, t)
BY DEF SameSongs, Noticed, Untold

LEMMA SameVersions ==
  ASSUME NEW r, NEW s, SameVersion(r, s), NEW t, SameButQueueOrder(s, t)
  PROVE  SameVersion(r, t)
BY DEF SameVersion, SameButQueueOrder, SameSongs

LEMMA UpdatedNoticed ==
  ASSUME NEW s, Versioned(s), NEW x, SameVersion(s, x), NEW prev,
         NEW y \in UpdateQueuedSong(x, prev)
  PROVE  SameVersion(s, y) /\ Noticed(s, OnModified(y))
<1>1. SameButQueueOrder(x, y)
  BY UpdateSame DEF SameVersion
<1>2. SameVersion(s, y)
  BY <1>1, SameVersions
<1> QED BY <1>2, ModifiedNoticed

LEMMA RecordRefl ==
  ASSUME NEW r, DOMAIN r = QueueFields
  PROVE  SameRecord(r, r)
BY DEF SameRecord

LEMMA RearrangeRecord ==
  ASSUME NEW r, DOMAIN r = QueueFields, NEW source, NEW moved
  PROVE  SameRecord(r, Rearrange(r, source, moved))
<1> DEFINE items == [p \in Positions(r) |-> IF p \in moved THEN Stamp(r, r.items[source[p]])
                                                           ELSE r.items[p]]
           data == MoveIds(r.data, items, moved)
<1>1. Rearrange(r, source, moved) = [r EXCEPT !.items = items, !.data = data]
  BY DEF Rearrange, QueueFields
<1> HIDE DEF items, data
<1> QED BY <1>1 DEF SameRecord, QueueFields

LEMMA OrderRecord ==
  ASSUME NEW r, NEW x, SameRecord(r, x), NEW f
  PROVE  SameRecord(r, [x EXCEPT !.order = f])
BY DEF SameRecord, QueueFields

LEMMA MoveRecord ==
  ASSUME NEW r, DOMAIN r = QueueFields, NEW start, NEW end, NEW to
  PROVE  SameRecord(r, MoveRange(r, start, end, to))
<1> DEFINE source == [p \in Positions(r) |-> MoveSource(start, end, to, p)]
           moved == Rearrange(r, source, MoveHull(start, end, to))
           f == [o \in Positions(r) |-> MoveTarget(start, end, to, r.order[o])]
<1>1. MoveRange(r, start, end, to) = IF r.random THEN [moved EXCEPT !.order = f] ELSE moved
  BY DEF MoveRange
<1>2. SameRecord(r, moved)
  <2> HIDE DEF source
  <2> QED BY RearrangeRecord
<1> HIDE DEF moved, f
<1> QED BY <1>1, <1>2, OrderRecord

LEMMA DeleteRecord ==
  ASSUME NEW r, DOMAIN r = QueueFields, NEW position
  PROVE  SameRecord(r, DeletePosition(r, position))
<1>1. PICK length, items, data, f :
        DeletePosition(r, position)
          = [r EXCEPT !.length = length, !.items = items, !.data = data, !.order = f]
  <2> DEFINE n == r.length - 1
             o == PositionToOrder(r, position)
             items == [p \in 0 .. (n - 1) |->
                         IF p < position THEN r.items[p] ELSE Stamp(r, r.items[p + 1])]
             order == [k \in 0 .. (n - 1) |-> r.order[IF k < o THEN k ELSE k + 1]]
             data == MoveIds(EraseId(r.data, r.items[position].id), items,
                             position .. (n - 1))
             f == [k \in 0 .. (n - 1) |-> IF order[k] > position THEN order[k] - 1
                                                                 ELSE order[k]]
  <2>1. DeletePosition(r, position)
          = [r EXCEPT !.length = n, !.items = items, !.data = data, !.order = f]
    BY DEF DeletePosition, QueueFields
  <2> HIDE DEF n, items, data, f
  <2> QED BY <2>1
<1> QED BY <1>1 DEF SameRecord, QueueFields

LEMMA ClearRecord ==
  ASSUME NEW r, DOMAIN r = QueueFields
  PROVE  SameRecord(r, ClearQueue(r))
BY DEF ClearQueue, SameRecord, QueueFields

LEMMA AppendRecord ==
  ASSUME NEW r, DOMAIN r = QueueFields, NEW song, NEW priority
  PROVE  SameRecord(r, AppendItem(r, song, priority))
BY DEF AppendItem, SameRecord, QueueFields

\* The queue is replaced by an edited one, and the current song with it.
LEMMA EditedNoticed ==
  ASSUME NEW s, Shape(s), Versioned(s), NEW r, SameRecord(s.queue, r), NEW k,
         NEW t \in Edited(s, r, k)
  PROVE  Noticed(s, t)
<1> DEFINE x == [s EXCEPT !.queue = r, !.current = k]
<1>1. SameVersion(s, x)
  BY DEF SameVersion, SameRecord, Shape, PlFields
<1>2. PICK y \in UpdateQueuedSong(x, GetQueuedSong(s)) : t = OnModified(y)
  BY DEF Edited
<1> HIDE DEF x
<1> QED BY <1>1, <1>2, UpdatedNoticed

LEMMA SwapNoticed ==
  ASSUME NEW s, Shape(s), Versioned(s), NEW p1, NEW p2, NEW t \in Swap(s, p1, p2)
  PROVE  Noticed(s, t)
<1> DEFINE x == SwapPositions(s.queue, p1, p2)
           y == SwapOrders(x, PositionToOrder(x, p1), PositionToOrder(x, p2))
<1>1. SameRecord(s.queue, x)
  <2> DEFINE source == [p \in Positions(s.queue) |->
                          IF p = p1 THEN p2 ELSE IF p = p2 THEN p1 ELSE p]
             moved == {p1, p2}
  <2>1. x = Rearrange(s.queue, source, moved)
    BY DEF SwapPositions
  <2> HIDE DEF source, moved, x
  <2> QED BY <2>1, RearrangeRecord DEF Shape
<1>2. SameRecord(s.queue, y)
  BY <1>1, OrderRecord DEF SwapOrders
<1>3. t \in Edited(s, y, s.current)
      \/ t \in Edited(s, x, CurrentAfterSwap(s.current, p1, p2))
  BY DEF Swap
<1> HIDE DEF x, y
<1> QED BY <1>1, <1>2, <1>3, EditedNoticed

LEMMA MoveNoticed ==
  ASSUME NEW s, Shape(s), Versioned(s), NEW start, NEW end, NEW to,
         NEW t \in Move(s, start, end, to)
  PROVE  Noticed(s, t)
<1> DEFINE r == MoveRange(s.queue, start, end, to)
           k == IF s.queue.random THEN s.current
                ELSE CurrentAfterMove(s.current, start, end, to)
<1>1. SameRecord(s.queue, r)
  BY MoveRecord DEF Shape
<1>2. t \in Edited(s, r, k)
  BY DEF Move
<1> HIDE DEF r, k
<1> QED BY <1>1, <1>2, EditedNoticed

LEMMA ShuffleNoticed ==
  ASSUME NEW s, Shape(s), Versioned(s), NEW start, NEW end,
         NEW t \in Shuffle(s, start, end)
  PROVE  Noticed(s, t)
<1> DEFINE position == GetCurrentPosition(s)
           first == s.playing /\ position \in start .. (end - 1)
           x == IF first THEN SwapPositions(s.queue, start, position) ELSE s.queue
           k == IF first THEN IF x.random THEN PositionToOrder(x, start) ELSE start
                ELSE IF s.playing THEN s.current ELSE -1
           from == IF first THEN start + 1 ELSE start
<1>1. PICK r \in ShuffleRange(x, from, end) : t \in Edited(s, r, k)
  BY DEF Shuffle
<1> HIDE DEF k, from
<1>2. SameRecord(s.queue, x)
  <2> DEFINE source == [p \in Positions(s.queue) |->
                          IF p = start THEN position
                          ELSE IF p = position THEN start ELSE p]
             moved == {start, position}
             y == SwapPositions(s.queue, start, position)
  <2>1. y = Rearrange(s.queue, source, moved)
    BY DEF SwapPositions
  <2> HIDE DEF source, moved, y, position
  <2>2. SameRecord(s.queue, y)
    BY <2>1, RearrangeRecord DEF Shape
  <2>3. SameRecord(s.queue, s.queue)
    BY RecordRefl DEF Shape
  <2> QED BY <2>2, <2>3 DEF y
<1> HIDE DEF x
<1>3. PICK source : r = Rearrange(x, source, from .. (end - 1))
  BY <1>1 DEF ShuffleRange
<1>4. SameRecord(s.queue, r)
  <2>1. SameRecord(x, r)
    BY <1>2, <1>3, RearrangeRecord DEF SameRecord
  <2> QED BY <1>2, <2>1 DEF SameRecord
<1> QED BY <1>1, <1>4, EditedNoticed

LEMMA SetPrioNoticed ==
  ASSUME NEW q, NEW u, NEW s, Good(q, u, s),
         NEW start \in Positions(s.queue), NEW end \in Int,
         start < end, end <= s.queue.length, NEW priority \in Priorities,
         NEW t \in SetPrio(s, start, end, priority)
  PROVE  Noticed(s, t)
<1>1. PICK r \in SetPriorityRange(s.queue, start, end, priority, s.current) :
        t \in Edited(s, r, FollowCurrent(s, r))
  BY DEF SetPrio
<1>2. QueueOK(s.queue) /\ s.current \in -1 .. (s.queue.length - 1) /\ DOMAIN s = PlFields
  BY GoodTypes
<1>3. QueueOK(r) /\ Edits(s.queue, r)
  BY <1>1, <1>2, SetPriorityRangeOK
<1>4. SameRecord(s.queue, r)
  BY <1>3 DEF QueueOK, QueueTypeOK, Edits, Stamps, SameRecord
<1>5. Shape(s) /\ Versioned(s)
  BY <1>2 DEF Shape, Versioned, QueueOK, QueueTypeOK
<1> QED BY <1>1, <1>4, <1>5, EditedNoticed

\* Deleting a song: the playlist goes on to the next one, or stops.
LEMMA LeaveCurrentSame ==
  ASSUME NEW s, Shape(s), NEW o, NEW paused
  PROVE  SameButQueueOrder(s, LeaveCurrent(s, o, paused))
<1> DEFINE next == GetNextOrder(s.queue, o)
           current == IF next = o THEN -1 ELSE next
           r == [s EXCEPT !.current = current, !.playing = FALSE]
           x == PlayOrder(s, current)
           y == Call(r, "STOP", None)
<1>1. LeaveCurrent(s, o, paused) \in {x, y}
  BY DEF LeaveCurrent
<1> HIDE DEF current
<1>2. SameButQueueOrder(s, x)
  BY PlayOrderSame
<1>3. SameButQueueOrder(s, r) /\ Shape(r)
  <2>1. /\ DOMAIN r = PlFields /\ r.queue = s.queue /\ r.bulk_edit = s.bulk_edit
        /\ r.bulk_modified = s.bulk_modified
    BY DEF Shape, PlFields
  <2> HIDE DEF r
  <2> QED BY <2>1, FieldsSame DEF Shape
<1> HIDE DEF r
<1>4. SameButQueueOrder(s, y)
  BY <1>3, CallSame, SameTrans
<1> QED BY <1>1, <1>2, <1>4

LEMMA DeleteInternalSame ==
  ASSUME NEW s, Shape(s), NEW position, NEW paused
  PROVE  SameVersion(s, DeleteInternal(s, position, paused))
<1> DEFINE o == PositionToOrder(s.queue, position)
           a == LeaveCurrent(s, o, paused)
           b == [s EXCEPT !.current = -1]
           x == IF s.current # o THEN s ELSE IF s.playing THEN a ELSE b
           r == DeletePosition(x.queue, position)
           k == CurrentAfterDelete(x.current, o)
           t == [x EXCEPT !.queue = r, !.current = k]
<1>1. SameButQueueOrder(s, a)
  BY LeaveCurrentSame
<1>2. SameVersion(s, a) /\ SameVersion(s, b) /\ SameVersion(s, s)
  <2> HIDE DEF a
  <2> QED BY <1>1 DEF SameVersion, SameButQueueOrder, SameSongs, Shape, PlFields
<1> HIDE DEF a, b
<1>3. SameVersion(s, x)
  BY <1>2
<1>4. DeleteInternal(s, position, paused) = [x EXCEPT !.queue = r, !.current = k]
  <2>1. DOMAIN x = PlFields
    BY <1>3 DEF SameVersion, Shape
  <2> HIDE DEF x
  <2> QED BY <2>1 DEF DeleteInternal, x, a, b, PlFields
<1> HIDE DEF x
<1>5. SameRecord(x.queue, r)
  BY <1>3, DeleteRecord DEF SameVersion, Shape
<1> HIDE DEF r, k
<1>6. DOMAIN t = PlFields /\ t.queue = r
  BY <1>3 DEF SameVersion, Shape, PlFields
<1> HIDE DEF t
<1>7. SameVersion(s, t)
  BY <1>3, <1>5, <1>6 DEF SameVersion, Shape, SameRecord
<1> QED BY <1>4, <1>7 DEF t

LEMMA DeleteRangeNoticed ==
  ASSUME NEW r, Versioned(r), NEW s, SameVersion(r, s), NEW start \in Int, NEW end \in Int,
         start < end, NEW t \in DeleteRange(s, start, end)
  PROVE  Noticed(r, t)
<1> DEFINE m == end - start
<1>1. m \in Nat
  OBVIOUS
<1>2. \E f : LeftLoop(s, end, m, f)
  <2> HIDE DEF m
  <2> QED BY <1>1, LeftLoopExists, Zenon
<1>3. PICK f : /\ LeftLoop(s, end, m, f)
               /\ DeleteRange(s, start, end)
                    = {OnModified(y) : y \in UNION {UpdateQueuedSong(d.pl, d.prev) : d \in f[m]}}
  BY <1>2 DEF DeleteRange, LeftLoop, DeleteStep
<1> HIDE DEF m
<1> DEFINE Fine(d) == SameVersion(r, d.pl)
           bad == {n \in 0 .. m : ~\A d \in f[n] : Fine(d)}
<1>4. bad = {}
  <2> SUFFICES ASSUME bad # {} PROVE FALSE
    OBVIOUS
  <2>1. bad \subseteq Nat
    BY <1>1
  <2>2. PICK n \in bad : \A j \in bad : n <= j
    BY <2>1, LeastNatural
  <2>3. n \in 0 .. m /\ n \in Nat
    BY <1>1, <2>2
  <2>4. CASE n = 0
    <3>1. f[n] = {[pl |-> s, prev |-> GetQueuedSong(s)]}
      BY <1>3, <2>3, <2>4 DEF LeftLoop
    <3> QED BY <2>2, <3>1
  <2>5. CASE n # 0
    <3>1. n - 1 \in 0 .. m /\ n - 1 \notin bad
      BY <1>1, <2>2, <2>3, <2>5
    <3>2. \A d \in f[n - 1] : Fine(d)
      BY <3>1
    <3>3. f[n] = DeleteStep(f[n - 1], end - n)
      BY <1>3, <2>3, <2>5 DEF LeftLoop
    <3>4. ASSUME NEW e \in f[n]
          PROVE  Fine(e)
      <4>1. PICK d \in f[n - 1], paused \in BOOLEAN :
              e.pl = DeleteInternal(d.pl, end - n, paused)
        <5> DEFINE R(d, paused) ==
                     LET y == DeleteInternal(d.pl, end - n, paused)
                     IN  [pl |-> y,
                          prev |-> IF Len(y.calls) > Len(d.pl.calls) THEN None ELSE d.prev]
        <5>1. f[n] = UNION {{R(d, paused) : paused \in Paused(d.pl)} : d \in f[n - 1]}
          BY <3>3 DEF DeleteStep
        <5>2. \A d : Paused(d.pl) \subseteq BOOLEAN
          BY DEF Paused
        <5>3. \A d, paused : R(d, paused).pl = DeleteInternal(d.pl, end - n, paused)
          OBVIOUS
        <5> HIDE DEF R
        <5>4. \E d \in f[n - 1], paused \in BOOLEAN : e = R(d, paused)
          BY <5>1, <5>2
        <5> QED BY <5>3, <5>4
      <4> DEFINE x == d.pl  y == DeleteInternal(x, end - n, paused)
      <4>2. SameVersion(r, x)
        BY <3>2
      <4> HIDE DEF x
      <4>3. SameVersion(x, y)
        BY <4>2, DeleteInternalSame DEF SameVersion
      <4>4. e.pl = y
        BY <4>1 DEF x
      <4> HIDE DEF y
      <4> QED BY <4>2, <4>3, <4>4 DEF SameVersion
    <3> QED BY <2>2, <3>4
  <2> QED BY <2>4, <2>5
<1>5. m \in 0 .. m
  BY <1>1
<1>6. PICK d \in f[m] : \E y \in UpdateQueuedSong(d.pl, d.prev) : t = OnModified(y)
  BY <1>3
<1> DEFINE x == d.pl  prev == d.prev
<1>7. SameVersion(r, x)
  BY <1>4, <1>5, <1>6
<1>8. PICK y \in UpdateQueuedSong(x, prev) : t = OnModified(y)
  BY <1>6
<1> HIDE DEF x, prev
<1> QED BY <1>7, <1>8, UpdatedNoticed

LEMMA ClearNoticed ==
  ASSUME NEW s, Shape(s), Versioned(s), NEW t \in Clear(s)
  PROVE  Noticed(s, t)
<1>1. PICK x \in Stop(s) : t = OnModified([x EXCEPT !.queue = ClearQueue(@), !.current = -1])
  BY DEF Clear
<1> DEFINE r == ClearQueue(x.queue)
           y == [x EXCEPT !.queue = r, !.current = -1]
<1>2. SameButQueueOrder(s, x)
  BY StopSame
<1>3. Shape(x) /\ x.queue.version = s.queue.version
  BY <1>2 DEF SameButQueueOrder, SameSongs
<1>4. SameRecord(x.queue, r)
  BY <1>3, ClearRecord DEF Shape
<1>5. t = OnModified(y)
  BY <1>1
<1> HIDE DEF r
<1>6. SameVersion(s, y)
  BY <1>3, <1>4 DEF SameVersion, SameRecord, Shape, PlFields
<1> HIDE DEF y
<1> QED BY <1>5, <1>6, ModifiedNoticed

LEMMA AppendSongNoticed ==
  ASSUME NEW s, Shape(s), Versioned(s), NEW song, NEW t \in AppendSong(s, song)
  PROVE  Noticed(s, t)
<1> DEFINE x == AppendItem(s.queue, song, 0)
           start == AppendStart(s)
           prev == GetQueuedSong(s)
<1>1. PICK r \in ShuffleOrderLast(x, start, x.length) \cup {x} :
        \E z \in UpdateQueuedSong([s EXCEPT !.queue = r, !.appended = @ + 1], prev) :
          t = OnModified(z)
  BY DEF AppendSong
<1> DEFINE y == [s EXCEPT !.queue = r, !.appended = @ + 1]
<1>2. SameRecord(s.queue, x)
  BY AppendRecord DEF Shape
<1> HIDE DEF x, start
<1>3. SameRecord(s.queue, r)
  <2>1. \A o1, o2 : SameRecord(s.queue, SwapOrders(x, o1, o2))
    BY <1>2, OrderRecord DEF SwapOrders
  <2> QED BY <1>1, <1>2, <2>1 DEF ShuffleOrderLast
<1>4. SameVersion(s, y)
  BY <1>3 DEF SameVersion, SameRecord, Shape, PlFields
<1>5. PICK z \in UpdateQueuedSong(y, prev) : t = OnModified(z)
  BY <1>1
<1> HIDE DEF y, prev
<1> QED BY <1>4, <1>5, UpdatedNoticed

LEMMA CommitBulkNoticed ==
  ASSUME NEW s, Shape(s), Versioned(s), NEW t \in CommitBulk(s)
  PROVE  Noticed(s, t)
<1> DEFINE x == [s EXCEPT !.bulk_edit = FALSE]
<1>1. /\ DOMAIN x = PlFields /\ x.queue = s.queue
  BY DEF Shape, PlFields
<1>2. SameVersion(s, x)
  BY <1>1 DEF SameVersion, Shape
<1>3. CASE ~s.bulk_modified
  <2>1. t = x
    BY <1>3 DEF CommitBulk
  <2> QED BY <1>1, <1>3, <2>1 DEF Noticed, Untold
<1>4. CASE s.bulk_modified
  <2>1. \E y \in UpdateQueuedSong(x, None) \cup {x} : t = OnModified(y)
    BY <1>4 DEF CommitBulk
  <2> HIDE DEF x
  <2> QED BY <1>2, <2>1, UpdatedNoticed, ModifiedNoticed
<1> QED BY <1>3, <1>4

-----------------------------------------------------------------------------
(* Commands and events that leave the songs alone, and those that consume  *)
(* one.                                                                    *)

LEMMA SameRefl ==
  ASSUME NEW s, Shape(s)
  PROVE  SameButQueueOrder(s, s)
BY FieldsSame DEF Shape

LEMMA SameShape ==
  ASSUME NEW s, NEW t, SameButQueueOrder(s, t)
  PROVE  Shape(t) /\ SameVersion(s, t) /\ SameSongs(s, t) /\ Noticed(s, t)
BY SameIsNoticed DEF SameButQueueOrder, SameSongs, SameVersion

LEMMA PlayAnySame ==
  ASSUME NEW s, Shape(s), NEW t \in PlayAny(s)
  PROVE  SameButQueueOrder(s, t)
<1> DEFINE c == Call(s, "CLEAR_ERROR", None)
           u == [c EXCEPT !.stop_on_error = FALSE, !.error_count = 0]
           i == IF s.current >= 0 THEN s.current ELSE 0
           r == SwapOrders(u.queue, i, 0)
           y == [u EXCEPT !.queue = r]
           x == Call(c, "UNPAUSE", None)
<1>1. t \in {c, x, PlayOrder(y, 0), PlayOrder(u, i)}
  BY DEF PlayAny
<1>2. SameButQueueOrder(s, c) /\ Shape(c)
  BY CallSame, SameShape
<1>3. SameButQueueOrder(s, u) /\ Shape(u)
  BY ClearedSame
<1> HIDE DEF c, u, i
<1>4. SameButQueueOrder(s, x)
  BY <1>2, CallSame, SameTrans
<1>5. SameButQueueOrder(s, PlayOrder(u, i))
  BY <1>3, PlayOrderSame, SameTrans
<1>6. SameButQueueOrder(s, PlayOrder(y, 0))
  <2>1. SameButOrder(u.queue, r)
    BY <1>3, SwapOrdersSame DEF Shape
  <2> HIDE DEF r
  <2>2. DOMAIN y = PlFields /\ y.queue = r /\ y.bulk_edit = u.bulk_edit
        /\ y.bulk_modified = u.bulk_modified
    BY <1>3 DEF Shape, PlFields
  <2> HIDE DEF y
  <2>3. SameButQueueOrder(u, y)
    BY <1>3, <2>1, <2>2, QueueSame
  <2>4. SameButQueueOrder(s, y) /\ Shape(y)
    BY <1>3, <2>3, SameTrans, SameShape
  <2> QED BY <2>4, PlayOrderSame, SameTrans
<1> HIDE DEF x, y
<1> QED BY <1>1, <1>2, <1>4, <1>5, <1>6

LEMMA PlayPositionSongs ==
  ASSUME NEW s, Shape(s), NEW position, NEW t \in PlayPosition(s, position)
  PROVE  SameButQueueOrder(s, t)
<1> DEFINE x == [Call(s, "CLEAR_ERROR", None)
                   EXCEPT !.stop_on_error = FALSE, !.error_count = 0]
           i == PositionToOrder(s.queue, position)
           current == IF s.playing THEN s.current ELSE 0
           r == SwapOrders(x.queue, i, current)
           y == [x EXCEPT !.queue = r]
<1>1. t \in {PlayOrder(y, current), PlayOrder(x, position)}
  BY DEF PlayPosition
<1>2. SameButQueueOrder(s, x) /\ Shape(x)
  BY ClearedSame
<1> HIDE DEF x, i, current
<1>3. SameButOrder(x.queue, r)
  BY <1>2, SwapOrdersSame DEF Shape
<1> HIDE DEF r
<1>4. DOMAIN y = PlFields /\ y.queue = r /\ y.bulk_edit = x.bulk_edit
      /\ y.bulk_modified = x.bulk_modified
  BY <1>2 DEF Shape, PlFields
<1> HIDE DEF y
<1>5. SameButQueueOrder(s, y) /\ Shape(y)
  BY <1>2, <1>3, <1>4, QueueSame, SameTrans, SameShape
<1>6. ASSUME NEW z, NEW o, SameButQueueOrder(s, z), Shape(z)
      PROVE  SameButQueueOrder(s, PlayOrder(z, o))
  BY <1>6, PlayOrderSame, SameTrans
<1> QED BY <1>1, <1>2, <1>5, <1>6

\* A song is consumed after everything else.
LEMMA ConsumeNoticed ==
  ASSUME NEW r, NEW s, Versioned(r), SameButQueueOrder(r, s), QueueOK(s.queue),
         NEW o \in Positions(s.queue), NEW t \in Consume(s, o)
  PROVE  Noticed(r, t)
<1>1. CASE ~s.queue.consume
  BY <1>1, SameShape DEF Consume
<1>2. CASE s.queue.consume
  <2> DEFINE p == s.queue.order[o]
  <2>1. t \in DeleteRange(s, p, p + 1)
    BY <1>2 DEF Consume, DeleteOrder
  <2>2. p \in Int /\ p + 1 \in Int /\ p < p + 1
    BY QueueTypes
  <2> HIDE DEF p
  <2>3. SameVersion(r, s)
    BY SameShape
  <2> QED BY <2>1, <2>2, <2>3, DeleteRangeNoticed
<1> QED BY <1>1, <1>2

LEMMA PlayNextNoticed ==
  ASSUME NEW r, NEW s, Versioned(r), SameButQueueOrder(r, s), QueueOK(s.queue),
         NEW t \in PlayNext(s)
  PROVE  Noticed(r, t)
<1> DEFINE next_order == GetNextOrder(s.queue, s.current)
           y == [s EXCEPT !.stop_on_error = FALSE]
           next == IF next_order < 0
                   THEN {[u EXCEPT !.current = -1] : u \in Stop(y)}
                   ELSE {PlayOrder([y EXCEPT !.queue = q], next_order) :
                           q \in IF next_order = 0 /\ s.queue.random
                                 THEN ShuffleOrder(s.queue) ELSE {s.queue}}
<1>1. Shape(s) /\ SameButQueueOrder(s, s)
  BY SameShape, SameRefl
<1>2. CASE ~s.playing
  <2>1. t = s
    BY <1>2 DEF PlayNext
  <2> QED BY <2>1, SameShape
<1>3. CASE s.playing /\ s.current \notin Positions(s.queue)
  <2> DEFINE a == Assert(s, FALSE)
  <2>1. t = a
    BY <1>3 DEF PlayNext
  <2>2. DOMAIN a = PlFields /\ a.queue = s.queue /\ a.bulk_edit = s.bulk_edit
        /\ a.bulk_modified = s.bulk_modified
    BY <1>1 DEF Assert, Shape, PlFields
  <2> HIDE DEF a
  <2>3. SameButQueueOrder(r, a)
    BY <1>1, <2>2, FieldsSame, SameTrans
  <2> QED BY <2>1, <2>3, SameShape
<1>4. CASE s.playing /\ s.current \in Positions(s.queue)
  <2>1. PICK x \in next : t \in Consume(x, s.current)
    BY <1>4 DEF PlayNext
  <2>2. SameButQueueOrder(s, y) /\ Shape(y) /\ y.queue = s.queue
    <3>1. DOMAIN y = PlFields /\ y.queue = s.queue /\ y.bulk_edit = s.bulk_edit
          /\ y.bulk_modified = s.bulk_modified
      BY <1>1 DEF Shape, PlFields
    <3> HIDE DEF y
    <3> QED BY <1>1, <3>1, FieldsSame DEF Shape
  <2> HIDE DEF y
  <2>3. SameButQueueOrder(s, x) /\ QueueOK(x.queue)
    <3>1. CASE next_order < 0
      <4>1. PICK u \in Stop(y) : x = [u EXCEPT !.current = -1]
        BY <2>1, <3>1
      <4>2. SameButQueueOrder(y, u)
        BY <2>2, StopSame
      <4>3. DOMAIN x = PlFields /\ x.queue = u.queue /\ x.bulk_edit = u.bulk_edit
            /\ x.bulk_modified = u.bulk_modified
        BY <4>1, <4>2, SameShape DEF Shape, PlFields
      <4>4. SameButQueueOrder(u, x)
        BY <4>2, <4>3, FieldsSame, SameShape
      <4>5. QueueOK(u.queue)
        <5>1. u = y \/ u = Assert(y, FALSE) \/ \E z : z.queue = y.queue /\ (u = z \/ (y.queue.random /\ u \in Reshuffled(z)))
          <6> DEFINE z0 == [y EXCEPT !.queued = -1, !.playing = FALSE]
                     z == Call(z0, "STOP", None)
          <6>1. z.queue = y.queue
            BY <2>2 DEF Call, Shape, PlFields
          <6>2. u \in {y, Assert(y, FALSE), z} \/ (y.queue.random /\ u \in Reshuffled(z))
            BY DEF Stop
          <6> HIDE DEF z
          <6> QED BY <6>1, <6>2
        <5>2. Assert(y, FALSE).queue = y.queue
          BY <2>2 DEF Assert, Shape, PlFields
        <5>3. ASSUME NEW z, z.queue = y.queue, y.queue.random, u \in Reshuffled(z)
              PROVE  QueueOK(u.queue)
          <6>1. PICK q \in ShuffleOrder(z.queue) :
                  u = [z EXCEPT !.queue = q, !.current = FollowCurrent(z, q)]
            BY <5>3 DEF Reshuffled
          <6>2. DOMAIN u = DOMAIN z /\ "queue" \in DOMAIN u
            BY <4>2, <6>1, SameShape DEF Shape, PlFields
          <6>3. u.queue = q
            BY <6>1, <6>2
          <6> QED BY <2>2, <5>3, <6>3, ShuffledOrderOK
        <5> QED BY <2>2, <5>1, <5>2, <5>3
      <4> QED BY <2>2, <4>2, <4>3, <4>4, <4>5, SameTrans
    <3>2. CASE ~(next_order < 0)
      <4>1. PICK q \in ShuffleOrder(s.queue) \cup {s.queue} :
              /\ x = PlayOrder([y EXCEPT !.queue = q], next_order)
              /\ s.queue.random \/ q = s.queue
        BY <2>1, <3>2
      <4> HIDE DEF next_order
      <4> DEFINE z == [y EXCEPT !.queue = q]
      <4>2. SameButOrder(s.queue, q) /\ QueueOK(q)
        <5>1. SameButOrder(s.queue, s.queue)
          BY <1>1 DEF SameButOrder, Shape
        <5> QED BY <4>1, <5>1, ShuffledOrderOK
      <4>3. DOMAIN z = PlFields /\ z.queue = q /\ z.bulk_edit = y.bulk_edit
            /\ z.bulk_modified = y.bulk_modified
        BY <2>2 DEF Shape, PlFields
      <4>4. x = PlayOrder(z, next_order)
        BY <4>1
      <4> HIDE DEF z
      <4>5. SameButQueueOrder(y, z)
        BY <2>2, <4>2, <4>3, QueueSame
      <4>6. SameButQueueOrder(z, x) /\ x.queue = z.queue
        BY <4>4, <4>5, PlayOrderSame, SameShape
      <4> QED BY <2>2, <4>2, <4>3, <4>5, <4>6, SameTrans
    <3> QED BY <3>1, <3>2
  <2>4. s.current \in Positions(x.queue)
    BY <1>4, <2>3 DEF SameButQueueOrder, SameSongs, Positions
  <2> HIDE DEF next
  <2> QED BY <2>1, <2>3, <2>4, SameTrans, ConsumeNoticed
<1> QED BY <1>2, <1>3, <1>4

LEMMA PlayPreviousSame ==
  ASSUME NEW s, Shape(s), NEW t \in PlayPrevious(s)
  PROVE  SameButQueueOrder(s, t)
<1>1. t = s \/ \E o : t = PlayOrder(s, o)
  BY DEF PlayPrevious
<1> QED BY <1>1, SameRefl, PlayOrderSame

\* The songs stay, whatever the options are.
LEMMA SongsTrans ==
  ASSUME NEW r, NEW s, NEW t, SameSongs(r, s), SameSongs(s, t)
  PROVE  SameSongs(r, t)
BY DEF SameSongs

LEMMA BorderPauseSame ==
  ASSUME NEW s, Shape(s)
  PROVE  SameButQueueOrder(s, BorderPause(s)) /\ Shape(BorderPause(s))
<1>1. \E cmd : BorderPause(s) = Call(s, cmd, None)
  BY DEF BorderPause
<1> QED BY <1>1, CallSame, SameShape

LEMMA OptionSet ==
  ASSUME NEW s, Shape(s), NEW x, NEW prev, SameSongs(s, x),
         NEW t \in UpdateQueuedSong(BorderPause(x), prev)
  PROVE  SameSongs(s, t)
<1> DEFINE y == BorderPause(x)
<1>1. SameButQueueOrder(x, y) /\ Shape(y)
  BY BorderPauseSame DEF SameSongs
<1> HIDE DEF y
<1>2. SameButQueueOrder(y, t)
  BY <1>1, UpdateSame DEF y
<1> QED BY <1>1, <1>2, SameShape, SongsTrans

LEMMA SetRepeatSame ==
  ASSUME NEW s, Shape(s), NEW t \in SetRepeat(s)
  PROVE  SameSongs(s, t)
<1> DEFINE x == [s EXCEPT !.queue.repeat = ~@]
<1>1. SameSongs(s, x)
  BY DEF SameSongs, Shape, PlFields, QueueFields
<1>2. t \in UpdateQueuedSong(BorderPause(x), GetQueuedSong(s))
  BY DEF SetRepeat
<1> HIDE DEF x
<1> QED BY <1>1, <1>2, OptionSet

LEMMA SetSingleSame ==
  ASSUME NEW s, Shape(s), NEW t \in SetSingle(s)
  PROVE  SameSongs(s, t)
<1> DEFINE x == [s EXCEPT !.queue.single = ~@]
<1>1. SameSongs(s, x)
  BY DEF SameSongs, Shape, PlFields, QueueFields
<1>2. t \in UpdateQueuedSong(BorderPause(x), GetQueuedSong(s))
  BY DEF SetSingle
<1> HIDE DEF x
<1> QED BY <1>1, <1>2, OptionSet

LEMMA SetConsumeSame ==
  ASSUME NEW s, Shape(s), NEW t \in SetConsume(s)
  PROVE  SameSongs(s, t)
BY DEF SetConsume, SameSongs, Shape, PlFields, QueueFields

LEMMA SetRandomSame ==
  ASSUME NEW s, Shape(s), NEW t \in SetRandom(s)
  PROVE  SameSongs(s, t)
<1>1. PICK x \in IF s.queue.random THEN RandomOff(s) ELSE RandomOn(s) :
        t \in UpdateQueuedSong(x, GetQueuedSong(s))
  BY DEF SetRandom, Then
<1> DEFINE off == [s.queue EXCEPT !.random = FALSE]
           on == [s.queue EXCEPT !.random = TRUE]
<1>2. /\ DOMAIN off = QueueFields /\ off.items = s.queue.items
      /\ off.length = s.queue.length /\ off.version = s.queue.version
      /\ DOMAIN on = QueueFields /\ on.items = s.queue.items
      /\ on.length = s.queue.length /\ on.version = s.queue.version
  BY DEF Shape, QueueFields
<1>3. \/ \E k : x = [s EXCEPT !.queue = RestoreOrder(off), !.current = k]
      \/ \E o, k : \E r \in ShuffleOrder(on) :
           \/ x = [s EXCEPT !.queue = r, !.current = k]
           \/ x = [s EXCEPT !.queue = SwapOrders(r, 0, o), !.current = k]
  <2>1. CASE s.queue.random
    <3>1. x \in RandomOff(s)
      BY <1>1, <2>1
    <3>2. x = [s EXCEPT !.queue = RestoreOrder(off), !.current = GetCurrentPosition(s)]
      <4>1. x = [s EXCEPT !.queue = RestoreOrder([@ EXCEPT !.random = FALSE]),
                          !.current = GetCurrentPosition(s)]
        BY <3>1 DEF RandomOff
      <4> QED BY <4>1
    <3> QED BY <3>2
  <2>2. CASE ~s.queue.random
    <3>1. x \in RandomOn(s)
      BY <1>1, <2>2
    <3> DEFINE position == IF s.playing THEN GetCurrentPosition(s) ELSE -1
               First(q) == IF position >= 0
                           THEN SwapOrders(q, 0, PositionToOrder(q, position)) ELSE q
               k == IF position >= 0 THEN 0 ELSE -1
    <3>2. PICK r \in ShuffleOrder(on) : x = [s EXCEPT !.queue = First(r), !.current = k]
      BY <3>1 DEF RandomOn
    <3> HIDE DEF k, on
    <3>3. First(r) = r \/ \E o : First(r) = SwapOrders(r, 0, o)
      OBVIOUS
    <3> HIDE DEF First
    <3> QED BY <3>2, <3>3
  <2> QED BY <2>1, <2>2
<1> HIDE DEF on, off
<1>4. \E r, k : /\ x = [s EXCEPT !.queue = r, !.current = k]
                /\ DOMAIN r = QueueFields /\ r.items = s.queue.items
                /\ r.length = s.queue.length /\ r.version = s.queue.version
  <2>1. SameButOrder(off, RestoreOrder(off))
    BY <1>2, OrderSame DEF RestoreOrder
  <2>2. \A o : \A r \in ShuffleOrder(on) :
          SameButOrder(on, r) /\ SameButOrder(r, SwapOrders(r, 0, o))
    BY <1>2, ShuffleOrderSame, SwapOrdersSame DEF SameButOrder
  <2> DEFINE Same(r) == /\ DOMAIN r = QueueFields /\ r.items = s.queue.items
                        /\ r.length = s.queue.length /\ r.version = s.queue.version
  <2>3. Same(RestoreOrder(off))
    BY <1>2, <2>1 DEF SameButOrder
  <2>4. \A o : \A r \in ShuffleOrder(on) : Same(r) /\ Same(SwapOrders(r, 0, o))
    BY <1>2, <2>2 DEF SameButOrder
  <2>5. \E r, k : x = [s EXCEPT !.queue = r, !.current = k] /\ Same(r)
    <3> HIDE DEF Same
    <3> QED BY <1>3, <2>3, <2>4
  <2> QED BY <2>5
<1>5. SameSongs(s, x)
  BY <1>4 DEF SameSongs, Shape, PlFields
<1>6. SameButQueueOrder(x, t)
  BY <1>1, <1>5, UpdateSame DEF SameSongs
<1> QED BY <1>5, <1>6, SameShape, SongsTrans

LEMMA GoodShape ==
  ASSUME NEW q, NEW u, NEW s, Good(q, u, s)
  PROVE  Shape(s) /\ Versioned(s) /\ QueueOK(s.queue)
BY GoodTypes DEF Shape, Versioned, QueueOK, QueueTypeOK

LEMMA SyncNoticed ==
  ASSUME NEW u, Good(pl.queue, u, pl), Agrees(u), PlayerOK, pl.calls = <<>>,
         NEW t \in SyncWithPlayer(pl)
  PROVE  Noticed(pl, t)
<1>1. Shape(pl) /\ Versioned(pl) /\ QueueOK(pl.queue)
  BY GoodShape
<1>2. CASE ~pl.playing
  <2>1. t = pl
    BY <1>2 DEF SyncWithPlayer
  <2> QED BY <1>1, <2>1, SameRefl, SameShape
<1>3. CASE pl.playing /\ player.state = "STOP"
  <2>1. t \in ResumePlayback(pl)
    BY <1>3 DEF SyncWithPlayer
  <2> DEFINE count == IF player.error = "NONE" THEN 0 ELSE pl.error_count + 1
             x == [pl EXCEPT !.error_count = count]
  <2>2. t \in Stop(x) \/ t \in PlayNext(x)
    BY <2>1 DEF ResumePlayback
  <2>3. /\ DOMAIN x = PlFields /\ x.queue = pl.queue /\ x.bulk_edit = pl.bulk_edit
        /\ x.bulk_modified = pl.bulk_modified
    BY <1>1 DEF Shape, PlFields
  <2> HIDE DEF x
  <2>4. SameButQueueOrder(pl, x)
    BY <1>1, <2>3, FieldsSame
  <2>5. Shape(x)
    BY <2>4, SameShape
  <2>6. CASE t \in Stop(x)
    BY <2>4, <2>5, <2>6, StopSame, SameTrans, SameShape
  <2>7. CASE t \in PlayNext(x)
    BY <1>1, <2>3, <2>4, <2>7, PlayNextNoticed
  <2> QED BY <2>2, <2>6, <2>7
<1>4. CASE pl.playing /\ player.state # "STOP"
  <2>1. PICK x \in IF player.next = None /\ pl.queued # -1
                   THEN SongStarted(pl) ELSE {pl} :
          t \in IF player.next = None /\ x.queued < 0
                THEN UpdateQueuedSong(x, None) ELSE {x}
    BY <1>4 DEF SyncWithPlayer, Then
  <2>2. Noticed(pl, x) /\ Shape(x)
    <3>1. CASE x = pl
      BY <1>1, <3>1, SameRefl, SameShape
    <3>2. CASE player.next = None /\ pl.queued # -1 /\ x \in SongStarted(pl)
      <4> DEFINE y == [pl EXCEPT !.current = pl.queued, !.queued = -1]
      <4>1. x \in Consume(y, pl.current)
        BY <3>2 DEF SongStarted
      <4>2. /\ DOMAIN y = PlFields /\ y.queue = pl.queue /\ y.bulk_edit = pl.bulk_edit
            /\ y.bulk_modified = pl.bulk_modified
        BY <1>1 DEF Shape, PlFields
      <4> HIDE DEF y
      <4>3. SameButQueueOrder(pl, y)
        BY <1>1, <4>2, FieldsSame
      <4>4. pl.current \in Positions(y.queue) /\ QueueOK(y.queue)
        BY <1>1, <1>4, <4>2, GoodTypes
      <4>5. Noticed(pl, x)
        BY <1>1, <4>1, <4>3, <4>4, ConsumeNoticed
      <4>6. \E w : Good(pl.queue, w, x)
        BY <1>4, <3>2, SongStartedOK
      <4> QED BY <4>5, <4>6, GoodShape
    <3> QED BY <2>1, <3>1, <3>2
  <2>3. t = x \/ t \in UpdateQueuedSong(x, None)
    BY <2>1
  <2> QED BY <2>2, <2>3, UpdateSame, SameShape, NoticedSame
<1> QED BY <1>2, <1>3, <1>4, GoodTypes

\* Every handler
LEMMA EditNoticed ==
  ASSUME NEW u, Good(pl.queue, u, pl), Edit
  PROVE  Noticed(pl, pl')
<1> USE DEF Command, Handler
<1>1. /\ Shape(pl) /\ Versioned(pl) /\ QueueOK(pl.queue) /\ pl.queue.length \in Nat
      /\ Positions(pl.queue) = 0 .. (pl.queue.length - 1)
  BY GoodShape, GoodTypes
<1>2. ASSUME NEW r \in Ranges
      PROVE  /\ r[1] \in Positions(pl.queue) /\ r[2] \in Int /\ r[1] \in Int
             /\ r[1] < r[2] /\ r[2] <= pl.queue.length
  BY <1>1, <1>2 DEF Ranges
<1>3. CASE \E song \in Songs :
             /\ "add" \in Commands
             /\ ~IsFull(pl.queue) /\ pl.appended < MaxAppends
             /\ Handler(AppendSong(pl, song))
  BY <1>1, <1>3, AppendSongNoticed
<1>4. CASE Command("add", {[pl EXCEPT !.bulk_edit = TRUE, !.bulk_modified = FALSE]})
  <2>1. pl' = [pl EXCEPT !.bulk_edit = TRUE, !.bulk_modified = FALSE] /\ ~pl.bulk_edit
    BY <1>4
  <2> QED BY <1>1, <2>1 DEF Noticed, Untold, Shape, PlFields
<1>5. CASE pl.bulk_edit /\ Handler(CommitBulk(pl))
  BY <1>1, <1>5, CommitBulkNoticed
<1>6. CASE \E p1, p2 \in Positions(pl.queue) : Command("swap", Swap(pl, p1, p2))
  BY <1>1, <1>6, SwapNoticed
<1>7. CASE \E r \in Blocks, to \in -(pl.queue.length) .. (pl.queue.length - 1) :
             /\ MoveAccepted(pl, r[1], r[2], to)
             /\ MoveTo(pl, r[1], to) + r[2] - r[1] <= pl.queue.length
             /\ Command("move", Move(pl, r[1], r[2], MoveTo(pl, r[1], to)))
  <2>1. \E start, end, to : pl' \in Move(pl, start, end, to)
    BY <1>7
  <2> QED BY <1>1, <2>1, MoveNoticed
<1>8. CASE \E r \in Ranges : Command("delete", DeleteRange(pl, r[1], r[2]))
  <2>1. PICK r \in Ranges : pl' \in DeleteRange(pl, r[1], r[2])
    BY <1>8
  <2> DEFINE start == r[1]  end == r[2]
  <2>2. start \in Int /\ end \in Int /\ start < end
    BY <1>2
  <2>3. pl' \in DeleteRange(pl, start, end)
    BY <2>1
  <2> HIDE DEF start, end
  <2>4. SameVersion(pl, pl)
    BY <1>1 DEF SameVersion
  <2> QED BY <1>1, <2>2, <2>3, <2>4, DeleteRangeNoticed
<1>9. CASE Command("clear", Clear(pl))
  BY <1>1, <1>9, ClearNoticed
<1>10. CASE \E r \in Ranges : /\ r[1] + 1 < r[2]
                              /\ Command("shuffle", Shuffle(pl, r[1], r[2]))
  BY <1>1, <1>10, ShuffleNoticed
<1>11. CASE \E r \in Ranges, priority \in Priorities :
              Command("prio", SetPrio(pl, r[1], r[2], priority))
  <2>1. PICK r \in Ranges, priority \in Priorities :
          Command("prio", SetPrio(pl, r[1], r[2], priority))
    BY <1>11
  <2> DEFINE start == r[1]  end == r[2]
  <2>2. /\ start \in Positions(pl.queue) /\ end \in Int /\ start < end
        /\ end <= pl.queue.length
    BY <1>2
  <2>3. pl' \in SetPrio(pl, start, end, priority)
    BY <2>1
  <2> HIDE DEF start, end
  <2> QED BY <2>2, <2>3, SetPrioNoticed
<1> QED BY <1>3, <1>4, <1>5, <1>6, <1>7, <1>8, <1>9, <1>10, <1>11 DEF Edit

LEMMA NextCommandNoticed ==
  ASSUME NEW u, Good(pl.queue, u, pl), NextCommand
  PROVE  Noticed(pl, pl')
<1> DEFINE x == [pl EXCEPT !.queue.single = FALSE]  b == pl.queue.single  q == pl.queue
<1>1. PICK s \in PlayNext(x) : pl' = [s EXCEPT !.queue.single = b]
  BY DEF NextCommand, Command, Handler
<1>2. Shape(pl) /\ Versioned(pl)
  BY GoodShape
<1>3. SameSongs(pl, x)
  BY <1>2 DEF SameSongs, Shape, PlFields, QueueFields
<1>4. Good(q, u, pl)
  OBVIOUS
<1> HIDE DEF b, q
<1>5. Good(q, u, x)
  BY <1>4, SingleGood
<1> HIDE DEF x
<1>6. Shape(x) /\ Versioned(x) /\ QueueOK(x.queue)
  BY <1>5, GoodShape
<1>7. Noticed(x, s)
  BY <1>1, <1>6, SameRefl, PlayNextNoticed
<1>8. Good(q, u, s)
  BY <1>1, <1>5, PlayNextOK
<1>9. SameSongs(s, pl')
  <2>1. Shape(s)
    BY <1>8, GoodShape
  <2> QED BY <1>1, <2>1 DEF SameSongs, Shape, PlFields, QueueFields
<1> QED BY <1>3, <1>7, <1>9, NoticedSame

LEMMA ControlNoticed ==
  ASSUME NEW u, Good(pl.queue, u, pl), Control
  PROVE  Noticed(pl, pl')
<1>1. Shape(pl)
  BY GoodShape
<1>2. ASSUME NEW name, NEW states, Command(name, states)
      PROVE  pl' \in states
  BY <1>2 DEF Command, Handler
<1>3. CASE NextCommand
  BY <1>3, NextCommandNoticed
<1>4. CASE Command("play", PlayAny(pl))
  BY <1>1, <1>2, <1>4, PlayAnySame, SameShape
<1>5. CASE \E p \in Positions(pl.queue) : Command("playpos", PlayPosition(pl, p))
  BY <1>1, <1>2, <1>5, PlayPositionSongs, SameShape
<1>6. CASE Command("stop", Stop(pl))
  BY <1>1, <1>2, <1>6, StopSame, SameShape
<1>7. CASE Command("previous", PlayPrevious(pl))
  BY <1>1, <1>2, <1>7, PlayPreviousSame, SameShape
<1>8. CASE \E o \in Positions(pl.queue) : Command("seek", SeekSongOrder(pl, o))
  BY <1>1, <1>2, <1>8, SeekSame, SameShape
<1>9. CASE Command("pause", {Call(pl, "PAUSE", None)})
  BY <1>1, <1>2, <1>9, CallSame, SameShape
<1>10. CASE Command("clearerror", {Call(pl, "CLEAR_ERROR", None)})
  BY <1>1, <1>2, <1>10, CallSame, SameShape
<1>11. CASE Command("repeat", SetRepeat(pl))
  BY <1>1, <1>2, <1>11, SetRepeatSame, SameIsNoticed
<1>12. CASE Command("single", SetSingle(pl))
  BY <1>1, <1>2, <1>12, SetSingleSame, SameIsNoticed
<1>13. CASE Command("consume", SetConsume(pl))
  BY <1>1, <1>2, <1>13, SetConsumeSame, SameIsNoticed
<1>14. CASE Command("random", SetRandom(pl))
  BY <1>1, <1>2, <1>14, SetRandomSame, SameIsNoticed
<1> QED BY <1>3, <1>4, <1>5, <1>6, <1>7, <1>8, <1>9, <1>10, <1>11, <1>12, <1>13, <1>14 DEF Control

LEMMA HandlerNoticed ==
  ASSUME PlInv, Edit \/ Control \/ Sync
  PROVE  Noticed(pl, pl')
<1>1. PICK u : Good(pl.queue, u, pl) /\ Agrees(u)
  BY DEF PlInv
<1>2. CASE Sync
  <2>1. pl.calls = <<>> /\ pl' \in SyncWithPlayer(pl)
    BY <1>2 DEF Sync, Idle
  <2> QED BY <1>1, <2>1, SyncNoticed DEF PlInv
<1> QED BY <1>1, <1>2, EditNoticed, ControlNoticed

-----------------------------------------------------------------------------
(* Reading the state file, line by line.                                   *)

Switches(name) == IF name \in Commands THEN BOOLEAN ELSE {FALSE}

\* The lines that playlist_state_save() writes
Lines ==
  [key : {"state"}, value : {"stop", "play", "pause"}]
  \cup [key : {"current"}, value : Int]
  \cup [key : {"random"}, value : Switches("random")]
  \cup [key : {"repeat"}, value : Switches("repeat")]
  \cup [key : {"single", "consume"}, value : BOOLEAN]
  \cup [key : {"song"}, value : Songs \X Priorities]
  \cup [key : {"playlist_begin", "playlist_end"}, value : {""}]

Silence == [cur |-> None, next |-> None]

\* Nothing plays, nothing is queued, and the order is that of the positions.
Quiet(s) ==
  /\ Good(EmptyQueue, Silence, s)
  /\ s.playing = FALSE /\ s.bulk_edit = FALSE

\* In the middle of playlist_state_restore()
Reads(t) ==
  /\ DOMAIN t = {"pl", "state", "current", "random"}
  /\ Quiet(t.pl) /\ t.pl.current = -1 /\ t.pl.queue.random = FALSE
  /\ t.state \in {"stop", "play", "pause"} /\ t.current \in Int
  /\ t.random \in Switches("random")

LEMMA LinesOK ==
  /\ \A v \in {"stop", "play", "pause"} : Line("state", v) \in Lines
  /\ \A p \in Int : Line("current", p) \in Lines
  /\ \A v \in Switches("random") : Line("random", v) \in Lines
  /\ \A v \in Switches("repeat") : Line("repeat", v) \in Lines
  /\ \A v \in BOOLEAN : Line("single", v) \in Lines /\ Line("consume", v) \in Lines
  /\ \A song \in Songs, priority \in Priorities :
       Line("song", <<song, priority>>) \in Lines
  /\ Line("playlist_begin", "") \in Lines /\ Line("playlist_end", "") \in Lines
BY DEF Lines, Line

LEMMA LineCases ==
  ASSUME NEW line \in Lines
  PROVE  \/ line.key = "state" /\ line.value \in {"stop", "play", "pause"}
         \/ line.key = "current" /\ line.value \in Int
         \/ line.key = "random" /\ line.value \in Switches("random")
         \/ line.key = "repeat" /\ line.value \in Switches("repeat")
         \/ line.key \in {"single", "consume"} /\ line.value \in BOOLEAN
         \/ /\ line.key = "song"
            /\ line = Line("song", <<line.value[1], line.value[2]>>)
            /\ line.value[1] \in Songs /\ line.value[2] \in Priorities
         \/ line.key \in {"playlist_begin", "playlist_end"}
<1>1. CASE line \in [key : {"song"}, value : Songs \X Priorities]
  <2>1. line.key = "song" /\ line.value \in Songs \X Priorities
    BY <1>1
  <2>2. line = [key |-> line.key, value |-> line.value]
    BY <1>1
  <2> DEFINE v == line.value
  <2>3. v = <<v[1], v[2]>> /\ v[1] \in Songs /\ v[2] \in Priorities
    BY <2>1
  <2> QED BY <2>1, <2>2, <2>3 DEF Line
<1>2. CASE line \notin [key : {"song"}, value : Songs \X Priorities]
  BY <1>2 DEF Lines
<1> QED BY <1>1, <1>2

LEMMA QuietTypes ==
  ASSUME NEW s, Quiet(s)
  PROVE  /\ Shape(s) /\ QueueOK(s.queue) /\ MayBe(s.queue) /\ Good(EmptyQueue, Silence, s)
         /\ s.queue.length \in Nat /\ s.queue.length <= MaxLength
         /\ Positions(s.queue) = 0 .. (s.queue.length - 1)
         /\ s.playing = FALSE /\ s.bulk_edit = FALSE
BY GoodShape, GoodTypes, QueueTypes DEF Quiet

LEMMA EmptyGrows ==
  ASSUME NEW r, QueueOK(r)
  PROVE  Grows(EmptyQueue, r)
<1>1. \A id \in Ids : EmptyQueue.data[id] < 0
  BY DEF EmptyQueue
<1>2. \A p \in Positions(r) : r.items[p].id \in Ids
  BY QueueTypes DEF Item
<1> QED BY <1>1, <1>2 DEF Grows

\* Another queue, while nothing plays
LEMMA QuietQueue ==
  ASSUME NEW s, Quiet(s), NEW r, MayBe(r), NEW k \in -1 .. (r.length - 1)
  PROVE  LET t == [s EXCEPT !.queue = r, !.current = k]
         IN  /\ Quiet(t) /\ t.queue = r /\ t.current = k /\ DOMAIN t = PlFields
<1> DEFINE t == [s EXCEPT !.queue = r, !.current = k]
<1>1. Good(EmptyQueue, Silence, s) /\ s.playing = FALSE /\ s.bulk_edit = FALSE
  BY DEF Quiet
<1>2. GetQueuedSong(s) = None
  BY <1>1 DEF GetQueuedSong
<1>3. Pending(EmptyQueue, Silence, s, None)
  BY <1>1, <1>2 DEF Good
<1>4. Grows(EmptyQueue, r)
  BY EmptyGrows DEF MayBe
<1>5. /\ Rest(s, t) /\ t.queue = r /\ t.current = k /\ t.bulk_edit = s.bulk_edit
  BY <1>1, QuietTypes DEF Rest, Shape, PlFields
<1> HIDE DEF t
<1> DEFINE q == EmptyQueue  u == Silence  prev == None
<1> HIDE DEF q, u, prev
<1>8. Pending(q, u, t, prev)
  <2>1. Pending(q, u, s, prev) /\ Grows(q, t.queue) /\ MayBe(t.queue)
    BY <1>3, <1>4, <1>5 DEF q, u, prev
  <2>2. t.current \in -1 .. (t.queue.length - 1)
    BY <1>5
  <2>3. s.playing => /\ t.current >= 0
                     /\ Exact => IdAt(t.queue, t.current) = IdAt(s.queue, s.current)
    BY <1>1
  <2> QED BY <1>5, <2>1, <2>2, <2>3, EditKeepsPending
<1> USE DEF q, u, prev
<1>6. GetQueuedSong(t) = None /\ QueuedFollows(t)
  BY <1>1, <1>5 DEF Rest, GetQueuedSong, QueuedFollows
<1>7. Quiet(t)
  BY <1>1, <1>5, <1>6, <1>8 DEF Quiet, Good, Rest
<1> QED BY <1>5, <1>7 DEF Rest, t

LEMMA QueueLinesSame ==
  ASSUME NEW r, NEW s, s.length = r.length, s.items = r.items
  PROVE  QueueLines(s) = QueueLines(r)
BY DEF QueueLines

\* What queue_save() writes is a sequence of lines.
LEMMA QueueLinesSeq ==
  ASSUME NEW r, r.length \in Nat,
         \A p \in Positions(r) : r.items[p].song \in Songs /\ r.items[p].priority \in Priorities
  PROVE  /\ QueueLines(r) \in [1 .. r.length -> Lines]
         /\ QueueLines(r) \in Seq(Lines) /\ Len(QueueLines(r)) = r.length
<1> DEFINE a == QueueLines(r)  n == r.length
<1>1. ASSUME NEW i \in 1 .. n
      PROVE  Line("song", <<r.items[i - 1].song, r.items[i - 1].priority>>) \in Lines
  <2>1. i - 1 \in Positions(r)
    BY DEF Positions
  <2> DEFINE song == r.items[i - 1].song  priority == r.items[i - 1].priority
  <2>2. song \in Songs /\ priority \in Priorities
    BY <2>1
  <2> HIDE DEF song, priority
  <2>3. Line("song", <<song, priority>>) \in Lines
    BY <2>2, LinesOK
  <2> QED BY <2>3 DEF song, priority
<1>2. a \in [1 .. n -> Lines]
  BY <1>1 DEF QueueLines
<1> HIDE DEF a, n
<1>3. n \in Nat
  BY DEF n
<1>4. a \in Seq(Lines) /\ Len(a) = n
  BY <1>2, <1>3
<1> QED BY <1>2, <1>4 DEF a, n

LEMMA QueueSongs ==
  ASSUME NEW r, QueueOK(r)
  PROVE  \A p \in Positions(r) : r.items[p].song \in Songs /\ r.items[p].priority \in Priorities
BY QueueTypes DEF Item

\* queue_load_song() appends what queue_save() has written.
LEMMA LoadedLine ==
  ASSUME NEW r, QueueOK(r), ~IsFull(r), NEW song \in Songs, NEW priority \in Priorities
  PROVE  LET x == AppendItem(r, song, priority)
         IN  QueueLines(x) = Append(QueueLines(r), Line("song", <<song, priority>>))
<1> DEFINE x == AppendItem(r, song, priority)
           n == r.length
           line == Line("song", <<song, priority>>)
           a == QueueLines(r)
           b == QueueLines(x)
<1>1. n \in Nat /\ DOMAIN r = QueueFields
  BY QueueTypes DEF QueueOK, QueueTypeOK
<1> DEFINE item == [song |-> song, id |-> GenerateId(r), version |-> r.version,
                    priority |-> priority]
           items == [p \in 0 .. n |-> IF p = n THEN item ELSE r.items[p]]
<1>2. x.length = n + 1 /\ x.items = items
  BY <1>1 DEF AppendItem, QueueFields
<1>3. a = [i \in 1 .. n |-> Line("song", <<r.items[i - 1].song, r.items[i - 1].priority>>)]
  BY DEF QueueLines
<1>4. b = [i \in 1 .. (n + 1) |-> Line("song", <<x.items[i - 1].song, x.items[i - 1].priority>>)]
  BY <1>2 DEF QueueLines
<1>5. ASSUME NEW i \in 1 .. (n + 1)
      PROVE  b[i] = IF i = n + 1 THEN line ELSE a[i]
  <2>1. CASE i = n + 1
    <3>1. i - 1 = n /\ n \in 0 .. n
      BY <1>1, <2>1
    <3>2. x.items[i - 1] = item
      BY <1>2, <3>1
    <3> HIDE DEF a, b
    <3> QED BY <1>4, <2>1, <3>2
  <2>2. CASE i # n + 1
    <3>1. i \in 1 .. n /\ i - 1 \in 0 .. n /\ i - 1 # n
      BY <1>1, <2>2
    <3>2. x.items[i - 1] = r.items[i - 1]
      BY <1>2, <3>1
    <3> HIDE DEF a, b
    <3> QED BY <1>3, <1>4, <2>2, <3>1, <3>2
  <2> QED BY <2>1, <2>2
<1>6. a \in Seq(Lines) /\ Len(a) = n
  BY <1>1, QueueSongs, QueueLinesSeq
<1>7. b = [i \in 1 .. (n + 1) |-> b[i]]
  BY <1>4
<1>8. line \in Lines
  BY LinesOK
<1> HIDE DEF a, b, line, x
<1>9. b = Append(a, line)
  <2> DEFINE c == Append(a, line)
  <2>1. /\ c \in Seq(Lines) /\ Len(c) = n + 1
        /\ \A i \in 1 .. (n + 1) : c[i] = IF i = n + 1 THEN line ELSE a[i]
    BY <1>1, <1>6, <1>8
  <2>2. c \in [1 .. (n + 1) -> Lines]
    BY <2>1, LenProperties
  <2>3. \A i \in 1 .. (n + 1) : b[i] = c[i]
    BY <1>5, <2>1
  <2> HIDE DEF c
  <2>4. c = [i \in 1 .. (n + 1) |-> c[i]]
    BY <2>2
  <2>5. b = c
    BY <1>7, <2>3, <2>4
  <2> QED BY <2>5 DEF c
<1> QED BY <1>9 DEF a, b, line, x

LEMMA LoadSongOK ==
  ASSUME NEW s, Quiet(s), s.current = -1, s.queue.random = FALSE,
         s.queue.length < MaxLength, NEW song \in Songs, NEW priority \in Priorities, NEW gone
  PROVE  LET r == LoadSong(s.queue, song, priority, gone)
             t == [s EXCEPT !.queue = r]
         IN  /\ Quiet(t) /\ t.current = -1 /\ t.queue.random = FALSE /\ t.queue = r
             /\ Options(r) = Options(s.queue)
             /\ song \notin gone =>
                  /\ r.length = s.queue.length + 1
                  /\ QueueLines(r) = Append(QueueLines(s.queue),
                                            Line("song", <<song, priority>>))
             /\ song \in gone => r = s.queue
<1> DEFINE r == LoadSong(s.queue, song, priority, gone)
           x == AppendItem(s.queue, song, priority)
           t == [s EXCEPT !.queue = r]
           k == -1
<1>1. /\ QueueOK(s.queue) /\ MayBe(s.queue) /\ s.queue.length \in Nat
      /\ DOMAIN s = PlFields /\ DOMAIN s.queue = QueueFields
  BY QuietTypes DEF Shape
<1>2. MaxLength \in Nat /\ ~IsFull(s.queue)
  BY <1>1, QueueAssumption DEF IsFull
<1>3. /\ QueueOK(x) /\ SameOptions(s.queue, x) /\ x.length = s.queue.length + 1
      /\ QueueLines(x) = Append(QueueLines(s.queue), Line("song", <<song, priority>>))
  BY <1>1, <1>2, AppendItemKeeps, LoadedLine
<1>4. Options(x) = Options(s.queue)
  BY <1>1 DEF AppendItem, Options, QueueFields
<1>5. r = IF song \in gone THEN s.queue ELSE x
  BY <1>2 DEF LoadSong
<1> HIDE DEF x
<1>6. MayBe(r) /\ r.random = FALSE /\ r.length \in Nat /\ Options(r) = Options(s.queue)
  BY <1>1, <1>3, <1>4, <1>5, SameOptionsMayBe DEF SameOptions
<1> HIDE DEF r
<1>7. k \in -1 .. (r.length - 1)
  BY <1>6
<1>8. [s EXCEPT !.queue = r, !.current = k] = t
  BY <1>1 DEF PlFields
<1> HIDE DEF k
<1> DEFINE y == [s EXCEPT !.queue = r, !.current = k]
<1>9. Quiet(t) /\ t.queue = r /\ t.current = k
  <2>1. Quiet(y) /\ y.queue = r /\ y.current = k
    BY <1>6, <1>7, QuietQueue
  <2>2. y = t
    BY <1>8
  <2> HIDE DEF y, t
  <2> QED BY <2>1, <2>2
<1> QED BY <1>3, <1>5, <1>6, <1>9 DEF k, r

\* An option that is switched on while nothing plays
Switched(s, t, repeat, single, consume) ==
  /\ Quiet(t) /\ t.current = s.current
  /\ t.queue.random = s.queue.random
  /\ t.queue.length = s.queue.length /\ t.queue.items = s.queue.items
  /\ t.queue.repeat = repeat /\ t.queue.single = single /\ t.queue.consume = consume

LEMMA SilentUpdate ==
  ASSUME NEW s, Shape(s), s.playing = FALSE, NEW prev
  PROVE  UpdateQueuedSong(BorderPause(s), prev) = {BorderPause(s)}
<1>1. \E cmd : BorderPause(s) = Call(s, cmd, None)
  BY DEF BorderPause
<1>2. BorderPause(s).playing = FALSE
  BY <1>1 DEF Call, Shape, PlFields
<1> QED BY <1>2 DEF UpdateQueuedSong

LEMMA BorderPauseFields ==
  ASSUME NEW s, Shape(s)
  PROVE  LET t == BorderPause(s)
         IN  /\ t.queue = s.queue /\ t.current = s.current /\ t.playing = s.playing
             /\ t.bulk_edit = s.bulk_edit
<1>1. \E cmd : BorderPause(s) = Call(s, cmd, None)
  BY DEF BorderPause
<1> QED BY <1>1 DEF Call, Shape, PlFields

LEMMA RepeatOn ==
  ASSUME NEW s, Quiet(s), "repeat" \in Commands
  PROVE  Switched(s, The(SetRepeat(s)), ~s.queue.repeat, s.queue.single, s.queue.consume)
<1> DEFINE x == [s EXCEPT !.queue.repeat = ~@]  y == BorderPause(x)
           q == EmptyQueue  u == Silence
<1>1. Shape(s) /\ s.playing = FALSE /\ Good(q, u, s) /\ s.bulk_edit = FALSE
  BY QuietTypes
<1>2. /\ Shape(x) /\ x.playing = FALSE /\ x.current = s.current /\ x.bulk_edit = FALSE
      /\ x.queue.random = s.queue.random /\ x.queue.length = s.queue.length
      /\ x.queue.items = s.queue.items /\ x.queue.repeat = ~s.queue.repeat
      /\ x.queue.single = s.queue.single /\ x.queue.consume = s.queue.consume
  BY <1>1 DEF Shape, PlFields, QueueFields
<1>3. SetRepeat(s) = UpdateQueuedSong(y, GetQueuedSong(s))
  BY DEF SetRepeat
<1> HIDE DEF x, q, u
<1>4. SetRepeat(s) = {y}
  BY <1>2, <1>3, SilentUpdate
<1>5. The(SetRepeat(s)) = y /\ y \in SetRepeat(s)
  BY <1>4 DEF The
<1>6. Good(q, u, y)
  BY <1>1, <1>5, SetRepeatOK
<1>7. /\ y.queue = x.queue /\ y.current = x.current /\ y.playing = x.playing
      /\ y.bulk_edit = x.bulk_edit
  BY <1>2, BorderPauseFields
<1> HIDE DEF y
<1>8. Quiet(y)
  BY <1>2, <1>6, <1>7 DEF Quiet, q, u
<1> QED BY <1>2, <1>5, <1>7, <1>8 DEF Switched

LEMMA SingleOn ==
  ASSUME NEW s, Quiet(s)
  PROVE  Switched(s, The(SetSingle(s)), s.queue.repeat, ~s.queue.single, s.queue.consume)
<1> DEFINE x == [s EXCEPT !.queue.single = ~@]  y == BorderPause(x)
           q == EmptyQueue  u == Silence
<1>1. Shape(s) /\ s.playing = FALSE /\ Good(q, u, s) /\ s.bulk_edit = FALSE
  BY QuietTypes
<1>2. /\ Shape(x) /\ x.playing = FALSE /\ x.current = s.current /\ x.bulk_edit = FALSE
      /\ x.queue.random = s.queue.random /\ x.queue.length = s.queue.length
      /\ x.queue.items = s.queue.items /\ x.queue.repeat = s.queue.repeat
      /\ x.queue.single = ~s.queue.single /\ x.queue.consume = s.queue.consume
  BY <1>1 DEF Shape, PlFields, QueueFields
<1>3. SetSingle(s) = UpdateQueuedSong(y, GetQueuedSong(s))
  BY DEF SetSingle
<1> HIDE DEF x, q, u
<1>4. SetSingle(s) = {y}
  BY <1>2, <1>3, SilentUpdate
<1>5. The(SetSingle(s)) = y /\ y \in SetSingle(s)
  BY <1>4 DEF The
<1>6. Good(q, u, y)
  BY <1>1, <1>5, SetSingleOK
<1>7. /\ y.queue = x.queue /\ y.current = x.current /\ y.playing = x.playing
      /\ y.bulk_edit = x.bulk_edit
  BY <1>2, BorderPauseFields
<1> HIDE DEF y
<1>8. Quiet(y)
  BY <1>2, <1>6, <1>7 DEF Quiet, q, u
<1> QED BY <1>2, <1>5, <1>7, <1>8 DEF Switched

LEMMA ConsumeOn ==
  ASSUME NEW s, Quiet(s)
  PROVE  Switched(s, The(SetConsume(s)), s.queue.repeat, s.queue.single, ~s.queue.consume)
<1> DEFINE x == [s EXCEPT !.queue.consume = ~@]
           q == EmptyQueue  u == Silence
<1>1. Shape(s) /\ s.playing = FALSE /\ Good(q, u, s) /\ s.bulk_edit = FALSE
  BY QuietTypes
<1>2. /\ x.playing = FALSE /\ x.current = s.current /\ x.bulk_edit = FALSE
      /\ x.queue.random = s.queue.random /\ x.queue.length = s.queue.length
      /\ x.queue.items = s.queue.items /\ x.queue.repeat = s.queue.repeat
      /\ x.queue.single = s.queue.single /\ x.queue.consume = ~s.queue.consume
  BY <1>1 DEF Shape, PlFields, QueueFields
<1>3. The(SetConsume(s)) = x /\ x \in SetConsume(s)
  BY DEF SetConsume, The
<1> HIDE DEF x, q, u
<1>4. Good(q, u, x)
  BY <1>1, <1>3, SetConsumeOK
<1>5. Quiet(x)
  BY <1>2, <1>4 DEF Quiet, q, u
<1> QED BY <1>2, <1>3, <1>5 DEF Switched

\* Is this the line of a song that is there?
Song(line, gone) == line.key = "song" /\ line.value[1] \notin gone

\* What a line changes
Took(t, x, line, gone) ==
  /\ x.state = IF line.key = "state" THEN line.value ELSE t.state
  /\ x.current = IF line.key = "current" THEN line.value ELSE t.current
  /\ x.random = IF line.key = "random" THEN line.value ELSE t.random
  /\ x.pl.queue.repeat =
       IF line.key = "repeat" /\ line.value THEN ~t.pl.queue.repeat ELSE t.pl.queue.repeat
  /\ x.pl.queue.single =
       IF line.key = "single" /\ line.value THEN ~t.pl.queue.single ELSE t.pl.queue.single
  /\ x.pl.queue.consume =
       IF line.key = "consume" /\ line.value THEN ~t.pl.queue.consume ELSE t.pl.queue.consume
  /\ QueueLines(x.pl.queue) =
       IF Song(line, gone) THEN Append(QueueLines(t.pl.queue), line)
                           ELSE QueueLines(t.pl.queue)
  /\ x.pl.queue.length = IF Song(line, gone) THEN t.pl.queue.length + 1 ELSE t.pl.queue.length

ReadFields == {"pl", "state", "current", "random"}

\* The playlist of a line that switches an option on
LEMMA SwitchOK ==
  ASSUME NEW t, Reads(t), NEW s, Quiet(s), s.current = t.pl.current,
         s.queue.random = t.pl.queue.random, s.queue.length = t.pl.queue.length,
         s.queue.items = t.pl.queue.items,
         NEW x, DOMAIN x = ReadFields, x.pl = s, x.state = t.state,
         x.current = t.current, x.random = t.random
  PROVE  Reads(x) /\ QueueLines(s.queue) = QueueLines(t.pl.queue)
<1>1. QueueLines(s.queue) = QueueLines(t.pl.queue)
  BY QueueLinesSame
<1> QED BY <1>1 DEF Reads, ReadFields

LEMMA ReadLineOK ==
  ASSUME NEW t, Reads(t), NEW line \in Lines, NEW gone,
         line.key = "song" => t.pl.queue.length < MaxLength
  PROVE  LET x == ReadLine(t, line, gone) IN Reads(x) /\ Took(t, x, line, gone)
<1> DEFINE x == ReadLine(t, line, gone)
<1>1. /\ DOMAIN t = ReadFields /\ Quiet(t.pl) /\ t.pl.current = -1
      /\ t.pl.queue.random = FALSE /\ t.state \in {"stop", "play", "pause"}
      /\ t.current \in Int /\ t.random \in Switches("random")
  BY DEF Reads, ReadFields
<1>2. CASE line.key = "state"
  <2>1. x = [t EXCEPT !.state = line.value] /\ line.value \in {"stop", "play", "pause"}
    BY <1>2, LineCases DEF ReadLine
  <2>2. DOMAIN x = ReadFields /\ x.pl = t.pl /\ x.state = line.value
        /\ x.current = t.current /\ x.random = t.random
    BY <1>1, <2>1 DEF ReadFields
  <2> HIDE DEF x
  <2>3. Reads(x)
    BY <1>1, <2>1, <2>2 DEF Reads, ReadFields
  <2> QED BY <1>2, <2>2, <2>3 DEF Took, Song, x
<1>3. CASE line.key = "current"
  <2>1. x = [t EXCEPT !.current = line.value] /\ line.value \in Int
    BY <1>3, LineCases DEF ReadLine
  <2>2. DOMAIN x = ReadFields /\ x.pl = t.pl /\ x.current = line.value
        /\ x.state = t.state /\ x.random = t.random
    BY <1>1, <2>1 DEF ReadFields
  <2> HIDE DEF x
  <2>3. Reads(x)
    BY <1>1, <2>1, <2>2 DEF Reads, ReadFields
  <2> QED BY <1>3, <2>2, <2>3 DEF Took, Song, x
<1>4. CASE line.key = "random"
  <2>1. x = [t EXCEPT !.random = line.value] /\ line.value \in Switches("random")
    BY <1>4, LineCases DEF ReadLine
  <2>2. DOMAIN x = ReadFields /\ x.pl = t.pl /\ x.random = line.value
        /\ x.state = t.state /\ x.current = t.current
    BY <1>1, <2>1 DEF ReadFields
  <2> HIDE DEF x
  <2>3. Reads(x)
    BY <1>1, <2>1, <2>2 DEF Reads, ReadFields
  <2> QED BY <1>4, <2>2, <2>3 DEF Took, Song, x
<1>5. CASE line.key \in {"repeat", "single", "consume"}
  <2>1. /\ line.value \in BOOLEAN
        /\ line.key = "repeat" /\ line.value => "repeat" \in Commands
    BY <1>5, LineCases DEF Switches
  <2>2. CASE ~line.value
    <3>1. x = t
      BY <1>5, <2>2 DEF ReadLine, Switch
    <3> QED BY <1>5, <2>2, <3>1 DEF Took, Song
  <2>3. CASE line.value
    <3> DEFINE s == CASE line.key = "repeat" -> The(SetRepeat(t.pl))
                      [] line.key = "single" -> The(SetSingle(t.pl))
                      [] line.key = "consume" -> The(SetConsume(t.pl))
    <3>1. x = [t EXCEPT !.pl = s]
      BY <1>5, <2>3 DEF ReadLine, Switch
    <3>2. /\ line.key = "repeat" => s = The(SetRepeat(t.pl))
          /\ line.key = "single" => s = The(SetSingle(t.pl))
          /\ line.key = "consume" => s = The(SetConsume(t.pl))
      OBVIOUS
    <3> HIDE DEF s
    <3>7. /\ DOMAIN x = ReadFields /\ x.pl = s /\ x.state = t.state
          /\ x.current = t.current /\ x.random = t.random
      BY <1>1, <3>1 DEF ReadFields
    <3> HIDE DEF x
    <3> DEFINE r == t.pl.queue
    <3>3. /\ line.key = "repeat" => Switched(t.pl, s, ~r.repeat, r.single, r.consume)
          /\ line.key = "single" => Switched(t.pl, s, r.repeat, ~r.single, r.consume)
          /\ line.key = "consume" => Switched(t.pl, s, r.repeat, r.single, ~r.consume)
      BY <1>1, <2>1, <2>3, <3>2, RepeatOn, SingleOn, ConsumeOn
    <3> HIDE DEF r
    <3>4. CASE line.key = "repeat"
      <4> DEFINE on == ~r.repeat
      <4> HIDE DEF on
      <4>1. Switched(t.pl, s, on, r.single, r.consume)
        BY <3>3, <3>4 DEF on
      <4>2. /\ Quiet(s) /\ s.current = t.pl.current
            /\ s.queue.random = t.pl.queue.random /\ s.queue.items = t.pl.queue.items
            /\ s.queue.length = t.pl.queue.length
            /\ s.queue.repeat = on /\ s.queue.single = r.single /\ s.queue.consume = r.consume
        BY <4>1 DEF Switched, r, on
      <4>3. Reads(x) /\ QueueLines(s.queue) = QueueLines(t.pl.queue)
        BY <3>7, <4>2, SwitchOK
      <4> QED BY <2>3, <3>4, <3>7, <4>2, <4>3 DEF Took, Song, r, on, x
    <3>5. CASE line.key = "single"
      <4> DEFINE on == ~r.single
      <4> HIDE DEF on
      <4>1. Switched(t.pl, s, r.repeat, on, r.consume)
        BY <3>3, <3>5 DEF on
      <4>2. /\ Quiet(s) /\ s.current = t.pl.current
            /\ s.queue.random = t.pl.queue.random /\ s.queue.items = t.pl.queue.items
            /\ s.queue.length = t.pl.queue.length
            /\ s.queue.repeat = r.repeat /\ s.queue.single = on /\ s.queue.consume = r.consume
        BY <4>1 DEF Switched, r, on
      <4>3. Reads(x) /\ QueueLines(s.queue) = QueueLines(t.pl.queue)
        BY <3>7, <4>2, SwitchOK
      <4> QED BY <2>3, <3>5, <3>7, <4>2, <4>3 DEF Took, Song, r, on, x
    <3>6. CASE line.key = "consume"
      <4> DEFINE on == ~r.consume
      <4> HIDE DEF on
      <4>1. Switched(t.pl, s, r.repeat, r.single, on)
        BY <3>3, <3>6 DEF on
      <4>2. /\ Quiet(s) /\ s.current = t.pl.current
            /\ s.queue.random = t.pl.queue.random /\ s.queue.items = t.pl.queue.items
            /\ s.queue.length = t.pl.queue.length
            /\ s.queue.repeat = r.repeat /\ s.queue.single = r.single /\ s.queue.consume = on
        BY <4>1 DEF Switched, r, on
      <4>3. Reads(x) /\ QueueLines(s.queue) = QueueLines(t.pl.queue)
        BY <3>7, <4>2, SwitchOK
      <4> QED BY <2>3, <3>6, <3>7, <4>2, <4>3 DEF Took, Song, r, on, x
    <3> QED BY <1>5, <3>4, <3>5, <3>6 DEF x
  <2> QED BY <2>1, <2>2, <2>3
<1>6. CASE line.key = "song"
  <2> DEFINE song == line.value[1]  priority == line.value[2]
             r == LoadSong(t.pl.queue, song, priority, gone)
             s == [t.pl EXCEPT !.queue = r]
  <2>1. song \in Songs /\ priority \in Priorities /\ line = Line("song", <<song, priority>>)
    BY <1>6, LineCases
  <2>2. x = [t EXCEPT !.pl = s]
    <3>1. x = [t EXCEPT !.pl.queue = LoadSong(@, line.value[1], line.value[2], gone)]
      BY <1>6 DEF ReadLine
    <3> QED BY <3>1
  <2>3. Song(line, gone) <=> song \notin gone
    BY <1>6 DEF Song
  <2> HIDE DEF song, priority, x
  <2> DEFINE q == t.pl.queue  n == q.length  p == t.pl
  <2> HIDE DEF p
  <2>10. /\ Quiet(p) /\ p.current = -1 /\ p.queue.random = FALSE /\ p.queue.length < MaxLength
         /\ p.queue = q /\ s = [p EXCEPT !.queue = r]
         /\ r = LoadSong(p.queue, song, priority, gone)
    BY <1>1, <1>6 DEF p
  <2> HIDE DEF q, r, s
  <2>4. /\ Quiet(s) /\ s.current = -1 /\ s.queue.random = FALSE /\ s.queue = r
        /\ Options(r) = Options(q)
        /\ song \notin gone => /\ r.length = n + 1
                               /\ QueueLines(r) = Append(QueueLines(q), line)
        /\ song \in gone => r = q
    <3>1. LET y == LoadSong(p.queue, song, priority, gone)
              z == [p EXCEPT !.queue = y]
          IN  /\ Quiet(z) /\ z.current = -1 /\ z.queue.random = FALSE /\ z.queue = y
              /\ Options(y) = Options(p.queue)
              /\ song \notin gone =>
                   /\ y.length = p.queue.length + 1
                   /\ QueueLines(y) = Append(QueueLines(p.queue),
                                             Line("song", <<song, priority>>))
              /\ song \in gone => y = p.queue
      BY <2>1, <2>10, LoadSongOK
    <3> QED BY <2>1, <2>10, <3>1 DEF n
  <2>5. DOMAIN x = ReadFields /\ x.pl = s /\ x.random = t.random
        /\ x.state = t.state /\ x.current = t.current
    BY <1>1, <2>2 DEF ReadFields
  <2>6. Reads(x)
    BY <1>1, <2>4, <2>5 DEF Reads, ReadFields
  <2>7. r.repeat = q.repeat /\ r.single = q.single /\ r.consume = q.consume
    BY <2>4 DEF Options
  <2>8. /\ QueueLines(r) = IF song \notin gone THEN Append(QueueLines(q), line)
                           ELSE QueueLines(q)
        /\ r.length = IF song \notin gone THEN n + 1 ELSE n
    BY <2>4
  <2> HIDE DEF q, n
  <2>9. t.pl.queue = q /\ q.length = n /\ x.pl.queue = r
    BY <2>4, <2>5 DEF q, n
  <2> QED BY <1>6, <2>3, <2>5, <2>6, <2>7, <2>8, <2>9 DEF Took, x
<1>7. CASE line.key \in {"playlist_begin", "playlist_end"}
  <2>1. x = t
    BY <1>7 DEF ReadLine
  <2> QED BY <1>7, <2>1 DEF Took, Song
<1> QED BY <1>2, <1>3, <1>4, <1>5, <1>6, <1>7, LineCases

\* What is read begins with nothing.
LEMMA FreshQuiet == Quiet(FreshPlaylist) /\ FreshPlaylist.current = -1
<1> DEFINE s == FreshPlaylist
<1>1. /\ s.queue = EmptyQueue /\ s.playing = FALSE /\ s.current = -1 /\ s.queued = -1
      /\ s.error_count = 0 /\ s.bulk_edit = FALSE /\ s.calls = <<>> /\ s.ok = TRUE
      /\ DOMAIN s = PlFields
  BY DEF FreshPlaylist, PlFields
<1> HIDE DEF s
<1>2. /\ QueueOK(EmptyQueue) /\ EmptyQueue.length = 0
      /\ EmptyQueue.random = FALSE /\ EmptyQueue.repeat = FALSE
  BY EmptyQueueOK DEF EmptyQueue
<1>3. PlOK(s)
  <2>1. /\ s.current \in -1 .. (s.queue.length - 1)
        /\ s.queued \in -1 .. (MaxLength - 1) /\ s.error_count \in 0 .. MaxLength
    BY <1>1, <1>2, QueueAssumption
  <2>2. s.calls \in Seq(Calls)
    BY <1>1
  <2> QED BY <1>1, <1>2, <2>1, <2>2 DEF PlOK
<1>4. ViewOf(s, None) = Silence /\ GetQueuedSong(s) = None
  BY <1>1 DEF ViewOf, Cur, Shown, GetQueuedSong, Silence
<1>5. Leads(Silence, s.calls, Silence)
  <2>1. Silence \in View
    BY DEF View, SongIds, Silence
  <2> QED BY <1>1, <2>1, LeadsNothing
<1>6. Grows(EmptyQueue, EmptyQueue) /\ None \in SongIds
  BY GrowsRefl DEF SongIds
<1>7. Good(EmptyQueue, Silence, s)
  BY <1>1, <1>3, <1>4, <1>5, <1>6 DEF Good, Pending, QueuedFollows
<1> QED BY <1>1, <1>7 DEF Quiet, s

LEMMA UnreadReads ==
  Reads(Unread) /\ QueueLines(Unread.pl.queue) = <<>> /\ Unread.pl.queue.length = 0
<1>1. /\ Unread.pl = FreshPlaylist /\ Unread.state = "stop" /\ Unread.current = -1
      /\ Unread.random = FALSE /\ DOMAIN Unread = ReadFields
  BY DEF Unread, ReadFields
<1>2. /\ FreshPlaylist.queue = EmptyQueue /\ EmptyQueue.length = 0
      /\ EmptyQueue.random = FALSE
  BY DEF FreshPlaylist, EmptyQueue
<1>3. FALSE \in Switches("random")
  BY DEF Switches
<1>4. QueueLines(EmptyQueue) = <<>>
  BY <1>2 DEF QueueLines
<1>5. Quiet(Unread.pl) /\ Unread.pl.current = -1 /\ Unread.pl.queue.random = FALSE
      /\ Unread.pl.queue = EmptyQueue
  BY <1>1, <1>2, FreshQuiet
<1>6. Unread.random \in Switches("random")
  BY <1>1, <1>3
<1>7. Reads(Unread)
  BY <1>1, <1>5, <1>6 DEF Reads, ReadFields
<1> QED BY <1>2, <1>4, <1>5, <1>7

\* The recursions in ReadPlaylist and SongsIn
ReadLoop(lines, gone, m, f) ==
  f = [n \in 0 .. m |-> IF n = 0 THEN Unread ELSE ReadLine(f[n - 1], lines[n], gone)]

SongLoop(lines, gone, m, f) ==
  f = [n \in 0 .. m |->
         IF n = 0 THEN <<>>
         ELSE IF lines[n].key = "song" /\ lines[n].value[1] \notin gone
         THEN Append(f[n - 1], lines[n]) ELSE f[n - 1]]

LEMMA ReadLoopExists ==
  ASSUME NEW lines, NEW gone, NEW m \in Nat
  PROVE  \E f : ReadLoop(lines, gone, m, f)
<1> DEFINE Has(k) == \E f : ReadLoop(lines, gone, k, f)
           bad == {k \in Nat : ~Has(k)}
<1> SUFFICES ASSUME bad # {} PROVE FALSE
  OBVIOUS
<1>1. PICK k \in bad : \A j \in bad : k <= j
  BY LeastNatural
<1>2. CASE k = 0
  <2> DEFINE g == [n \in 0 .. 0 |-> Unread]
  <2>1. ReadLoop(lines, gone, 0, g)
    <3>1. 0 .. 0 = {0}
      OBVIOUS
    <3> QED BY <3>1 DEF ReadLoop
  <2> QED BY <1>2, <2>1
<1>3. CASE k # 0
  <2>1. k \in Nat /\ k > 0 /\ k - 1 \in Nat /\ k - 1 \notin bad
    BY <1>1, <1>3
  <2>2. PICK f : ReadLoop(lines, gone, k - 1, f)
    BY <2>1
  <2> DEFINE Step(t, n) == ReadLine(t, lines[n], gone)
  <2>3. f = [n \in 0 .. (k - 1) |-> IF n = 0 THEN Unread ELSE Step(f[n - 1], n)]
    BY <2>2 DEF ReadLoop
  <2> DEFINE g == [n \in 0 .. k |-> IF n = k THEN Step(f[k - 1], k) ELSE f[n]]
  <2> HIDE DEF Step
  <2>4. ASSUME NEW n \in 0 .. k
        PROVE  g[n] = IF n = 0 THEN Unread ELSE Step(g[n - 1], n)
    <3>1. CASE n = k
      <4>1. n # 0 /\ n - 1 \in 0 .. k /\ n - 1 # k
        BY <2>1, <3>1
      <4> QED BY <3>1, <4>1
    <3>2. CASE n # k
      <4>1. n \in 0 .. (k - 1) /\ g[n] = f[n]
        BY <2>1, <3>2
      <4>2. n # 0 => n - 1 \in 0 .. k /\ n - 1 # k /\ g[n - 1] = f[n - 1]
        BY <2>1, <4>1
      <4>3. f[n] = IF n = 0 THEN Unread ELSE Step(f[n - 1], n)
        BY <2>3, <4>1
      <4> QED BY <4>1, <4>2, <4>3
    <3> QED BY <3>1, <3>2
  <2>5. ReadLoop(lines, gone, k, g)
    <3>1. g = [n \in 0 .. k |-> g[n]]
      OBVIOUS
    <3>2. g = [n \in 0 .. k |-> IF n = 0 THEN Unread ELSE Step(g[n - 1], n)]
      <4> HIDE DEF g
      <4> QED BY <2>4, <3>1
    <3> HIDE DEF g
    <3> QED BY <3>2 DEF ReadLoop, Step
  <2> QED BY <2>1, <2>5
<1> QED BY <1>2, <1>3

LEMMA SongLoopExists ==
  ASSUME NEW lines, NEW gone, NEW m \in Nat
  PROVE  \E f : SongLoop(lines, gone, m, f)
<1> DEFINE Has(k) == \E f : SongLoop(lines, gone, k, f)
           bad == {k \in Nat : ~Has(k)}
<1> SUFFICES ASSUME bad # {} PROVE FALSE
  OBVIOUS
<1>1. PICK k \in bad : \A j \in bad : k <= j
  BY LeastNatural
<1>2. CASE k = 0
  <2> DEFINE g == [n \in 0 .. 0 |-> <<>>]
  <2>1. SongLoop(lines, gone, 0, g)
    <3>1. 0 .. 0 = {0}
      OBVIOUS
    <3> QED BY <3>1 DEF SongLoop
  <2> QED BY <1>2, <2>1
<1>3. CASE k # 0
  <2>1. k \in Nat /\ k > 0 /\ k - 1 \in Nat /\ k - 1 \notin bad
    BY <1>1, <1>3
  <2>2. PICK f : SongLoop(lines, gone, k - 1, f)
    BY <2>1
  <2> DEFINE Step(t, n) == IF lines[n].key = "song" /\ lines[n].value[1] \notin gone
                           THEN Append(t, lines[n]) ELSE t
  <2>3. f = [n \in 0 .. (k - 1) |-> IF n = 0 THEN <<>> ELSE Step(f[n - 1], n)]
    BY <2>2 DEF SongLoop
  <2> DEFINE g == [n \in 0 .. k |-> IF n = k THEN Step(f[k - 1], k) ELSE f[n]]
  <2> HIDE DEF Step
  <2>4. ASSUME NEW n \in 0 .. k
        PROVE  g[n] = IF n = 0 THEN <<>> ELSE Step(g[n - 1], n)
    <3>1. CASE n = k
      <4>1. n # 0 /\ n - 1 \in 0 .. k /\ n - 1 # k
        BY <2>1, <3>1
      <4> QED BY <3>1, <4>1
    <3>2. CASE n # k
      <4>1. n \in 0 .. (k - 1) /\ g[n] = f[n]
        BY <2>1, <3>2
      <4>2. n # 0 => n - 1 \in 0 .. k /\ n - 1 # k /\ g[n - 1] = f[n - 1]
        BY <2>1, <4>1
      <4>3. f[n] = IF n = 0 THEN <<>> ELSE Step(f[n - 1], n)
        BY <2>3, <4>1
      <4> QED BY <4>1, <4>2, <4>3
    <3> QED BY <3>1, <3>2
  <2>5. SongLoop(lines, gone, k, g)
    <3>1. g = [n \in 0 .. k |-> g[n]]
      OBVIOUS
    <3>2. g = [n \in 0 .. k |-> IF n = 0 THEN <<>> ELSE Step(g[n - 1], n)]
      <4> HIDE DEF g
      <4> QED BY <2>4, <3>1
    <3> HIDE DEF g
    <3> QED BY <3>2 DEF SongLoop, Step
  <2> QED BY <2>1, <2>5
<1> QED BY <1>2, <1>3

\* A state file, or the first lines of one: there is room for its songs.
FileOK(lines) ==
  /\ lines \in Seq(Lines)
  /\ \E b \in Nat : \A i \in 1 .. Len(lines) :
       lines[i].key = "song" => b < i /\ i <= b + MaxLength

\* The file is read line by line, and its songs are those of the queue.
Reading(lines, gone, f) ==
  /\ f[0] = Unread
  /\ \A n \in 0 .. Len(lines) : Reads(f[n])
  /\ \A n \in 1 .. Len(lines) : Took(f[n - 1], f[n], lines[n], gone)
  /\ QueueLines(f[Len(lines)].pl.queue) = SongsIn(lines, gone)

LEMMA ReadingOK ==
  ASSUME NEW lines, FileOK(lines), NEW gone
  PROVE  \E f : /\ Reading(lines, gone, f)
                /\ ReadPlaylist(lines, gone) =
                     LET t == f[Len(lines)]
                     IN  IF lines # <<>> /\ lines[Len(lines)].key \in {"song", "playlist_end"}
                         THEN [t EXCEPT !.pl.queue = IncrementVersion(@)] ELSE t
<1> DEFINE m == Len(lines)
<1>1. m \in Nat /\ MaxLength \in Nat /\ \A n \in 1 .. m : lines[n] \in Lines
  BY QueueAssumption DEF FileOK
<1>2. (\E f : ReadLoop(lines, gone, m, f)) /\ (\E g : SongLoop(lines, gone, m, g))
  <2> HIDE DEF m
  <2> QED BY <1>1, ReadLoopExists, SongLoopExists
<1>3. PICK f : /\ ReadLoop(lines, gone, m, f)
               /\ ReadPlaylist(lines, gone) =
                    LET t == f[m]
                    IN  IF lines # <<>> /\ lines[m].key \in {"song", "playlist_end"}
                        THEN [t EXCEPT !.pl.queue = IncrementVersion(@)] ELSE t
  BY <1>2 DEF ReadPlaylist, ReadLoop
<1>4. PICK g : SongLoop(lines, gone, m, g) /\ SongsIn(lines, gone) = g[m]
  BY <1>2 DEF SongsIn, SongLoop
<1>5. PICK b \in Nat : \A i \in 1 .. m : lines[i].key = "song" => b < i /\ i <= b + MaxLength
  BY DEF FileOK
<1> HIDE DEF m
<1>6. f[0] = Unread /\ g[0] = <<>>
  BY <1>1, <1>3, <1>4 DEF ReadLoop, SongLoop
<1>7. ASSUME NEW n \in 1 .. m
      PROVE  /\ f[n] = ReadLine(f[n - 1], lines[n], gone)
             /\ g[n] = IF Song(lines[n], gone) THEN Append(g[n - 1], lines[n]) ELSE g[n - 1]
  <2>1. n \in 0 .. m /\ n # 0
    BY <1>1
  <2>2. f[n] = ReadLine(f[n - 1], lines[n], gone)
    BY <1>3, <2>1 DEF ReadLoop
  <2>3. g[n] = IF Song(lines[n], gone) THEN Append(g[n - 1], lines[n]) ELSE g[n - 1]
    BY <1>4, <2>1 DEF SongLoop, Song
  <2> QED BY <2>2, <2>3
<1> DEFINE Room(n) == IF n <= b THEN 0 ELSE n - b
           Fine(n) == /\ Reads(f[n]) /\ QueueLines(f[n].pl.queue) = g[n]
                      /\ f[n].pl.queue.length <= Room(n)
           bad == {n \in 0 .. m : ~Fine(n)}
<1>8. ASSUME NEW n \in 1 .. m, Fine(n - 1)
      PROVE  Fine(n) /\ Took(f[n - 1], f[n], lines[n], gone)
  <2> DEFINE t == f[n - 1]  x == f[n]  line == lines[n]
  <2>1. /\ Reads(t) /\ QueueLines(t.pl.queue) = g[n - 1] /\ t.pl.queue.length <= Room(n - 1)
        /\ line \in Lines /\ x = ReadLine(t, line, gone)
        /\ g[n] = IF Song(line, gone) THEN Append(g[n - 1], line) ELSE g[n - 1]
    BY <1>1, <1>7, <1>8
  <2>2. line.key = "song" => b < n /\ n <= b + MaxLength
    BY <1>5
  <2> HIDE DEF t, x, line
  <2>3. t.pl.queue.length \in Nat
    BY <2>1, QuietTypes DEF Reads
  <2>4. line.key = "song" => t.pl.queue.length < MaxLength
    BY <1>1, <2>1, <2>2, <2>3
  <2>5. Reads(x) /\ Took(t, x, line, gone)
    BY <2>1, <2>4, ReadLineOK
  <2>6. QueueLines(x.pl.queue) = g[n]
    BY <2>1, <2>5 DEF Took
  <2>7. x.pl.queue.length <= Room(n)
    <3>1. x.pl.queue.length = IF Song(line, gone) THEN t.pl.queue.length + 1
                              ELSE t.pl.queue.length
      BY <2>5 DEF Took
    <3>2. Song(line, gone) => b < n
      BY <2>2 DEF Song
    <3> QED BY <1>1, <2>1, <2>3, <3>1, <3>2
  <2> QED BY <2>5, <2>6, <2>7 DEF t, x, line
<1>9. Fine(0)
  BY <1>6, UnreadReads
<1>10. bad = {}
  <2> SUFFICES ASSUME bad # {} PROVE FALSE
    OBVIOUS
  <2>1. bad \subseteq Nat
    BY <1>1
  <2>2. PICK n \in bad : \A j \in bad : n <= j
    BY <2>1, LeastNatural
  <2>3. n \in 0 .. m /\ ~Fine(n)
    BY <2>2
  <2> HIDE DEF Fine
  <2>4. n # 0
    BY <1>9, <2>3
  <2>5. n \in 1 .. m /\ n - 1 \in 0 .. m /\ ~(n <= n - 1)
    BY <1>1, <2>3, <2>4
  <2>6. Fine(n - 1)
    BY <2>2, <2>5
  <2> QED BY <1>8, <2>3, <2>5, <2>6
<1>11. ASSUME NEW n \in 1 .. m
       PROVE  Took(f[n - 1], f[n], lines[n], gone)
  <2>1. n - 1 \in 0 .. m
    BY <1>1
  <2> HIDE DEF Fine
  <2> QED BY <1>8, <1>10, <2>1
<1>12. \A n \in 0 .. m : Reads(f[n]) /\ QueueLines(f[n].pl.queue) = g[n]
  BY <1>10
<1>13. m \in 0 .. m
  BY <1>1
<1>14. Reading(lines, gone, f)
  BY <1>4, <1>6, <1>11, <1>12, <1>13 DEF Reading, m
<1> QED BY <1>3, <1>14 DEF m

-----------------------------------------------------------------------------
(* What is restored.                                                       *)

\* The same songs and the same options but random
SameReading(q, r) ==
  /\ r.length = q.length /\ QueueLines(r) = QueueLines(q)
  /\ r.repeat = q.repeat /\ r.single = q.single /\ r.consume = q.consume

LEMMA SameButOrderReading ==
  ASSUME NEW s, NEW t, SameButQueueOrder(s, t)
  PROVE  SameReading(s.queue, t.queue) /\ t.queue.random = s.queue.random
BY QueueLinesSame DEF SameButQueueOrder, SameSongs, SameReading, Options

LEMMA VersionLines ==
  ASSUME NEW r, QueueOK(r)
  PROVE  LET x == IncrementVersion(r) IN SameReading(r, x) /\ x.random = r.random
<1> DEFINE x == IncrementVersion(r)
<1>1. /\ x.length = r.length /\ x.random = r.random /\ x.repeat = r.repeat
      /\ x.single = r.single /\ x.consume = r.consume
  BY DEF IncrementVersion, QueueOK, QueueTypeOK, QueueFields
<1>2. \/ x.items = r.items
      \/ x.items = [p \in Positions(r) |-> [r.items[p] EXCEPT !.version = 0]]
  BY DEF IncrementVersion, QueueOK, QueueTypeOK, QueueFields
<1>3. /\ r.length \in Nat /\ Positions(r) = 0 .. (r.length - 1)
      /\ \A p \in Positions(r) : r.items[p] \in Item
  BY QueueTypes
<1> HIDE DEF x
<1>4. \A p \in Positions(r) : x.items[p].song = r.items[p].song
                               /\ x.items[p].priority = r.items[p].priority
  BY <1>2, <1>3 DEF Item
<1>5. \A i \in 1 .. r.length : i - 1 \in Positions(r)
  BY <1>3
<1>6. QueueLines(x) = QueueLines(r)
  BY <1>1, <1>4, <1>5 DEF QueueLines
<1> QED BY <1>1, <1>6 DEF SameReading, x

\* What has been read, with a new version
LEMMA VersionReads ==
  ASSUME NEW t, Reads(t)
  PROVE  LET x == [t EXCEPT !.pl.queue = IncrementVersion(@)]
         IN  /\ Reads(x) /\ SameReading(t.pl.queue, x.pl.queue)
             /\ x.state = t.state /\ x.current = t.current /\ x.random = t.random
<1> DEFINE s == t.pl  r == IncrementVersion(s.queue)  k == -1
           y == [s EXCEPT !.queue = r, !.current = k]
           z == [s EXCEPT !.queue = r]
           x == [t EXCEPT !.pl = z]
<1>1. Quiet(s) /\ s.current = -1 /\ s.queue.random = FALSE
  BY DEF Reads
<1>2. /\ QueueOK(s.queue) /\ MayBe(s.queue) /\ DOMAIN s = PlFields /\ s.queue.length \in Nat
  BY <1>1, QuietTypes DEF Shape
<1> HIDE DEF s
<1>3. QueueOK(r) /\ SameReading(s.queue, r) /\ r.random = s.queue.random
  BY <1>2, VersionLines, IncrementVersionOK
<1> HIDE DEF r
<1>4. MayBe(r) /\ k \in -1 .. (r.length - 1)
  BY <1>2, <1>3 DEF MayBe, SameReading
<1>5. z = y
  BY <1>1, <1>2 DEF PlFields
<1> HIDE DEF k
<1> HIDE DEF y
<1>6. Quiet(y) /\ y.queue = r /\ y.current = k
  <2>1. LET w == [s EXCEPT !.queue = r, !.current = k]
        IN  /\ Quiet(w) /\ w.queue = r /\ w.current = k /\ DOMAIN w = PlFields
    BY <1>1, <1>4, QuietQueue
  <2> QED BY <2>1 DEF y
<1> HIDE DEF z
<1>7. /\ DOMAIN x = ReadFields /\ x.pl = z /\ x.state = t.state
      /\ x.current = t.current /\ x.random = t.random
  BY DEF Reads, ReadFields
<1>8. Reads(x)
  BY <1>1, <1>3, <1>5, <1>6, <1>7 DEF Reads, ReadFields, k
<1>9. [t EXCEPT !.pl.queue = IncrementVersion(@)] = x
  BY DEF x, z, r, s
<1> HIDE DEF x
<1> QED BY <1>3, <1>5, <1>6, <1>7, <1>8, <1>9 DEF s

\* playlist_state_restore() switches random mode on last.
LEMMA RandomRestored ==
  ASSUME NEW s, Quiet(s), s.current = -1, s.queue.random = FALSE, "random" \in Commands,
         NEW t \in SetRandom(s)
  PROVE  /\ Quiet(t) /\ t.current = -1 /\ t.queue.random = TRUE
         /\ SameReading(s.queue, t.queue)
<1> DEFINE on == [s.queue EXCEPT !.random = TRUE]  q == EmptyQueue  u == Silence
<1>1. Shape(s) /\ s.playing = FALSE /\ Good(q, u, s) /\ s.bulk_edit = FALSE
  BY QuietTypes
<1>2. PICK x \in RandomOn(s) : t \in UpdateQueuedSong(x, GetQueuedSong(s))
  BY DEF SetRandom, Then
<1>3. PICK r \in ShuffleOrder(on) : x = [s EXCEPT !.queue = r, !.current = -1]
  <2> DEFINE position == IF s.playing THEN GetCurrentPosition(s) ELSE -1
             First(w) == IF position >= 0
                         THEN SwapOrders(w, 0, PositionToOrder(w, position)) ELSE w
             k == IF position >= 0 THEN 0 ELSE -1
  <2>1. PICK r \in ShuffleOrder(on) : x = [s EXCEPT !.queue = First(r), !.current = k]
    BY DEF RandomOn
  <2>2. ~(position >= 0)
    BY <1>1
  <2>3. First(r) = r /\ k = -1
    BY <2>2
  <2> HIDE DEF on, First, k
  <2> QED BY <2>1, <2>3
<1>4. /\ DOMAIN on = QueueFields /\ on.length = s.queue.length /\ on.items = s.queue.items
      /\ on.repeat = s.queue.repeat /\ on.single = s.queue.single
      /\ on.consume = s.queue.consume /\ on.random = TRUE
  BY <1>1 DEF Shape, QueueFields
<1> HIDE DEF on, q, u
<1>5. SameButOrder(on, r)
  BY <1>4, ShuffleOrderSame
<1>6. x.queue = r /\ x.current = -1 /\ x.playing = FALSE /\ x.bulk_edit = FALSE
  BY <1>1, <1>3 DEF Shape, PlFields
<1>7. t = x
  BY <1>2, <1>6 DEF UpdateQueuedSong
<1>8. Good(q, u, t)
  BY <1>1, SetRandomOK
<1>9. Quiet(t)
  BY <1>6, <1>7, <1>8 DEF Quiet, q, u
<1>10. /\ r.length = s.queue.length /\ r.items = s.queue.items /\ r.random = TRUE
       /\ r.repeat = s.queue.repeat /\ r.single = s.queue.single
       /\ r.consume = s.queue.consume
  BY <1>4, <1>5 DEF SameButOrder
<1> QED BY <1>6, <1>7, <1>9, <1>10, QueueLinesSame DEF SameReading

\* Playback goes on at the position.
LEMMA GoOnOK ==
  ASSUME NEW s, Quiet(s), NEW state \in {"stop", "play", "pause"},
         NEW position \in Positions(s.queue), NEW x \in GoOn(s, state, position)
  PROVE  /\ Good(EmptyQueue, Silence, x) /\ x.bulk_edit = FALSE
         /\ SameReading(s.queue, x.queue) /\ x.queue.random = s.queue.random
         /\ state = "stop" => x.playing = FALSE
         /\ state # "stop" => x.playing = TRUE
         /\ state # "stop" \/ ~s.queue.random => GetCurrentPosition(x) = position
<1> DEFINE q == EmptyQueue  v == Silence
<1>1. /\ Shape(s) /\ s.playing = FALSE /\ Good(q, v, s) /\ s.bulk_edit = FALSE
      /\ QueueOK(s.queue) /\ MayBe(s.queue) /\ s.queue.length \in Nat
      /\ Positions(s.queue) = 0 .. (s.queue.length - 1)
  BY QuietTypes
<1>2. CASE state = "stop"
  <2> DEFINE r == s.queue  y == [s EXCEPT !.queue = r, !.current = position]
  <2>1. x = [s EXCEPT !.current = position]
    BY <1>2 DEF GoOn
  <2>2. x = y
    BY <1>1, <2>1 DEF Shape, PlFields
  <2>3. position \in -1 .. (r.length - 1) /\ MayBe(r) /\ position >= 0
    BY <1>1
  <2>4. Quiet(y) /\ y.queue = r /\ y.current = position
    <3> HIDE DEF r, y
    <3>1. LET w == [s EXCEPT !.queue = r, !.current = position]
          IN  /\ Quiet(w) /\ w.queue = r /\ w.current = position /\ DOMAIN w = PlFields
      BY <2>3, QuietQueue
    <3> QED BY <3>1 DEF y
  <2> HIDE DEF y
  <2>5. ~s.queue.random => s.queue.order[position] = position
    BY <1>1 DEF QueueOK, OrderIsPosition
  <2>6. ~s.queue.random => GetCurrentPosition(x) = position
    BY <2>2, <2>3, <2>4, <2>5 DEF GetCurrentPosition
  <2> QED BY <1>2, <2>2, <2>4, <2>6 DEF Quiet, SameReading
<1>3. CASE state # "stop"
  <2> DEFINE o == PositionToOrder(s.queue, position)
  <2>1. o \in Positions(s.queue) /\ s.queue.order[o] = position
    BY <1>1, PositionToOrderOK
  <2>2. PICK u \in PlayPosition(s, position) \cup SeekSongOrder(s, o) :
          x = IF state = "pause" THEN Call(u, "PAUSE", None) ELSE u
    BY <1>3 DEF GoOn
  <2> HIDE DEF o, q, v
  <2>3. Good(q, v, u)
    BY <1>1, <2>1, <2>2, PlayPositionOK, SeekSongOrderOK
  <2>4. SameButQueueOrder(s, u) /\ u.playing = TRUE /\ GetCurrentPosition(u) = position
    <3>1. CASE u \in PlayPosition(s, position)
      BY <1>1, <3>1, PlayPositionSame
    <3>2. CASE u \in SeekSongOrder(s, o)
      BY <1>1, <2>1, <3>2, SeekSame
    <3> QED BY <2>2, <3>1, <3>2
  <2> DEFINE c == Call(u, "PAUSE", None)
  <2>5. /\ Good(q, v, c) /\ c.queue = u.queue /\ c.playing = u.playing
        /\ c.current = u.current /\ c.bulk_edit = u.bulk_edit
    BY <2>3, OtherCallGood
  <2> HIDE DEF c
  <2>6. x = c \/ x = u
    BY <2>2 DEF c
  <2>7. /\ Good(q, v, x) /\ x.queue = u.queue /\ x.playing = u.playing
        /\ x.current = u.current /\ x.bulk_edit = u.bulk_edit
    BY <2>3, <2>5, <2>6
  <2>8. GetCurrentPosition(x) = position
    BY <2>4, <2>7 DEF GetCurrentPosition
  <2>9. SameReading(s.queue, u.queue) /\ u.queue.random = s.queue.random
        /\ u.bulk_edit = s.bulk_edit
    BY <2>4, SameButOrderReading DEF SameButQueueOrder, SameSongs
  <2> QED BY <1>1, <1>3, <2>4, <2>7, <2>8, <2>9 DEF q, v
<1> QED BY <1>2, <1>3

\* What is restored from what has been read
Restores(t, s) ==
  /\ Good(EmptyQueue, Silence, s) /\ s.bulk_edit = FALSE
  /\ SameReading(t.pl.queue, s.queue) /\ s.queue.random = t.random
  /\ t.state = "stop" \/ t.pl.queue.length = 0 => s.playing = FALSE
  /\ t.state # "stop" /\ t.pl.queue.length # 0 => s.playing = TRUE
  /\ s.current >= 0 /\ (t.state # "stop" \/ ~t.random)
       => GetCurrentPosition(s) = RestoredPosition(t.pl, t.current)

LEMMA SameReadingTrans ==
  ASSUME NEW q, NEW r, NEW x, SameReading(q, r), SameReading(r, x)
  PROVE  SameReading(q, x)
BY DEF SameReading

LEMMA RestoredOK ==
  ASSUME NEW lines, FileOK(lines), NEW gone, NEW s \in Restored(lines, gone)
  PROVE  \E f : Reading(lines, gone, f) /\ Restores(f[Len(lines)], s)
<1> DEFINE m == Len(lines)
<1>1. PICK f : /\ Reading(lines, gone, f)
               /\ ReadPlaylist(lines, gone) =
                    LET t == f[m]
                    IN  IF lines # <<>> /\ lines[m].key \in {"song", "playlist_end"}
                        THEN [t EXCEPT !.pl.queue = IncrementVersion(@)] ELSE t
  BY ReadingOK
<1> DEFINE r == f[m]
           t == ReadPlaylist(lines, gone)
           x == [r EXCEPT !.pl.queue = IncrementVersion(@)]
<1>2. m \in 0 .. m
  BY DEF FileOK
<1>3. Reads(r)
  BY <1>1, <1>2 DEF Reading
<1>4. t = x \/ t = r
  BY <1>1
<1> HIDE DEF r, m
<1>5. /\ Reads(x) /\ SameReading(r.pl.queue, x.pl.queue)
      /\ x.state = r.state /\ x.current = r.current /\ x.random = r.random
  BY <1>3, VersionReads
<1> HIDE DEF x
<1>6. SameReading(r.pl.queue, r.pl.queue)
  BY DEF SameReading
<1>7. /\ Reads(t) /\ SameReading(r.pl.queue, t.pl.queue)
      /\ t.state = r.state /\ t.current = r.current /\ t.random = r.random
  BY <1>3, <1>4, <1>5, <1>6
<1> DEFINE state == IF t.state = "play" /\ RestorePaused THEN "pause" ELSE t.state
<1>8. state \in {"stop", "play", "pause"} /\ (state = "stop" <=> t.state = "stop")
  BY <1>7 DEF Reads
<1>9. PICK y \in IF t.random THEN SetRandom(t.pl) ELSE {t.pl} :
        s \in IF y.queue.length = 0 THEN {y}
              ELSE GoOn(y, state, RestoredPosition(y, t.current))
  BY DEF Restored, Then
<1> HIDE DEF t, state
<1>10. /\ Quiet(y) /\ y.current = -1 /\ y.queue.random = t.random
       /\ SameReading(t.pl.queue, y.queue)
  <2>1. /\ Quiet(t.pl) /\ t.pl.current = -1 /\ t.pl.queue.random = FALSE
        /\ t.random \in BOOLEAN /\ t.random => "random" \in Commands
    BY <1>7 DEF Reads, Switches
  <2>2. CASE t.random
    BY <1>9, <2>1, <2>2, RandomRestored
  <2>3. CASE ~t.random
    <3>1. y = t.pl /\ t.random = FALSE
      BY <1>9, <2>1, <2>3
    <3>2. SameReading(t.pl.queue, t.pl.queue)
      BY DEF SameReading
    <3> QED BY <2>1, <3>1, <3>2
  <2> QED BY <2>2, <2>3
<1>11. y.queue.length = r.pl.queue.length /\ SameReading(r.pl.queue, y.queue)
  BY <1>7, <1>10, SameReadingTrans DEF SameReading
<1>12. CASE y.queue.length = 0
  <2>1. s = y
    BY <1>9, <1>12
  <2>2. /\ Good(EmptyQueue, Silence, s) /\ s.bulk_edit = FALSE /\ s.playing = FALSE
        /\ s.current = -1 /\ s.queue.random = r.random
        /\ SameReading(r.pl.queue, s.queue) /\ r.pl.queue.length = 0
    BY <1>7, <1>10, <1>11, <1>12, <2>1 DEF Quiet
  <2>3. Restores(r, s)
    BY <2>2 DEF Restores
  <2> QED BY <1>1, <2>3 DEF r, m
<1>13. CASE y.queue.length # 0
  <2> DEFINE position == RestoredPosition(y, t.current)
  <2>1. /\ position \in Positions(y.queue)
        /\ position = RestoredPosition(r.pl, r.current)
    <3>1. y.queue.length \in Nat /\ Positions(y.queue) = 0 .. (y.queue.length - 1)
      BY <1>10, QuietTypes
    <3>2. Positions(r.pl.queue) = Positions(y.queue)
      BY <1>11 DEF Positions
    <3>3. 0 \in Positions(y.queue)
      BY <1>13, <3>1
    <3> QED BY <1>7, <3>2, <3>3 DEF RestoredPosition
  <2>2. s \in GoOn(y, state, position)
    BY <1>9, <1>13
  <2> HIDE DEF position
  <2>3. /\ Good(EmptyQueue, Silence, s) /\ s.bulk_edit = FALSE
        /\ SameReading(y.queue, s.queue) /\ s.queue.random = y.queue.random
        /\ state = "stop" => s.playing = FALSE
        /\ state # "stop" => s.playing = TRUE
        /\ state # "stop" \/ ~y.queue.random => GetCurrentPosition(s) = position
    <3>1. Quiet(y) /\ state \in {"stop", "play", "pause"} /\ position \in Positions(y.queue)
      BY <1>8, <1>10, <2>1
    <3>2. \A w \in GoOn(y, state, position) :
            /\ Good(EmptyQueue, Silence, w) /\ w.bulk_edit = FALSE
            /\ SameReading(y.queue, w.queue) /\ w.queue.random = y.queue.random
            /\ state = "stop" => w.playing = FALSE
            /\ state # "stop" => w.playing = TRUE
            /\ state # "stop" \/ ~y.queue.random => GetCurrentPosition(w) = position
      BY <3>1, GoOnOK
    <3> QED BY <2>2, <3>2
  <2>4. SameReading(r.pl.queue, s.queue)
    BY <1>11, <2>3, SameReadingTrans
  <2>5. Restores(r, s)
    BY <1>7, <1>8, <1>10, <1>11, <1>13, <2>1, <2>3, <2>4 DEF Restores
  <2> QED BY <1>1, <2>5 DEF r, m
<1> QED BY <1>12, <1>13

-----------------------------------------------------------------------------
(* What is written.                                                        *)

\* The number of lines before the options
HeadLength(s) == IF s.current >= 0 THEN 2 ELSE 1

StateValue(s, state) ==
  IF s.playing THEN (IF state = "PAUSE" THEN "pause" ELSE "play") ELSE "stop"

\* The lines that playlist_state_save() writes, one by one
Written(lines, s, state) ==
  LET h == HeadLength(s)
      n == s.queue.length
  IN  /\ lines \in Seq(Lines) /\ Len(lines) = h + n + 6
      /\ lines[1] = Line("state", StateValue(s, state))
      /\ h = 2 => lines[2] = CurrentLine(s)
      /\ lines[h + 1] = Line("random", s.queue.random)
      /\ lines[h + 2] = Line("repeat", s.queue.repeat)
      /\ lines[h + 3] = Line("single", s.queue.single)
      /\ lines[h + 4] = Line("consume", s.queue.consume)
      /\ lines[h + 5] = Line("playlist_begin", "")
      /\ \A i \in 1 .. n : lines[h + 5 + i] = QueueLines(s.queue)[i]
      /\ lines[h + n + 6] = Line("playlist_end", "")

LEMMA Concat ==
  ASSUME NEW S, NEW a \in Seq(S), NEW b \in Seq(S), NEW m, NEW n, Len(a) = m, Len(b) = n
  PROVE  /\ a \o b \in Seq(S) /\ Len(a \o b) = m + n
         /\ \A i \in 1 .. m : (a \o b)[i] = a[i]
         /\ \A i \in 1 .. n : (a \o b)[m + i] = b[i]
OBVIOUS

LEMMA PairIsConcat == ASSUME NEW a, NEW b PROVE <<a>> \o <<b>> = <<a, b>>
<1> DEFINE c == <<a>> \o <<b>>  d == <<a, b>>  S == {a, b}
<1>1. c \in Seq(S) /\ Len(c) = 2 /\ c[1] = a /\ c[2] = b
  OBVIOUS
<1>2. d \in Seq(S) /\ Len(d) = 2 /\ d[1] = a /\ d[2] = b
  OBVIOUS
<1> HIDE DEF c, d, S
<1>3. \A i \in 1 .. Len(c) : c[i] = d[i]
  BY <1>1, <1>2
<1>4. c = d
  BY <1>1, <1>2, <1>3, SeqEqual
<1> QED BY <1>4 DEF c, d

LEMMA SavedLines ==
  ASSUME NEW q, NEW u, NEW s, Good(q, u, s), NEW state
  PROVE  Written(Saved(s, state), s, state)
<1> DEFINE first == Line("state", StateValue(s, state))
           pos == CurrentLine(s)
           a == IF s.current >= 0 THEN <<first, pos>> ELSE <<first>>
           l1 == Line("random", s.queue.random)
           l2 == Line("repeat", s.queue.repeat)
           l3 == Line("single", s.queue.single)
           l4 == Line("consume", s.queue.consume)
           l5 == Line("playlist_begin", "")
           last == Line("playlist_end", "")
           b == <<l1, l2, l3, l4, l5>>
           c == QueueLines(s.queue)
           d == <<last>>
           n == s.queue.length
           h == HeadLength(s)
<1>1. /\ QueueOK(s.queue) /\ MayBe(s.queue) /\ s.queue.length \in Nat
      /\ s.current \in Int
      /\ s.current >= 0 => s.current \in Positions(s.queue)
      /\ s.playing => s.current >= 0
      /\ s.playing \in BOOLEAN
  BY GoodTypes
<1>2. /\ s.queue.random \in Switches("random") /\ s.queue.repeat \in Switches("repeat")
      /\ s.queue.single \in BOOLEAN /\ s.queue.consume \in BOOLEAN
  BY <1>1, QueueOptions DEF MayBe, Switches, QueueOK
<1>3. s.current >= 0 => GetCurrentPosition(s) \in Int
  <2>1. s.queue.order \in [Positions(s.queue) -> Positions(s.queue)] /\ Positions(s.queue) \subseteq Nat
    BY <1>1, QueueTypes
  <2> QED BY <1>1, <2>1 DEF GetCurrentPosition
<1>4. first \in Lines /\ (s.current >= 0 => pos \in Lines)
  BY <1>3, LinesOK DEF StateValue, CurrentLine
<1>5. l1 \in Lines /\ l2 \in Lines /\ l3 \in Lines /\ l4 \in Lines /\ l5 \in Lines
      /\ last \in Lines
  BY <1>2, LinesOK
<1>6. c \in Seq(Lines) /\ Len(c) = n
  BY <1>1, QueueSongs, QueueLinesSeq
<1>7. Saved(s, state) = ((a \o b) \o c) \o d
  <2> DEFINE r == s.queue  none == <<>>
             state_lines == IF s.playing THEN <<first, pos>>
                            ELSE <<first>> \o (IF s.current >= 0 THEN <<pos>> ELSE none)
  <2> HIDE DEF first, pos
  <2>3. <<first>> \o <<pos>> = <<first, pos>> /\ <<first>> \o none = <<first>>
    <3>1. <<first>> \in Seq({first})
      OBVIOUS
    <3> QED BY <3>1, PairIsConcat, ConcatEmptySeq
  <2>1. state_lines = a
    <3>1. CASE s.current >= 0
      <4>1. a = <<first, pos>>
        BY <3>1
      <4>2. state_lines = <<first, pos>>
        BY <3>1, <2>3
      <4> QED BY <4>1, <4>2
    <3>2. CASE ~(s.current >= 0)
      <4>1. a = <<first>>
        BY <3>2
      <4>2. ~s.playing
        BY <1>1, <3>2
      <4>3. state_lines = <<first>>
        BY <3>2, <4>2, <2>3
      <4> QED BY <4>1, <4>3
    <3> QED BY <3>1, <3>2
  <2>2. Saved(s, state) = ((state_lines \o b) \o c) \o d
    <3> DEFINE play == Line("state", IF state = "PAUSE" THEN "pause" ELSE "play")
               stop == Line("state", "stop")
               saved == IF s.playing THEN <<play, pos>>
                        ELSE <<stop>> \o (IF s.current >= 0 THEN <<pos>> ELSE none)
    <3>1. Saved(s, state) = ((saved \o b) \o c) \o d
      BY DEF Saved, pos
    <3>2. IF s.playing THEN first = play ELSE first = stop
      BY DEF StateValue, first
    <3> HIDE DEF play, stop, b, c, d
    <3>3. saved = state_lines
      BY <3>2
    <3> HIDE DEF saved, state_lines
    <3> QED BY <3>1, <3>3
  <2> QED BY <2>1, <2>2
<1> HIDE DEF first, pos, l1, l2, l3, l4, l5, last, c
<1>8. /\ a \in Seq(Lines) /\ Len(a) = h /\ a[1] = first /\ (h = 2 => a[2] = pos)
      /\ h \in {1, 2} /\ h \in Nat
  BY <1>4 DEF HeadLength
<1>9. /\ b \in Seq(Lines) /\ Len(b) = 5 /\ b[1] = l1 /\ b[2] = l2 /\ b[3] = l3
      /\ b[4] = l4 /\ b[5] = l5
  BY <1>5
<1>10. d \in Seq(Lines) /\ Len(d) = 1 /\ d[1] = last
  BY <1>5
<1>11. n \in Nat
  BY <1>1
<1> HIDE DEF a, b, d, n, h
<1> DEFINE x == a \o b  y == x \o c  z == y \o d  m == h + 5  k == m + n
<1>12. /\ x \in Seq(Lines) /\ Len(x) = m
       /\ \A i \in 1 .. h : x[i] = a[i]
       /\ \A i \in 1 .. 5 : x[h + i] = b[i]
  <2> DEFINE five == 5
  <2>1. a \in Seq(Lines) /\ b \in Seq(Lines) /\ Len(a) = h /\ Len(b) = five
    BY <1>8, <1>9
  <2> HIDE DEF five
  <2>2. /\ a \o b \in Seq(Lines) /\ Len(a \o b) = h + five
        /\ \A i \in 1 .. h : (a \o b)[i] = a[i]
        /\ \A i \in 1 .. five : (a \o b)[h + i] = b[i]
    BY <2>1, Concat
  <2> QED BY <2>2 DEF five
<1>23. m \in Nat /\ k \in Nat /\ k = h + n + 5 /\ k + 1 = h + n + 6 /\ m = h + 5
  BY <1>8, <1>11
<1> HIDE DEF x, m
<1>13. /\ y \in Seq(Lines) /\ Len(y) = k
       /\ \A i \in 1 .. m : y[i] = x[i]
       /\ \A i \in 1 .. n : y[m + i] = c[i]
  BY <1>6, <1>12, Concat
<1> HIDE DEF y, k
<1>14. /\ z \in Seq(Lines) /\ Len(z) = k + 1
       /\ \A i \in 1 .. k : z[i] = y[i]
       /\ \A i \in 1 .. 1 : z[k + i] = d[i]
  <2> DEFINE one == 1
  <2>1. y \in Seq(Lines) /\ d \in Seq(Lines) /\ Len(y) = k /\ Len(d) = one
    BY <1>10, <1>13
  <2> HIDE DEF one
  <2>2. /\ y \o d \in Seq(Lines) /\ Len(y \o d) = k + one
        /\ \A i \in 1 .. k : (y \o d)[i] = y[i]
        /\ \A i \in 1 .. one : (y \o d)[k + i] = d[i]
    BY <2>1, Concat
  <2> QED BY <2>2 DEF one
<1>15. Saved(s, state) = z
  BY <1>7 DEF x, y
<1> HIDE DEF z
<1>24. h \in Nat /\ n \in Nat /\ m \in Nat /\ k \in Nat /\ m <= k /\ h <= m
  BY <1>8, <1>11, <1>23
<1>16. \A i \in 1 .. m : z[i] = x[i]
  <2> SUFFICES ASSUME NEW i \in 1 .. m PROVE z[i] = x[i]
    OBVIOUS
  <2>1. i \in 1 .. k
    BY <1>24
  <2>2. z[i] = y[i] /\ y[i] = x[i]
    BY <1>13, <1>14, <2>1
  <2> QED BY <2>2
<1>17. z[1] = first /\ (h = 2 => z[2] = pos)
  <2>1. \A i \in 1 .. h : z[i] = a[i]
    <3> SUFFICES ASSUME NEW i \in 1 .. h PROVE z[i] = a[i]
      OBVIOUS
    <3>1. i \in 1 .. m
      BY <1>24
    <3>2. z[i] = x[i] /\ x[i] = a[i]
      BY <1>12, <1>16, <3>1
    <3> QED BY <3>2
  <2>2. 1 \in 1 .. h /\ (h = 2 => 2 \in 1 .. h)
    BY <1>8
  <2> QED BY <1>8, <2>1, <2>2
<1>18. z[h + 1] = l1 /\ z[h + 2] = l2 /\ z[h + 3] = l3 /\ z[h + 4] = l4 /\ z[h + 5] = l5
  <2>1. \A j \in 1 .. 5 : z[h + j] = b[j]
    <3> SUFFICES ASSUME NEW j \in 1 .. 5 PROVE z[h + j] = b[j]
      OBVIOUS
    <3>1. h + j \in 1 .. m
      BY <1>23, <1>24
    <3>2. z[h + j] = x[h + j] /\ x[h + j] = b[j]
      BY <1>12, <1>16, <3>1
    <3> QED BY <3>2
  <2> QED BY <1>9, <2>1
<1>19. \A i \in 1 .. n : z[h + 5 + i] = c[i]
  <2>1. \A i \in 1 .. n : z[m + i] = c[i]
    BY <1>8, <1>11, <1>13, <1>14, <1>23
  <2> QED BY <1>23, <2>1
<1>20. z[h + n + 6] = last /\ Len(z) = h + n + 6
  BY <1>10, <1>14, <1>23
<1>21. /\ h = HeadLength(s) /\ n = s.queue.length /\ c = QueueLines(s.queue)
       /\ first = Line("state", StateValue(s, state)) /\ pos = CurrentLine(s)
       /\ l1 = Line("random", s.queue.random) /\ l2 = Line("repeat", s.queue.repeat)
       /\ l3 = Line("single", s.queue.single) /\ l4 = Line("consume", s.queue.consume)
       /\ l5 = Line("playlist_begin", "") /\ last = Line("playlist_end", "")
  BY DEF h, n, c, first, pos, l1, l2, l3, l4, l5, last
<1>22. Written(z, s, state)
  BY <1>14, <1>17, <1>18, <1>19, <1>20, <1>21 DEF Written
<1> QED BY <1>15, <1>22

\* The state file is a file that can be read.
LEMMA WrittenFileOK ==
  ASSUME NEW lines, NEW s, NEW state, Written(lines, s, state), QueueOK(s.queue)
  PROVE  FileOK(lines)
<1> DEFINE h == HeadLength(s)  n == s.queue.length  b == h + 5
<1>1. n \in Nat /\ n <= MaxLength /\ MaxLength \in Nat /\ h \in Nat /\ (h = 1 \/ h = 2)
  BY QueueTypes DEF HeadLength
<1>2. /\ lines[1] = Line("state", StateValue(s, state))
      /\ h = 2 => lines[2] = Line("current", GetCurrentPosition(s))
      /\ lines[h + 1] = Line("random", s.queue.random)
      /\ lines[h + 2] = Line("repeat", s.queue.repeat)
      /\ lines[h + 3] = Line("single", s.queue.single)
      /\ lines[h + 4] = Line("consume", s.queue.consume)
      /\ lines[h + 5] = Line("playlist_begin", "")
      /\ lines[h + n + 6] = Line("playlist_end", "")
  BY DEF Written, CurrentLine
<1>3. lines \in Seq(Lines) /\ Len(lines) = h + n + 6
  BY DEF Written
<1> HIDE DEF h, n
<1>4. \A v : /\ Line("state", v).key # "song" /\ Line("current", v).key # "song"
             /\ Line("random", v).key # "song" /\ Line("repeat", v).key # "song"
             /\ Line("single", v).key # "song" /\ Line("consume", v).key # "song"
             /\ Line("playlist_begin", v).key # "song"
             /\ Line("playlist_end", v).key # "song"
  BY DEF Line
<1>5. lines[1].key # "song"
  BY <1>2, <1>4
<1>6. h = 2 => lines[2].key # "song"
  BY <1>2, <1>4
<1>7. lines[h + 1].key # "song"
  BY <1>2, <1>4
<1>8. lines[h + 2].key # "song"
  BY <1>2, <1>4
<1>9. lines[h + 3].key # "song"
  BY <1>2, <1>4
<1>10. lines[h + 4].key # "song"
  BY <1>2, <1>4
<1>11. lines[h + 5].key # "song"
  BY <1>2, <1>4
<1>12. lines[h + n + 6].key # "song"
  BY <1>2, <1>4
<1>13. ASSUME NEW i \in 1 .. (h + n + 6), lines[i].key = "song"
       PROVE  h + 5 < i /\ i <= h + 5 + MaxLength
  <2>1. /\ i # 1 /\ ~(h = 2 /\ i = 2) /\ i # h + 1 /\ i # h + 2 /\ i # h + 3
        /\ i # h + 4 /\ i # h + 5 /\ i # h + n + 6
    BY <1>5, <1>6, <1>7, <1>8, <1>9, <1>10, <1>11, <1>12, <1>13
  <2>2. i \in Int /\ 1 <= i /\ i <= h + n + 6
    BY <1>1
  <2> QED BY <1>1, <2>1, <2>2
<1>14. b \in Nat
  BY <1>1
<1>15. \A i \in 1 .. Len(lines) : lines[i].key = "song" => b < i /\ i <= b + MaxLength
  BY <1>3, <1>13
<1> HIDE DEF b
<1> QED BY <1>3, <1>14, <1>15 DEF FileOK

\* The first k songs
Begun(a, Q, k) == a \in Seq(Lines) /\ Len(a) = k /\ \A j \in 1 .. k : a[j] = Q[j]

\* What has been read so far
Sum(t, state, current, random, repeat, single, consume, k, Q) ==
  /\ t.state = state /\ t.current = current /\ t.random = random
  /\ t.pl.queue.repeat = repeat /\ t.pl.queue.single = single
  /\ t.pl.queue.consume = consume
  /\ t.pl.queue.length = k /\ Begun(QueueLines(t.pl.queue), Q, k)

LEMMA SumState ==
  ASSUME NEW v, NEW t, NEW x, Took(t, x, Line("state", v), {}),
         NEW state, NEW current, NEW random, NEW repeat, NEW single, NEW consume,
         NEW k, NEW Q, Sum(t, state, current, random, repeat, single, consume, k, Q)
  PROVE  Sum(x, v, current, random, repeat, single, consume, k, Q)
BY DEF Took, Song, Line, Sum

LEMMA SumCurrent ==
  ASSUME NEW v, NEW t, NEW x, Took(t, x, Line("current", v), {}),
         NEW state, NEW current, NEW random, NEW repeat, NEW single, NEW consume,
         NEW k, NEW Q, Sum(t, state, current, random, repeat, single, consume, k, Q)
  PROVE  Sum(x, state, v, random, repeat, single, consume, k, Q)
BY DEF Took, Song, Line, Sum

LEMMA SumRandom ==
  ASSUME NEW v, NEW t, NEW x, Took(t, x, Line("random", v), {}),
         NEW state, NEW current, NEW random, NEW repeat, NEW single, NEW consume,
         NEW k, NEW Q, Sum(t, state, current, random, repeat, single, consume, k, Q)
  PROVE  Sum(x, state, current, v, repeat, single, consume, k, Q)
BY DEF Took, Song, Line, Sum

LEMMA SumRepeat ==
  ASSUME NEW v \in BOOLEAN, NEW t, NEW x, Took(t, x, Line("repeat", v), {}),
         NEW state, NEW current, NEW random, NEW single, NEW consume,
         NEW k, NEW Q, Sum(t, state, current, random, FALSE, single, consume, k, Q)
  PROVE  Sum(x, state, current, random, v, single, consume, k, Q)
BY DEF Took, Song, Line, Sum

LEMMA SumSingle ==
  ASSUME NEW v \in BOOLEAN, NEW t, NEW x, Took(t, x, Line("single", v), {}),
         NEW state, NEW current, NEW random, NEW repeat, NEW consume,
         NEW k, NEW Q, Sum(t, state, current, random, repeat, FALSE, consume, k, Q)
  PROVE  Sum(x, state, current, random, repeat, v, consume, k, Q)
BY DEF Took, Song, Line, Sum

LEMMA SumConsume ==
  ASSUME NEW v \in BOOLEAN, NEW t, NEW x, Took(t, x, Line("consume", v), {}),
         NEW state, NEW current, NEW random, NEW repeat, NEW single,
         NEW k, NEW Q, Sum(t, state, current, random, repeat, single, FALSE, k, Q)
  PROVE  Sum(x, state, current, random, repeat, single, v, k, Q)
BY DEF Took, Song, Line, Sum

LEMMA SumOther ==
  ASSUME NEW key \in {"playlist_begin", "playlist_end"}, NEW t, NEW x,
         Took(t, x, Line(key, ""), {}),
         NEW state, NEW current, NEW random, NEW repeat, NEW single, NEW consume,
         NEW k, NEW Q, Sum(t, state, current, random, repeat, single, consume, k, Q)
  PROVE  Sum(x, state, current, random, repeat, single, consume, k, Q)
BY DEF Took, Song, Line, Sum

LEMMA SumSong ==
  ASSUME NEW t, NEW x, NEW line \in Lines, Took(t, x, line, {}), line.key = "song",
         NEW state, NEW current, NEW random, NEW repeat, NEW single, NEW consume,
         NEW k \in Nat, NEW Q, Q[k + 1] = line,
         Sum(t, state, current, random, repeat, single, consume, k, Q)
  PROVE  Sum(x, state, current, random, repeat, single, consume, k + 1, Q)
<1> DEFINE a == QueueLines(t.pl.queue)  b == QueueLines(x.pl.queue)
<1>1. b = Append(a, line) /\ x.pl.queue.length = k + 1
  BY DEF Took, Song, Sum
<1>2. a \in Seq(Lines) /\ Len(a) = k /\ \A j \in 1 .. k : a[j] = Q[j]
  BY DEF Sum, Begun
<1> HIDE DEF a
<1>3. /\ b \in Seq(Lines) /\ Len(b) = k + 1 /\ b[k + 1] = line
      /\ \A j \in 1 .. k : b[j] = a[j]
  BY <1>1, <1>2, AppendProperties
<1> HIDE DEF b
<1>4. \A j \in 1 .. (k + 1) : b[j] = Q[j]
  BY <1>2, <1>3
<1>5. Begun(b, Q, k + 1)
  BY <1>3, <1>4 DEF Begun
<1>6. /\ x.state = state /\ x.current = current /\ x.random = random
      /\ x.pl.queue.repeat = repeat /\ x.pl.queue.single = single
      /\ x.pl.queue.consume = consume
  BY DEF Took, Sum
<1> QED BY <1>1, <1>5, <1>6 DEF Sum, b

LEMMA UnreadSum ==
  ASSUME NEW Q
  PROVE  Sum(Unread, "stop", -1, FALSE, FALSE, FALSE, FALSE, 0, Q)
<1>1. /\ Unread.state = "stop" /\ Unread.current = -1 /\ Unread.random = FALSE
      /\ Unread.pl.queue = EmptyQueue
  BY DEF Unread, FreshPlaylist
<1>2. /\ EmptyQueue.repeat = FALSE /\ EmptyQueue.single = FALSE
      /\ EmptyQueue.consume = FALSE /\ EmptyQueue.length = 0
  BY DEF EmptyQueue
<1>3. QueueLines(EmptyQueue) = <<>>
  BY <1>1, UnreadReads
<1>4. Begun(<<>>, Q, 0)
  BY DEF Begun
<1> QED BY <1>1, <1>2, <1>3, <1>4 DEF Sum

\* A file that was written is read as it was meant.
LEMMA WrittenRead ==
  ASSUME NEW lines, NEW q, NEW u, NEW s, Good(q, u, s), NEW state, Written(lines, s, state),
         NEW f, Reading(lines, {}, f)
  PROVE  LET t == f[Len(lines)]
         IN  /\ t.state = StateValue(s, state) /\ t.current = GetCurrentPosition(s)
             /\ t.random = s.queue.random
             /\ SameReading(s.queue, t.pl.queue)
             /\ SongsIn(lines, {}) = QueueLines(s.queue)
<1> DEFINE h == HeadLength(s)  n == s.queue.length  m == Len(lines)
           v == StateValue(s, state)  pos == GetCurrentPosition(s)
           random == s.queue.random  repeat == s.queue.repeat
           single == s.queue.single  consume == s.queue.consume
           Q == QueueLines(s.queue)
<1>1. /\ QueueOK(s.queue) /\ n \in Nat /\ (h = 1 \/ h = 2) /\ h \in Nat
      /\ random \in BOOLEAN /\ repeat \in BOOLEAN /\ single \in BOOLEAN /\ consume \in BOOLEAN
      /\ h = 1 => pos = -1
  BY GoodTypes, QueueOptions DEF QueueOK, HeadLength, GetCurrentPosition
<1>2. /\ m = h + n + 6
      /\ lines[1] = Line("state", v)
      /\ h = 2 => lines[2] = Line("current", pos)
      /\ lines[h + 1] = Line("random", random) /\ lines[h + 2] = Line("repeat", repeat)
      /\ lines[h + 3] = Line("single", single) /\ lines[h + 4] = Line("consume", consume)
      /\ lines[h + 5] = Line("playlist_begin", "")
      /\ \A i \in 1 .. n : lines[h + 5 + i] = Q[i]
      /\ lines[h + n + 6] = Line("playlist_end", "")
  BY DEF Written, CurrentLine
<1>3. Q \in Seq(Lines) /\ Len(Q) = n /\ \A i \in 1 .. n : Q[i].key = "song" /\ Q[i] \in Lines
  <2>1. Q \in Seq(Lines) /\ Len(Q) = n
    BY <1>1, QueueSongs, QueueLinesSeq
  <2>2. \A i \in 1 .. n : Q[i].key = "song"
    BY DEF QueueLines, Line
  <2> HIDE DEF Q, n
  <2> QED BY <1>1, <2>1, <2>2
<1>4. ASSUME NEW i \in 1 .. m, NEW j, j = i - 1
      PROVE  Took(f[j], f[i], lines[i], {})
  BY <1>4 DEF Reading
<1>5. f[0] = Unread /\ QueueLines(f[m].pl.queue) = SongsIn(lines, {})
  BY DEF Reading
<1> HIDE DEF h, n, m, v, pos, random, repeat, single, consume, Q
<1>30. n \in Nat /\ h \in Nat /\ (h = 1 \/ h = 2) /\ m = h + n + 6
  BY <1>1, <1>2
<1>6. Sum(f[0], "stop", -1, FALSE, FALSE, FALSE, FALSE, 0, Q)
  BY <1>5, UnreadSum
<1>7. Sum(f[1], v, -1, FALSE, FALSE, FALSE, FALSE, 0, Q)
  <2>1. 1 \in 1 .. m /\ 0 = 1 - 1
    BY <1>30
  <2>2. Took(f[0], f[1], lines[1], {})
    BY <1>4, <2>1
  <2>3. lines[1] = Line("state", v)
    BY <1>2
  <2>4. Took(f[0], f[1], Line("state", v), {})
    BY <2>2, <2>3
  <2> QED BY <1>6, <2>4, SumState
<1>8. Sum(f[h], v, pos, FALSE, FALSE, FALSE, FALSE, 0, Q)
  <2>1. CASE h = 1
    <3>1. pos = -1
      BY <1>1, <2>1
    <3> QED BY <1>7, <2>1, <3>1
  <2>2. CASE h = 2
    <3>1. 2 \in 1 .. m /\ 1 = 2 - 1
      BY <1>30, <2>2
    <3>2. Took(f[1], f[2], lines[2], {})
      BY <1>4, <3>1
    <3>3. lines[2] = Line("current", pos)
      BY <1>2, <2>2
    <3>4. Took(f[1], f[2], Line("current", pos), {})
      BY <3>2, <3>3
    <3> DEFINE x == f[1]  y == f[2]  none == -1
    <3>5. Sum(x, v, none, FALSE, FALSE, FALSE, FALSE, 0, Q) /\ Took(x, y, Line("current", pos), {})
      BY <1>7, <3>4
    <3> HIDE DEF x, y, none
    <3>6. Sum(y, v, pos, FALSE, FALSE, FALSE, FALSE, 0, Q)
      BY <3>5, SumCurrent
    <3> QED BY <2>2, <3>6 DEF y
  <2> QED BY <1>30, <2>1, <2>2
<1>9. Sum(f[h + 1], v, pos, random, FALSE, FALSE, FALSE, 0, Q)
  <2>1. h + 1 \in 1 .. m /\ h = (h + 1) - 1
    BY <1>30
  <2>2. Took(f[h], f[h + 1], lines[h + 1], {})
    BY <1>4, <2>1
  <2>3. lines[h + 1] = Line("random", random)
    BY <1>2
  <2>4. Took(f[h], f[h + 1], Line("random", random), {})
    BY <2>2, <2>3
  <2> QED BY <1>8, <2>4, SumRandom
<1>10. Sum(f[h + 2], v, pos, random, repeat, FALSE, FALSE, 0, Q)
  <2>1. h + 2 \in 1 .. m /\ h + 1 = (h + 2) - 1
    BY <1>30
  <2>2. Took(f[h + 1], f[h + 2], lines[h + 2], {})
    BY <1>4, <2>1
  <2>3. lines[h + 2] = Line("repeat", repeat)
    BY <1>2
  <2>4. Took(f[h + 1], f[h + 2], Line("repeat", repeat), {})
    BY <2>2, <2>3
  <2>5. repeat \in BOOLEAN
    BY <1>1
  <2> DEFINE x == f[h + 1]  y == f[h + 2]  zero == 0
  <2>6. Sum(x, v, pos, random, FALSE, FALSE, FALSE, zero, Q)
    BY <1>9
  <2>7. Took(x, y, Line("repeat", repeat), {})
    BY <2>4
  <2> HIDE DEF x, y, zero
  <2>8. Sum(y, v, pos, random, repeat, FALSE, FALSE, zero, Q)
    BY <2>5, <2>6, <2>7, SumRepeat
  <2> QED BY <2>8 DEF y, zero
<1>11. Sum(f[h + 3], v, pos, random, repeat, single, FALSE, 0, Q)
  <2>1. h + 3 \in 1 .. m /\ h + 2 = (h + 3) - 1
    BY <1>30
  <2>2. Took(f[h + 2], f[h + 3], lines[h + 3], {})
    BY <1>4, <2>1
  <2>3. lines[h + 3] = Line("single", single)
    BY <1>2
  <2>4. Took(f[h + 2], f[h + 3], Line("single", single), {})
    BY <2>2, <2>3
  <2>5. single \in BOOLEAN
    BY <1>1
  <2> DEFINE x == f[h + 2]  y == f[h + 3]  zero == 0
  <2>6. Sum(x, v, pos, random, repeat, FALSE, FALSE, zero, Q)
    BY <1>10
  <2>7. Took(x, y, Line("single", single), {})
    BY <2>4
  <2> HIDE DEF x, y, zero
  <2>8. Sum(y, v, pos, random, repeat, single, FALSE, zero, Q)
    BY <2>5, <2>6, <2>7, SumSingle
  <2> QED BY <2>8 DEF y, zero
<1>12. Sum(f[h + 4], v, pos, random, repeat, single, consume, 0, Q)
  <2>1. h + 4 \in 1 .. m /\ h + 3 = (h + 4) - 1
    BY <1>30
  <2>2. Took(f[h + 3], f[h + 4], lines[h + 4], {})
    BY <1>4, <2>1
  <2>3. lines[h + 4] = Line("consume", consume)
    BY <1>2
  <2>4. Took(f[h + 3], f[h + 4], Line("consume", consume), {})
    BY <2>2, <2>3
  <2>5. consume \in BOOLEAN
    BY <1>1
  <2> DEFINE x == f[h + 3]  y == f[h + 4]  zero == 0
  <2>6. Sum(x, v, pos, random, repeat, single, FALSE, zero, Q)
    BY <1>11
  <2>7. Took(x, y, Line("consume", consume), {})
    BY <2>4
  <2> HIDE DEF x, y, zero
  <2>8. Sum(y, v, pos, random, repeat, single, consume, zero, Q)
    BY <2>5, <2>6, <2>7, SumConsume
  <2> QED BY <2>8 DEF y, zero
<1>13. Sum(f[h + 5], v, pos, random, repeat, single, consume, 0, Q)
  <2>1. h + 5 \in 1 .. m /\ h + 4 = (h + 5) - 1
    BY <1>30
  <2>2. Took(f[h + 4], f[h + 5], lines[h + 5], {})
    BY <1>4, <2>1
  <2>3. lines[h + 5] = Line("playlist_begin", "")
    BY <1>2
  <2>4. Took(f[h + 4], f[h + 5], Line("playlist_begin", ""), {})
    BY <2>2, <2>3
  <2> DEFINE x == f[h + 4]  y == f[h + 5]  zero == 0  key == "playlist_begin"
  <2>5. key \in {"playlist_begin", "playlist_end"}
    OBVIOUS
  <2>6. Sum(x, v, pos, random, repeat, single, consume, zero, Q)
    BY <1>12
  <2>7. Took(x, y, Line(key, ""), {})
    BY <2>4
  <2> HIDE DEF x, y, zero, key
  <2>8. Sum(y, v, pos, random, repeat, single, consume, zero, Q)
    BY <2>5, <2>6, <2>7, SumOther
  <2> QED BY <2>8 DEF y, zero
<1> DEFINE Fine(i) == Sum(f[h + 5 + i], v, pos, random, repeat, single, consume, i, Q)
           bad == {i \in 0 .. n : ~Fine(i)}
<1>14. ASSUME NEW i \in 1 .. n, Fine(i - 1)
       PROVE  Fine(i)
  <2> DEFINE j == h + 5 + i  l == h + 5 + (i - 1)  k == i - 1
  <2>1. j \in 1 .. m
    BY <1>30
  <2>2. l = j - 1 /\ k + 1 = i /\ k \in Nat
    BY <1>30
  <2>3. Sum(f[l], v, pos, random, repeat, single, consume, k, Q)
    BY <1>14
  <2>4. lines[j] = Q[i] /\ lines[j].key = "song" /\ lines[j] \in Lines
    <3>1. lines[j] = Q[i]
      BY <1>2
    <3>2. Q[i].key = "song" /\ Q[i] \in Lines
      BY <1>3
    <3> QED BY <3>1, <3>2
  <2>5. Took(f[l], f[j], lines[j], {})
    <3> HIDE DEF j, l
    <3> QED BY <1>4, <2>1, <2>2
  <2> HIDE DEF j, l, k
  <2>6. Q[k + 1] = lines[j]
    BY <2>2, <2>4
  <2>7. Sum(f[j], v, pos, random, repeat, single, consume, k + 1, Q)
    BY <2>2, <2>3, <2>4, <2>5, <2>6, SumSong
  <2> QED BY <2>2, <2>7 DEF j
<1>15. Fine(0)
  <2>1. h + 5 + 0 = h + 5
    BY <1>30
  <2> QED BY <1>13, <2>1
<1>16. bad = {}
  <2> SUFFICES ASSUME bad # {} PROVE FALSE
    OBVIOUS
  <2>1. bad \subseteq Nat
    BY <1>30
  <2>2. PICK i \in bad : \A j \in bad : i <= j
    BY <2>1, LeastNatural
  <2>3. i \in 0 .. n /\ ~Fine(i)
    BY <2>2
  <2> HIDE DEF Fine
  <2>4. i # 0
    BY <1>15, <2>3
  <2>5. i \in 1 .. n /\ i - 1 \in 0 .. n /\ ~(i <= i - 1)
    BY <1>30, <2>3, <2>4
  <2>6. Fine(i - 1)
    BY <2>2, <2>5
  <2> QED BY <1>14, <2>3, <2>5, <2>6
<1>17. Sum(f[h + 5 + n], v, pos, random, repeat, single, consume, n, Q)
  <2>1. n \in 0 .. n
    BY <1>30
  <2>2. Fine(n)
    <3> HIDE DEF Fine
    <3> QED BY <1>16, <2>1
  <2> QED BY <2>2
<1>18. Sum(f[m], v, pos, random, repeat, single, consume, n, Q)
  <2> DEFINE j == h + 5 + n  key == "playlist_end"
  <2>1. m \in 1 .. m /\ j = m - 1 /\ m = h + n + 6
    BY <1>30
  <2>3. lines[h + n + 6] = Line(key, "")
    BY <1>2
  <2>5. key \in {"playlist_begin", "playlist_end"}
    OBVIOUS
  <2>4. Sum(f[j], v, pos, random, repeat, single, consume, n, Q)
    BY <1>17
  <2> HIDE DEF j, key
  <2>2. Took(f[j], f[m], lines[m], {})
    BY <1>4, <2>1
  <2>6. lines[m] = Line(key, "")
    BY <2>1, <2>3
  <2>7. Took(f[j], f[m], Line(key, ""), {})
    BY <2>2, <2>6
  <2> QED BY <2>4, <2>5, <2>7, SumOther
<1> DEFINE t == f[m]  a == QueueLines(t.pl.queue)
<1>19. a = Q
  <2>1. a \in Seq(Lines) /\ Len(a) = n /\ \A i \in 1 .. n : a[i] = Q[i]
    BY <1>18 DEF Sum, Begun
  <2> HIDE DEF a
  <2> QED BY <1>3, <2>1, SeqEqual
<1>20. /\ t.state = v /\ t.current = pos /\ t.random = random
       /\ t.pl.queue.repeat = repeat /\ t.pl.queue.single = single
       /\ t.pl.queue.consume = consume /\ t.pl.queue.length = n
  BY <1>18 DEF Sum
<1>21. SongsIn(lines, {}) = Q
  BY <1>5, <1>19
<1>22. SameReading(s.queue, t.pl.queue)
  BY <1>19, <1>20 DEF SameReading, n, repeat, single, consume, Q
<1> QED BY <1>20, <1>21, <1>22 DEF m, v, pos, random, Q

\* The file of the first start
LEMMA LoadedQueueOK == MayBe(LoadedQueue)
<1> DEFINE q == QueueOf(Loaded)
           items == [p \in Positions(q) |-> [q.items[p] EXCEPT !.priority = LoadedPrio[p + 1]]]
           r == [q EXCEPT !.items = items]
<1>1. QueueOK(q) /\ ~q.random /\ ~q.repeat /\ q.length = Len(Loaded)
  BY QueueOfOK
<1>2. LoadedQueue = r
  <2>1. QueueTypeOK(q)
    BY <1>1 DEF QueueOK
  <2> QED BY <2>1 DEF LoadedQueue, QueueTypeOK, QueueFields
<1> HIDE DEF q
<1>3. /\ q.length \in Nat /\ Positions(q) = 0 .. (q.length - 1)
      /\ q.items \in [Positions(q) -> Item] /\ DOMAIN q = QueueFields
  BY <1>1, QueueTypes DEF QueueOK, QueueTypeOK
<1>4. ASSUME NEW p \in Positions(q)
      PROVE  LoadedPrio[p + 1] \in Priorities
  <2>1. p + 1 \in 1 .. Len(LoadedPrio)
    BY <1>1, <1>3, StateFileAssumption
  <2> DEFINE a == LoadedPrio  k == p + 1  S == Priorities
  <2>2. a \in Seq(S) /\ k \in 1 .. Len(a)
    BY <2>1, StateFileAssumption
  <2> HIDE DEF a, k, S
  <2>3. a[k] \in S
    BY <2>2
  <2> QED BY <2>3 DEF a, k, S
<1>5. ASSUME NEW p \in Positions(q)
      PROVE  items[p] \in Item /\ items[p].id = q.items[p].id
  <2> DEFINE x == q.items[p]  priority == LoadedPrio[p + 1]
  <2>1. x \in Item /\ priority \in Priorities
    BY <1>3, <1>4
  <2>2. items[p] = [x EXCEPT !.priority = priority]
    OBVIOUS
  <2> HIDE DEF x, priority, items
  <2>3. [x EXCEPT !.priority = priority] \in Item /\ [x EXCEPT !.priority = priority].id = x.id
    BY <2>1 DEF Item
  <2> QED BY <2>2, <2>3 DEF x
<1>6. items \in [Positions(q) -> Item]
  BY <1>5
<1> HIDE DEF items
<1>7. /\ DOMAIN r = QueueFields /\ r.items = items /\ r.length = q.length /\ r.order = q.order
      /\ r.data = q.data /\ r.next = q.next /\ r.version = q.version /\ r.repeat = q.repeat
      /\ r.single = q.single /\ r.consume = q.consume /\ r.random = q.random
  BY <1>3 DEF QueueFields
<1> HIDE DEF r
<1>8. Positions(r) = Positions(q)
  BY <1>7 DEF Positions
<1>9. QueueTypeOK(r)
  BY <1>1, <1>6, <1>7, <1>8 DEF QueueOK, QueueTypeOK
<1>10. OrderIsPermutation(r) /\ OrderIsPosition(r)
  BY <1>1, <1>7, <1>8 DEF QueueOK, OrderIsPermutation, OrderIsPosition
<1>11. IdTableMatches(r)
  <2>1. \A p \in Positions(r) : r.data[r.items[p].id] = p
    BY <1>1, <1>5, <1>7, <1>8 DEF QueueOK, IdTableMatches
  <2>2. \A i \in Ids : r.data[i] >= 0 =>
          r.data[i] \in Positions(r) /\ r.items[r.data[i]].id = i
    BY <1>1, <1>5, <1>7, <1>8 DEF QueueOK, IdTableMatches
  <2> QED BY <2>1, <2>2 DEF IdTableMatches
<1>12. QueueOK(r)
  BY <1>9, <1>10, <1>11 DEF QueueOK
<1> QED BY <1>1, <1>2, <1>7, <1>12 DEF MayBe

\* What is saved is a file that can be read.
LEMMA SavedFileOK ==
  ASSUME NEW q, NEW u, NEW s, Good(q, u, s), NEW state
  PROVE  FileOK(Saved(s, state)) /\ Written(Saved(s, state), s, state)
<1> DEFINE lines == Saved(s, state)
<1>1. Written(lines, s, state) /\ QueueOK(s.queue)
  BY SavedLines, GoodTypes
<1> HIDE DEF lines
<1> QED BY <1>1, WrittenFileOK DEF lines

LEMMA FirstFileOK == FileOK(Saved([FreshPlaylist EXCEPT !.queue = LoadedQueue], "STOP"))
<1> DEFINE s == FreshPlaylist  r == LoadedQueue  k == -1
           t == [s EXCEPT !.queue = r, !.current = k]  x == [s EXCEPT !.queue = r]
<1>1. Quiet(s) /\ s.current = k /\ DOMAIN s = PlFields
  BY FreshQuiet, QuietTypes DEF Shape
<1>2. MayBe(r) /\ k \in -1 .. (r.length - 1)
  <2>1. MayBe(r)
    BY LoadedQueueOK
  <2> HIDE DEF r
  <2> QED BY <2>1, QueueTypes DEF MayBe
<1> HIDE DEF s, r, k
<1>3. t = x
  BY <1>1 DEF PlFields
<1>4. Quiet(t)
  BY <1>1, <1>2, QuietQueue
<1> HIDE DEF t
<1>5. Good(EmptyQueue, Silence, x)
  BY <1>3, <1>4 DEF Quiet
<1> HIDE DEF x
<1>6. FileOK(Saved(x, "STOP"))
  BY <1>5, SavedFileOK
<1> QED BY <1>6 DEF x, s, r

\* A write that was cut short leaves a file that can be read.
LEMMA PrefixesOK ==
  ASSUME NEW lines, FileOK(lines), NEW cut \in Prefixes(lines)
  PROVE  FileOK(cut)
<1>1. lines \in Seq(Lines) /\ Len(lines) \in Nat
  BY DEF FileOK
<1>2. PICK b \in Nat : \A i \in 1 .. Len(lines) :
                         lines[i].key = "song" => b < i /\ i <= b + MaxLength
  BY DEF FileOK
<1>3. PICK n \in Losses :
        cut = SubSeq(lines, 1, IF n < Len(lines) THEN Len(lines) - n ELSE 0)
  BY DEF Prefixes
<1> DEFINE k == IF n < Len(lines) THEN Len(lines) - n ELSE 0
<1>4. k \in Nat /\ k <= Len(lines)
  BY <1>1, StateFileAssumption
<1>5. cut = SubSeq(lines, 1, k)
  BY <1>3
<1> HIDE DEF k
<1>6. \A i \in 1 .. k : lines[i] \in Lines
  BY <1>1, <1>4
<1>7. cut \in Seq(Lines) /\ Len(cut) = k /\ \A i \in 1 .. k : cut[i] = lines[i]
  <2> DEFINE one == 1
  <2>1. one \in Int /\ k \in Int
    BY <1>4
  <2>2. \A i \in one .. k : lines[i] \in Lines
    BY <1>6
  <2>3. /\ SubSeq(lines, one, k) \in Seq(Lines)
        /\ Len(SubSeq(lines, one, k)) = IF one <= k THEN k - one + 1 ELSE 0
        /\ \A i \in 1 .. (k - one + 1) : SubSeq(lines, one, k)[i] = lines[one + i - 1]
    <3> HIDE DEF one
    <3> QED BY <2>1, <2>2, SubSeqProperties
  <2>4. Len(cut) = k
    BY <1>4, <1>5, <2>3
  <2>5. ASSUME NEW i \in 1 .. k PROVE cut[i] = lines[i]
    <3>1. i \in 1 .. (k - one + 1) /\ one + i - 1 = i
      BY <1>4
    <3> QED BY <1>5, <2>3, <3>1
  <2> QED BY <1>5, <2>3, <2>4, <2>5
<1>8. \A i \in 1 .. Len(cut) : cut[i].key = "song" => b < i /\ i <= b + MaxLength
  <2> SUFFICES ASSUME NEW i \in 1 .. k, cut[i].key = "song"
               PROVE  b < i /\ i <= b + MaxLength
    BY <1>7
  <2>1. i \in 1 .. Len(lines) /\ cut[i] = lines[i]
    BY <1>1, <1>4, <1>7
  <2> QED BY <1>2, <2>1
<1> QED BY <1>7, <1>8 DEF FileOK

-----------------------------------------------------------------------------
(* The process.                                                            *)

\* The queue is the one that was written or read.
Matches == \E gone \in SUBSET Vanishing : QueueLines(pl.queue) = SongsIn(file, gone)

\* The version is the one that is remembered, if one is.
Remembered == prev_version # <<>> /\ prev_version[1] = pl.queue.version

(* The inductive invariant: the file can be read; as long as the version is
   the one that is remembered, and no bulk edit has changed the queue without
   telling so, the queue is the one in the file; and it is the one that is
   remembered unless a write is to come or the file has failed to open. *)
FileInv ==
  /\ PlInv /\ FileOK(file)
  /\ phase \in {"run", "remember"}
  /\ phase = "remember" => pl.bulk_edit = FALSE /\ Matches
  /\ phase = "run" =>
       /\ prev_version # <<>> =>
            prev_version[1] \in Int /\ prev_version[1] <= pl.queue.version
       /\ Remembered /\ ~Untold(pl) => Matches
       /\ ~timer /\ ~notice /\ ~failed => Remembered

LEMMA PlInvTypes ==
  ASSUME PlInv
  PROVE  pl.queue.version \in Int /\ pl.bulk_edit \in BOOLEAN /\ DOMAIN pl = PlFields
<1>1. PICK u : Good(pl.queue, u, pl)
  BY DEF PlInv
<1>2. QueueOK(pl.queue) /\ pl.bulk_edit \in BOOLEAN /\ DOMAIN pl = PlFields
  BY <1>1, GoodTypes
<1> QED BY <1>2 DEF QueueOK, QueueTypeOK

\* MPD starts with what it reads.
LEMMA StartOK ==
  ASSUME NEW lines, FileOK(lines), NEW gone, NEW s \in Restored(lines, gone)
  PROVE  /\ Good(s.queue, Silence, s) /\ s.bulk_edit = FALSE
         /\ QueueLines(s.queue) = SongsIn(lines, gone)
<1>1. PICK f : Reading(lines, gone, f) /\ Restores(f[Len(lines)], s)
  BY RestoredOK
<1>2. Good(s.queue, Silence, s) /\ s.bulk_edit = FALSE
  BY <1>1, Rebase DEF Restores
<1>3. QueueLines(s.queue) = SongsIn(lines, gone)
  BY <1>1 DEF Restores, Reading, SameReading
<1> QED BY <1>2, <1>3

\* What is saved is what will be read.
LEMMA SavedMatches ==
  ASSUME PlInv
  PROVE  FileOK(SavedNow) /\ QueueLines(pl.queue) = SongsIn(SavedNow, {})
<1>1. PICK u : Good(pl.queue, u, pl)
  BY DEF PlInv
<1> DEFINE q == pl.queue  state == player.state  lines == SavedNow  none == {}
<1>2. FileOK(lines) /\ Written(lines, pl, state)
  BY <1>1, SavedFileOK DEF SavedNow
<1> HIDE DEF lines, state, q
<1>3. PICK f : Reading(lines, {}, f)
  BY <1>2, ReadingOK
<1>4. Good(q, u, pl)
  BY <1>1 DEF q
<1>5. SongsIn(lines, {}) = QueueLines(pl.queue)
  BY <1>2, <1>3, <1>4, WrittenRead
<1> QED BY <1>2, <1>5 DEF lines

LEMMA FileInit == ASSUME StateInit PROVE FileInv
<1>1. FileOK(file)
  BY FirstFileOK DEF StateInit
<1>2. PlInv /\ pl.bulk_edit = FALSE /\ Matches
  <2> DEFINE gone == {}
  <2>1. gone \in SUBSET Vanishing /\ pl \in Restored(file, gone) /\ player = FreshPlayer
    BY DEF StateInit
  <2> HIDE DEF gone
  <2>2. /\ Good(pl.queue, Silence, pl) /\ pl.bulk_edit = FALSE
        /\ QueueLines(pl.queue) = SongsIn(file, gone)
    BY <1>1, <2>1, StartOK
  <2>3. PlayerOK /\ Agrees(Silence)
    BY <2>1 DEF FreshPlayer, PlayerOK, Agrees, Silence, SongIds
  <2> QED BY <2>1, <2>2, <2>3 DEF PlInv, Matches
<1>3. phase = "remember"
  BY DEF StateInit
<1> QED BY <1>1, <1>2, <1>3 DEF FileInv

\* A handler of the playlist
LEMMA HandleInv == ASSUME FileInv, Handle PROVE FileInv'
<1>1. /\ phase = "run" /\ phase' = "run" /\ (Edit \/ Control \/ Sync)
      /\ pl'.queue.version >= pl.queue.version
      /\ notice' = (notice \/ pl'.queue.version # pl.queue.version)
      /\ file' = file /\ prev_version' = prev_version
      /\ timer' = timer /\ failed' = failed
  BY DEF Handle
<1>2. PlInv /\ PlInv'
  <2>1. [Next]_vars
    BY <1>1 DEF Next
  <2>2. PlInv
    BY DEF FileInv
  <2> QED BY <2>1, <2>2, NextInv
<1>3. pl.queue.version \in Int /\ pl'.queue.version \in Int
  <2>1. PICK u : Good(pl'.queue, u, pl')
    BY <1>2 DEF PlInv
  <2>2. QueueOK(pl'.queue)
    BY <2>1, GoodTypes
  <2>3. pl'.queue.version \in Int
    BY <2>2 DEF QueueOK, QueueTypeOK
  <2> QED BY <1>2, <2>3, PlInvTypes
<1>4. Noticed(pl, pl')
  BY <1>1, <1>2, HandlerNoticed
<1>5. pl.queue.version \in Int /\ pl'.queue.version \in Int /\ pl'.queue.version >= pl.queue.version
  BY <1>1, <1>3
<1> DEFINE prev == prev_version[1]  v == pl.queue.version  w == pl'.queue.version
<1>6. prev_version # <<>> => prev \in Int /\ prev <= v
  BY <1>1 DEF FileInv
<1>7. prev_version # <<>> => prev \in Int /\ prev <= w /\ (prev = w => w = v)
  <2> HIDE DEF prev, v, w
  <2>1. v \in Int /\ w \in Int /\ w >= v
    BY <1>5 DEF v, w
  <2> QED BY <1>6, <2>1
<1>8. Remembered' => prev_version # <<>> /\ prev = w
  BY <1>1 DEF Remembered
<1>9. ASSUME Remembered', ~Untold(pl')
      PROVE  Matches'
  <2>1. w = v /\ Remembered
    BY <1>7, <1>8, <1>9 DEF Remembered
  <2>2. pl'.queue.items = pl.queue.items /\ pl'.queue.length = pl.queue.length /\ ~Untold(pl)
    BY <1>4, <1>9, <2>1 DEF Noticed
  <2>3. Matches
    BY <1>1, <2>1, <2>2 DEF FileInv
  <2>4. QueueLines(pl'.queue) = QueueLines(pl.queue)
    BY <2>2, QueueLinesSame
  <2> QED BY <1>1, <2>3, <2>4 DEF Matches
<1>10. ~timer' /\ ~notice' /\ ~failed' => Remembered'
  BY <1>1 DEF FileInv, Remembered
<1>11. FileOK(file)'
  BY <1>1 DEF FileInv
<1>12. prev_version' # <<>> => prev_version'[1] \in Int /\ prev_version'[1] <= pl'.queue.version
  BY <1>1, <1>7
<1>13. Remembered' /\ ~Untold(pl)' => Matches'
  BY <1>9 DEF Untold
<1> HIDE DEF prev
<1> QED BY <1>1, <1>2, <1>10, <1>11, <1>12, <1>13 DEF FileInv

\* The player thread changes no song of the queue.
LEMMA PlayerInv == ASSUME FileInv, Player PROVE FileInv'
<1>1. /\ PlayerCall \/ PlayerStep
      /\ notice' = (notice \/ player'.state # player.state \/ player'.song # player.song)
      /\ file' = file /\ prev_version' = prev_version
      /\ timer' = timer /\ phase' = phase /\ failed' = failed
  BY DEF Player
<1>2. PlInv /\ PlInv' /\ DOMAIN pl = PlFields
  BY <1>1, NextInv, PlInvTypes DEF FileInv, Next
<1>3. /\ pl'.queue = pl.queue /\ pl'.bulk_edit = pl.bulk_edit
      /\ pl'.bulk_modified = pl.bulk_modified
  <2>1. CASE PlayerCall
    BY <1>2, <2>1 DEF PlayerCall, Assert, PlFields
  <2>2. CASE PlayerStep
    BY <2>2 DEF PlayerStep, SongBorder, SongEnd, DecoderFailure, OutputFailure
  <2> QED BY <1>1, <2>1, <2>2
<1>4. /\ Matches' <=> Matches
      /\ Untold(pl)' <=> Untold(pl)
      /\ FileOK(file)' <=> FileOK(file)
      /\ Remembered' <=> Remembered
  BY <1>1, <1>3 DEF Matches, Untold, Remembered
<1> QED BY <1>1, <1>2, <1>3, <1>4 DEF FileInv

LEMMA HashHasVersion == Hash[1] = pl.queue.version /\ Hash # <<>>
BY DEF Hash

LEMMA VersionsInv ==
  ASSUME FileInv, CheckModified \/ RememberVersions
  PROVE  FileInv'
<1>1. PlInv' /\ (Matches' <=> Matches) /\ (FileOK(file)' <=> FileOK(file)) /\ pl' = pl
  BY DEF FileInv, CheckModified, RememberVersions, allVars, vars, PlInv, PlayerOK, Agrees,
         CanFail, SongsOf, Positions, Matches
<1>2. Hash[1] = pl.queue.version /\ Hash # <<>>
  BY HashHasVersion
<1>3. pl.queue.version \in Int
  BY PlInvTypes DEF FileInv
<1>4. CASE CheckModified
  <2>1. /\ phase = "run" /\ phase' = phase /\ prev_version' = prev_version
        /\ timer' = (timer \/ Hash # prev_version)
    BY <1>4 DEF CheckModified
  <2>2. Remembered' <=> Remembered
    BY <1>1, <2>1 DEF Remembered
  <2>3. ~timer' => Remembered'
    BY <1>2, <2>1, <2>2 DEF Remembered
  <2>4. Untold(pl)' <=> Untold(pl)
    BY <1>1 DEF Untold
  <2> QED BY <1>1, <2>1, <2>2, <2>3, <2>4 DEF FileInv
<1>5. CASE RememberVersions
  <2>1. phase = "remember" /\ phase' = "run" /\ prev_version' = Hash
    BY <1>5 DEF RememberVersions
  <2>2. Remembered' /\ prev_version'[1] \in Int /\ prev_version'[1] <= pl'.queue.version
    BY <1>1, <1>2, <1>3, <2>1 DEF Remembered
  <2>3. Matches'
    BY <1>1, <2>1 DEF FileInv
  <2> QED BY <1>1, <2>1, <2>2, <2>3 DEF FileInv
<1> QED BY <1>4, <1>5

LEMMA WriteInv == ASSUME FileInv, OnTimeout PROVE FileInv'
<1>1. InMainLoop /\ phase = "run" /\ pl' = pl /\ player' = player /\ prev_version' = prev_version
  BY DEF OnTimeout, vars
<1>2. PlInv' /\ PlInv
  BY <1>1 DEF FileInv, PlInv, PlayerOK, Agrees, CanFail, SongsOf, Positions
<1>3. CASE file' = SavedNow /\ phase' = "remember"
  <2>1. FileOK(SavedNow) /\ QueueLines(pl.queue) = SongsIn(SavedNow, {})
    BY <1>2, SavedMatches
  <2>2. FileOK(file)' /\ Matches'
    BY <1>1, <1>3, <2>1 DEF Matches
  <2>3. pl'.bulk_edit = FALSE
    BY <1>1, <1>2, PlInvTypes DEF InMainLoop
  <2> QED BY <1>2, <1>3, <2>2, <2>3 DEF FileInv
<1>4. CASE failed' = TRUE /\ UNCHANGED <<file, phase>>
  <2>1. /\ Matches' <=> Matches
        /\ Untold(pl)' <=> Untold(pl)
        /\ FileOK(file)' <=> FileOK(file)
        /\ Remembered' <=> Remembered
    BY <1>1, <1>4 DEF Matches, Untold, Remembered
  <2> QED BY <1>1, <1>2, <1>4, <2>1 DEF FileInv
<1> QED BY <1>3, <1>4 DEF OnTimeout

LEMMA RestartInv == ASSUME FileInv, Restart PROVE FileInv'
<1>1. FileOK(file')
  <2>1. CASE UNCHANGED file
    BY <2>1 DEF FileInv
  <2>2. CASE file' \in Prefixes(SavedNow)
    <3>1. FileOK(SavedNow)
      BY SavedMatches DEF FileInv
    <3> QED BY <2>2, <3>1, PrefixesOK
  <2> QED BY <2>1, <2>2 DEF Restart
<1>2. PlayerOK' /\ Agrees(Silence)'
  <2>1. player' = FreshPlayer
    BY DEF Restart
  <2> QED BY <2>1 DEF FreshPlayer, PlayerOK, Agrees, Silence, SongIds
<1>3. CASE phase' = "remember" /\ \E gone \in SUBSET Vanishing : pl' \in Restored(file', gone)
  <2>1. PICK gone \in SUBSET Vanishing : pl' \in Restored(file', gone)
    BY <1>3
  <2>2. /\ Good(pl'.queue, Silence, pl') /\ pl'.bulk_edit = FALSE
        /\ QueueLines(pl'.queue) = SongsIn(file', gone)
    BY <1>1, <2>1, StartOK
  <2>3. PlInv' /\ Matches'
    BY <1>2, <2>2 DEF PlInv, Matches
  <2> QED BY <1>1, <1>3, <2>2, <2>3 DEF FileInv
<1>4. CASE pl' = FreshPlaylist /\ failed' = TRUE /\ phase' = "run"
  <2>1. Good(pl'.queue, Silence, pl')
    <3>1. FreshPlaylist.queue = EmptyQueue
      BY DEF FreshPlaylist
    <3> QED BY <1>4, <3>1, FreshQuiet DEF Quiet
  <2>2. PlInv'
    BY <1>2, <2>1 DEF PlInv
  <2>3. prev_version' = <<>> /\ ~Remembered'
    BY DEF Restart, Remembered
  <2> QED BY <1>1, <1>4, <2>2, <2>3 DEF FileInv
<1> QED BY <1>3, <1>4 DEF Restart

LEMMA FileInvariant == StateSpec => []FileInv
<1>1. ASSUME FileInv, [StateNext]_allVars PROVE FileInv'
  <2>1. CASE UNCHANGED allVars
    <3>1. UNCHANGED vars /\ UNCHANGED stateVars
      BY <2>1 DEF allVars
    <3>2. PlInv'
      BY <1>1, <3>1, NextInv DEF FileInv
    <3>3. /\ Matches' <=> Matches
          /\ Untold(pl)' <=> Untold(pl)
          /\ FileOK(file)' <=> FileOK(file)
          /\ Remembered' <=> Remembered
      BY <3>1 DEF vars, stateVars, Matches, Untold, Remembered
    <3> QED BY <1>1, <3>1, <3>2, <3>3 DEF FileInv, vars, stateVars
  <2> QED BY <1>1, <2>1, HandleInv, PlayerInv, VersionsInv, WriteInv, RestartInv DEF StateNext
<1> QED BY <1>1, FileInit, PTL DEF StateSpec

(* No assertion fails after MPD was restarted either, whatever a crash has left
   of the state file (playlist_state_restore). *)
THEOREM RestoredPlaylistAssertionsHold == StateSpec => []AssertionsHold
<1>1. ASSUME FileInv PROVE AssertionsHold
  <2>1. PICK u : Good(pl.queue, u, pl)
    BY <1>1 DEF FileInv, PlInv
  <2> QED BY <2>1 DEF Good, Pending, PlOK, AssertionsHold
<1> QED BY <1>1, FileInvariant, PTL

(* No edit is forgotten: a queue that differs from the one that was written or
   read is going to be written, or an idle event that leads to it is pending, or
   the file has failed to open and the next idle event leads to it
   (StateFile::CheckModified, OnTimeout, Write and RememberVersions). *)
THEOREM EditsWillBeWritten == StateSpec => []EditsAreWritten
<1>1. ASSUME FileInv PROVE EditsAreWritten
  <2> SUFFICES ASSUME phase = "run", InMainLoop, ~timer, ~notice, ~Matches
               PROVE  failed /\ Hash # prev_version
    BY DEF EditsAreWritten, Matches
  <2>1. ~Untold(pl)
    BY DEF InMainLoop, Untold
  <2>2. ~Remembered /\ failed
    BY <1>1, <2>1 DEF FileInv
  <2>3. Hash # prev_version
    BY <2>2, HashHasVersion DEF Remembered
  <2> QED BY <2>2, <2>3
<1> QED BY <1>1, FileInvariant, PTL

(* What is saved is restored: the songs in their positions with their
   priorities, the options, whether it plays, and the current song, but that of
   a stopped playlist in random mode (playlist_state_save, playlist_state_restore,
   queue_save, queue_load_song). *)
THEOREM SavedIsRestored == StateSpec => []RestoredAsSaved
<1>1. ASSUME PlInv, NEW s \in Restored(SavedNow, {})
      PROVE  /\ QueueLines(s.queue) = QueueLines(pl.queue)
             /\ Options(s.queue) = Options(pl.queue)
             /\ s.playing = pl.playing
             /\ s.current >= 0 /\ pl.current >= 0 /\ (pl.playing \/ ~pl.queue.random)
                  => GetCurrentPosition(s) = GetCurrentPosition(pl)
  <2>1. PICK u : Good(pl.queue, u, pl)
    BY <1>1 DEF PlInv
  <2> DEFINE q == pl.queue  lines == SavedNow  state == player.state
  <2>2. FileOK(lines) /\ Written(lines, pl, state) /\ Good(q, u, pl) /\ s \in Restored(lines, {})
    BY <1>1, <2>1, SavedFileOK DEF SavedNow
  <2> HIDE DEF q, lines, state
  <2>3. PICK f : Reading(lines, {}, f) /\ Restores(f[Len(lines)], s)
    BY <2>2, RestoredOK
  <2> DEFINE t == f[Len(lines)]
  <2>4. /\ t.state = StateValue(pl, state) /\ t.current = GetCurrentPosition(pl)
        /\ t.random = pl.queue.random /\ SameReading(pl.queue, t.pl.queue)
    BY <2>2, <2>3, WrittenRead
  <2>5. Restores(t, s)
    BY <2>3
  <2> HIDE DEF t
  <2>6. SameReading(pl.queue, s.queue) /\ s.queue.random = pl.queue.random
    BY <2>4, <2>5, SameReadingTrans DEF Restores
  <2>7. /\ pl.queue.length \in Nat /\ Positions(pl.queue) = 0 .. (pl.queue.length - 1)
        /\ pl.current \in Int /\ (pl.playing => pl.current >= 0) /\ pl.playing \in BOOLEAN
        /\ pl.current >= 0 => pl.current \in Positions(pl.queue)
        /\ pl.queue.order \in [Positions(pl.queue) -> Positions(pl.queue)]
    BY <2>1, GoodTypes, QueueTypes
  <2>8. t.state = "stop" <=> ~pl.playing
    BY <2>4 DEF StateValue
  <2>9. t.pl.queue.length = pl.queue.length
    BY <2>4 DEF SameReading
  <2>10. pl.playing => pl.queue.length # 0
    BY <2>7
  <2>11. s.playing = pl.playing
    <3>1. CASE pl.playing
      <4>1. s.playing = TRUE
        BY <2>5, <2>8, <2>9, <2>10, <3>1 DEF Restores
      <4> QED BY <2>7, <3>1, <4>1
    <3>2. CASE ~pl.playing
      <4>1. s.playing = FALSE
        BY <2>5, <2>8, <3>2 DEF Restores
      <4> QED BY <2>7, <3>2, <4>1
    <3> QED BY <3>1, <3>2
  <2>12. ASSUME s.current >= 0, pl.current >= 0, pl.playing \/ ~pl.queue.random
         PROVE  GetCurrentPosition(s) = GetCurrentPosition(pl)
    <3>1. GetCurrentPosition(s) = RestoredPosition(t.pl, t.current)
      BY <2>4, <2>5, <2>8, <2>12 DEF Restores
    <3>2. GetCurrentPosition(pl) \in Positions(pl.queue)
      BY <2>7, <2>12 DEF GetCurrentPosition
    <3>3. Positions(t.pl.queue) = Positions(pl.queue)
      BY <2>9 DEF Positions
    <3> QED BY <2>4, <3>1, <3>2, <3>3 DEF RestoredPosition
  <2>13. QueueLines(s.queue) = QueueLines(pl.queue) /\ Options(s.queue) = Options(pl.queue)
    BY <2>6 DEF SameReading, Options
  <2> QED BY <2>11, <2>12, <2>13
<1>2. ASSUME FileInv PROVE RestoredAsSaved
  BY <1>1, <1>2 DEF FileInv, RestoredAsSaved
<1> QED BY <1>2, FileInvariant, PTL

-----------------------------------------------------------------------------
(* What consume mode removes.                                              *)

IdsIn(q) == {q.items[p].id : p \in Positions(q)}

LEMMA DistinctIds ==
  ASSUME NEW r, QueueOK(r), NEW j \in Positions(r), NEW k \in Positions(r),
         r.items[j].id = r.items[k].id
  PROVE  j = k
BY DEF QueueOK, IdTableMatches

\* DeletePosition() removes one song.
LEMMA DeletedIds ==
  ASSUME NEW r, QueueOK(r), NEW position \in Positions(r)
  PROVE  IdsIn(DeletePosition(r, position)) = IdsIn(r) \ {r.items[position].id}
<1> DEFINE s == DeletePosition(r, position)
           n == r.length - 1
           items == [p \in 0 .. (n - 1) |->
                       IF p < position THEN r.items[p] ELSE Stamp(r, r.items[p + 1])]
<1>1. /\ n \in Nat /\ Positions(r) = 0 .. n /\ position \in 0 .. n
      /\ r.items \in [0 .. n -> Item] /\ position \in Int
  BY QueueTypes
<1>2. s.length = n /\ s.items = items
  BY DEF DeletePosition, QueueOK, QueueTypeOK, QueueFields
<1>3. Positions(s) = 0 .. (n - 1)
  BY <1>2 DEF Positions
<1> HIDE DEF s, n
<1>4. ASSUME NEW x \in Item
      PROVE  Stamp(r, x).id = x.id
  BY DEF Stamp, Item
<1>5. ASSUME NEW p \in 0 .. (n - 1)
      PROVE  s.items[p].id = IF p < position THEN r.items[p].id ELSE r.items[p + 1].id
  <2>1. p + 1 \in 0 .. n
    BY <1>1
  <2>2. r.items[p + 1] \in Item
    BY <1>1, <2>1
  <2> QED BY <1>2, <1>4, <2>2
<1>6. ASSUME NEW p \in 0 .. (n - 1)
      PROVE  s.items[p].id \in IdsIn(r) \ {r.items[position].id}
  <2> DEFINE j == IF p < position THEN p ELSE p + 1
  <2>1. j \in 0 .. n /\ j # position
    BY <1>1
  <2>2. s.items[p].id = r.items[j].id
    BY <1>5
  <2> HIDE DEF j
  <2>3. r.items[j].id # r.items[position].id
    BY <1>1, <2>1, DistinctIds
  <2> QED BY <1>1, <2>1, <2>2, <2>3 DEF IdsIn
<1>7. ASSUME NEW j \in 0 .. n, r.items[j].id # r.items[position].id
      PROVE  \E p \in 0 .. (n - 1) : s.items[p].id = r.items[j].id
  <2>1. j # position
    BY <1>7
  <2>2. CASE j < position
    <3>1. j \in 0 .. (n - 1)
      BY <1>1, <2>2
    <3>2. s.items[j].id = r.items[j].id
      BY <1>5, <2>2, <3>1
    <3> QED BY <3>1, <3>2
  <2>3. CASE ~(j < position)
    <3> DEFINE p == j - 1
    <3>1. p \in 0 .. (n - 1) /\ ~(p < position) /\ p + 1 = j
      BY <1>1, <2>1, <2>3
    <3> HIDE DEF p
    <3>2. s.items[p].id = r.items[j].id
      BY <1>5, <3>1
    <3> QED BY <3>1, <3>2
  <2> QED BY <2>2, <2>3
<1> DEFINE gone == r.items[position].id
<1>8. IdsIn(s) \subseteq IdsIn(r) \ {gone}
  BY <1>3, <1>6 DEF IdsIn
<1>9. IdsIn(r) \ {gone} \subseteq IdsIn(s)
  BY <1>1, <1>3, <1>7 DEF IdsIn
<1> HIDE DEF gone
<1> QED BY <1>8, <1>9 DEF gone, s

\* A new version changes no id.
LEMMA VersionIds ==
  ASSUME NEW r, DOMAIN r = QueueFields, r.items \in [Positions(r) -> Item]
  PROVE  IdsIn(IncrementVersion(r)) = IdsIn(r)
<1> DEFINE x == IncrementVersion(r)
<1>1. x.length = r.length
  BY DEF IncrementVersion, QueueFields
<1>2. \/ x.items = r.items
      \/ x.items = [p \in Positions(r) |-> [r.items[p] EXCEPT !.version = 0]]
  BY DEF IncrementVersion, QueueFields
<1> HIDE DEF x
<1>3. Positions(x) = Positions(r)
  BY <1>1 DEF Positions
<1>4. ASSUME NEW p \in Positions(r)
      PROVE  x.items[p].id = r.items[p].id
  <2>1. \A y \in Item : [y EXCEPT !.version = 0].id = y.id
    BY DEF Item
  <2>2. r.items[p] \in Item
    OBVIOUS
  <2> QED BY <1>2, <2>1, <2>2
<1> QED BY <1>3, <1>4 DEF IdsIn, x

LEMMA ModifiedIds ==
  ASSUME NEW s, Shape(s), s.queue.items \in [Positions(s.queue) -> Item]
  PROVE  IdsIn(OnModified(s).queue) = IdsIn(s.queue) /\ Shape(OnModified(s))
<1>1. CASE s.bulk_edit
  <2>1. OnModified(s).queue = s.queue /\ DOMAIN OnModified(s) = PlFields
    BY <1>1 DEF OnModified, Shape, PlFields
  <2> QED BY <2>1 DEF Shape
<1>2. CASE ~s.bulk_edit
  <2> DEFINE r == IncrementVersion(s.queue)
  <2>1. OnModified(s) = [s EXCEPT !.queue = r]
    BY <1>2 DEF OnModified
  <2>2. DOMAIN r = QueueFields
    BY DEF IncrementVersion, Shape, QueueFields
  <2> HIDE DEF r
  <2>3. OnModified(s).queue = r /\ DOMAIN OnModified(s) = PlFields
    BY <2>1 DEF Shape, PlFields
  <2> QED BY <2>2, <2>3, VersionIds DEF Shape, r
<1> QED BY <1>1, <1>2

\* The playlist goes on without the song it is about to remove.
LEMMA LeaveCurrentQueue ==
  ASSUME NEW s, Shape(s), NEW o, NEW paused
  PROVE  LeaveCurrent(s, o, paused).queue = s.queue /\ Shape(LeaveCurrent(s, o, paused))
<1> DEFINE next == GetNextOrder(s.queue, o)
           current == IF next = o THEN -1 ELSE next
           r == [s EXCEPT !.current = current, !.playing = FALSE]
           x == PlayOrder(s, current)
           y == Call(r, "STOP", None)
<1>1. LeaveCurrent(s, o, paused) \in {x, y}
  BY DEF LeaveCurrent
<1> HIDE DEF current
<1>2. x.queue = s.queue /\ Shape(x)
  BY PlayOrderSame DEF SameButQueueOrder, SameSongs
<1>3. r.queue = s.queue /\ DOMAIN r = PlFields
  BY DEF Shape, PlFields
<1> HIDE DEF r
<1>4. y.queue = s.queue /\ DOMAIN y = PlFields
  BY <1>3 DEF Call, PlFields
<1> QED BY <1>1, <1>2, <1>4 DEF Shape

LEMMA DeleteInternalIds ==
  ASSUME NEW s, Shape(s), QueueOK(s.queue), NEW position \in Positions(s.queue), NEW paused,
         NEW t, t = DeleteInternal(s, position, paused)
  PROVE  /\ Shape(t) /\ t.queue.items \in [Positions(t.queue) -> Item]
         /\ IdsIn(t.queue) = IdsIn(s.queue) \ {s.queue.items[position].id}
<1> DEFINE o == PositionToOrder(s.queue, position)
           a == LeaveCurrent(s, o, paused)
           b == [s EXCEPT !.current = -1]
           x == IF s.current # o THEN s ELSE IF s.playing THEN a ELSE b
           r == DeletePosition(s.queue, position)
           k == CurrentAfterDelete(x.current, o)
<1>1. a.queue = s.queue /\ DOMAIN a = PlFields
  BY LeaveCurrentQueue DEF Shape
<1>2. b.queue = s.queue /\ DOMAIN b = PlFields
  BY DEF Shape, PlFields
<1>3. DeleteInternal(s, position, paused)
        = [x EXCEPT !.queue = DeletePosition(@, position), !.current = CurrentAfterDelete(@, o)]
  BY DEF DeleteInternal
<1> HIDE DEF a, b
<1>4. x.queue = s.queue /\ DOMAIN x = PlFields
  BY <1>1, <1>2 DEF Shape
<1> HIDE DEF x
<1>5. t = [x EXCEPT !.queue = r, !.current = k]
  BY <1>3, <1>4 DEF PlFields
<1>6. QueueOK(r)
  BY DeletePositionOK
<1>7. IdsIn(r) = IdsIn(s.queue) \ {s.queue.items[position].id}
  BY DeletedIds
<1> HIDE DEF r, k
<1>8. t.queue = r /\ DOMAIN t = PlFields
  BY <1>4, <1>5 DEF PlFields
<1> QED BY <1>6, <1>7, <1>8 DEF Shape, QueueOK, QueueTypeOK

\* One song is deleted.
LEMMA ConsumedIds ==
  ASSUME NEW s, Shape(s), QueueOK(s.queue), s.queue.consume, NEW o \in Positions(s.queue),
         NEW t \in Consume(s, o)
  PROVE  IdsIn(t.queue) = IdsIn(s.queue) \ {SongAt(s, o)} /\ Shape(t)
<1> DEFINE position == s.queue.order[o]  end == position + 1  one == end - position
<1>1. t \in DeleteRange(s, position, end)
  BY DEF Consume, DeleteOrder
<1>2. position \in Positions(s.queue) /\ position \in Int
  BY QueueTypes
<1>3. SongAt(s, o) = s.queue.items[position].id
  BY DEF SongAt, OrderItem
<1> HIDE DEF position
<1>4. end \in Int /\ one = 1 /\ one \in Nat /\ one \in 0 .. one /\ one # 0 /\ 0 \in 0 .. one
      /\ end - one = position /\ one - 1 = 0
  BY <1>2
<1>5. \E f : LeftLoop(s, end, one, f)
  <2> HIDE DEF end, one
  <2> QED BY <1>4, LeftLoopExists
<1>6. PICK f : /\ LeftLoop(s, end, one, f)
               /\ DeleteRange(s, position, end)
                    = {OnModified(y) : y \in UNION {UpdateQueuedSong(d.pl, d.prev) : d \in f[one]}}
  BY <1>5 DEF DeleteRange, LeftLoop, DeleteStep
<1> HIDE DEF end, one
<1>7. f[0] = {[pl |-> s, prev |-> GetQueuedSong(s)]} /\ f[one] = DeleteStep(f[0], position)
  BY <1>4, <1>6 DEF LeftLoop
<1>8. PICK d \in f[one] : \E y \in UpdateQueuedSong(d.pl, d.prev) : t = OnModified(y)
  BY <1>1, <1>6
<1>9. \E paused : d.pl = DeleteInternal(s, position, paused)
  <2> DEFINE R(e, paused) ==
               LET y == DeleteInternal(e.pl, position, paused)
               IN  [pl |-> y,
                    prev |-> IF Len(y.calls) > Len(e.pl.calls) THEN None ELSE e.prev]
             first == [pl |-> s, prev |-> GetQueuedSong(s)]
  <2>1. f[one] = UNION {{R(e, paused) : paused \in Paused(e.pl)} : e \in f[0]}
    BY <1>7 DEF DeleteStep
  <2>2. \A e, paused : R(e, paused).pl = DeleteInternal(e.pl, position, paused)
    OBVIOUS
  <2>3. first.pl = s /\ f[0] = {first}
    BY <1>7
  <2> HIDE DEF R, first
  <2>4. \E paused : \E e \in f[0] : d = R(e, paused)
    BY <1>8, <2>1
  <2> QED BY <2>2, <2>3, <2>4
<1> DEFINE x == d.pl  prev == d.prev
<1>10. /\ Shape(x) /\ x.queue.items \in [Positions(x.queue) -> Item]
       /\ IdsIn(x.queue) = IdsIn(s.queue) \ {s.queue.items[position].id}
  BY <1>2, <1>9, DeleteInternalIds
<1>11. PICK y \in UpdateQueuedSong(x, prev) : t = OnModified(y)
  BY <1>8
<1> HIDE DEF x, prev
<1>12. Shape(y) /\ y.queue.items = x.queue.items /\ y.queue.length = x.queue.length
  BY <1>10, <1>11, UpdateSame DEF SameButQueueOrder, SameSongs
<1>13. y.queue.items \in [Positions(y.queue) -> Item] /\ IdsIn(y.queue) = IdsIn(x.queue)
  BY <1>10, <1>12 DEF Positions, IdsIn
<1>14. IdsIn(t.queue) = IdsIn(y.queue) /\ Shape(t)
  BY <1>11, <1>12, <1>13, ModifiedIds
<1> QED BY <1>3, <1>10, <1>13, <1>14

\* PlayNext(), in the order of the queue
LEMMA PlayNextIds ==
  ASSUME NEW s, Shape(s), QueueOK(s.queue), s.playing, s.queue.consume, ~s.queue.random,
         s.current \in Positions(s.queue), NEW t \in PlayNext(s)
  PROVE  IdsIn(t.queue) = IdsIn(s.queue) \ {SongAt(s, s.current)} /\ Shape(t)
<1> DEFINE next_order == GetNextOrder(s.queue, s.current)
           y == [s EXCEPT !.stop_on_error = FALSE]
           z == [y EXCEPT !.queued = -1, !.playing = FALSE]
           none == Assert(y, FALSE)
           next == IF next_order < 0
                   THEN {[u EXCEPT !.current = -1] : u \in Stop(y)}
                   ELSE {PlayOrder([y EXCEPT !.queue = q], next_order) :
                           q \in IF next_order = 0 /\ s.queue.random
                                 THEN ShuffleOrder(s.queue) ELSE {s.queue}}
<1>1. PICK x \in next : t \in Consume(x, s.current)
  BY DEF PlayNext
<1>2. y.queue = s.queue /\ DOMAIN y = PlFields
  BY DEF Shape, PlFields
<1> HIDE DEF y
<1>3. z.queue = s.queue /\ DOMAIN z = PlFields
  BY <1>2 DEF PlFields
<1>4. none.queue = s.queue /\ DOMAIN none = PlFields
  BY <1>2 DEF Assert, PlFields
<1> DEFINE stopped == Call(z, "STOP", None)
<1>5. Stop(y) \subseteq {y, none, stopped}
  BY <1>2 DEF Stop
<1> HIDE DEF z, none
<1>6. stopped.queue = s.queue /\ DOMAIN stopped = PlFields
  BY <1>3 DEF Call, PlFields
<1> HIDE DEF stopped
<1>7. x.queue = s.queue /\ DOMAIN x = PlFields
  <2>1. CASE next_order < 0
    <3>1. PICK u \in {y, none, stopped} : x = [u EXCEPT !.current = -1]
      BY <1>1, <1>5, <2>1
    <3>2. u.queue = s.queue /\ DOMAIN u = PlFields
      BY <1>2, <1>4, <1>6, <3>1
    <3> QED BY <3>1, <3>2 DEF PlFields
  <2>2. CASE ~(next_order < 0)
    <3> DEFINE v == [y EXCEPT !.queue = s.queue]
    <3>1. x = PlayOrder(v, next_order)
      BY <1>1, <2>2
    <3>2. v.queue = s.queue /\ DOMAIN v = PlFields
      BY <1>2 DEF PlFields
    <3> HIDE DEF v, next_order
    <3>3. Shape(v)
      BY <3>2 DEF Shape
    <3>4. x.queue = v.queue /\ Shape(x)
      BY <3>1, <3>3, PlayOrderSame DEF SameButQueueOrder, SameSongs
    <3> QED BY <3>2, <3>4 DEF Shape
  <2> QED BY <2>1, <2>2
<1> HIDE DEF next
<1> DEFINE o == s.current
<1>8. Shape(x) /\ QueueOK(x.queue) /\ x.queue.consume /\ o \in Positions(x.queue)
      /\ t \in Consume(x, o)
  BY <1>1, <1>7 DEF Shape
<1>9. SongAt(x, o) = SongAt(s, o)
  BY <1>7 DEF SongAt
<1> HIDE DEF o
<1>10. IdsIn(t.queue) = IdsIn(x.queue) \ {SongAt(x, o)} /\ Shape(t)
  BY <1>8, ConsumedIds
<1> QED BY <1>7, <1>9, <1>10 DEF o

\* The PLAYLIST event
LEMMA SyncIds ==
  ASSUME NEW u, Good(pl.queue, u, pl), pl.playing, pl.queue.consume, ~pl.queue.random,
         player.error = "NONE", NEW t \in SyncWithPlayer(pl)
  PROVE  \/ IdsIn(t.queue) = IdsIn(pl.queue) \ {CurrentSong}
         \/ t.playing /\ SongAt(t, t.current) = CurrentSong
<1>1. /\ Shape(pl) /\ QueueOK(pl.queue) /\ pl.queue.length \in Nat
      /\ pl.current \in Positions(pl.queue) /\ pl.playing = TRUE
      /\ Positions(pl.queue) = 0 .. (pl.queue.length - 1)
      /\ pl.queued \in Int /\ (pl.queued >= 0 => pl.queued \in Positions(pl.queue))
      /\ pl.queued >= -1
  BY GoodTypes, GoodShape
<1>2. CurrentSong = SongAt(pl, pl.current)
  BY DEF CurrentSong
<1>3. CASE player.state = "STOP"
  <2> DEFINE x == [pl EXCEPT !.error_count = 0]
  <2>1. ~(0 >= pl.queue.length)
    BY <1>1
  <2>2. t \in PlayNext(x)
    BY <1>3, <2>1 DEF SyncWithPlayer, ResumePlayback
  <2>3. /\ DOMAIN x = PlFields /\ x.queue = pl.queue /\ x.playing = pl.playing
        /\ x.current = pl.current
    BY <1>1 DEF Shape, PlFields
  <2> HIDE DEF x
  <2>4. IdsIn(t.queue) = IdsIn(x.queue) \ {SongAt(x, x.current)}
    <3>1. /\ Shape(x) /\ QueueOK(x.queue) /\ x.playing /\ x.queue.consume /\ ~x.queue.random
          /\ x.current \in Positions(x.queue)
      BY <1>1, <2>3 DEF Shape
    <3> QED BY <2>2, <3>1, PlayNextIds
  <2> QED BY <1>2, <2>3, <2>4 DEF SongAt
<1>4. CASE player.state # "STOP"
  <2> DEFINE started == player.next = None /\ pl.queued # -1
  <2>1. PICK x \in IF started THEN SongStarted(pl) ELSE {pl} :
          t \in IF player.next = None /\ x.queued < 0 THEN UpdateQueuedSong(x, None) ELSE {x}
    BY <1>4 DEF SyncWithPlayer, Then
  <2>2. CASE ~started
    <3>1. x = pl
      BY <2>1, <2>2
    <3>2. CASE t = pl
      BY <1>1, <1>2, <3>2
    <3>3. CASE t \in UpdateQueuedSong(pl, None)
      <4> DEFINE s == pl  prev == None
      <4>1. Shape(s) /\ QueueOK(s.queue) /\ s.current \in Positions(s.queue)
            /\ t \in UpdateQueuedSong(s, prev)
        BY <1>1, <3>3
      <4> HIDE DEF s, prev
      <4>2. /\ t.playing = s.playing /\ GetCurrentPosition(t) = GetCurrentPosition(s)
            /\ t.current >= 0 /\ t.queue.items = s.queue.items
        BY <4>1, UpdateCurrent, UpdateSame DEF SameButQueueOrder, SameSongs
      <4>3. s.current >= 0
        BY <4>1, QueueTypes
      <4>4. SongAt(t, t.current) = SongAt(s, s.current)
        BY <4>2, <4>3 DEF SongAt, OrderItem, GetCurrentPosition
      <4> QED BY <1>1, <1>2, <4>2, <4>4 DEF s
    <3> QED BY <2>1, <3>1, <3>2, <3>3
  <2>3. CASE started
    <3> DEFINE y == [pl EXCEPT !.current = pl.queued, !.queued = -1]  o == pl.current
    <3>1. x \in Consume(y, o)
      BY <2>1, <2>3 DEF SongStarted
    <3>2. DOMAIN y = PlFields /\ y.queue = pl.queue
      BY <1>1 DEF Shape, PlFields
    <3> HIDE DEF y, o
    <3>3. Shape(y) /\ QueueOK(y.queue) /\ y.queue.consume /\ o \in Positions(y.queue)
      BY <1>1, <3>2 DEF Shape, o
    <3>4. IdsIn(x.queue) = IdsIn(y.queue) \ {SongAt(y, o)} /\ Shape(x)
      BY <3>1, <3>3, ConsumedIds
    <3>5. IdsIn(t.queue) = IdsIn(x.queue)
      <4>1. CASE t = x
        BY <4>1
      <4>2. CASE t \in UpdateQueuedSong(x, None)
        <5>1. t.queue.items = x.queue.items /\ t.queue.length = x.queue.length
          BY <3>4, <4>2, UpdateSame DEF SameButQueueOrder, SameSongs
        <5> QED BY <5>1 DEF IdsIn, Positions
      <4> QED BY <2>1, <4>1, <4>2
    <3> QED BY <1>2, <3>2, <3>4, <3>5 DEF SongAt, o
  <2> QED BY <2>2, <2>3
<1> QED BY <1>3, <1>4

\* "next": single mode is off while the handler runs.
LEMMA NextCommandIds ==
  ASSUME NEW u, Good(pl.queue, u, pl), NextCommand,
         pl.playing, pl.queue.consume, ~pl.queue.random
  PROVE  IdsIn(pl'.queue) = IdsIn(pl.queue) \ {CurrentSong}
<1> DEFINE x == [pl EXCEPT !.queue.single = FALSE]  b == pl.queue.single  q == pl.queue
<1>1. PICK s \in PlayNext(x) : pl' = [s EXCEPT !.queue.single = b]
  BY DEF NextCommand, Command, Handler
<1>2. /\ Shape(pl) /\ pl.current \in Positions(pl.queue)
      /\ CurrentSong = SongAt(pl, pl.current)
  BY GoodTypes, GoodShape DEF CurrentSong
<1>3. /\ x.queue.items = q.items /\ x.queue.length = q.length /\ x.queue.order = q.order
      /\ x.queue.consume = q.consume /\ x.queue.random = q.random
      /\ x.playing = pl.playing /\ x.current = pl.current
  BY <1>2 DEF Shape, PlFields, QueueFields
<1>4. Good(q, u, pl) /\ FALSE \in BOOLEAN
  OBVIOUS
<1> HIDE DEF q
<1>5. Good(q, u, x)
  BY <1>4, SingleGood
<1> HIDE DEF x
<1>6. /\ Shape(x) /\ QueueOK(x.queue) /\ x.playing /\ x.queue.consume /\ ~x.queue.random
      /\ x.current \in Positions(x.queue)
  BY <1>2, <1>3, <1>5, GoodShape DEF Positions, q
<1>7. IdsIn(s.queue) = IdsIn(x.queue) \ {SongAt(x, x.current)} /\ Shape(s)
  BY <1>1, <1>6, PlayNextIds
<1>8. IdsIn(x.queue) = IdsIn(q) /\ SongAt(x, x.current) = SongAt(pl, pl.current)
  BY <1>3 DEF IdsIn, Positions, SongAt, OrderItem, q
<1>9. pl'.queue.items = s.queue.items /\ pl'.queue.length = s.queue.length
  BY <1>1, <1>7 DEF Shape, PlFields, QueueFields
<1>10. IdsIn(pl'.queue) = IdsIn(s.queue)
  BY <1>9 DEF IdsIn, Positions
<1> QED BY <1>2, <1>7, <1>8, <1>10 DEF q

\* "each song played is removed from playlist", and no other, in the order of
\* the queue: when the player goes on to the queued song, when it has stopped
\* and the next song is played, and when the client asks for "next". In random
\* mode the queue may be shuffled before the song is removed.
THEOREM ConsumeRemovesThePlayed ==
  ASSUME "random" \notin Commands
  PROVE  Spec => ConsumeRemovesPlayed
<1>1. ASSUME PlInv, Sync \/ NextCommand, pl.playing, pl.queue.consume,
             player.error = "NONE", CurrentSong' # CurrentSong
      PROVE  QueuedIds \ QueuedIds' = {CurrentSong}
  <2>1. PICK u : Good(pl.queue, u, pl)
    BY <1>1 DEF PlInv
  <2>2. /\ QueueOK(pl.queue) /\ ~pl.queue.random
        /\ pl.current \in Positions(pl.queue)
    BY <1>1, <2>1, GoodTypes DEF MayBe
  <2>3. CurrentSong \in IdsIn(pl.queue)
    <3> DEFINE p == pl.queue.order[pl.current]
    <3>1. p \in Positions(pl.queue)
      BY <2>2, QueueTypes
    <3>2. CurrentSong = pl.queue.items[p].id
      BY <1>1, <2>2, QueueTypes DEF CurrentSong, SongAt, OrderItem
    <3> QED BY <3>1, <3>2 DEF IdsIn
  <2>4. IdsIn(pl'.queue) = IdsIn(pl.queue) \ {CurrentSong}
    <3>1. CASE Sync
      <4>1. pl' \in SyncWithPlayer(pl)
        BY <3>1 DEF Sync
      <4> DEFINE t == pl'
      <4>2. t \in SyncWithPlayer(pl)
        BY <4>1
      <4> HIDE DEF t
      <4>3. \/ IdsIn(t.queue) = IdsIn(pl.queue) \ {CurrentSong}
            \/ t.playing /\ SongAt(t, t.current) = CurrentSong
        BY <1>1, <2>1, <2>2, <4>2, SyncIds
      <4>4. t.playing => CurrentSong' = SongAt(t, t.current)
        BY DEF t, CurrentSong, SongAt, OrderItem
      <4> QED BY <1>1, <4>3, <4>4 DEF t
    <3>2. CASE NextCommand
      BY <1>1, <2>1, <2>2, <3>2, NextCommandIds
    <3> QED BY <1>1, <3>1, <3>2
  <2>5. QueuedIds = IdsIn(pl.queue) /\ QueuedIds' = IdsIn(pl'.queue)
    BY DEF QueuedIds, IdsIn, Positions
  <2> HIDE DEF QueuedIds
  <2> QED BY <2>3, <2>4, <2>5
<1>2. ASSUME PlInv, [Next]_vars
      PROVE  [/\ Sync \/ NextCommand
              /\ pl.playing /\ pl.queue.consume /\ player.error = "NONE"
              /\ CurrentSong' # CurrentSong
              => QueuedIds \ QueuedIds' = {CurrentSong}]_vars
  BY <1>1, <1>2
<1> QED BY <1>2, PlaylistInvariant, PTL DEF Spec, ConsumeRemovesPlayed

=============================================================================
