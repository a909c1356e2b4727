---------------------------- MODULE UpdateProofs ----------------------------
(***************************************************************************)
(* The hand-over of a removed song between the update thread and the main  *)
(* thread, the ids of jobs, what the queue and the clients know of the     *)
(* database, and how the database follows the music directory, for every   *)
(* music directory and every size of the queue of jobs.                    *)
(***************************************************************************)
EXTENDS Update, TLAPS, FiniteSetTheorems, WellFoundedInduction

------------------------------------------------------------------------------
(* No dangling song.                                                       *)

\* removed_song and the song that delete_song() waits for are the same; while
\* it waits, the song is not in the database, and the main thread can hold the
\* song only as long as it has not answered.
SongInv ==
  /\ fs \in [Songs -> Times] /\ db \in [Songs -> Times]
  /\ "DELETE" \in events => removed # None
  /\ removed # None => removed = victim
  /\ victim # None => victim \in Songs /\ db[victim] = 0
  /\ borrowed # None => borrowed \in Songs /\ (db[borrowed] # 0 \/ removed = borrowed)

LEMMA SongInit == Init => SongInv
  BY UpdateAssumption DEF Init, SongInv, Times

\* Steps that touch neither the database nor the songs that are handed over.
LEMMA SongStutter ==
  /\ SongInv /\ UNCHANGED <<fs, db, removed, victim, borrowed>>
  /\ "DELETE" \in events' => "DELETE" \in events
  => SongInv'
  BY DEF SongInv

\* The main thread does not touch the database.
LEMMA SongMain ==
  ASSUME SongInv, HandleEvent \/ OnTimeout \/ GoOn \/ \E s \in Songs : GetSong(s)
  PROVE  SongInv'
<1>1. CASE Finished
  BY <1>1, SongStutter DEF Finished, envVars
<1>2. CASE RemoveSong
  BY <1>2 DEF RemoveSong, MainIsFree, SongInv, envVars, dbVars, threadVars
<1>3. ASSUME NEW d \in Dirs, InotifyCallback(d) PROVE SongInv'
  BY <1>3, SongStutter DEF InotifyCallback, dbVars, threadVars
<1>4. CASE OnTimeout
  BY <1>4, SongStutter DEF OnTimeout, envVars, dbVars, threadVars
<1>5. CASE AppendSong
  BY <1>5 DEF AppendSong, SongInv, envVars, dbVars, threadVars
<1>6. CASE UpdatePath
  BY <1>6, SongStutter DEF UpdatePath, envVars, dbVars
<1>7. CASE EndTimeout
  BY <1>7, SongStutter DEF EndTimeout, envVars, dbVars, threadVars
<1>8. ASSUME NEW s \in Songs, GetSong(s) PROVE SongInv'
  BY <1>8, UpdateAssumption DEF GetSong, MainIsFree, SongInv, envVars, dbVars, threadVars
<1> QED
  BY <1>1, <1>2, <1>3, <1>4, <1>5, <1>6, <1>7, <1>8 DEF HandleEvent, GoOn

\* A song is unlinked, and freed, in two steps with the main thread's between.
LEMMA SongThread ==
  ASSUME SongInv, Thread
  PROVE  SongInv'
<1>1. CASE Visit \/ Open \/ Purge \/ Read \/ Save
  BY <1>1, SongStutter DEF Visit, Open, Purge, Read, Save, Quietly, envVars, mainVars
<1>2. CASE File
  <2>1. victim = None /\ UNCHANGED <<fs, victim, removed, borrowed, events>>
    BY <1>2 DEF File, At, Quietly, envVars, mainVars
  <2>2. db' = db \/ (fs[Here] # 0 /\ \E stale \in BOOLEAN :
                       db' = [db EXCEPT ![Here] = IF stale THEN fs[Here] ELSE @])
    BY <1>2 DEF File
  <2>3. db' \in [Songs -> Times] /\ \A s \in Songs : db[s] # 0 => db'[s] # 0
    BY <2>2 DEF SongInv
  <2> QED
    BY <2>1, <2>3 DEF SongInv
<1>3. CASE Delete
  <2>1. victim = None /\ UNCHANGED <<fs, borrowed>>
    BY <1>3 DEF Delete, At, envVars, mainVars
  <2>2. CASE UNCHANGED <<db, victim, removed, events>>
    BY <2>1, <2>2, SongStutter
  <2>3. ASSUME NEW s \in Songs,
               db' = [db EXCEPT ![s] = 0], victim' = s, removed' = s
        PROVE  SongInv'
    BY <2>1, <2>3, UpdateAssumption DEF SongInv, Times
  <2> QED
    BY <1>3, <2>2, <2>3 DEF Delete, Below
<1>4. CASE Free
  BY <1>4 DEF Free, SongInv, envVars, dbVars, mainVars
<1>5. CASE Done \/ EmitUpdate
  BY <1>5, SongStutter DEF Done, EmitUpdate, envVars, dbVars, mainVars
<1> QED
  BY <1>1, <1>2, <1>3, <1>4, <1>5 DEF Thread

LEMMA SongStep == SongInv /\ [Next]_vars => SongInv'
<1> SUFFICES ASSUME SongInv, [Next]_vars PROVE SongInv'
  OBVIOUS
<1>1. ASSUME NEW s \in Songs, NEW t \in Times, Change(s, t) PROVE SongInv'
  BY <1>1 DEF Change, SongInv, dbVars, threadVars, mainVars
<1>2. ASSUME NEW asked \in Asked, Request(asked) PROVE SongInv'
  BY <1>2, SongStutter DEF Request, envVars, dbVars, mainVars
<1>3. CASE UNCHANGED vars
  BY <1>3, SongStutter DEF vars, envVars, dbVars, threadVars, mainVars
<1> QED
  BY <1>1, <1>2, <1>3, SongMain, SongThread DEF Next

(* The main thread never has a pointer to a song that the update thread has  *)
(* freed: UpdateDatabase.cxx:31-48 and UpdateRemove.cxx:48-94.               *)
THEOREM NoSongDangles == Spec => []NoDanglingSong
<1>1. SongInv => NoDanglingSong
  BY UpdateAssumption DEF SongInv, NoDanglingSong
<1> QED
  BY SongInit, SongStep, <1>1, PTL DEF Spec

------------------------------------------------------------------------------
(* The calls of the update thread.                                         *)

Ops == {"visit", "open", "purge", "read", "file", "delete", "save", "done", "emit"}
Frame == [op : Ops, at : Entries, left : SUBSET Entries, mtime : Times]

Ending == {"save", "done", "emit"}

\* Whatever the walk is at, the rest of update_task() is to come: progress is
\* set just before the event is emitted, and that is the last thing it does.
StackInv ==
  /\ work \in Seq(Frame)
  /\ \A i \in 1 .. Len(work) :
       /\ (work[i].op = "emit") <=> (i = Len(work))
       /\ (work[i].op = "done") <=> (i = Len(work) - 1)
       /\ (work[i].op = "save") <=> (i = Len(work) - 2)
  /\ Len(work) > 1 => progress = "running"
  /\ Len(work) = 1 => progress = "done"
  /\ "UPDATE" \in events => work = <<>> /\ progress = "done"

LEMMA StackStutter ==
  StackInv /\ UNCHANGED <<work, progress, events>> => StackInv'
  BY DEF StackInv

\* A call of the walk is replaced, or makes others and is returned to.
LEMMA StackCall ==
  ASSUME StackInv, UNCHANGED progress, work # <<>>,
         ("UPDATE" \in events') = ("UPDATE" \in events),
         Head(work).op \notin {"done", "emit"},
         NEW calls \in Seq(Frame),
         \A i \in 1 .. Len(calls) : calls[i].op \notin Ending,
         Head(work).op = "save" => Len(calls) = 0,
         work' = calls \o Tail(work)
  PROVE  StackInv'
<1> DEFINE n == Len(work)
           c == Len(calls)
<1>1. n \in Nat /\ c \in Nat /\ n > 2 /\ (c > 0 => n > 3)
  <2>1. /\ n \in Nat \ {0} /\ c \in Nat /\ 1 \in 1 .. n /\ Head(work) = work[1]
    BY DEF StackInv
  <2>2. /\ (work[1].op = "emit") <=> (1 = n)
        /\ (work[1].op = "done") <=> (1 = n - 1)
        /\ (work[1].op = "save") <=> (1 = n - 2)
    BY <2>1, Zenon DEF StackInv
  <2>3. n # 1 /\ n # 2 /\ (c > 0 => n # 3)
    BY <2>1, <2>2
  <2> HIDE DEF n, c
  <2> QED
    BY <2>1, <2>3
<1>2. Tail(work) \in Seq(Frame) /\ Len(Tail(work)) = n - 1
      /\ \A i \in 1 .. n - 1 : Tail(work)[i] = work[i + 1]
  BY DEF StackInv
<1>3. work' \in Seq(Frame) /\ Len(work') = c + n - 1
  BY <1>2
<1>4. \A i \in 1 .. c : work'[i] = calls[i]
  BY <1>2
<1>5. \A i \in c + 1 .. c + n - 1 : work'[i] = work[i - c + 1]
  BY <1>1, <1>2
<1>6. "UPDATE" \notin events'
  BY DEF StackInv
<1>7. ASSUME NEW i \in 1 .. Len(work')
      PROVE  /\ (work'[i].op = "emit") <=> (i = Len(work'))
             /\ (work'[i].op = "done") <=> (i = Len(work') - 1)
             /\ (work'[i].op = "save") <=> (i = Len(work') - 2)
  <2>1. CASE i \in 1 .. c
    BY <2>1, <1>1, <1>3, <1>4 DEF Ending
  <2>2. CASE i \in c + 1 .. c + n - 1
    <3>1. i - c + 1 \in 1 .. n
      BY <2>2, <1>1
    <3>2. /\ (work[i - c + 1].op = "emit") <=> (i - c + 1 = n)
          /\ (work[i - c + 1].op = "done") <=> (i - c + 1 = n - 1)
          /\ (work[i - c + 1].op = "save") <=> (i - c + 1 = n - 2)
      BY <3>1 DEF StackInv
    <3> QED
      BY <2>2, <3>2, <1>1, <1>3, <1>5, SMTT(40)
  <2> QED
    BY <2>1, <2>2, <1>1, <1>3
<1>8. progress' = "running" /\ Len(work') > 1
  BY <1>1, <1>3 DEF StackInv
<1> QED
  BY <1>3, <1>6, <1>7, <1>8 DEF StackInv

\* The four ways in which a step of the walk changes its calls.
LEMMA StackReturn ==
  ASSUME StackInv, UNCHANGED progress, work # <<>>,
         ("UPDATE" \in events') = ("UPDATE" \in events),
         Head(work).op \notin {"done", "emit"}, Return
  PROVE  StackInv'
<1> DEFINE calls == <<>>
<1>1. work \in Seq(Frame) /\ Tail(work) \in Seq(Frame)
  BY DEF StackInv
<1>2. calls \in Seq(Frame) /\ Len(calls) = 0 /\ work' = calls \o Tail(work)
  BY <1>1 DEF Return
<1> HIDE DEF calls
<1>3. \A i \in 1 .. Len(calls) : calls[i].op \notin Ending
  BY <1>2
<1> QED
  BY <1>2, <1>3, StackCall

LEMMA StackGoto ==
  ASSUME StackInv, UNCHANGED <<progress, events>>, work # <<>>,
         Head(work).op \notin Ending,
         NEW call \in Frame, call.op \notin Ending, Goto(call)
  PROVE  StackInv'
<1> DEFINE calls == <<call>>
<1>1. /\ calls \in Seq(Frame) /\ Len(calls) = 1 /\ calls[1] = call
      /\ work' = calls \o Tail(work)
  BY DEF Goto
<1> HIDE DEF calls
<1>2. \A i \in 1 .. Len(calls) : calls[i].op \notin Ending
  BY <1>1
<1> QED
  BY <1>1, <1>2, StackCall DEF Ending

LEMMA StackPush ==
  ASSUME StackInv, UNCHANGED <<progress, events>>, work # <<>>,
         Head(work).op \notin Ending,
         NEW call \in Frame, call.op \notin Ending,
         NEW rest \in Frame, rest.op \notin Ending,
         work' = <<call, rest>> \o Tail(work)
  PROVE  StackInv'
<1> DEFINE calls == <<call, rest>>
<1>1. /\ calls \in Seq(Frame) /\ Len(calls) = 2
      /\ calls[1] = call /\ calls[2] = rest /\ work' = calls \o Tail(work)
  OBVIOUS
<1> HIDE DEF calls
<1>2. \A i \in 1 .. Len(calls) : calls[i].op \notin Ending
  BY <1>1
<1> QED
  BY <1>1, <1>2, StackCall DEF Ending

LEMMA CallIsFrame ==
  ASSUME NEW op \in Ops, NEW e \in Entries
  PROVE  /\ Call(op, e) \in Frame /\ Call(op, e).op = op
         /\ \A left \in SUBSET Entries :
              Call3(op, e, left) \in Frame /\ Call3(op, e, left).op = op
         /\ \A t \in Times : LET call == [Call(op, e) EXCEPT !.mtime = t] IN
              call \in Frame /\ call.op = op
  BY UpdateAssumption DEF Call, Call3, Frame, Times

LEMMA StackThread ==
  ASSUME StackInv, SongInv, Thread
  PROVE  StackInv'
<1> USE DEF At, Ending
<1>1. /\ work # <<>> => Head(work) \in Frame /\ Here \in Entries
      /\ work # <<>> => Head(work).left \subseteq Entries
  <2>1. work \in Seq(Frame)
    BY DEF StackInv
  <2>2. work # <<>> => Head(work) \in Frame
    BY <2>1
  <2> QED
    BY <2>2 DEF Frame, Here
<1>2. \A d \in Entries : Children(d) \subseteq Entries
  BY DEF Children
<1>3. {"visit", "open", "purge", "read", "file", "delete"} \subseteq Ops
  BY DEF Ops
<1>4. CASE Visit
  <2>1. /\ work # <<>> /\ Head(work).op = "visit" /\ UNCHANGED <<progress, events>>
    BY <1>4 DEF Visit, Quietly, jobVars
  <2>2. ASSUME NEW op \in {"delete", "open"}, Goto(Call(op, Here)) PROVE StackInv'
    <3>1. Call(op, Here) \in Frame /\ Call(op, Here).op = op
      BY <1>1, <1>3, <2>1, CallIsFrame
    <3> QED
      BY <2>1, <2>2, <3>1, StackGoto
  <2>3. ASSUME Here \notin Dirs, Goto([Call("file", Here) EXCEPT !.mtime = fs[Here]])
        PROVE  StackInv'
    <3>1. fs[Here] \in Times
      BY <1>1, <2>1, <2>3 DEF SongInv, Entries
    <3> DEFINE call == [Call("file", Here) EXCEPT !.mtime = fs[Here]]
    <3>2. call \in Frame /\ call.op = "file"
      BY <1>1, <1>3, <2>1, <3>1, CallIsFrame
    <3>3. Goto(call)
      BY <2>3
    <3> HIDE DEF call
    <3> QED
      BY <2>1, <3>2, <3>3, StackGoto
  <2>4. \/ Goto(Call("delete", Here)) \/ Goto(Call("open", Here))
        \/ Here \notin Dirs /\ Goto([Call("file", Here) EXCEPT !.mtime = fs[Here]])
    BY <1>4 DEF Visit
  <2> QED
    BY <2>2, <2>3, <2>4
<1>5. CASE Open
  <2>1. /\ work # <<>> /\ Head(work).op = "open" /\ UNCHANGED <<progress, events>>
    BY <1>5 DEF Open, Quietly, jobVars
  <2> DEFINE purge == Call3("purge", Here, {e \in Children(Here) : InDb(e)})
  <2>2. purge \in Frame /\ purge.op = "purge"
    BY <1>1, <1>2, <1>3, <2>1, CallIsFrame
  <2>3. Call("delete", Here) \in Frame /\ Call("delete", Here).op = "delete"
    BY <1>1, <1>3, <2>1, CallIsFrame
  <2>4. Goto(purge) \/ Goto(Call("delete", Here))
    BY <1>5 DEF Open
  <2> HIDE DEF purge
  <2> QED
    BY <2>1, <2>2, <2>3, <2>4, StackGoto
<1>6. CASE Purge
  <2>1. /\ work # <<>> /\ Head(work).op = "purge" /\ UNCHANGED <<progress, events>>
    BY <1>6 DEF Purge, Quietly, jobVars
  <2> DEFINE read == Call3("read", Here, {e \in Children(Here) : Exists(fs, e)})
             rest(e) == Call3("purge", Here, Head(work).left \ {e})
  <2>2. read \in Frame /\ read.op = "read"
    BY <1>1, <1>2, <1>3, <2>1, CallIsFrame
  <2>3. ASSUME NEW e PROVE rest(e) \in Frame /\ rest(e).op = "purge"
    BY <1>1, <1>3, <2>1, CallIsFrame
  <2>4. ASSUME NEW e \in Entries
        PROVE  Call("delete", e) \in Frame /\ Call("delete", e).op = "delete"
    BY <1>3, CallIsFrame
  <2>5. \/ Goto(read)
        \/ \E e \in Entries : \/ Goto(rest(e))
                              \/ work' = <<Call("delete", e), rest(e)>> \o Tail(work)
    BY <1>1, <1>6, <2>1 DEF Purge
  <2> HIDE DEF read, rest
  <2> QED
    BY <2>1, <2>2, <2>3, <2>4, <2>5, StackGoto, StackPush
<1>7. CASE Read
  <2>1. /\ work # <<>> /\ Head(work).op = "read" /\ UNCHANGED <<progress, events>>
    BY <1>7 DEF Read, Quietly, jobVars
  <2> DEFINE rest(e) == Call3("read", Here, Head(work).left \ {e})
  <2>2. ASSUME NEW e PROVE rest(e) \in Frame /\ rest(e).op = "read"
    BY <1>1, <1>3, <2>1, CallIsFrame
  <2>3. ASSUME NEW e \in Entries
        PROVE  Call("visit", e) \in Frame /\ Call("visit", e).op = "visit"
    BY <1>3, CallIsFrame
  <2>4. \/ Return
        \/ \E e \in Entries : work' = <<Call("visit", e), rest(e)>> \o Tail(work)
    BY <1>1, <1>7, <2>1 DEF Read
  <2> HIDE DEF rest
  <2> QED
    BY <2>1, <2>2, <2>3, <2>4, StackReturn, StackPush
<1>8. CASE File
  <2>1. /\ work # <<>> /\ Head(work).op = "file" /\ UNCHANGED <<progress, events>>
    BY <1>8 DEF File, Quietly, jobVars
  <2>2. Call("delete", Here) \in Frame /\ Call("delete", Here).op = "delete"
    BY <1>1, <1>3, <2>1, CallIsFrame
  <2>3. Goto(Call("delete", Here)) \/ Return
    BY <1>8 DEF File
  <2> QED
    BY <2>1, <2>2, <2>3, StackGoto, StackReturn
<1>9. CASE Delete
  <2>1. /\ work # <<>> /\ Head(work).op = "delete" /\ UNCHANGED progress
        /\ ("UPDATE" \in events') = ("UPDATE" \in events)
        /\ Return \/ UNCHANGED work
    BY <1>9 DEF Delete, jobVars
  <2>2. CASE UNCHANGED work
    BY <2>1, <2>2 DEF StackInv
  <2> QED
    BY <2>1, <2>2, StackReturn
<1>10. CASE Free
  BY <1>10, StackStutter DEF Free, jobVars
<1>11. CASE Save
  <2>1. /\ work # <<>> /\ Head(work).op = "save" /\ UNCHANGED <<progress, events>> /\ Return
    BY <1>11 DEF Save, Quietly, jobVars
  <2> QED
    BY <2>1, StackReturn
<1>12. CASE Done
  <2>1. /\ work # <<>> /\ Head(work).op = "done" /\ UNCHANGED events
        /\ work' = Tail(work) /\ progress' = "done"
    BY <1>12 DEF Done, Return
  <2>2. Len(work) = 2 /\ work \in Seq(Frame)
    <3>1. work \in Seq(Frame) /\ Len(work) \in Nat \ {0} /\ Head(work) = work[1]
      BY <2>1 DEF StackInv
    <3>2. 1 \in 1 .. Len(work)
      BY <3>1
    <3>3. (work[1].op = "done") <=> (1 = Len(work) - 1)
      BY <3>2, Zenon DEF StackInv
    <3> QED
      BY <2>1, <3>1, <3>3
  <2>3. work' \in Seq(Frame) /\ Len(work') = 1 /\ work'[1] = work[2]
    BY <2>1, <2>2
  <2>4. work[2].op = "emit" /\ "UPDATE" \notin events'
    BY <2>1, <2>2 DEF StackInv
  <2> QED
    BY <2>1, <2>3, <2>4 DEF StackInv
<1>13. CASE EmitUpdate
  <2>1. /\ work # <<>> /\ Head(work).op = "emit" /\ UNCHANGED progress
        /\ work' = Tail(work)
    BY <1>13 DEF EmitUpdate, Return, jobVars
  <2>2. Len(work) = 1 /\ work \in Seq(Frame) /\ progress = "done"
    <3>1. work \in Seq(Frame) /\ Len(work) \in Nat \ {0} /\ Head(work) = work[1]
      BY <2>1 DEF StackInv
    <3>2. 1 \in 1 .. Len(work)
      BY <3>1
    <3>3. (work[1].op = "emit") <=> (1 = Len(work))
      BY <3>2, Zenon DEF StackInv
    <3> QED
      BY <2>1, <3>1, <3>3 DEF StackInv
  <2>3. work' = <<>>
    BY <2>1, <2>2
  <2>4. work' \in Seq(Frame) /\ Len(work') = 0
    BY <2>3
  <2>5. 1 .. Len(work') = {}
    BY <2>4
  <2>6. \A i \in 1 .. Len(work') :
          /\ (work'[i].op = "emit") <=> (i = Len(work'))
          /\ (work'[i].op = "done") <=> (i = Len(work') - 1)
          /\ (work'[i].op = "save") <=> (i = Len(work') - 2)
    BY <2>5, Zenon
  <2>7. ~(Len(work') > 1) /\ Len(work') # 1 /\ progress' = "done"
    BY <2>1, <2>2, <2>4
  <2> QED
    BY <2>3, <2>4, <2>6, <2>7, Zenon DEF StackInv
<1> QED
  BY <1>4, <1>5, <1>6, <1>7, <1>8, <1>9, <1>10, <1>11, <1>12, <1>13 DEF Thread

\* spawn_update_task()
LEMMA StackSpawn ==
  ASSUME NEW job \in Job, Spawn(job), "UPDATE" \notin events'
  PROVE  StackInv'
<1> DEFINE Four == <<Call("visit", job.path), Call("save", Root),
                     Call("done", Root), Call("emit", Root)>>
<1>1. \A op \in Ops, e \in Entries : Call(op, e) \in Frame /\ Call(op, e).op = op
  BY UpdateAssumption DEF Call, Frame, Times
<1>2. job.path \in Entries /\ Root \in Entries
  BY UpdateAssumption DEF Job, Entries
<1>3. work' = Four /\ progress' = "running"
  BY DEF Spawn
<1> DEFINE A == Call("visit", job.path)
           B == Call("save", Root)
           C == Call("done", Root)
           D == Call("emit", Root)
<1>4. /\ A \in Frame /\ B \in Frame /\ C \in Frame /\ D \in Frame
      /\ A.op = "visit" /\ B.op = "save" /\ C.op = "done" /\ D.op = "emit"
  <2>1. "visit" \in Ops /\ "save" \in Ops /\ "done" \in Ops /\ "emit" \in Ops
    BY DEF Ops
  <2> HIDE DEF Four
  <2> QED
    BY <1>1, <1>2, <2>1
<1>5. Four = <<A, B, C, D>>
  OBVIOUS
<1> HIDE DEF A, B, C, D, Four
<1>6. Four \in Seq(Frame) /\ Len(Four) = 4
  BY <1>4, <1>5
<1>7. /\ Four[1].op = "visit" /\ Four[2].op = "save"
      /\ Four[3].op = "done" /\ Four[4].op = "emit"
  BY <1>4, <1>5
<1>8. \A i \in 1 .. 4 : /\ (Four[i].op = "emit") <=> (i = 4)
                        /\ (Four[i].op = "done") <=> (i = 3)
                        /\ (Four[i].op = "save") <=> (i = 2)
  BY <1>7
<1>9. /\ work' \in Seq(Frame) /\ Len(work') = 4
      /\ \A i \in 1 .. Len(work') :
           /\ (work'[i].op = "emit") <=> (i = Len(work'))
           /\ (work'[i].op = "done") <=> (i = Len(work') - 1)
           /\ (work'[i].op = "save") <=> (i = Len(work') - 2)
  BY <1>3, <1>6, <1>8
<1> QED
  BY <1>3, <1>9 DEF StackInv

------------------------------------------------------------------------------
(* Job ids.                                                                *)

\* The i-th id after a.
After(a, i) == IF a + i > MaxId THEN a + i - MaxId ELSE a + i

LEMMA AfterArithmetic ==
  \A a \in 1 .. MaxId, i \in 0 .. MaxQueue :
    /\ After(a, i) \in 1 .. MaxId
    /\ i > 0 => After(a, i) # a
    /\ \A j \in 0 .. MaxQueue : After(a, i) = After(a, j) => i = j
    /\ i < MaxQueue => After(a, i + 1) = IF After(a, i) + 1 > MaxId THEN 1 ELSE After(a, i) + 1
    /\ i > 0 => After(After(a, 1), i - 1) = After(a, i)
  BY UpdateAssumption DEF After

IdInv ==
  /\ last \in 0 .. MaxId
  /\ next \in Job
  /\ jobs \in Seq(Job) /\ Len(jobs) <= MaxQueue
  /\ progress = "idle" => jobs = <<>>
  /\ progress # "idle" =>
       /\ next.id # 0
       /\ \A i \in 1 .. Len(jobs) : jobs[i].id = After(next.id, i)
       /\ last = After(next.id, Len(jobs))

LEMMA IdsInit == Init => IdInv
  BY UpdateAssumption DEF Init, IdInv, NoJob, Job, Entries

LEMMA IdsStutter == IdInv /\ UNCHANGED jobVars => IdInv'
  BY DEF IdInv, jobVars

LEMMA IdsEnqueue ==
  ASSUME IdInv, NEW path \in Entries, NEW discard \in BOOLEAN, UpdateEnqueue(path, discard)
  PROVE  IdInv'
<1> DEFINE job == [path |-> path, discard |-> discard, id |-> NextId]
<1>1. NextId \in 1 .. MaxId /\ last' = NextId
  BY UpdateAssumption DEF IdInv, NextId, UpdateEnqueue
<1>2. job \in Job /\ job.id = NextId
  BY <1>1 DEF Job
<1>3. CASE progress = "idle"
  <2>1. progress' = "running" /\ next' = job /\ jobs' = <<>>
    BY <1>3 DEF UpdateEnqueue, Spawn, IdInv
  <2> HIDE DEF job
  <2>2. last' = After(next'.id, 0)
    BY <1>1, <1>2, <2>1, UpdateAssumption DEF After
  <2> QED
    BY <1>1, <1>2, <2>1, <2>2, UpdateAssumption DEF IdInv
<1>4. CASE progress # "idle"
  <2>1. /\ UNCHANGED <<progress, next>>
        /\ jobs' = Append(jobs, job)
        /\ Len(jobs) < MaxQueue
    BY <1>4, UpdateAssumption DEF UpdateEnqueue, Refuses, IdInv
  <2>2. /\ Len(jobs) \in Nat /\ jobs' \in Seq(Job) /\ Len(jobs') = Len(jobs) + 1
        /\ jobs'[Len(jobs) + 1] = job
        /\ \A i \in 1 .. Len(jobs) : jobs'[i] = jobs[i]
    BY <2>1, <1>2 DEF IdInv
  <2> HIDE DEF job
  <2>3. next.id \in 1 .. MaxId /\ last = After(next.id, Len(jobs))
    BY <1>4 DEF IdInv, Job
  <2>4. NextId = After(next.id, Len(jobs) + 1)
    <3>1. Len(jobs) \in 0 .. MaxQueue /\ Len(jobs) < MaxQueue
      BY <2>1, <2>2, UpdateAssumption
    <3>2. After(next.id, Len(jobs) + 1)
            = IF After(next.id, Len(jobs)) + 1 > MaxId THEN 1
              ELSE After(next.id, Len(jobs)) + 1
      BY <2>3, <3>1, AfterArithmetic
    <3> QED
      BY <2>3, <3>2 DEF NextId
  <2>5. \A i \in 1 .. Len(jobs) : jobs[i].id = After(next.id, i)
    BY <1>4 DEF IdInv
  <2>6. \A i \in 1 .. Len(jobs') : jobs'[i].id = After(next.id, i)
    BY <1>2, <2>2, <2>4, <2>5
  <2>7. last' = After(next.id, Len(jobs')) /\ last' \in 0 .. MaxId
    BY <1>1, <2>2, <2>4
  <2>8. Len(jobs') <= MaxQueue
    BY <2>1, <2>2, UpdateAssumption
  <2> QED
    BY <1>4, <2>1, <2>2, <2>3, <2>6, <2>7, <2>8 DEF IdInv
<1> QED
  BY <1>3, <1>4

LEMMA IdsFinished ==
  ASSUME IdInv, progress # "idle", Finished
  PROVE  IdInv'
<1>1. CASE jobs = <<>>
  <2>1. progress' = "idle" /\ next' = NoJob /\ jobs' = <<>> /\ last' = last
    BY <1>1 DEF Finished
  <2>2. NoJob \in Job
    BY UpdateAssumption DEF NoJob, Job, Entries
  <2> QED
    BY <2>1, <2>2, UpdateAssumption DEF IdInv
<1>2. CASE jobs # <<>>
  <2> DEFINE n == Len(jobs)
  <2>1. /\ next' = Head(jobs) /\ jobs' = Tail(jobs) /\ last' = last
        /\ progress' = "running"
    BY <1>2 DEF Finished, Spawn
  <2>2. /\ n \in Nat \ {0} /\ n <= MaxQueue
        /\ jobs' \in Seq(Job) /\ Len(jobs') = n - 1
        /\ next' = jobs[1] /\ next' \in Job
        /\ \A i \in 1 .. n - 1 : jobs'[i] = jobs[i + 1]
    BY <1>2, <2>1 DEF IdInv
  <2>3. /\ next.id \in 1 .. MaxId /\ last = After(next.id, n) /\ last \in 0 .. MaxId
        /\ \A i \in 1 .. n : jobs[i].id = After(next.id, i)
    BY DEF IdInv, Job
  <2> HIDE DEF n
  <2>4. next'.id = After(next.id, 1)
    BY <2>2, <2>3
  <2>5. ASSUME NEW i \in 1 .. n PROVE After(next'.id, i - 1) = After(next.id, i)
    <3>1. i \in 0 .. MaxQueue /\ i > 0
      BY <2>2, UpdateAssumption
    <3>2. After(After(next.id, 1), i - 1) = After(next.id, i)
      BY <2>3, <3>1, AfterArithmetic
    <3> QED
      BY <2>4, <3>2
  <2>6. next'.id # 0
    <3>1. 1 \in 0 .. MaxQueue
      BY <2>2, UpdateAssumption
    <3>2. After(next.id, 1) \in 1 .. MaxId
      BY <2>3, <3>1, AfterArithmetic
    <3> QED
      BY <2>4, <3>2, UpdateAssumption
  <2>7. ASSUME NEW i \in 1 .. n - 1 PROVE jobs'[i].id = After(next'.id, i)
    <3>1. jobs'[i].id = After(next.id, i + 1) /\ i + 1 \in 1 .. n
      BY <2>2, <2>3
    <3>2. After(next'.id, (i + 1) - 1) = After(next.id, i + 1)
      BY <3>1, <2>5
    <3> QED
      BY <3>1, <3>2
  <2>8. last' = After(next'.id, n - 1)
    BY <2>1, <2>2, <2>3, <2>5
  <2>9. n - 1 <= MaxQueue
    BY <2>2, UpdateAssumption
  <2> QED
    BY <2>1, <2>2, <2>3, <2>6, <2>7, <2>8, <2>9 DEF IdInv
<1> QED
  BY <1>1, <1>2

------------------------------------------------------------------------------
(* All of it.                                                              *)

UpdateInv == SongInv /\ StackInv /\ IdInv

LEMMA UpdateInit == Init => UpdateInv
<1> SUFFICES ASSUME Init PROVE StackInv
  BY SongInit, IdsInit DEF UpdateInv
<1>1. work = <<>> /\ events = {} /\ 1 .. Len(work) = {} /\ Len(work) = 0
  BY DEF Init
<1> QED
  BY <1>1 DEF StackInv

\* The steps of the main thread and its clients.
LEMMA MainStep ==
  ASSUME UpdateInv,
         HandleEvent \/ OnTimeout \/ GoOn \/ (\E s \in Songs : GetSong(s))
         \/ \E asked \in Asked : Request(asked)
  PROVE  StackInv' /\ IdInv'
<1> USE DEF UpdateInv
<1>1. ASSUME NEW path \in Entries, NEW discard \in BOOLEAN,
             UpdateEnqueue(path, discard), UNCHANGED events
      PROVE  StackInv' /\ IdInv'
  <2>1. IdInv'
    BY <1>1, IdsEnqueue
  <2>2. CASE progress = "idle"
    <3> DEFINE job == [path |-> path, discard |-> discard, id |-> NextId]
    <3>1. NextId \in 0 .. MaxId
      BY UpdateAssumption DEF IdInv, NextId
    <3>2. job \in Job /\ Spawn(job)
      BY <1>1, <2>2, <3>1 DEF UpdateEnqueue, Job
    <3>3. "UPDATE" \notin events'
      BY <1>1, <2>2 DEF StackInv
    <3> HIDE DEF job
    <3> QED
      BY <2>1, <3>2, <3>3, StackSpawn
  <2>3. CASE progress # "idle"
    BY <1>1, <2>1, <2>3, StackStutter DEF UpdateEnqueue
  <2> QED
    BY <2>2, <2>3
<1>2. ASSUME NEW asked \in Asked, Request(asked) PROVE StackInv' /\ IdInv'
  <2>1. asked.path \in Entries /\ asked.discard \in BOOLEAN
    BY UpdateAssumption
  <2> QED
    BY <1>1, <1>2, <2>1 DEF Request
<1>3. CASE Finished
  <2>1. "UPDATE" \in events /\ "UPDATE" \notin events'
    BY <1>3 DEF Finished
  <2>2. work = <<>> /\ progress = "done"
    BY <2>1 DEF StackInv
  <2>3. IdInv'
    BY <1>3, <2>2, IdsFinished
  <2>4. CASE jobs = <<>>
    <3>1. work' = <<>> /\ Len(work') = 0 /\ 1 .. Len(work') = {}
      BY <1>3, <2>2, <2>4 DEF Finished
    <3> QED
      BY <2>1, <2>3, <3>1 DEF StackInv
  <2>5. CASE jobs # <<>>
    <3>1. Head(jobs) \in Job /\ Spawn(Head(jobs))
      BY <1>3, <2>5 DEF Finished, IdInv
    <3> QED
      BY <2>1, <2>3, <3>1, StackSpawn
  <2> QED
    BY <2>4, <2>5
<1>4. CASE RemoveSong
  <2>1. UNCHANGED <<work, progress>> /\ UNCHANGED jobVars
        /\ events' = events \ {"DELETE"}
    BY <1>4 DEF RemoveSong, threadVars, jobVars
  <2> QED
    BY <2>1, IdsStutter DEF StackInv
<1>5. ASSUME NEW d \in Dirs, InotifyCallback(d) PROVE StackInv' /\ IdInv'
  BY <1>5, StackStutter, IdsStutter DEF InotifyCallback, threadVars, jobVars
<1>6. CASE OnTimeout \/ AppendSong \/ EndTimeout
  BY <1>6, StackStutter, IdsStutter
     DEF OnTimeout, AppendSong, EndTimeout, threadVars, jobVars
<1>7. CASE UpdatePath
  BY <1>1, <1>7 DEF UpdatePath, Entries
<1>8. ASSUME NEW s \in Songs, GetSong(s) PROVE StackInv' /\ IdInv'
  BY <1>8, StackStutter, IdsStutter DEF GetSong, threadVars, jobVars
<1> QED
  BY <1>2, <1>3, <1>4, <1>5, <1>6, <1>7, <1>8 DEF HandleEvent, GoOn

\* The update thread does not touch the jobs that wait.
LEMMA ThreadIds ==
  ASSUME UpdateInv, Thread
  PROVE  IdInv'
<1>1. CASE Done
  <2>1. work # <<>> /\ progress' = "done" /\ UNCHANGED <<next, jobs, last>>
    BY <1>1 DEF Done, At
  <2>2. progress # "idle"
    <3>1. work \in Seq(Frame)
      BY DEF UpdateInv, StackInv
    <3>2. Len(work) \in Nat \ {0}
      BY <2>1, <3>1
    <3>3. \A n \in Nat \ {0} : n = 1 \/ n > 1
      OBVIOUS
    <3>4. Len(work) = 1 \/ Len(work) > 1
      BY <3>2, <3>3, Zenon
    <3> QED
      BY <3>4, Zenon DEF UpdateInv, StackInv
  <2> QED
    BY <2>1, <2>2 DEF UpdateInv, IdInv
<1>2. CASE Visit \/ Open \/ Purge \/ Read \/ File \/ Save
  BY <1>2, IdsStutter DEF Visit, Open, Purge, Read, File, Save, Quietly, UpdateInv
<1>3. CASE Delete \/ Free \/ EmitUpdate
  BY <1>3, IdsStutter DEF Delete, Free, EmitUpdate, UpdateInv
<1> QED
  BY <1>1, <1>2, <1>3 DEF Thread

LEMMA UpdateStep == UpdateInv /\ [Next]_vars => UpdateInv'
<1> SUFFICES ASSUME UpdateInv, [Next]_vars PROVE StackInv' /\ IdInv'
  BY SongStep DEF UpdateInv
<1>1. ASSUME NEW s \in Songs, NEW t \in Times, Change(s, t) PROVE StackInv' /\ IdInv'
  BY <1>1, StackStutter, IdsStutter DEF UpdateInv, Change, threadVars, jobVars
<1>2. CASE Thread
  BY <1>2, StackThread, ThreadIds DEF UpdateInv
<1>3. CASE UNCHANGED vars
  BY <1>3, StackStutter, IdsStutter DEF UpdateInv, vars, threadVars, jobVars
<1> QED
  BY <1>1, <1>2, <1>3, MainStep DEF Next

------------------------------------------------------------------------------
(* What the queue, the database file and the clients know of the database. *)

\* Until an update is finished, modified says that they may be behind; a song
\* that is gone is in the queue only until the main thread has answered.
DataInv ==
  /\ queue \in [Songs -> Nat] /\ file \in [Songs -> Times] /\ told \in [Songs -> Times]
  /\ victim # None => work # <<>>
  /\ \A s \in Songs : queue[s] # 0 =>
       /\ db[s] # 0 \/ removed = s
       /\ queue[s] = db[s] \/ db[s] = 0 \/ (progress # "idle" /\ modified)
  /\ \A s \in Songs : db[s] # 0 =>
       /\ told[s] = db[s] \/ (progress # "idle" /\ modified)
       /\ file[s] = db[s] \/ (Len(work) > 2 /\ modified)

LEMMA DataInit == Init => DataInv
<1> SUFFICES ASSUME Init PROVE DataInv
  OBVIOUS
<1>1. file \in [Songs -> Times] /\ told = file /\ db = file /\ victim = None
  BY UpdateAssumption DEF Init, Times
<1>2. queue = [s \in Songs |-> 0]
  BY DEF Init
<1> QED
  BY <1>1, <1>2 DEF DataInv

LEMMA DataStutter ==
  DataInv /\ UNCHANGED <<queue, dbVars, victim, removed, progress, modified, work>> => DataInv'
  BY DEF DataInv, dbVars

\* A call of the walk does not reach the end of update_task().
LEMMA WalkGoesOn ==
  ASSUME StackInv, work # <<>>, Head(work).op \notin Ending,
         \/ UNCHANGED work
         \/ Return
         \/ \E call : Goto(call)
         \/ \E call, rest : work' = <<call, rest>> \o Tail(work)
  PROVE  Len(work) > 2 /\ Len(work') > 2 /\ work' # <<>> /\ progress = "running"
<1> DEFINE n == Len(work)
<1>1. work \in Seq(Frame) /\ n \in Nat \ {0} /\ 1 \in 1 .. n /\ Head(work) = work[1]
  BY DEF StackInv
<1>2. /\ (work[1].op = "emit") <=> (1 = n)
      /\ (work[1].op = "done") <=> (1 = n - 1)
      /\ (work[1].op = "save") <=> (1 = n - 2)
  BY <1>1, Zenon DEF StackInv
<1>3. n # 1 /\ n # 2 /\ n # 3
  BY <1>1, <1>2 DEF Ending
<1>4. n > 3
  <2> HIDE DEF n
  <2> QED
    BY <1>1, <1>3
<1>5. progress = "running"
  BY <1>4 DEF StackInv
<1>6. ASSUME UNCHANGED work PROVE Len(work') > 2 /\ work' # <<>>
  BY <1>4, <1>6
<1>7. ASSUME Return PROVE Len(work') > 2 /\ work' # <<>>
  BY <1>1, <1>4, <1>7 DEF Return
<1>8. ASSUME NEW call, Goto(call) PROVE Len(work') > 2 /\ work' # <<>>
  BY <1>1, <1>4, <1>8 DEF Goto
<1>9. ASSUME NEW call, NEW rest, work' = <<call, rest>> \o Tail(work)
      PROVE  Len(work') > 2 /\ work' # <<>>
  BY <1>1, <1>4, <1>9
<1>10. Len(work') > 2 /\ work' # <<>>
  BY <1>6, <1>7, <1>8, <1>9, Zenon
<1>11. Len(work) > 2
  BY <1>4
<1> QED
  BY <1>5, <1>10, <1>11, Zenon

LEMMA DataThread ==
  ASSUME UpdateInv, DataInv, Thread
  PROVE  DataInv'
<1> USE DEF At, UpdateInv
<1>1. CASE Visit \/ Open \/ Purge \/ Read
  <2>1. /\ victim = None /\ work # <<>> /\ Head(work).op \notin Ending
        /\ UNCHANGED <<queue, file, told, db, victim, removed, progress>>
        /\ modified => modified'
    <3>1. /\ victim = None /\ work # <<>>
          /\ Head(work).op \in {"visit", "open", "purge", "read"}
          /\ Quietly /\ UNCHANGED <<file, db>>
      BY <1>1 DEF Visit, Open, Purge, Read
    <3>2. modified => modified'
      BY <1>1 DEF Visit, Open, Purge, Read
    <3> QED
      BY <3>1, <3>2 DEF Quietly, mainVars, jobVars, Ending
  <2>2. \/ Return
        \/ \E call : Goto(call)
        \/ \E call, rest : work' = <<call, rest>> \o Tail(work)
    BY <1>1 DEF Visit, Open, Purge, Read, Goto
  <2>3. Len(work) > 2 /\ Len(work') > 2 /\ work' # <<>> /\ progress = "running"
    BY <2>1, <2>2, WalkGoesOn
  <2> QED
    BY <2>1, <2>3 DEF DataInv
<1>2. CASE File
  <2>1. /\ victim = None /\ work # <<>> /\ Head(work).op \notin Ending
        /\ UNCHANGED <<queue, file, told, victim, removed, progress>>
        /\ modified => modified'
        /\ Return \/ \E call : Goto(call)
    <3>1. /\ victim = None /\ work # <<>> /\ Head(work).op = "file"
          /\ Quietly /\ UNCHANGED file
      BY <1>2 DEF File
    <3>2. modified => modified'
      BY <1>2 DEF File
    <3>3. Goto(Call("delete", Here)) \/ Return
      BY <1>2 DEF File
    <3> QED
      BY <3>1, <3>2, <3>3 DEF Quietly, mainVars, jobVars, Ending
  <2>2. Len(work) > 2 /\ Len(work') > 2 /\ work' # <<>> /\ progress = "running"
    BY <2>1, WalkGoesOn
  <2>3. db' = db \/ (modified' /\ \A s \in Songs : db[s] # 0 => db'[s] # 0)
    <3>1. \/ db' = db
          \/ /\ fs[Here] # 0
             /\ \E stale \in BOOLEAN :
                  /\ db' = [db EXCEPT ![Here] = IF stale THEN fs[Here] ELSE @]
                  /\ modified' = (modified \/ stale)
      BY <1>2 DEF File
    <3>2. db \in [Songs -> Times]
      BY DEF SongInv
    <3> QED
      BY <3>1, <3>2
  <2> QED
    BY <2>1, <2>2, <2>3 DEF DataInv
<1>3. CASE Delete
  <2>1. /\ victim = None /\ work # <<>> /\ Head(work).op \notin Ending
        /\ UNCHANGED <<queue, file, told, progress, modified>>
        /\ UNCHANGED work \/ Return
    BY <1>3 DEF Delete, mainVars, jobVars, Ending
  <2>2. Len(work) > 2 /\ Len(work') > 2 /\ work' # <<>> /\ progress = "running"
    BY <2>1, WalkGoesOn
  <2>3. CASE UNCHANGED <<db, victim, removed>>
    BY <2>1, <2>2, <2>3 DEF DataInv
  <2>4. ASSUME NEW s \in Songs,
               db' = [db EXCEPT ![s] = 0], victim' = s, removed' = s
        PROVE  DataInv'
    <3>1. removed = None /\ db \in [Songs -> Times] /\ None \notin Songs
      BY <2>1, UpdateAssumption DEF SongInv
    <3>2. db'[s] = 0 /\ \A t \in Songs \ {s} : db'[t] = db[t]
      BY <2>4, <3>1
    <3> QED
      BY <2>1, <2>2, <2>4, <3>1, <3>2 DEF DataInv
  <2> QED
    BY <1>3, <2>3, <2>4 DEF Delete, Below
<1>4. CASE Free
  BY <1>4 DEF Free, DataInv, dbVars, mainVars, jobVars
<1>5. CASE Save
  <2>1. /\ victim = None /\ work # <<>> /\ Head(work).op = "save" /\ Return
        /\ UNCHANGED <<queue, db, told, victim, removed, progress, modified>>
        /\ file' = IF modified THEN db ELSE file
    BY <1>5 DEF Save, Quietly, mainVars, jobVars
  <2>2. db \in [Songs -> Times]
    BY DEF SongInv
  <2>3. file' \in [Songs -> Times] /\ \A s \in Songs : db[s] # 0 => file'[s] = db[s]
    BY <2>1, <2>2 DEF DataInv
  <2> QED
    BY <2>1, <2>3 DEF DataInv
<1>6. CASE Done \/ EmitUpdate
  <2>1. /\ victim = None /\ work # <<>> /\ Return
        /\ UNCHANGED <<queue, file, db, told, victim, removed, modified>>
        /\ progress # "idle" => progress' # "idle"
        /\ Head(work).op \in {"done", "emit"}
    BY <1>6 DEF Done, EmitUpdate, mainVars, jobVars, dbVars
  <2>2. ~(Len(work) > 2)
    <3> DEFINE n == Len(work)
    <3>1. n \in Nat \ {0} /\ 1 \in 1 .. n /\ Head(work) = work[1]
      BY <2>1 DEF StackInv
    <3>2. /\ (work[1].op = "emit") <=> (1 = n)
          /\ (work[1].op = "done") <=> (1 = n - 1)
      BY <3>1, Zenon DEF StackInv
    <3>3. n = 1 \/ n = 2
      BY <2>1, <3>1, <3>2
    <3>4. ~(n > 2)
      <4> HIDE DEF n
      <4> QED
        BY <3>3
    <3> QED
      BY <3>4
  <2> QED
    BY <2>1, <2>2 DEF DataInv
<1> QED
  BY <1>1, <1>2, <1>3, <1>4, <1>5, <1>6, Thread DEF Thread

\* Nothing differs from the database when no update is running.
LEMMA DataEnqueue ==
  ASSUME UpdateInv, DataInv, NEW path \in Entries, NEW discard \in BOOLEAN,
         UpdateEnqueue(path, discard), UNCHANGED <<queue, dbVars, victim, removed>>
  PROVE  DataInv'
<1>1. CASE progress # "idle"
  BY <1>1, DataStutter DEF UpdateEnqueue
<1>2. CASE progress = "idle"
  <2>1. ~(Len(work) > 2)
    BY <1>2 DEF UpdateInv, StackInv
  <2>2. work' # <<>>
    BY <1>2 DEF UpdateEnqueue, Spawn
  <2> QED
    BY <1>2, <2>1, <2>2 DEF DataInv, dbVars
<1> QED
  BY <1>1, <1>2

LEMMA DataMain ==
  ASSUME UpdateInv, DataInv,
         HandleEvent \/ OnTimeout \/ GoOn \/ (\E s \in Songs : GetSong(s))
         \/ \E asked \in Asked : Request(asked)
  PROVE  DataInv'
<1> USE DEF UpdateInv
<1>1. ASSUME NEW asked \in Asked, Request(asked) PROVE DataInv'
  <2>1. asked.path \in Entries /\ asked.discard \in BOOLEAN
    BY UpdateAssumption
  <2> QED
    BY <1>1, <2>1, DataEnqueue DEF Request, mainVars
<1>2. CASE Finished
  <2>1. /\ UNCHANGED <<db, file, victim, removed>>
        /\ IF modified THEN queue' = Refreshed /\ told' = db ELSE UNCHANGED <<queue, told>>
    BY <1>2 DEF Finished
  <2>2. work = <<>> /\ victim = None
    BY <1>2 DEF Finished, StackInv, DataInv
  <2>3. ~(Len(work) > 2) /\ removed = None
    BY <2>2 DEF SongInv
  <2>4. queue' \in [Songs -> Nat] /\ told' \in [Songs -> Times]
    <3>1. db \in [Songs -> Times] /\ Times \subseteq Nat
      BY UpdateAssumption DEF SongInv, Times
    <3> QED
      BY <2>1, <3>1 DEF DataInv, Refreshed
  <2>5. \A s \in Songs : /\ queue'[s] # 0 => db[s] # 0 /\ queue'[s] = db[s]
                         /\ db[s] # 0 => told'[s] = db[s] /\ file[s] = db[s]
    <3> SUFFICES ASSUME NEW s \in Songs
                 PROVE  /\ queue'[s] # 0 => db[s] # 0 /\ queue'[s] = db[s]
                        /\ db[s] # 0 => told'[s] = db[s] /\ file[s] = db[s]
      OBVIOUS
    <3>1. CASE modified
      <4>1. queue'[s] = (IF queue[s] # 0 /\ db[s] # 0 THEN db[s] ELSE queue[s])
        BY <2>1, <3>1 DEF Refreshed
      <4> QED
        BY <2>1, <2>3, <3>1, <4>1, UpdateAssumption DEF DataInv
    <3>2. CASE ~modified
      BY <2>1, <2>3, <3>2, UpdateAssumption DEF DataInv
    <3> QED
      BY <3>1, <3>2
  <2> QED
    BY <2>1, <2>2, <2>4, <2>5 DEF DataInv
<1>3. CASE RemoveSong
  <2>1. /\ queue' = [queue EXCEPT ![removed] = 0] /\ removed' = None
        /\ UNCHANGED <<db, file, told, progress, work, modified, victim>>
    BY <1>3 DEF RemoveSong, dbVars, jobVars, threadVars
  <2>2. queue' \in [Songs -> Nat]
        /\ \A s \in Songs : queue'[s] = IF s = removed THEN 0 ELSE queue[s]
    BY <2>1 DEF DataInv
  <2> QED
    BY <2>1, <2>2 DEF DataInv
<1>4. ASSUME NEW d \in Dirs, InotifyCallback(d) PROVE DataInv'
  BY <1>4, DataStutter DEF InotifyCallback, threadVars, jobVars
<1>5. CASE OnTimeout \/ EndTimeout
  BY <1>5, DataStutter DEF OnTimeout, EndTimeout, threadVars, jobVars
<1>6. CASE UpdatePath
  BY <1>6, DataEnqueue DEF UpdatePath, Entries
<1>7. ASSUME NEW s \in Songs, GetSong(s) PROVE DataInv'
  BY <1>7, DataStutter DEF GetSong, threadVars, jobVars
<1>8. CASE AppendSong
  <2>1. /\ borrowed \in Songs /\ (db[borrowed] # 0 \/ removed = borrowed)
        /\ queue' = [queue EXCEPT ![borrowed] = IF db[borrowed] # 0 THEN db[borrowed] ELSE 1]
        /\ UNCHANGED <<db, file, told, progress, work, modified, victim, removed>>
    BY <1>8 DEF AppendSong, dbVars, jobVars, threadVars, SongInv
  <2>2. queue' \in [Songs -> Nat]
    BY <2>1, UpdateAssumption DEF DataInv, SongInv, Times
  <2>3. \A s \in Songs :
          queue'[s] = IF s = borrowed THEN IF db[s] # 0 THEN db[s] ELSE 1 ELSE queue[s]
    BY <2>1 DEF DataInv
  <2> QED
    BY <2>1, <2>2, <2>3 DEF DataInv
<1> QED
  BY <1>1, <1>2, <1>3, <1>4, <1>5, <1>6, <1>7, <1>8 DEF HandleEvent, GoOn

LEMMA DataStep == UpdateInv /\ DataInv /\ [Next]_vars => DataInv'
<1> SUFFICES ASSUME UpdateInv, DataInv, [Next]_vars PROVE DataInv'
  OBVIOUS
<1>1. ASSUME NEW s \in Songs, NEW t \in Times, Change(s, t) PROVE DataInv'
  BY <1>1, DataStutter DEF Change, threadVars, jobVars, mainVars
<1>2. CASE UNCHANGED vars
  BY <1>2, DataStutter DEF vars, threadVars, jobVars, mainVars
<1> QED
  BY <1>1, <1>2, DataMain, DataThread DEF Next

LEMMA DataAlways == Spec => [](UpdateInv /\ DataInv)
  BY UpdateInit, UpdateStep, DataInit, DataStep, PTL DEF Spec

(* No stale song stays in the play queue after an update, and none that is    *)
(* gone: PlaylistUpdate.cxx:34-68 and UpdateRemove.cxx:48-94, whatever songs   *)
(* clients add while the walk changes the database.                          *)
THEOREM QueueIsUpToDate == Spec => []QueueFollowsDatabase
<1>1. UpdateInv /\ DataInv => QueueFollowsDatabase
  <2> SUFFICES ASSUME UpdateInv, DataInv, progress = "idle"
               PROVE  \A s \in Songs : queue[s] # 0 => borrowed = s \/ queue[s] = db[s]
    BY DEF QueueFollowsDatabase
  <2>1. work = <<>>
    <3>1. work \in Seq(Frame) /\ Len(work) \in Nat
      BY DEF UpdateInv, StackInv
    <3>2. ~(Len(work) > 1) /\ Len(work) # 1
      BY DEF UpdateInv, StackInv
    <3> QED
      BY <3>1, <3>2
  <2>2. removed = None
    BY <2>1 DEF DataInv, UpdateInv, SongInv
  <2> QED
    BY <2>2, UpdateAssumption DEF DataInv
<1> QED
  BY DataAlways, <1>1, PTL

(* An update that has changed the database saves it, and the clients that     *)
(* wait for "database" are told before it counts as finished:                *)
(* UpdateGlue.cxx:61-98, 156-178.                                            *)
THEOREM UpdatesAreSaved == Spec => []ChangesAreSaved
<1>1. UpdateInv /\ DataInv => ChangesAreSaved
  <2> SUFFICES ASSUME UpdateInv, DataInv, progress = "idle"
               PROVE  \A s \in Songs : db[s] # 0 => file[s] = db[s] /\ told[s] = db[s]
    BY DEF ChangesAreSaved
  <2>1. ~(Len(work) > 2)
    BY DEF UpdateInv, StackInv
  <2> QED
    BY <2>1 DEF DataInv
<1> QED
  BY DataAlways, <1>1, PTL

(* A client's job id names one job: UpdateGlue.cxx:108-140, for every limit of *)
(* the queue below the largest id.                                           *)
THEOREM JobIdsDiffer == Spec => []JobIdsAreDistinct
<1>1. UpdateInv => JobIdsAreDistinct
  <2> SUFFICES ASSUME UpdateInv PROVE JobIdsAreDistinct
    OBVIOUS
  <2>1. jobs \in Seq(Job) /\ DOMAIN jobs = 1 .. Len(jobs) /\ Len(jobs) \in Nat
        /\ next.id \in 0 .. MaxId
    BY DEF UpdateInv, IdInv, Job
  <2>2. CASE progress = "idle"
    BY <2>1, <2>2 DEF UpdateInv, IdInv, JobIdsAreDistinct
  <2>3. CASE progress # "idle"
    <3>1. /\ next.id \in 1 .. MaxId /\ Len(jobs) <= MaxQueue
          /\ \A i \in 1 .. Len(jobs) : jobs[i].id = After(next.id, i)
      BY <2>1, <2>3 DEF UpdateInv, IdInv
    <3>2. 1 .. Len(jobs) \subseteq 0 .. MaxQueue
      BY <2>1, <3>1, UpdateAssumption
    <3>3. ASSUME NEW i \in 1 .. Len(jobs) PROVE jobs[i].id # next.id
      BY <2>1, <3>1, <3>2, <3>3, AfterArithmetic
    <3>4. ASSUME NEW i \in 1 .. Len(jobs), NEW j \in 1 .. Len(jobs), i # j
          PROVE  jobs[i].id # jobs[j].id
      <4>1. /\ i \in 0 .. MaxQueue /\ j \in 0 .. MaxQueue
            /\ jobs[i].id = After(next.id, i) /\ jobs[j].id = After(next.id, j)
        BY <3>1, <3>2
      <4>2. After(next.id, i) # After(next.id, j)
        BY <3>1, <3>4, <4>1, AfterArithmetic
      <4> QED
        BY <4>1, <4>2
    <3> QED
      BY <2>1, <3>1, <3>3, <3>4 DEF JobIdsAreDistinct
  <2> QED
    BY <2>2, <2>3
<1> QED
  BY UpdateInit, UpdateStep, <1>1, PTL DEF Spec

(* song_remove_event() finds a song to remove, update_finished_event() a job  *)
(* that is finished.                                                         *)
THEOREM AssertionsNeverFail == Spec => []AssertionsHold
<1>1. UpdateInv => AssertionsHold
  <2> SUFFICES ASSUME UpdateInv PROVE AssertionsHold
    OBVIOUS
  <2>1. "UPDATE" \in events => work = <<>> /\ progress = "done"
    BY DEF UpdateInv, StackInv
  <2>2. progress = "done" => next.id # 0
    BY DEF UpdateInv, IdInv
  <2> QED
    BY <2>1, <2>2 DEF UpdateInv, SongInv, AssertionsHold
<1> QED
  BY UpdateInit, UpdateStep, <1>1, PTL DEF Spec

------------------------------------------------------------------------------
(* The tree of directories.                                                *)

\* Every non-empty set of natural numbers has a least element.
LEMMA LeastNumber ==
  ASSUME NEW S, S \subseteq Nat, S # {}
  PROVE  \E x \in S : \A y \in S : x <= y
<1>1. IsWellFoundedOn(OpToRel(<, Nat), Nat)
  BY NatLessThanWellFounded
<1>2. PICK x \in S : \A y \in S : <<y, x>> \notin OpToRel(<, Nat)
  BY <1>1, WFMin
<1>3. ASSUME NEW y \in S
      PROVE  x <= y
  <2>1. <<y, x>> \notin OpToRel(<, Nat)
    BY <1>2
  <2> QED BY <2>1 DEF OpToRel
<1> QED BY <1>3

\* How deep an entry is in the music directory.
IsDepth(depth) ==
  /\ depth \in [Entries -> Nat]
  /\ \A e \in Entries \ {Root} : depth[e] = depth[Parent[e]] + 1
  /\ \E n \in Nat : \A e \in Entries : depth[e] <= n

LEMMA DepthExists == \E depth : IsDepth(depth)
<1>1. PICK depth \in [Entries -> 0 .. Cardinality(Entries)] :
        \A e \in Entries \ {Root} : depth[e] = depth[Parent[e]] + 1
  BY TreeAssumption
<1>2. Cardinality(Entries) \in Nat
  BY TreeAssumption, FS_CardinalityType
<1>3. depth \in [Entries -> Nat] /\ \A e \in Entries : depth[e] <= Cardinality(Entries)
  BY <1>2
<1> QED BY <1>1, <1>2, <1>3 DEF IsDepth

\* What holds of the root and goes on from a directory to its children.
LEMMA TreeInduction ==
  ASSUME NEW S, S \subseteq Entries, Root \in S,
         \A e \in Entries \ {Root} : Parent[e] \in S => e \in S
  PROVE  S = Entries
<1>1. PICK depth : IsDepth(depth)
  BY DepthExists
<1> DEFINE bad == {depth[e] : e \in Entries \ S}
<1> SUFFICES ASSUME bad # {} PROVE FALSE
  OBVIOUS
<1>2. bad \subseteq Nat
  BY <1>1 DEF IsDepth
<1>3. PICK n \in bad : \A m \in bad : n <= m
  BY <1>2, LeastNumber
<1>4. PICK e \in Entries \ S : depth[e] = n
  BY <1>3
<1>5. e \in Entries \ {Root} /\ Parent[e] \in Entries
  BY <1>4, UpdateAssumption DEF Entries
<1>6. Parent[e] \in Entries \ S
  BY <1>4, <1>5
<1>7. depth[Parent[e]] \in Nat /\ n = depth[Parent[e]] + 1
  BY <1>1, <1>4, <1>5 DEF IsDepth
<1>8. n <= depth[Parent[e]]
  BY <1>3, <1>6
<1> QED BY <1>7, <1>8

\* Path as far as a depth of n.
PathTo(depth, n, f) ==
  f = [e \in {x \in Entries : depth[x] <= n} |->
         IF e = Root THEN {Root} ELSE {e} \cup f[Parent[e]]]

LEMMA PathToExists ==
  ASSUME NEW depth, IsDepth(depth), NEW n \in Nat
  PROVE  \E f : PathTo(depth, n, f)
<1> DEFINE bad == {k \in Nat : ~\E f : PathTo(depth, k, f)}
<1> SUFFICES ASSUME bad # {} PROVE FALSE
  OBVIOUS
<1>1. PICK k \in bad : \A j \in bad : k <= j
  BY LeastNumber
<1> DEFINE D == {x \in Entries : depth[x] <= k}
<1>2. ASSUME NEW e \in D, e # Root
      PROVE  /\ Parent[e] \in Entries /\ depth[Parent[e]] \in Nat
             /\ depth[e] = depth[Parent[e]] + 1 /\ depth[Parent[e]] <= k - 1
             /\ Parent[e] \in D
  <2>1. Parent[e] \in Entries
    BY <1>2, UpdateAssumption DEF Entries
  <2>2. depth[e] \in Nat /\ depth[Parent[e]] \in Nat
        /\ depth[e] = depth[Parent[e]] + 1
    BY <1>2, <2>1 DEF IsDepth
  <2> QED BY <1>2, <2>1, <2>2
<1>3. CASE k = 0
  <2> DEFINE f == [e \in D |-> {Root}]
  <2>1. \A e \in D : e = Root
    BY <1>2, <1>3
  <2>2. f = [e \in D |-> IF e = Root THEN {Root} ELSE {e} \cup f[Parent[e]]]
    BY <2>1
  <2>3. PathTo(depth, k, f)
    BY <2>2 DEF PathTo
  <2> QED BY <2>3
<1>4. CASE k # 0
  <2>1. k \in Nat /\ k - 1 \in Nat /\ k - 1 \notin bad
    BY <1>1, <1>4
  <2>2. PICK f : PathTo(depth, k - 1, f)
    BY <2>1
  <2> DEFINE g == [e \in D |-> IF e = Root THEN {Root} ELSE {e} \cup f[Parent[e]]]
  <2>3. ASSUME NEW e \in D
        PROVE  g[e] = IF e = Root THEN {Root} ELSE {e} \cup g[Parent[e]]
    <3>1. CASE e = Root
      BY <3>1
    <3>2. CASE e # Root
      <4>1. f[Parent[e]] = IF Parent[e] = Root THEN {Root}
                           ELSE {Parent[e]} \cup f[Parent[Parent[e]]]
        BY <1>2, <2>2, <3>2 DEF PathTo
      <4>2. g[Parent[e]] = f[Parent[e]]
        BY <1>2, <3>2, <4>1
      <4> QED BY <3>2, <4>2
    <3> QED BY <3>1, <3>2
  <2>4. g = [e \in D |-> g[e]]
    OBVIOUS
  <2>5. g = [e \in D |-> IF e = Root THEN {Root} ELSE {e} \cup g[Parent[e]]]
    <3> HIDE DEF g, D
    <3> QED BY <2>3, <2>4
  <2>6. PathTo(depth, k, g)
    <3> HIDE DEF g
    <3> QED BY <2>5 DEF PathTo
  <2> QED BY <2>1, <2>6
<1> QED BY <1>3, <1>4

\* Path is what its definition says.
LEMMA PathIs ==
  Path = [e \in Entries |-> IF e = Root THEN {Root} ELSE {e} \cup Path[Parent[e]]]
<1>1. PICK depth : IsDepth(depth)
  BY DepthExists
<1>2. PICK n \in Nat : \A e \in Entries : depth[e] <= n
  BY <1>1 DEF IsDepth
<1>3. PICK f : PathTo(depth, n, f)
  BY <1>1, PathToExists
<1>4. {x \in Entries : depth[x] <= n} = Entries
  BY <1>2
<1>5. f = [e \in Entries |-> IF e = Root THEN {Root} ELSE {e} \cup f[Parent[e]]]
  BY <1>3, <1>4 DEF PathTo
<1> QED BY <1>5 DEF Path

\* The directories that an entry is in.
PathOK(x) ==
  /\ Path[x] \subseteq Entries /\ x \in Path[x]
  /\ \A y \in Path[x] : y = x \/ y \in Dirs
  /\ \A y \in Path[x] : Path[y] \subseteq Path[x]
  /\ \A d \in Path[x] \ {x} : \E e \in Children(d) : e \in Path[x]

LEMMA PathFacts == \A x \in Entries : PathOK(x)
<1> DEFINE S == {x \in Entries : PathOK(x)}
<1>1. Root \in S
  <2>1. Path[Root] = {Root} /\ Root \in Entries
    BY PathIs, UpdateAssumption DEF Entries
  <2> QED BY <2>1 DEF PathOK
<1>2. ASSUME NEW x \in Entries \ {Root}, Parent[x] \in S
      PROVE  x \in S
  <2> DEFINE p == Parent[x]
  <2>1. Path[x] = {x} \cup Path[p]
    BY PathIs
  <2>2. p \in Dirs
    BY UpdateAssumption
  <2>3. PathOK(p)
    BY <1>2
  <2>4. x \in Children(p)
    BY DEF Children
  <2> HIDE DEF p
  <2>5. /\ Path[x] \subseteq Entries /\ x \in Path[x]
        /\ \A y \in Path[x] : y = x \/ y \in Dirs
        /\ \A y \in Path[x] : Path[y] \subseteq Path[x]
    BY <2>1, <2>2, <2>3 DEF PathOK
  <2>6. \A d \in Path[x] \ {x} : \E e \in Children(d) : e \in Path[x]
    BY <2>1, <2>3, <2>4 DEF PathOK
  <2> QED BY <2>5, <2>6 DEF PathOK
<1>3. S = Entries
  BY <1>1, <1>2, TreeInduction
<1> QED BY <1>3

------------------------------------------------------------------------------
(* The inotify queue.                                                      *)

PathsOf(q) == {q[i] : i \in 1 .. Len(q)}

LEMMA PathsOfOne ==
  ASSUME NEW x
  PROVE  PathsOf(<<x>>) = {x}
<1>1. Len(<<x>>) = 1 /\ <<x>>[1] = x /\ 1 .. 1 = {1}
  OBVIOUS
<1> QED BY <1>1 DEF PathsOf

LEMMA PathsOfAppend ==
  ASSUME NEW T, NEW q \in Seq(T), NEW x \in T
  PROVE  PathsOf(Append(q, x)) = PathsOf(q) \cup {x}
<1> DEFINE r == Append(q, x)
<1>1. /\ Len(r) = Len(q) + 1 /\ Len(q) \in Nat /\ r[Len(q) + 1] = x
      /\ \A i \in 1 .. Len(q) : r[i] = q[i]
  OBVIOUS
<1> HIDE DEF r
<1>2. 1 .. Len(r) = 1 .. Len(q) \cup {Len(q) + 1}
  BY <1>1
<1>3. PathsOf(r) = PathsOf(q) \cup {x}
  BY <1>1, <1>2 DEF PathsOf
<1> QED BY <1>3 DEF r

\* The first m paths of the queue that the new one does not cover.
KeptLoop(d, m, f) ==
  f = [i \in 0 .. m |-> IF i = 0 THEN <<>>
                        ELSE IF PathIn(inotify[i], d) THEN f[i - 1]
                        ELSE Append(f[i - 1], inotify[i])]

LEMMA KeptLoopExists ==
  ASSUME NEW d, NEW m \in Nat
  PROVE  \E f : KeptLoop(d, m, f)
<1> DEFINE bad == {k \in Nat : ~\E f : KeptLoop(d, k, f)}
           Then(v, i) == IF PathIn(inotify[i], d) THEN v ELSE Append(v, inotify[i])
<1> SUFFICES ASSUME bad # {} PROVE FALSE
  OBVIOUS
<1>1. PICK k \in bad : \A j \in bad : k <= j
  BY LeastNumber
<1>2. CASE k = 0
  <2>1. KeptLoop(d, 0, [i \in 0 .. 0 |-> <<>>])
    BY DEF KeptLoop
  <2> QED BY <1>2, <2>1
<1>3. CASE k # 0
  <2>1. k \in Nat /\ k - 1 \in Nat /\ k - 1 \notin bad
    BY <1>1, <1>3
  <2>2. PICK f : KeptLoop(d, k - 1, f)
    BY <2>1
  <2> DEFINE g == [i \in 0 .. k |-> IF i = k THEN Then(f[k - 1], k) ELSE f[i]]
  <2>3. ASSUME NEW i \in 0 .. k
        PROVE  g[i] = IF i = 0 THEN <<>> ELSE Then(g[i - 1], i)
    <3>1. CASE i = k
      <4>1. i # 0 /\ i - 1 \in 0 .. k /\ i - 1 # k
        BY <2>1, <3>1, <1>3
      <4> HIDE DEF Then
      <4> QED BY <3>1, <4>1
    <3>2. CASE i # k
      <4>1. i \in 0 .. (k - 1) /\ g[i] = f[i]
        BY <2>1, <3>2
      <4>2. i # 0 => i - 1 \in 0 .. k /\ i - 1 # k /\ g[i - 1] = f[i - 1]
        BY <2>1, <4>1
      <4>3. f[i] = IF i = 0 THEN <<>> ELSE Then(f[i - 1], i)
        BY <2>2, <4>1 DEF KeptLoop
      <4> HIDE DEF Then, g
      <4> QED BY <4>1, <4>2, <4>3
    <3> QED BY <3>1, <3>2
  <2>4. KeptLoop(d, k, g)
    <3>1. g = [i \in 0 .. k |-> g[i]]
      OBVIOUS
    <3> HIDE DEF g
    <3> QED BY <2>3, <3>1 DEF KeptLoop
  <2> QED BY <2>1, <2>4
<1> QED BY <1>2, <1>3

\* It keeps the paths that are not in d.
LEMMA KeptOK ==
  ASSUME inotify \in Seq(Dirs), NEW d, NEW m \in 0 .. Len(inotify),
         NEW f, KeptLoop(d, m, f)
  PROVE  /\ f[m] \in Seq(Dirs)
         /\ \A i \in 1 .. m : ~PathIn(inotify[i], d) => inotify[i] \in PathsOf(f[m])
<1> DEFINE Good(n) == /\ f[n] \in Seq(Dirs)
                      /\ \A i \in 1 .. n :
                           ~PathIn(inotify[i], d) => inotify[i] \in PathsOf(f[n])
           bad == {n \in 0 .. m : ~Good(n)}
<1>1. m \in Nat /\ m <= Len(inotify) /\ Len(inotify) \in Nat
  OBVIOUS
<1>2. bad = {}
  <2> SUFFICES ASSUME bad # {} PROVE FALSE
    OBVIOUS
  <2>1. bad \subseteq Nat
    BY <1>1
  <2>2. PICK n \in bad : \A j \in bad : n <= j
    BY <2>1, LeastNumber
  <2>3. n \in 0 .. m /\ n \in Nat
    BY <1>1, <2>2
  <2>4. CASE n = 0
    <3>1. f[0] = <<>> /\ 1 .. 0 = {}
      BY <1>1, <2>3, <2>4 DEF KeptLoop
    <3>2. Good(0)
      BY <3>1
    <3> QED BY <2>2, <2>4, <3>2
  <2>5. CASE n # 0
    <3>1. n - 1 \in 0 .. m /\ n - 1 \notin bad
      BY <1>1, <2>2, <2>3, <2>5
    <3>2. Good(n - 1)
      BY <3>1
    <3>3. f[n] = IF PathIn(inotify[n], d) THEN f[n - 1] ELSE Append(f[n - 1], inotify[n])
      BY <2>3, <2>5 DEF KeptLoop
    <3>4. n \in 1 .. Len(inotify) /\ inotify[n] \in Dirs
      BY <1>1, <2>3, <2>5
    <3>5. \A i \in 1 .. n : i = n \/ i \in 1 .. (n - 1)
      BY <2>3
    <3>6. CASE PathIn(inotify[n], d)
      <4>1. f[n] = f[n - 1]
        BY <3>3, <3>6
      <4>2. Good(n)
        BY <3>2, <3>5, <3>6, <4>1
      <4> QED BY <2>2, <4>2
    <3>7. CASE ~PathIn(inotify[n], d)
      <4>1. f[n - 1] \in Seq(Dirs) /\ f[n] = Append(f[n - 1], inotify[n])
        BY <3>2, <3>3, <3>7
      <4>2. PathsOf(f[n]) = PathsOf(f[n - 1]) \cup {inotify[n]}
        BY <3>4, <4>1, PathsOfAppend
      <4>3. f[n] \in Seq(Dirs)
        BY <3>4, <4>1
      <4>4. Good(n)
        BY <3>2, <3>5, <4>2, <4>3
      <4> QED BY <2>2, <4>4
    <3> QED BY <3>6, <3>7
  <2> QED BY <2>4, <2>5
<1>3. m \in 0 .. m
  BY <1>1
<1> QED BY <1>2, <1>3

\* Two sequences of paths, one after the other.
LEMMA PathsOfConcat ==
  ASSUME NEW T, NEW q \in Seq(T), NEW r \in Seq(T)
  PROVE  q \o r \in Seq(T) /\ PathsOf(q \o r) = PathsOf(q) \cup PathsOf(r)
<1>1. /\ q \o r \in Seq(T) /\ Len(q \o r) = Len(q) + Len(r)
      /\ Len(q) \in Nat /\ Len(r) \in Nat
      /\ \A i \in 1 .. Len(q) : (q \o r)[i] = q[i]
      /\ \A i \in 1 .. Len(r) : (q \o r)[Len(q) + i] = r[i]
  OBVIOUS
<1> DEFINE w == q \o r
<1> HIDE DEF w
<1>2. PathsOf(q) \subseteq PathsOf(w)
  <2>1. \A i \in 1 .. Len(q) : i \in 1 .. Len(w) /\ w[i] = q[i]
    BY <1>1 DEF w
  <2> QED BY <2>1 DEF PathsOf
<1>3. PathsOf(r) \subseteq PathsOf(w)
  <2>1. \A i \in 1 .. Len(r) : Len(q) + i \in 1 .. Len(w) /\ w[Len(q) + i] = r[i]
    BY <1>1 DEF w
  <2> QED BY <2>1 DEF PathsOf
<1>4. PathsOf(w) \subseteq PathsOf(q) \cup PathsOf(r)
  <2>1. ASSUME NEW i \in 1 .. Len(w)
        PROVE  w[i] \in PathsOf(q) \cup PathsOf(r)
    <3>1. i \in 1 .. (Len(q) + Len(r))
      BY <1>1 DEF w
    <3>2. CASE i \in 1 .. Len(q)
      BY <1>1, <3>2 DEF PathsOf, w
    <3>3. CASE i \notin 1 .. Len(q)
      <4>1. i - Len(q) \in 1 .. Len(r) /\ i = Len(q) + (i - Len(q))
        BY <1>1, <3>1, <3>3
      <4>2. w[i] = r[i - Len(q)]
        BY <1>1, <4>1 DEF w
      <4> QED BY <4>1, <4>2 DEF PathsOf
    <3> QED BY <3>2, <3>3
  <2> QED BY <2>1 DEF PathsOf
<1> QED BY <1>1, <1>2, <1>3, <1>4 DEF w

(* InotifyQueue::Enqueue(): a path that is not the music directory itself is  *)
(* in the queue afterwards, or one that covers it, and so are the others.     *)
LEMMA EnqueuedOK ==
  ASSUME inotify \in Seq(Dirs), NEW d \in Dirs
  PROVE  /\ Enqueued(d) \in Seq(Dirs)
         /\ d # Root => \E p \in PathsOf(Enqueued(d)) \ {Root} : p \in Path[d]
         /\ \A p \in PathsOf(inotify) \ {Root} :
              \/ p \in PathsOf(Enqueued(d))
              \/ d # Root /\ d \in Path[p]
<1> DEFINE n == Len(inotify)
           C == Covering(d)
           end == Passed(d)
           rest == IF C = {} THEN <<d>> ELSE SubSeq(inotify, end + 1, n)
<1>1. n \in Nat /\ DOMAIN inotify = 1 .. n /\ C \subseteq 1 .. n
  BY DEF Covering
<1>2. end \in Int /\ IF C = {} THEN end = n ELSE end + 1 \in C
  <2>1. CASE C = {}
    <3>1. end = n
      BY <2>1 DEF Passed
    <3> HIDE DEF C, end, n
    <3> QED BY <1>1, <2>1, <3>1
  <2>2. CASE C # {}
    <3> DEFINE first == CHOOSE i \in C : \A j \in C : i <= j
    <3>1. \E i \in C : \A j \in C : i <= j
      BY <1>1, <2>2, LeastNumber
    <3>2. first \in C
      BY <3>1
    <3>3. end = first - 1
      BY <2>2 DEF Passed
    <3> HIDE DEF first, C, end
    <3>4. first \in Int
      BY <1>1, <3>2
    <3>5. end \in Int /\ end + 1 = first
      BY <3>3, <3>4
    <3> QED BY <2>2, <3>2, <3>5
  <2> QED BY <2>1, <2>2
<1>3. end \in 0 .. n /\ end \in Nat /\ end <= n
  <2> HIDE DEF n, C, end
  <2>1. CASE C = {}
    BY <1>1, <1>2, <2>1
  <2>2. CASE C # {}
    <3>1. end + 1 \in 1 .. n
      BY <1>1, <1>2, <2>2
    <3> QED BY <1>1, <1>2, <3>1
  <2> QED BY <2>1, <2>2
<1>4. \E f : KeptLoop(d, end, f)
  BY <1>3, KeptLoopExists
<1>5. PICK f : KeptLoop(d, end, f) /\ Enqueued(d) = f[end] \o rest
  BY <1>4 DEF Enqueued, KeptLoop
<1>6. /\ f[end] \in Seq(Dirs)
      /\ \A i \in 1 .. end : ~PathIn(inotify[i], d) => inotify[i] \in PathsOf(f[end])
  BY <1>3, <1>5, KeptOK
<1>7. /\ rest \in Seq(Dirs)
      /\ C = {} => PathsOf(rest) = {d}
      /\ C # {} => \A i \in (end + 1) .. n : inotify[i] \in PathsOf(rest)
  <2>1. CASE C = {}
    <3>1. <<d>> \in Seq(Dirs) /\ Len(<<d>>) = 1 /\ <<d>>[1] = d /\ 1 .. 1 = {1}
      OBVIOUS
    <3> QED BY <2>1, <3>1 DEF PathsOf
  <2>2. CASE C # {}
    <3> DEFINE r == SubSeq(inotify, end + 1, n)
    <3>1. /\ r \in Seq(Dirs) /\ Len(r) = n - end
          /\ \A j \in 1 .. (n - end) : r[j] = inotify[end + j]
      BY <1>3
    <3> HIDE DEF r
    <3>2. ASSUME NEW i \in (end + 1) .. n
          PROVE  inotify[i] \in PathsOf(r)
      <4>1. i - end \in 1 .. (n - end) /\ end + (i - end) = i
        BY <1>3
      <4>2. r[i - end] = inotify[i] /\ i - end \in 1 .. Len(r)
        BY <3>1, <4>1
      <4> QED BY <4>2 DEF PathsOf
    <3> QED BY <2>2, <3>1, <3>2 DEF r
  <2> QED BY <2>1, <2>2
<1> HIDE DEF C, end, rest
<1>8. /\ Enqueued(d) \in Seq(Dirs)
      /\ PathsOf(Enqueued(d)) = PathsOf(f[end]) \cup PathsOf(rest)
  BY <1>5, <1>6, <1>7, PathsOfConcat
<1>9. d # Root => \E p \in PathsOf(Enqueued(d)) \ {Root} : p \in Path[d]
  <2>1. CASE C = {}
    <3>1. d \in Path[d]
      BY PathFacts DEF PathOK, Entries
    <3> QED BY <1>7, <1>8, <2>1, <3>1
  <2>2. CASE C # {}
    <3>1. end + 1 \in (end + 1) .. n
      <4> HIDE DEF n
      <4>1. end + 1 \in 1 .. n
        BY <1>1, <1>2, <2>2
      <4> QED BY <1>1, <1>2, <4>1
    <3>2. PathIn(d, inotify[end + 1])
      BY <1>2, <2>2 DEF C, Covering
    <3>3. d # Root => inotify[end + 1] # Root /\ inotify[end + 1] \in Path[d]
      BY <3>2 DEF PathIn
    <3> QED BY <1>7, <1>8, <2>2, <3>1, <3>3
  <2> QED BY <2>1, <2>2
<1>10. ASSUME NEW p \in PathsOf(inotify) \ {Root}
       PROVE  p \in PathsOf(Enqueued(d)) \/ (d # Root /\ d \in Path[p])
  <2>1. PICK i \in 1 .. n : inotify[i] = p
    BY DEF PathsOf
  <2>2. i \in 1 .. end \/ i \in (end + 1) .. n
    BY <1>1, <1>3
  <2>3. CASE i \in 1 .. end /\ PathIn(p, d)
    BY <1>10, <2>3 DEF PathIn
  <2>4. CASE i \in 1 .. end /\ ~PathIn(p, d)
    BY <1>6, <1>8, <2>1, <2>4
  <2>5. CASE i \in (end + 1) .. n
    <3>1. C # {}
      <4> HIDE DEF n
      <4> QED BY <1>1, <1>2, <2>5
    <3> QED BY <1>7, <1>8, <2>1, <2>5, <3>1
  <2> QED BY <2>2, <2>3, <2>4, <2>5
<1> QED BY <1>8, <1>9, <1>10

------------------------------------------------------------------------------
(* The database follows the music directory.                               *)

\* What the walk makes of a song.
Wanted(tree, s) == IF tree[s] \in Unreadable \cup Unknown THEN 0 ELSE tree[s]

\* The paths that are to be updated.
Asking == notify \cup PathsOf(inotify) \cup {job.path : job \in PathsOf(jobs)}
AskedFor(paths, s) == \E p \in paths \ {Root} : p \in Path[s]

\* Call f is going to look at song s, ...
Mends(tree, f, s) ==
  \/ f.op \in {"visit", "open"} /\ f.at # Root /\ f.at \in Path[s]
  \/ /\ f.op = "purge" /\ f.at # Root /\ f.at \in Path[s]
     /\ \E e \in Children(f.at) : e \in Path[s] /\ (e \in f.left \/ Exists(tree, e))
  \/ f.op = "read" /\ \E e \in f.left \ {Root} : e \in Path[s]
  \/ f.op = "file" /\ f.at = s
  \/ f.op = "delete" /\ f.at \in Path[s]

\* ... or is going to do the wrong thing with it, for it knows too little.
Spoils(tree, f, s) ==
  \/ f.op = "delete" /\ f.at \in Path[s] /\ Wanted(tree, s) # 0
  \/ f.op = "file" /\ f.at = s /\ f.mtime # tree[s]

Followed(tree, base, calls, s) ==
  /\ base[s] = Wanted(tree, s) \/ \E f \in calls : Mends(tree, f, s)
  /\ \A f \in calls : ~Spoils(tree, f, s)

CallOK(f) == (f.op = "file" => f.at \in Songs) /\ (f.op = "open" => f.at \in Dirs)

\* A song is as it should be, or a call of the walk sees to it; if not, another
\* update of a directory it is in is to come.
FollowInv ==
  /\ notify \subseteq Dirs /\ inotify \in Seq(Dirs)
  /\ \A f \in PathsOf(work) : CallOK(f)
  /\ \A s \in Songs : /\ db[s] \notin Unreadable \cup Unknown
                      /\ AskedFor(Asking, s) \/ Followed(fs, db, PathsOf(work), s)

\* No song is in the music directory itself, and the database file holds none
\* that cannot be read.
FollowAssumption ==
  /\ \A s \in Songs : Parent[s] # Root
  /\ \A f \in Loaded, s \in Songs : f[s] \notin Unreadable \cup Unknown

LEMMA FollowInit ==
  ASSUME FollowAssumption, Init
  PROVE  FollowInv
<1>1. /\ notify = {} /\ inotify = <<>> /\ work = <<>> /\ db = fs /\ fs \in Loaded
      /\ PathsOf(work) = {}
  <2>1. 1 .. Len(<<>>) = {}
    OBVIOUS
  <2> QED BY <2>1 DEF Init, PathsOf
<1>2. ASSUME NEW s \in Songs
      PROVE  /\ db[s] \notin Unreadable \cup Unknown
             /\ Followed(fs, db, PathsOf(work), s)
  BY <1>1 DEF FollowAssumption, Followed, Wanted
<1> QED BY <1>1, <1>2 DEF FollowInv

LEMMA FollowStutter ==
  ASSUME FollowInv, UNCHANGED <<fs, notify, inotify, jobs, db, work>>
  PROVE  FollowInv'
BY DEF FollowInv, Asking

\* A song has only itself below it.
LEMMA SongIsLeaf ==
  \A s \in Songs : /\ s \in Entries /\ s # Root /\ s \notin Dirs
                  /\ \A t \in Songs : s \in Path[t] => t = s
  BY PathFacts, UpdateAssumption DEF PathOK, Entries

------------------------------------------------------------------------------
(* Somebody changes the music directory.                                   *)

LEMMA FollowChange ==
  ASSUME FollowAssumption, FollowInv, NEW s \in Songs, NEW t \in Times, Change(s, t)
  PROVE  FollowInv'
<1>1. /\ fs' = [fs EXCEPT ![s] = t] /\ UNCHANGED <<inotify, jobs, db, work>>
      /\ notify' = notify \cup {Parent[s]} \cup
           {Parent[d] : d \in {x \in Dirs \ {Root} : Exists(fs, x) # Exists(fs', x)}}
  BY DEF Change, dbVars, jobVars, threadVars, mainVars
<1>2. notify' \subseteq Dirs /\ notify \subseteq notify'
  BY <1>1, UpdateAssumption DEF FollowInv, Entries
<1>3. Asking \subseteq Asking' /\ notify' \subseteq Asking'
  BY <1>1, <1>2 DEF Asking
<1>4. AskedFor(Asking', s)
  <2>1. s \in Entries \ {Root} /\ Parent[s] \in Path[s]
    <3>1. s \in Entries \ {Root} /\ Parent[s] \in Entries
      BY SongIsLeaf, UpdateAssumption DEF Entries
    <3>2. Path[s] = {s} \cup Path[Parent[s]]
      BY <3>1, PathIs
    <3> QED BY <3>1, <3>2, PathFacts DEF PathOK
  <2>2. Parent[s] \in Asking' \ {Root}
    BY <1>1, <1>3 DEF FollowAssumption
  <2> QED BY <2>1, <2>2 DEF AskedFor
<1>5. ASSUME NEW x \in Songs, x # s, Followed(fs, db, PathsOf(work), x)
      PROVE  AskedFor(Asking', x) \/ Followed(fs', db, PathsOf(work), x)
  <2>1. fs'[x] = fs[x] /\ Wanted(fs', x) = Wanted(fs, x)
    BY <1>1, <1>5 DEF Wanted
  <2>2. \A f : Spoils(fs', f, x) => Spoils(fs, f, x)
    BY <2>1 DEF Spoils
  <2>3. ASSUME NEW f, Mends(fs, f, x)
        PROVE  AskedFor(Asking', x) \/ Mends(fs', f, x)
    <3>1. CASE f.op # "purge"
      BY <2>3, <3>1 DEF Mends
    <3>2. CASE f.op = "purge"
      <4>1. /\ f.at # Root /\ f.at \in Path[x]
            /\ \E e \in Children(f.at) : e \in Path[x] /\ (e \in f.left \/ Exists(fs, e))
        BY <2>3, <3>2 DEF Mends
      <4>2. PICK e \in Children(f.at) : e \in Path[x] /\ (e \in f.left \/ Exists(fs, e))
        BY <4>1
      <4>3. CASE e \in f.left \/ Exists(fs', e)
        BY <3>2, <4>1, <4>2, <4>3 DEF Mends
      <4>4. CASE Exists(fs, e) /\ ~Exists(fs', e) /\ e \in Dirs
        <5>1. e # Root /\ Parent[e] = f.at
          BY DEF Children
        <5>2. f.at \in notify'
          BY <1>1, <4>4, <5>1
        <5> QED BY <1>3, <4>1, <5>2 DEF AskedFor
      <4>5. CASE Exists(fs, e) /\ ~Exists(fs', e) /\ e \notin Dirs
        <5>1. e = x /\ e # Root
          BY <4>2, <4>5, PathFacts DEF PathOK, Entries, Children
        <5>2. Exists(fs', e)
          BY <1>1, <1>5, <2>1, <4>5, <5>1, SongIsLeaf DEF Exists, Below
        <5> QED BY <4>5, <5>2
      <4> QED BY <4>2, <4>3, <4>4, <4>5
    <3> QED BY <3>1, <3>2
  <2> QED BY <1>5, <2>1, <2>2, <2>3 DEF Followed
<1>6. ASSUME NEW x \in Songs
      PROVE  AskedFor(Asking', x) \/ Followed(fs', db, PathsOf(work), x)
  <2>1. CASE AskedFor(Asking, x)
    BY <1>3, <2>1 DEF AskedFor
  <2>2. CASE Followed(fs, db, PathsOf(work), x)
    BY <1>4, <1>5, <2>2
  <2> QED BY <2>1, <2>2 DEF FollowInv
<1> QED BY <1>1, <1>2, <1>6 DEF FollowInv

------------------------------------------------------------------------------
(* The main thread.                                                        *)

\* A path is not forgotten when it becomes the job of the update thread.
LEMMA FollowSpawn ==
  ASSUME FollowInv, work = <<>>, NEW job \in Job, Spawn(job), UNCHANGED <<fs, db>>,
         notify' \subseteq Dirs, inotify' \in Seq(Dirs),
         Asking \subseteq Asking' \cup {job.path}
  PROVE  FollowInv'
<1> DEFINE A == Call("visit", job.path)
           B == Call("save", Root)
           C == Call("done", Root)
           D == Call("emit", Root)
<1>1. /\ A.op = "visit" /\ A.at = job.path
      /\ B.op = "save" /\ C.op = "done" /\ D.op = "emit"
  BY DEF Call
<1>2. work' = <<A, B, C, D>>
  BY DEF Spawn
<1> HIDE DEF A, B, C, D
<1>3. PathsOf(work) = {} /\ PathsOf(work') = {A, B, C, D}
  <2>1. 1 .. Len(<<>>) = {} /\ 1 .. 4 = {1, 2, 3, 4}
    OBVIOUS
  <2>2. Len(work') = 4 /\ work'[1] = A /\ work'[2] = B /\ work'[3] = C /\ work'[4] = D
    BY <1>2
  <2>3. PathsOf(work') = {work'[i] : i \in {1, 2, 3, 4}}
    BY <2>1, <2>2 DEF PathsOf
  <2> QED BY <2>1, <2>2, <2>3 DEF PathsOf
<1>4. \A f \in PathsOf(work') : CallOK(f) /\ \A s \in Songs : ~Spoils(fs, f, s)
  BY <1>1, <1>3 DEF CallOK, Spoils
<1>5. ASSUME NEW s \in Songs
      PROVE  AskedFor(Asking', s) \/ Followed(fs, db, PathsOf(work'), s)
  <2>1. CASE Followed(fs, db, PathsOf(work), s)
    BY <1>3, <1>4, <2>1 DEF Followed
  <2>2. ASSUME NEW p \in Asking \ {Root}, p \in Path[s]
        PROVE  AskedFor(Asking', s) \/ Followed(fs, db, PathsOf(work'), s)
    <3>1. CASE p \in Asking'
      BY <2>2, <3>1 DEF AskedFor
    <3>2. CASE p = job.path
      <4>1. Mends(fs, A, s)
        BY <1>1, <2>2, <3>2 DEF Mends
      <4> QED BY <1>3, <1>4, <4>1 DEF Followed
    <3> QED BY <3>1, <3>2
  <2> QED BY <2>1, <2>2 DEF FollowInv, AskedFor
<1> QED BY <1>4, <1>5 DEF FollowInv

\* No path is lost on its way to the update thread.
LEMMA FollowAsked ==
  ASSUME FollowInv, UNCHANGED <<fs, db, work>>,
         notify' \subseteq Dirs, inotify' \in Seq(Dirs),
         \A s \in Songs : AskedFor(Asking, s) => AskedFor(Asking', s)
  PROVE  FollowInv'
BY DEF FollowInv

LEMMA IdleOrDone ==
  ASSUME StackInv, progress = "idle" \/ "UPDATE" \in events
  PROVE  work = <<>>
<1>1. work \in Seq(Frame) /\ Len(work) \in Nat
  BY DEF StackInv
<1>2. CASE progress = "idle"
  <2> DEFINE n == Len(work)
  <2>1. n \in Nat /\ ~(n > 1) /\ n # 1
    BY <1>1, <1>2 DEF StackInv
  <2>2. n = 0
    <3> HIDE DEF n
    <3> QED BY <2>1
  <2> QED BY <1>1, <2>2
<1>3. CASE "UPDATE" \in events
  BY <1>3 DEF StackInv
<1> QED BY <1>2, <1>3

\* update_enqueue(): the path waits in the queue of jobs, or is the job.
LEMMA FollowEnqueue ==
  ASSUME UpdateInv, FollowInv, NEW path \in Entries, NEW discard \in BOOLEAN,
         UpdateEnqueue(path, discard), UNCHANGED <<fs, db, notify>>,
         inotify' \in Seq(Dirs), PathsOf(inotify) \subseteq PathsOf(inotify') \cup {path}
  PROVE  FollowInv'
<1> DEFINE job == [path |-> path, discard |-> discard, id |-> NextId]
<1>1. job \in Job /\ job.path = path
  <2>1. NextId \in 0 .. MaxId
    BY UpdateAssumption DEF UpdateInv, IdInv, NextId
  <2> QED BY <2>1 DEF Job
<1>2. CASE progress = "idle"
  <2>1. Spawn(job) /\ UNCHANGED jobs
    BY <1>2 DEF UpdateEnqueue
  <2>2. work = <<>>
    BY <1>2, IdleOrDone DEF UpdateInv
  <2> HIDE DEF job
  <2>3. Asking \subseteq Asking' \cup {job.path}
    BY <1>1, <2>1 DEF Asking
  <2>4. notify' \subseteq Dirs
    BY DEF FollowInv
  <2> QED BY <1>1, <2>1, <2>2, <2>3, <2>4, FollowSpawn
<1>3. CASE progress # "idle"
  <2>1. jobs' = Append(jobs, job) /\ UNCHANGED work
    BY <1>3 DEF UpdateEnqueue
  <2> HIDE DEF job
  <2>2. PathsOf(jobs') = PathsOf(jobs) \cup {job}
    BY <1>1, <2>1, PathsOfAppend DEF UpdateInv, IdInv
  <2>3. Asking \subseteq Asking'
    BY <1>1, <2>2 DEF Asking
  <2>4. notify' \subseteq Dirs
    BY DEF FollowInv
  <2> QED BY <2>1, <2>3, <2>4, FollowAsked DEF AskedFor
<1> QED BY <1>2, <1>3

LEMMA PathsOfHeadTail ==
  ASSUME NEW T, NEW q \in Seq(T), q # <<>>
  PROVE  /\ Head(q) \in T /\ Tail(q) \in Seq(T)
         /\ PathsOf(q) = {Head(q)} \cup PathsOf(Tail(q))
<1> DEFINE r == Tail(q)
           h == Head(q)
           n == Len(q)
<1>1. /\ n \in Nat \ {0} /\ h \in T /\ h = q[1] /\ r \in Seq(T) /\ Len(r) = n - 1
      /\ \A i \in 1 .. n - 1 : r[i] = q[i + 1]
  OBVIOUS
<1> HIDE DEF r, h, n
<1>2. {h} \cup PathsOf(r) \subseteq PathsOf(q)
  <2>1. 1 \in 1 .. n /\ \A i \in 1 .. n - 1 : i + 1 \in 1 .. n
    BY <1>1
  <2> QED BY <1>1, <2>1 DEF PathsOf, n
<1>3. ASSUME NEW i \in 1 .. n PROVE q[i] \in {h} \cup PathsOf(r)
  <2>1. CASE i = 1
    BY <1>1, <2>1
  <2>2. CASE i # 1
    <3>1. i - 1 \in 1 .. n - 1 /\ (i - 1) + 1 = i
      BY <1>1, <2>2
    <3>2. r[i - 1] = q[i]
      BY <1>1, <3>1
    <3> QED BY <1>1, <3>1, <3>2 DEF PathsOf
  <2> QED BY <2>1, <2>2
<1>4. PathsOf(q) \subseteq {h} \cup PathsOf(r)
  BY <1>3 DEF PathsOf, n
<1> QED BY <1>1, <1>2, <1>4 DEF h, r

LEMMA FollowMain ==
  ASSUME UpdateInv, FollowInv,
         HandleEvent \/ OnTimeout \/ GoOn \/ (\E s \in Songs : GetSong(s))
         \/ \E asked \in Asked : Request(asked)
  PROVE  FollowInv'
<1>1. ASSUME NEW asked \in Asked, Request(asked) PROVE FollowInv'
  <2>1. asked.path \in Entries /\ asked.discard \in BOOLEAN
    BY UpdateAssumption
  <2>2. UpdateEnqueue(asked.path, asked.discard) /\ UNCHANGED <<fs, db, notify, inotify>>
    BY <1>1 DEF Request, envVars, dbVars, mainVars
  <2>3. inotify' \in Seq(Dirs) /\ PathsOf(inotify) \subseteq PathsOf(inotify') \cup {asked.path}
    BY <2>2 DEF FollowInv
  <2> QED BY <2>1, <2>2, <2>3, FollowEnqueue
<1>2. CASE Finished
  <2>1. work = <<>> /\ UNCHANGED <<fs, db, notify, inotify>>
    BY <1>2, IdleOrDone DEF Finished, UpdateInv, envVars
  <2>2. CASE jobs = <<>>
    BY <1>2, <2>1, <2>2, FollowStutter DEF Finished
  <2>3. CASE jobs # <<>>
    <3>1. Spawn(Head(jobs)) /\ jobs' = Tail(jobs)
      BY <1>2, <2>3 DEF Finished
    <3>2. Head(jobs) \in Job /\ PathsOf(jobs) = {Head(jobs)} \cup PathsOf(jobs')
      BY <2>3, <3>1, PathsOfHeadTail DEF UpdateInv, IdInv
    <3>3. Asking \subseteq Asking' \cup {Head(jobs).path}
      BY <2>1, <3>2 DEF Asking
    <3>4. notify' \subseteq Dirs /\ inotify' \in Seq(Dirs)
      BY <2>1 DEF FollowInv
    <3> QED BY <2>1, <3>1, <3>2, <3>3, <3>4, FollowSpawn
  <2> QED BY <2>2, <2>3
<1>3. CASE RemoveSong
  BY <1>3, FollowStutter DEF RemoveSong, envVars, dbVars, jobVars, threadVars
<1>4. ASSUME NEW d \in Dirs, InotifyCallback(d) PROVE FollowInv'
  <2>1. /\ notify' = notify \ {d} /\ inotify' = Enqueued(d)
        /\ UNCHANGED <<fs, db, jobs, work>>
    BY <1>4 DEF InotifyCallback, dbVars, jobVars, threadVars
  <2>2. inotify \in Seq(Dirs) /\ notify' \subseteq Dirs
    BY <2>1 DEF FollowInv
  <2>3. /\ inotify' \in Seq(Dirs)
        /\ d # Root => \E p \in PathsOf(inotify') \ {Root} : p \in Path[d]
        /\ \A p \in PathsOf(inotify) \ {Root} :
             p \in PathsOf(inotify') \/ (d # Root /\ d \in Path[p])
    BY <2>1, <2>2, EnqueuedOK
  <2>4. PathsOf(inotify') \subseteq Asking'
    BY DEF Asking
  <2>5. ASSUME NEW s \in Songs, AskedFor(Asking, s) PROVE AskedFor(Asking', s)
    <3>1. PathOK(s)
      BY PathFacts, SongIsLeaf
    <3>2. d \in Path[s] /\ d # Root => AskedFor(Asking', s)
      BY <2>3, <2>4, <3>1 DEF AskedFor, PathOK
    <3>3. PICK p \in Asking \ {Root} : p \in Path[s]
      BY <2>5 DEF AskedFor
    <3>4. p \in Asking' \/ p = d \/ (p \in PathsOf(inotify) /\ p \notin PathsOf(inotify'))
      BY <2>1, <2>4 DEF Asking
    <3>5. CASE p \in Asking'
      BY <3>3, <3>5 DEF AskedFor
    <3>6. CASE p = d
      BY <3>2, <3>3, <3>6
    <3>7. CASE p \in PathsOf(inotify) /\ p \notin PathsOf(inotify')
      BY <2>3, <3>1, <3>2, <3>3, <3>7 DEF PathOK
    <3> QED BY <3>4, <3>5, <3>6, <3>7
  <2> QED BY <2>1, <2>2, <2>3, <2>5, FollowAsked
<1>5. CASE OnTimeout \/ EndTimeout \/ AppendSong
  BY <1>5, FollowStutter
     DEF OnTimeout, EndTimeout, AppendSong, envVars, dbVars, jobVars, threadVars
<1>6. CASE UpdatePath
  <2>1. PICK d \in Dirs : d = Head(inotify) /\ UpdateEnqueue(d, FALSE)
    BY <1>6 DEF UpdatePath
  <2>2. inotify # <<>> /\ inotify' = Tail(inotify) /\ UNCHANGED <<fs, db, notify>>
    BY <1>6 DEF UpdatePath, envVars, dbVars
  <2>3. inotify' \in Seq(Dirs) /\ PathsOf(inotify) = {d} \cup PathsOf(inotify')
    BY <2>1, <2>2, PathsOfHeadTail DEF FollowInv
  <2> QED BY <2>1, <2>2, <2>3, FollowEnqueue DEF Entries
<1>7. ASSUME NEW s \in Songs, GetSong(s) PROVE FollowInv'
  BY <1>7, FollowStutter DEF GetSong, envVars, dbVars, jobVars, threadVars
<1> QED
  BY <1>1, <1>2, <1>3, <1>4, <1>5, <1>6, <1>7 DEF HandleEvent, GoOn


------------------------------------------------------------------------------
(* The walk.                                                               *)

\* A call of the walk is replaced by others that see to the same songs.
LEMMA FollowCalls ==
  ASSUME FollowInv, work \in Seq(Frame), work # <<>>,
         UNCHANGED <<fs, notify, inotify, jobs>>,
         NEW calls \in Seq(Frame), work' = calls \o Tail(work),
         \A f \in PathsOf(calls) : CallOK(f),
         \A s \in Songs : db'[s] = db[s] \/ db'[s] \notin Unreadable \cup Unknown,
         \A s \in Songs :
           ~Spoils(fs, Head(work), s) =>
             /\ db[s] = Wanted(fs, s) \/ Mends(fs, Head(work), s) =>
                  db'[s] = Wanted(fs, s) \/ \E f \in PathsOf(calls) : Mends(fs, f, s)
             /\ \A f \in PathsOf(calls) : ~Spoils(fs, f, s)
  PROVE  FollowInv'
<1> DEFINE h == Head(work)
           before == PathsOf(calls)
           after == PathsOf(Tail(work))
<1>1. PathsOf(work) = {h} \cup after /\ Tail(work) \in Seq(Frame)
  BY PathsOfHeadTail
<1>2. PathsOf(work') = before \cup after
  BY <1>1, PathsOfConcat, ZenonT(60)
<1>3. Asking' = Asking
  BY DEF Asking
<1> HIDE DEF h, before, after
<1>4. ASSUME NEW s \in Songs, Followed(fs, db, PathsOf(work), s)
      PROVE  Followed(fs, db', PathsOf(work'), s)
  <2>1. ~Spoils(fs, h, s) /\ \A f \in after : ~Spoils(fs, f, s)
    BY <1>1, <1>4 DEF Followed
  <2>2. /\ \A f \in before : ~Spoils(fs, f, s)
        /\ db[s] = Wanted(fs, s) \/ Mends(fs, h, s) =>
             db'[s] = Wanted(fs, s) \/ \E f \in before : Mends(fs, f, s)
    BY <2>1 DEF h, before
  <2>3. \/ db[s] = Wanted(fs, s) \/ Mends(fs, h, s)
        \/ \E f \in after : Mends(fs, f, s)
    BY <1>1, <1>4 DEF Followed
  <2> QED BY <1>2, <2>1, <2>2, <2>3 DEF Followed
<1>5. \A f \in PathsOf(work') : CallOK(f)
  BY <1>1, <1>2 DEF FollowInv, before
<1> QED BY <1>3, <1>4, <1>5 DEF FollowInv

LEMMA FollowReturn ==
  ASSUME FollowInv, work \in Seq(Frame), work # <<>>, Return,
         UNCHANGED <<fs, notify, inotify, jobs>>,
         \A s \in Songs : db'[s] = db[s] \/ db'[s] \notin Unreadable \cup Unknown,
         \A s \in Songs :
           /\ ~Spoils(fs, Head(work), s)
           /\ db[s] = Wanted(fs, s) \/ Mends(fs, Head(work), s)
           => db'[s] = Wanted(fs, s)
  PROVE  FollowInv'
<1> DEFINE calls == <<>>
<1>1. calls \in Seq(Frame) /\ PathsOf(calls) = {} /\ work' = calls \o Tail(work)
  <2>1. calls \in Seq(Frame) /\ 1 .. Len(calls) = {} /\ Tail(work) \in Seq(Frame)
    OBVIOUS
  <2>2. work' = calls \o Tail(work)
    BY <2>1 DEF Return
  <2> QED BY <2>1, <2>2 DEF PathsOf
<1> HIDE DEF calls
<1> QED BY <1>1, FollowCalls

LEMMA FollowGoto ==
  ASSUME FollowInv, work \in Seq(Frame), work # <<>>,
         NEW call \in Frame, Goto(call), CallOK(call),
         UNCHANGED <<fs, notify, inotify, jobs, db>>,
         \A s \in Songs :
           ~Spoils(fs, Head(work), s) =>
             /\ Mends(fs, Head(work), s) => db[s] = Wanted(fs, s) \/ Mends(fs, call, s)
             /\ ~Spoils(fs, call, s)
  PROVE  FollowInv'
<1> DEFINE calls == <<call>>
<1>1. calls \in Seq(Frame) /\ work' = calls \o Tail(work)
  BY DEF Goto
<1>2. PathsOf(calls) = {call}
  BY PathsOfOne
<1> HIDE DEF calls
<1> QED BY <1>1, <1>2, FollowCalls

LEMMA FollowPush ==
  ASSUME FollowInv, work \in Seq(Frame), work # <<>>,
         NEW call \in Frame, NEW rest \in Frame, work' = <<call, rest>> \o Tail(work),
         CallOK(call), CallOK(rest),
         UNCHANGED <<fs, notify, inotify, jobs, db>>,
         \A s \in Songs :
           ~Spoils(fs, Head(work), s) =>
             /\ Mends(fs, Head(work), s) =>
                  db[s] = Wanted(fs, s) \/ Mends(fs, call, s) \/ Mends(fs, rest, s)
             /\ ~Spoils(fs, call, s) /\ ~Spoils(fs, rest, s)
  PROVE  FollowInv'
<1> DEFINE calls == <<call, rest>>
<1>1. calls \in Seq(Frame) /\ work' = calls \o Tail(work)
  OBVIOUS
<1>2. PathsOf(calls) = {call, rest}
  <2>1. Len(calls) = 2 /\ calls[1] = call /\ calls[2] = rest /\ 1 .. 2 = {1, 2}
    OBVIOUS
  <2> HIDE DEF calls
  <2> QED BY <2>1 DEF PathsOf
<1> HIDE DEF calls
<1> QED BY <1>1, <1>2, FollowCalls

LEMMA CallFields ==
  ASSUME NEW op, NEW e
  PROVE  /\ Call(op, e).op = op /\ Call(op, e).at = e
         /\ \A left : /\ Call3(op, e, left).op = op /\ Call3(op, e, left).at = e
                      /\ Call3(op, e, left).left = left
         /\ \A t : LET call == [Call(op, e) EXCEPT !.mtime = t] IN
              call.op = op /\ call.at = e /\ call.mtime = t
BY DEF Call, Call3

LEMMA HeadOfWork ==
  ASSUME StackInv, FollowInv, work # <<>>
  PROVE  /\ work \in Seq(Frame) /\ Head(work) \in Frame /\ CallOK(Head(work))
         /\ Here \in Entries /\ Head(work).left \subseteq Entries
<1>1. work \in Seq(Frame)
  BY DEF StackInv
<1>2. Head(work) \in Frame /\ Head(work) \in PathsOf(work)
  BY <1>1, PathsOfHeadTail
<1> QED BY <1>1, <1>2 DEF FollowInv, Frame, Here

\* A song that is there is seen in every directory it is in.
LEMMA SongIsSeen ==
  ASSUME NEW s \in Songs, NEW e \in Path[s]
  PROVE  /\ ~Exists(fs, e) => Wanted(fs, s) = 0
         /\ ~InDb(e) => db[s] = 0
<1>1. s \in Below(e)
  BY DEF Below
<1>2. ~Exists(fs, e) => fs[s] = 0
  BY <1>1 DEF Exists
<1> QED BY <1>1, <1>2 DEF InDb, Wanted

LEMMA FollowVisit ==
  ASSUME UpdateInv, FollowInv, Visit
  PROVE  FollowInv'
<1>1. /\ work # <<>> /\ Head(work).op = "visit"
      /\ UNCHANGED <<fs, notify, inotify, jobs, db>>
  BY DEF Visit, At, Quietly, envVars, jobVars, mainVars
<1>2. /\ work \in Seq(Frame) /\ Here \in Entries /\ Here = Head(work).at
  BY <1>1, HeadOfWork DEF UpdateInv, Here
<1>3. \A s \in Songs : Mends(fs, Head(work), s) => Here # Root /\ Here \in Path[s]
  BY <1>1, <1>2 DEF Mends
<1>4. CASE ~Exists(fs, Here)
  <2> DEFINE call == Call("delete", Here)
  <2>1. call \in Frame /\ call.op = "delete" /\ call.at = Here
    BY <1>2, CallIsFrame, CallFields DEF Ops
  <2>2. Goto(call)
    BY <1>4 DEF Visit
  <2> HIDE DEF call
  <2>3. \A s \in Songs : Here \in Path[s] => Mends(fs, call, s)
    BY <2>1 DEF Mends
  <2>4. \A s \in Songs : ~Spoils(fs, call, s)
    BY <1>4, <2>1, SongIsSeen DEF Spoils
  <2> QED BY <1>1, <1>2, <1>3, <2>1, <2>2, <2>3, <2>4, FollowGoto DEF CallOK
<1>5. CASE Exists(fs, Here) /\ Here \in Dirs
  <2> DEFINE call == Call("open", Here)
  <2>1. call \in Frame /\ call.op = "open" /\ call.at = Here
    BY <1>2, CallIsFrame, CallFields DEF Ops
  <2>2. Goto(call)
    BY <1>5 DEF Visit
  <2> HIDE DEF call
  <2>3. \A s \in Songs : Here # Root /\ Here \in Path[s] => Mends(fs, call, s)
    BY <2>1 DEF Mends
  <2>4. \A s \in Songs : ~Spoils(fs, call, s)
    BY <2>1 DEF Spoils
  <2> QED BY <1>1, <1>2, <1>3, <1>5, <2>1, <2>2, <2>3, <2>4, FollowGoto DEF CallOK
<1>6. CASE Exists(fs, Here) /\ Here \notin Dirs
  <2> DEFINE call == [Call("file", Here) EXCEPT !.mtime = fs[Here]]
  <2>1. Here \in Songs /\ fs[Here] \in Times
    BY <1>2, <1>6 DEF UpdateInv, SongInv, Entries
  <2>2. call \in Frame /\ call.op = "file" /\ call.at = Here /\ call.mtime = fs[Here]
    BY <1>2, <2>1, CallIsFrame, CallFields DEF Ops
  <2>3. Goto(call)
    BY <1>6 DEF Visit
  <2> HIDE DEF call
  <2>4. \A s \in Songs : Here \in Path[s] => Mends(fs, call, s)
    BY <2>1, <2>2, SongIsLeaf DEF Mends
  <2>5. \A s \in Songs : ~Spoils(fs, call, s)
    BY <2>2 DEF Spoils
  <2> QED BY <1>1, <1>2, <1>3, <2>1, <2>2, <2>3, <2>4, <2>5, FollowGoto DEF CallOK
<1> QED BY <1>4, <1>5, <1>6

LEMMA FollowOpen ==
  ASSUME UpdateInv, FollowInv, Open
  PROVE  FollowInv'
<1>1. /\ work # <<>> /\ Head(work).op = "open"
      /\ UNCHANGED <<fs, notify, inotify, jobs, db>>
  BY DEF Open, At, Quietly, envVars, jobVars, mainVars
<1>2. /\ work \in Seq(Frame) /\ Here \in Entries /\ Here = Head(work).at /\ Here \in Dirs
  BY <1>1, HeadOfWork DEF UpdateInv, Here, CallOK
<1>3. \A s \in Songs : Mends(fs, Head(work), s) => Here # Root /\ Here \in Path[s]
  BY <1>1, <1>2 DEF Mends
<1>4. CASE ~Exists(fs, Here)
  <2> DEFINE call == Call("delete", Here)
  <2>1. call \in Frame /\ call.op = "delete" /\ call.at = Here
    BY <1>2, CallIsFrame, CallFields DEF Ops
  <2>2. Goto(call)
    BY <1>4 DEF Open
  <2> HIDE DEF call
  <2>3. \A s \in Songs : Here \in Path[s] => Mends(fs, call, s)
    BY <2>1 DEF Mends
  <2>4. \A s \in Songs : ~Spoils(fs, call, s)
    BY <1>4, <2>1, SongIsSeen DEF Spoils
  <2> QED BY <1>1, <1>2, <1>3, <2>1, <2>2, <2>3, <2>4, FollowGoto DEF CallOK
<1>5. CASE Exists(fs, Here)
  <2> DEFINE left == {e \in Children(Here) : InDb(e)}
             call == Call3("purge", Here, left)
  <2>1. left \subseteq Entries
    BY DEF Children
  <2>2. call \in Frame /\ call.op = "purge" /\ call.at = Here /\ call.left = left
    BY <1>2, <2>1, CallIsFrame, CallFields DEF Ops
  <2>3. Goto(call)
    BY <1>5 DEF Open
  <2> HIDE DEF call
  <2>4. ASSUME NEW s \in Songs, Here # Root, Here \in Path[s], db[s] # Wanted(fs, s)
        PROVE  Mends(fs, call, s)
    <3>1. PICK e \in Children(Here) : e \in Path[s]
      BY <1>2, <2>4, PathFacts, SongIsLeaf DEF PathOK
    <3>2. e \in left \/ Exists(fs, e)
      BY <2>4, <3>1, SongIsSeen
    <3> QED BY <2>2, <2>4, <3>1, <3>2 DEF Mends
  <2>5. \A s \in Songs : ~Spoils(fs, call, s)
    BY <2>2 DEF Spoils
  <2> QED BY <1>1, <1>2, <1>3, <2>2, <2>3, <2>4, <2>5, FollowGoto DEF CallOK
<1> QED BY <1>4, <1>5

LEMMA FollowPurge ==
  ASSUME UpdateInv, FollowInv, Purge
  PROVE  FollowInv'
<1> DEFINE left == Head(work).left
<1>1. /\ work # <<>> /\ Head(work).op = "purge"
      /\ UNCHANGED <<fs, notify, inotify, jobs, db>>
  BY DEF Purge, At, Quietly, envVars, jobVars, mainVars
<1>2. /\ work \in Seq(Frame) /\ Here \in Entries /\ Here = Head(work).at
      /\ left \subseteq Entries
  BY <1>1, HeadOfWork DEF UpdateInv, Here
<1>3. \A s \in Songs : Mends(fs, Head(work), s) =>
        /\ Here # Root /\ Here \in Path[s]
        /\ \E e \in Children(Here) : e \in Path[s] /\ (e \in left \/ Exists(fs, e))
  BY <1>1, <1>2 DEF Mends
<1>4. CASE left = {}
  <2> DEFINE there == {e \in Children(Here) : Exists(fs, e)}
             call == Call3("read", Here, there)
  <2>1. there \subseteq Entries \ {Root}
    BY DEF Children
  <2>2. call \in Frame /\ call.op = "read" /\ call.left = there
    BY <1>2, <2>1, CallIsFrame, CallFields DEF Ops
  <2>3. Goto(call)
    BY <1>4 DEF Purge
  <2> HIDE DEF call
  <2>4. \A s \in Songs : Mends(fs, Head(work), s) => Mends(fs, call, s)
    BY <1>3, <1>4, <2>1, <2>2 DEF Mends
  <2>5. \A s \in Songs : ~Spoils(fs, call, s)
    BY <2>2 DEF Spoils
  <2> QED BY <1>1, <1>2, <2>2, <2>3, <2>4, <2>5, FollowGoto DEF CallOK
<1>5. ASSUME NEW e \in left,
             LET rest == Call3("purge", Here, left \ {e}) IN
             IF Exists(fs, e) THEN Goto(rest)
             ELSE work' = <<Call("delete", e), rest>> \o Tail(work)
      PROVE  FollowInv'
  <2> DEFINE rest == Call3("purge", Here, left \ {e})
             call == Call("delete", e)
  <2>1. /\ rest \in Frame /\ rest.op = "purge" /\ rest.at = Here /\ rest.left = left \ {e}
        /\ call \in Frame /\ call.op = "delete" /\ call.at = e
    BY <1>2, CallIsFrame, CallFields DEF Ops
  <2>2. IF Exists(fs, e) THEN Goto(rest) ELSE work' = <<call, rest>> \o Tail(work)
    BY <1>5
  <2> HIDE DEF rest, call, left
  <2>3. \A s \in Songs : ~Spoils(fs, rest, s)
    BY <2>1 DEF Spoils
  <2>4. ASSUME NEW s \in Songs, Mends(fs, Head(work), s)
        PROVE  IF Exists(fs, e) THEN Mends(fs, rest, s)
               ELSE Mends(fs, call, s) \/ Mends(fs, rest, s)
    <3>1. PICK x \in Children(Here) : x \in Path[s] /\ (x \in left \/ Exists(fs, x))
      BY <1>3, <2>4
    <3>2. Here # Root /\ Here \in Path[s]
      BY <1>3, <2>4
    <3>3. CASE x # e \/ Exists(fs, e)
      BY <2>1, <3>1, <3>2, <3>3 DEF Mends
    <3>4. CASE x = e /\ ~Exists(fs, e)
      BY <2>1, <3>1, <3>4 DEF Mends
    <3> QED BY <3>3, <3>4
  <2>5. CASE Exists(fs, e)
    BY <1>1, <1>2, <2>1, <2>2, <2>3, <2>4, <2>5, FollowGoto DEF CallOK
  <2>6. CASE ~Exists(fs, e)
    <3>1. \A s \in Songs : ~Spoils(fs, call, s)
      BY <2>1, <2>6, SongIsSeen DEF Spoils
    <3> QED BY <1>1, <1>2, <2>1, <2>2, <2>3, <2>4, <2>6, <3>1, FollowPush DEF CallOK
  <2> QED BY <2>5, <2>6
<1> QED BY <1>4, <1>5 DEF Purge

LEMMA FollowRead ==
  ASSUME UpdateInv, FollowInv, Read
  PROVE  FollowInv'
<1> DEFINE left == Head(work).left
<1>1. /\ work # <<>> /\ Head(work).op = "read"
      /\ UNCHANGED <<fs, notify, inotify, jobs, db>>
  BY DEF Read, At, Quietly, envVars, jobVars, mainVars
<1>2. /\ work \in Seq(Frame) /\ Here \in Entries /\ left \subseteq Entries
  BY <1>1, HeadOfWork DEF UpdateInv
<1>3. \A s \in Songs : Mends(fs, Head(work), s) => \E e \in left \ {Root} : e \in Path[s]
  BY <1>1 DEF Mends
<1>4. CASE left = {}
  BY <1>1, <1>2, <1>3, <1>4, FollowReturn DEF Read
<1>5. ASSUME NEW e \in left,
             work' = <<Call("visit", e), Call3("read", Here, left \ {e})>> \o Tail(work)
      PROVE  FollowInv'
  <2> DEFINE rest == Call3("read", Here, left \ {e})
             call == Call("visit", e)
  <2>1. /\ rest \in Frame /\ rest.op = "read" /\ rest.left = left \ {e}
        /\ call \in Frame /\ call.op = "visit" /\ call.at = e
    BY <1>2, CallIsFrame, CallFields DEF Ops
  <2>2. work' = <<call, rest>> \o Tail(work)
    BY <1>5
  <2> HIDE DEF rest, call
  <2>3. \A s \in Songs : ~Spoils(fs, call, s) /\ ~Spoils(fs, rest, s)
    BY <2>1 DEF Spoils
  <2>4. \A s \in Songs : Mends(fs, Head(work), s) => Mends(fs, call, s) \/ Mends(fs, rest, s)
    <3> HIDE DEF left
    <3> QED BY <1>3, <2>1 DEF Mends
  <2> QED BY <1>1, <1>2, <2>1, <2>2, <2>3, <2>4, FollowPush DEF CallOK
<1>6. left = {} \/ \E e \in left :
        work' = <<Call("visit", e), Call3("read", Here, left \ {e})>> \o Tail(work)
  BY DEF Read
<1> QED BY <1>4, <1>5, <1>6

LEMMA FollowFile ==
  ASSUME UpdateInv, FollowInv, File
  PROVE  FollowInv'
<1> DEFINE stale == db[Here] = 0 \/ Head(work).mtime # db[Here] \/ next.discard
<1>1. /\ work # <<>> /\ Head(work).op = "file"
      /\ UNCHANGED <<fs, notify, inotify, jobs>>
  BY DEF File, At, Quietly, envVars, jobVars, mainVars
<1>2. /\ work \in Seq(Frame) /\ Here \in Songs /\ Here \in Entries /\ Here = Head(work).at
  BY <1>1, HeadOfWork DEF UpdateInv, CallOK, Here
<1>3. CASE Goto(Call("delete", Here)) /\ UNCHANGED db
           /\ fs[Here] \in Unreadable \cup Unknown \cup {0}
  <2> DEFINE call == Call("delete", Here)
  <2>1. call \in Frame /\ call.op = "delete" /\ call.at = Here
    BY <1>2, CallIsFrame, CallFields DEF Ops
  <2>2. Goto(call)
    BY <1>3
  <2> HIDE DEF call
  <2>3. Here \in Path[Here]
    BY <1>2, PathFacts DEF PathOK
  <2>4. \A s \in Songs : Mends(fs, Head(work), s) => Mends(fs, call, s)
    BY <1>1, <1>2, <2>1, <2>3 DEF Mends
  <2>5. \A s \in Songs : ~Spoils(fs, call, s)
    BY <1>2, <1>3, <2>1, SongIsLeaf DEF Spoils, Wanted
  <2> QED BY <1>1, <1>2, <1>3, <2>1, <2>2, <2>4, <2>5, FollowGoto DEF CallOK
<1>4. CASE /\ fs[Here] \notin Unreadable \cup {0}
           /\ stale => fs[Here] \notin Unknown
           /\ Return
           /\ db' = [db EXCEPT ![Here] = IF stale THEN fs[Here] ELSE @]
  <2> HIDE DEF stale
  <2>1. /\ db \in [Songs -> Times]
        /\ \A s \in Songs : db'[s] = IF s = Here /\ stale THEN fs[s] ELSE db[s]
    BY <1>2, <1>4 DEF UpdateInv, SongInv
  <2>2. \A s \in Songs : db'[s] = db[s] \/ db'[s] \notin Unreadable \cup Unknown
    BY <1>4, <2>1
  <2>3. ASSUME NEW s \in Songs, s # Here, db[s] = Wanted(fs, s) \/ Mends(fs, Head(work), s)
        PROVE  db'[s] = Wanted(fs, s)
    BY <1>1, <1>2, <2>1, <2>3 DEF Mends
  <2>4. ASSUME ~Spoils(fs, Head(work), Here)
        PROVE  db'[Here] = Wanted(fs, Here)
    <3>1. Head(work).mtime = fs[Here]
      BY <1>1, <1>2, <2>4 DEF Spoils
    <3>2. CASE stale
      BY <1>2, <1>4, <2>1, <3>2 DEF Wanted
    <3>3. CASE ~stale
      <4>1. db'[Here] = db[Here] /\ db[Here] = fs[Here]
        BY <1>2, <2>1, <3>1, <3>3 DEF stale
      <4> QED BY <1>2, <4>1 DEF FollowInv, Wanted
    <3> QED BY <3>2, <3>3
  <2> QED BY <1>1, <1>2, <1>4, <2>2, <2>3, <2>4, FollowReturn
<1> QED BY <1>3, <1>4 DEF File

LEMMA FollowDelete ==
  ASSUME UpdateInv, FollowInv, Delete
  PROVE  FollowInv'
<1>1. /\ work # <<>> /\ Head(work).op = "delete"
      /\ UNCHANGED <<fs, notify, inotify, jobs>>
  BY DEF Delete, At, envVars, jobVars, mainVars
<1>2. /\ work \in Seq(Frame) /\ Here \in Entries /\ Here = Head(work).at
      /\ Head(work) \in PathsOf(work)
  BY <1>1, HeadOfWork, PathsOfHeadTail DEF UpdateInv, Here
<1>3. CASE ~InDb(Here) /\ Return /\ UNCHANGED db
  <2>1. ASSUME NEW s \in Songs, ~Spoils(fs, Head(work), s), Mends(fs, Head(work), s)
        PROVE  db[s] = Wanted(fs, s)
    <3>1. Here \in Path[s]
      BY <1>1, <1>2, <2>1 DEF Mends
    <3>2. Wanted(fs, s) = 0
      BY <1>1, <1>2, <2>1, <3>1 DEF Spoils
    <3> QED BY <1>3, <3>1, <3>2, SongIsSeen
  <2> QED BY <1>1, <1>2, <1>3, <2>1, FollowReturn
<1>4. ASSUME NEW x \in Below(Here), db' = [db EXCEPT ![x] = 0], UNCHANGED work
      PROVE  FollowInv'
  <2>1. /\ x \in Songs /\ Here \in Path[x] /\ db'[x] = 0
        /\ \A s \in Songs \ {x} : db'[s] = db[s]
    BY <1>4 DEF Below, UpdateInv, SongInv
  <2>2. 0 \notin Unreadable \cup Unknown
    BY UpdateAssumption
  <2>3. Followed(fs, db, PathsOf(work), x) => Followed(fs, db', PathsOf(work), x)
    BY <1>1, <1>2, <2>1 DEF Followed, Spoils
  <2>4. ASSUME NEW s \in Songs, Followed(fs, db, PathsOf(work), s)
        PROVE  Followed(fs, db', PathsOf(work), s)
    BY <2>1, <2>3, <2>4 DEF Followed
  <2>5. \A s \in Songs : db'[s] \notin Unreadable \cup Unknown
    BY <2>1, <2>2 DEF FollowInv
  <2>6. fs' = fs /\ PathsOf(work') = PathsOf(work) /\ Asking' = Asking
    BY <1>1, <1>4 DEF Asking
  <2>7. ASSUME NEW s \in Songs
        PROVE  AskedFor(Asking', s) \/ Followed(fs', db', PathsOf(work'), s)
    <3>1. AskedFor(Asking, s) \/ Followed(fs, db, PathsOf(work), s)
      BY DEF FollowInv
    <3>2. CASE AskedFor(Asking, s)
      BY <2>6, <3>2 DEF AskedFor
    <3>3. CASE Followed(fs, db, PathsOf(work), s)
      BY <2>4, <2>6, <3>3 DEF Followed
    <3> QED BY <3>1, <3>2, <3>3
  <2>8. /\ notify' \subseteq Dirs /\ inotify' \in Seq(Dirs)
        /\ \A f \in PathsOf(work') : CallOK(f)
    BY <1>1, <2>6 DEF FollowInv
  <2> QED BY <2>5, <2>7, <2>8 DEF FollowInv
<1> QED BY <1>3, <1>4 DEF Delete

LEMMA FollowThread ==
  ASSUME UpdateInv, FollowInv, Thread
  PROVE  FollowInv'
<1>1. CASE Free
  BY <1>1, FollowStutter DEF Free, envVars, dbVars, jobVars, mainVars
<1>2. CASE Save \/ Done \/ EmitUpdate
  <2>1. /\ work # <<>> /\ Head(work).op \in {"save", "done", "emit"} /\ Return
        /\ UNCHANGED <<fs, notify, inotify, jobs, db>>
    BY <1>2 DEF Save, Done, EmitUpdate, At, Quietly, envVars, dbVars, jobVars, mainVars
  <2>2. work \in Seq(Frame)
    BY <2>1, HeadOfWork DEF UpdateInv
  <2>3. \A s \in Songs : ~Mends(fs, Head(work), s)
    BY <2>1 DEF Mends
  <2> QED BY <2>1, <2>2, <2>3, FollowReturn
<1> QED
  BY <1>1, <1>2, FollowVisit, FollowOpen, FollowPurge, FollowRead, FollowFile,
     FollowDelete DEF Thread

LEMMA FollowStep ==
  ASSUME FollowAssumption, UpdateInv, FollowInv, [Next]_vars
  PROVE  FollowInv'
<1>1. CASE UNCHANGED vars
  BY <1>1, FollowStutter
     DEF vars, envVars, dbVars, jobVars, threadVars, mainVars
<1> QED
  BY <1>1, FollowChange, FollowMain, FollowThread DEF Next

(* No change of the music directory is missed: a directory that changes while *)
(* the walk is in it, or has just left it, is walked again                   *)
(* (InotifyUpdate.cxx:221-274, InotifyQueue.cxx:37-93, UpdateWalk.cxx), for   *)
(* every tree, every queue and every order of the threads.                   *)
THEOREM ChangesAreFollowed ==
  ASSUME FollowAssumption
  PROVE  Spec => []DatabaseFollowsFiles
<1>1. Init => FollowInv
  BY FollowInit
<1>2. UpdateInv /\ FollowInv /\ [Next]_vars => FollowInv'
  BY FollowStep
<1>3. UpdateInv /\ FollowInv => DatabaseFollowsFiles
  <2> SUFFICES ASSUME UpdateInv, FollowInv, Quiet, NEW s \in Songs
               PROVE  db[s] = Wanted(fs, s)
    BY DEF DatabaseFollowsFiles, Wanted
  <2>1. work = <<>> /\ jobs = <<>> /\ notify = {} /\ inotify = <<>>
    BY IdleOrDone DEF Quiet, UpdateInv, IdInv
  <2>2. PathsOf(<<>>) = {}
    <3>1. 1 .. Len(<<>>) = {}
      OBVIOUS
    <3> QED BY <3>1 DEF PathsOf
  <2>3. Asking = {} /\ PathsOf(work) = {}
    BY <2>1, <2>2 DEF Asking
  <2> QED BY <2>3 DEF FollowInv, AskedFor, Followed
<1> QED
  BY UpdateInit, UpdateStep, <1>1, <1>2, <1>3, PTL DEF Spec

=============================================================================
