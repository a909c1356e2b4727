------------------------------- MODULE Update -------------------------------
(***************************************************************************)
(* The database update of MPD: jobs (UpdateGlue.cxx, UpdateQueue.cxx), the *)
(* walk of the update thread through the music directory (UpdateWalk.cxx,  *)
(* UpdateSong.cxx, UpdateDatabase.cxx), the removal of songs together with *)
(* the main thread (UpdateRemove.cxx), the inotify queue that asks for     *)
(* updates by itself (InotifyQueue.cxx), and what the main thread does     *)
(* with songs of the database meanwhile.                                   *)
(*                                                                         *)
(* A song is a file with a modification time; a directory exists as long   *)
(* as there is a song below it, on disk and (Directory::PruneEmpty()) in   *)
(* the database alike, and is watched by inotify.                          *)
(***************************************************************************)
EXTENDS Integers, Sequences, FiniteSets

CONSTANTS Songs, Dirs, Root,
          Parent,      \* the directory of each song and of each directory but Root
          MaxTime,     \* modification times are 1 .. MaxTime
          Unreadable,  \* the times at which a file has no read permission
          Unknown,     \* the times at which no decoder recognises it
          MaxQueue,    \* MAX_UPDATE_QUEUE_SIZE
          MaxId,       \* update_task_id_max
          Loaded,      \* what the database file may hold at the start
          Asked,       \* the updates clients ask for: [path, discard]
          MaxChanges,  \* bound: how often the music directory changes
          MaxRequests  \* bound: how often clients ask for an update

Entries == Songs \cup Dirs
None == "none"

ASSUME UpdateAssumption ==
  /\ Songs \cap Dirs = {} /\ Root \in Dirs /\ None \notin Songs
  /\ Parent \in [Entries \ {Root} -> Dirs]
  /\ MaxTime \in Nat /\ Unreadable \subseteq 1 .. MaxTime
  /\ Unknown \subseteq 1 .. MaxTime
  /\ MaxQueue \in Nat /\ MaxId \in Nat /\ MaxQueue < MaxId
  /\ Loaded \subseteq [Songs -> 0 .. MaxTime]
  /\ Asked \subseteq [path : Entries, discard : BOOLEAN]
  /\ MaxChanges \in Nat /\ MaxRequests \in Nat

\* The music directory is a tree.
ASSUME TreeAssumption ==
  /\ IsFiniteSet(Entries)
  /\ \E depth \in [Entries -> 0 .. Cardinality(Entries)] :
       \A e \in Entries \ {Root} : depth[e] = depth[Parent[e]] + 1

Times == 0 .. MaxTime      \* 0: there is no such song

\* e and the directories it is in.
Path[e \in Entries] == IF e = Root THEN {Root} ELSE {e} \cup Path[Parent[e]]
Below(e) == {s \in Songs : e \in Path[s]}
Children(d) == {e \in Entries \ {Root} : Parent[e] = d}

VARIABLES
  fs,        \* the music directory: the modification time of each song
  notify,    \* directories inotify has an event for
  changes, requests,
  db,        \* the database: the modification time of each song
  file,      \* the database file
  told,      \* the database as it was at the last "database" event
  progress,  \* "idle", "running" or "done"
  next,      \* the job of the update thread
  jobs,      \* update_queue
  last,      \* update_task_id
  work,      \* the update thread: what it is to do, innermost call first
  modified,  \* does the walk know that it has changed the database?
  victim,    \* delete_song(): the song it has unlinked and not freed yet
  removed,   \* removed_song
  events,    \* the GlobalEvents emitted by the update thread
  borrowed,  \* the song of the database that the main thread has a pointer to
  queue,     \* the modification time of each song of the play queue
  inotify,   \* InotifyQueue::queue
  timer,     \* is the InotifyQueue's timeout scheduled?
  firing     \* is the main thread in InotifyQueue::OnTimeout()?

envVars == <<fs, notify, changes>>
dbVars == <<db, file, told>>
jobVars == <<progress, next, jobs, last>>
threadVars == <<work, modified, victim>>
mainVars == <<borrowed, queue, inotify, timer, firing>>
vars == <<envVars, requests, dbVars, jobVars, threadVars, removed, events, mainVars>>

Job == [path : Entries, discard : BOOLEAN, id : 0 .. MaxId]
NoJob == [path |-> Root, discard |-> FALSE, id |-> 0]

Call(op, e) == [op |-> op, at |-> e, left |-> {}, mtime |-> 0]
Call3(op, d, left) == [Call(op, d) EXCEPT !.left = left]

UpdateTypeOK ==
  /\ fs \in [Songs -> Times] /\ notify \subseteq Dirs
  /\ changes \in 0 .. MaxChanges /\ requests \in 0 .. MaxRequests
  /\ db \in [Songs -> Times] /\ file \in [Songs -> Times]
  /\ told \in [Songs -> Times]
  /\ progress \in {"idle", "running", "done"}
  /\ next \in Job /\ jobs \in Seq(Job) /\ Len(jobs) <= MaxQueue
  /\ last \in 0 .. MaxId
  /\ modified \in BOOLEAN
  /\ victim \in Songs \cup {None} /\ removed \in Songs \cup {None}
  /\ events \subseteq {"UPDATE", "DELETE"}
  /\ borrowed \in Songs \cup {None} /\ queue \in [Songs -> Times]
  /\ inotify \in Seq(Dirs) /\ timer \in BOOLEAN /\ firing \in BOOLEAN

Init ==
  /\ fs \in Loaded /\ notify = {} /\ changes = 0 /\ requests = 0
  /\ db = fs /\ file = fs /\ told = fs
  /\ progress = "idle" /\ next = NoJob /\ jobs = <<>> /\ last = 0
  /\ work = <<>> /\ modified = FALSE /\ victim = None
  /\ removed = None /\ events = {}
  /\ borrowed = None /\ queue = [s \in Songs |-> 0]
  /\ inotify = <<>> /\ timer = FALSE /\ firing = FALSE

------------------------------------------------------------------------------
(* The music directory.                                                    *)

Exists(tree, e) == e = Root \/ \E s \in Below(e) : tree[s] # 0

\* Somebody writes, changes or deletes a file.  Inotify reports it for its
\* directory; a directory that came or went with it, for the parent.
Change(s, t) ==
  /\ changes < MaxChanges
  /\ fs[s] # t
  /\ fs' = [fs EXCEPT ![s] = t]
  /\ changes' = changes + 1
  /\ notify' = notify \cup {Parent[s]} \cup
       {Parent[d] : d \in {x \in Dirs \ {Root} : Exists(fs, x) # Exists(fs', x)}}
  /\ UNCHANGED <<requests, dbVars, jobVars, threadVars, removed, events, mainVars>>

------------------------------------------------------------------------------
(* Jobs, in the main thread (UpdateGlue.cxx).                              *)

NextIdZero == (last + 1) % (MaxId + 1)

\* generate_update_id()
NextId == IF last + 1 > MaxId THEN 1 ELSE last + 1

SpawnEmitsFirst(job) ==
  /\ progress' = "running"
  /\ next' = job
  /\ modified' = FALSE
  /\ work' = <<Call("visit", job.path), Call("save", Root),
               Call("emit", Root), Call("done", Root)>>

\* spawn_update_task(); the thread walks, saves and tells the main thread.
Spawn(job) ==
  /\ progress' = "running"
  /\ next' = job
  /\ modified' = FALSE
  /\ work' = <<Call("visit", job.path), Call("save", Root),
               Call("done", Root), Call("emit", Root)>>

\* update_enqueue() returns 0 if too many jobs are waiting.
Refuses == progress # "idle" /\ Len(jobs) >= MaxQueue

UpdateEnqueue(path, discard) ==
  LET job == [path |-> path, discard |-> discard, id |-> NextId]
  IN  /\ ~Refuses
      /\ last' = NextId
      /\ IF progress = "idle"
         THEN Spawn(job) /\ UNCHANGED jobs
         ELSE jobs' = Append(jobs, job) /\ UNCHANGED <<progress, next, work, modified>>

MainIsFree == borrowed = None /\ ~firing

\* "update" and "rescan"
Request(asked) ==
  /\ MainIsFree
  /\ requests < MaxRequests
  /\ UpdateEnqueue(asked.path, asked.discard)
  /\ requests' = requests + 1
  /\ UNCHANGED <<envVars, dbVars, victim, removed, events, mainVars>>

RefreshedNewer ==
  [s \in Songs |-> IF queue[s] # 0 /\ db[s] > queue[s] THEN db[s] ELSE queue[s]]

\* playlist::DatabaseModified(): songs with another time are loaded again.
Refreshed == [s \in Songs |-> IF queue[s] # 0 /\ db[s] # 0 THEN db[s] ELSE queue[s]]

\* update_finished_event()
Finished ==
  /\ MainIsFree
  /\ "UPDATE" \in events
  /\ events' = events \ {"UPDATE"}
  /\ IF modified
     THEN queue' = Refreshed /\ told' = db
     ELSE UNCHANGED <<queue, told>>
  /\ IF jobs = <<>>
     THEN /\ progress' = "idle" /\ next' = NoJob
          /\ UNCHANGED <<jobs, work, modified>>
     ELSE Spawn(Head(jobs)) /\ jobs' = Tail(jobs)
  /\ UNCHANGED <<envVars, requests, db, file, last, victim, removed, borrowed,
                 inotify, timer, firing>>

------------------------------------------------------------------------------
(* The walk (UpdateWalk.cxx, UpdateSong.cxx), in the update thread.        *)

\* The thread is at call op and not waiting in update_remove_song().
At(op) == victim = None /\ work # <<>> /\ Head(work).op = op
Here == Head(work).at
Return == work' = Tail(work)
Goto(call) == work' = <<call>> \o Tail(work)

Quietly == UNCHANGED <<envVars, requests, told, jobVars, victim, removed,
                       events, mainVars>>
InDb(e) == \E s \in Below(e) : db[s] # 0

\* update_uri() and the loop of update_directory(): what is there?
\* What is not is deleted by delete_name_in().
Visit ==
  /\ At("visit")
  /\ IF ~Exists(fs, Here)
     THEN Goto(Call("delete", Here)) /\ modified' = (modified \/ InDb(Here))
     ELSE /\ Goto(IF Here \in Dirs THEN Call("open", Here)
                  ELSE [Call("file", Here) EXCEPT !.mtime = fs[Here]])
          /\ UNCHANGED modified
  /\ Quietly /\ UNCHANGED <<db, file>>

\* update_directory(); if it cannot read the directory, it is deleted.
Open ==
  /\ At("open")
  /\ Goto(IF Exists(fs, Here)
          THEN Call3("purge", Here, {e \in Children(Here) : InDb(e)})
          ELSE Call("delete", Here))
  /\ Quietly /\ UNCHANGED <<db, file, modified>>

\* purge_deleted_from_directory()
Purge ==
  /\ At("purge")
  /\ LET left == Head(work).left IN
     IF left = {}
     THEN /\ Goto(Call3("read", Here, {e \in Children(Here) : Exists(fs, e)}))
          /\ UNCHANGED modified
     ELSE \E e \in left : LET rest == Call3("purge", Here, left \ {e}) IN
          IF Exists(fs, e)
          THEN Goto(rest) /\ UNCHANGED modified
          ELSE work' = <<Call("delete", e), rest>> \o Tail(work) /\ modified' = TRUE
  /\ Quietly /\ UNCHANGED <<db, file>>

\* The DirectoryReader yields the entries in an order of its own.
Read ==
  /\ At("read")
  /\ LET left == Head(work).left IN
     IF left = {} THEN Return
     ELSE \E e \in left :
          work' = <<Call("visit", e), Call3("read", Here, left \ {e})>> \o Tail(work)
  /\ Quietly /\ UNCHANGED <<db, file, modified>>

\* update_song_file2(), with Song::LoadFile() or Song::UpdateFile(), which
\* stat() the file again.
File ==
  /\ At("file")
  /\ LET s == Here
         stale == db[s] = 0 \/ Head(work).mtime # db[s] \/ next.discard
     IN  \/ /\ fs[s] \in Unreadable \cup {0}
            /\ Goto(Call("delete", s)) /\ UNCHANGED <<db, modified>>
         \/ /\ stale /\ fs[s] \in Unknown \ Unreadable
            /\ Goto(Call("delete", s)) /\ UNCHANGED db
            /\ modified' = (modified \/ db[s] # 0)
         \/ /\ fs[s] \notin Unreadable \cup {0}
            /\ stale => fs[s] \notin Unknown
            /\ Return
            /\ db' = [db EXCEPT ![s] = IF stale THEN fs[s] ELSE @]
            /\ modified' = (modified \/ stale)
  /\ Quietly /\ UNCHANGED file

\* delete_song(), delete_directory(): each song is taken out of its directory
\* under the lock, which is then released; update_remove_song() asks the main
\* thread to remove it from the queue.
Delete ==
  /\ At("delete")
  /\ IF ~InDb(Here)
     THEN Return /\ UNCHANGED <<db, victim, removed, events>>
     ELSE \E s \in Below(Here) :
          /\ db[s] # 0
          /\ db' = [db EXCEPT ![s] = 0]
          /\ victim' = s
          /\ removed' = s
          /\ events' = events \cup {"DELETE"}
          /\ UNCHANGED work
  /\ UNCHANGED <<envVars, requests, file, told, jobVars, modified, mainVars>>

FreeAtOnce ==
  /\ victim # None
  /\ victim' = None
  /\ UNCHANGED <<envVars, requests, dbVars, jobVars, work, modified, removed,
                 events, mainVars>>

\* update_remove_song() returns once the main thread has answered; the song
\* is freed.
Free ==
  /\ victim # None /\ removed = None
  /\ victim' = None
  /\ UNCHANGED <<envVars, requests, dbVars, jobVars, work, modified, removed,
                 events, mainVars>>

\* The rest of update_task(): db_save(), progress, the event.
SaveLast ==
  /\ At("save")
  /\ file' = IF modified /\ jobs = <<>> THEN db ELSE file
  /\ Return /\ Quietly /\ UNCHANGED <<db, modified>>

Save ==
  /\ At("save")
  /\ file' = IF modified THEN db ELSE file
  /\ Return /\ Quietly /\ UNCHANGED <<db, modified>>

Done ==
  /\ At("done")
  /\ progress' = "done"
  /\ Return
  /\ UNCHANGED <<envVars, requests, dbVars, next, jobs, last, modified, victim,
                 removed, events, mainVars>>

EmitUpdate ==
  /\ At("emit")
  /\ events' = events \cup {"UPDATE"}
  /\ Return
  /\ UNCHANGED <<envVars, requests, dbVars, jobVars, modified, victim, removed, mainVars>>

Thread == Visit \/ Open \/ Purge \/ Read \/ File \/ Delete \/ Free
          \/ Save \/ Done \/ EmitUpdate

------------------------------------------------------------------------------
(* Songs, in the main thread.                                              *)

\* song_remove_event(): the song is removed from the queue, the update thread
\* woken.
RemoveSong ==
  /\ MainIsFree
  /\ "DELETE" \in events
  /\ events' = events \ {"DELETE"}
  /\ queue' = [queue EXCEPT ![removed] = 0]
  /\ removed' = None
  /\ UNCHANGED <<envVars, requests, dbVars, jobVars, threadVars, borrowed,
                 inotify, timer, firing>>

\* playlist::AppendURI(): SimpleDatabase::GetSong() looks the song up under the
\* lock and hands out a pointer ...
GetSong(s) ==
  /\ MainIsFree
  /\ queue[s] = 0 /\ db[s] # 0
  /\ borrowed' = s
  /\ UNCHANGED <<envVars, requests, dbVars, jobVars, threadVars, removed, events,
                 queue, inotify, timer, firing>>

\* ... and the song is copied to the queue without it.  The time of a song that
\* has been unlinked meanwhile is of no interest: RemoveSong is to come.
AppendSong ==
  /\ borrowed # None
  /\ queue' = [queue EXCEPT ![borrowed] = IF db[borrowed] # 0 THEN db[borrowed] ELSE 1]
  /\ borrowed' = None
  /\ UNCHANGED <<envVars, requests, dbVars, jobVars, threadVars, removed, events,
                 inotify, timer, firing>>

------------------------------------------------------------------------------
(* Inotify, in the main thread.                                            *)

\* path_in(): an empty path is in every other, and no other is in it.
PathIn(path, parent) == path = Root \/ parent \in Path[path] \ {Root}

\* InotifyQueue::Enqueue() goes through the queue up to a path that covers the
\* new one, and removes the paths that the new one covers on its way.
Covering(d) == {i \in DOMAIN inotify : PathIn(d, inotify[i])}
Passed(d) == IF Covering(d) = {} THEN Len(inotify)
             ELSE (CHOOSE i \in Covering(d) : \A j \in Covering(d) : i <= j) - 1
Enqueued(d) ==
  LET kept[i \in 0 .. Passed(d)] == IF i = 0 THEN <<>>
                                    ELSE IF PathIn(inotify[i], d) THEN kept[i - 1]
                                    ELSE Append(kept[i - 1], inotify[i])
  IN  kept[Passed(d)]
      \o (IF Covering(d) = {} THEN <<d>>
          ELSE SubSeq(inotify, Passed(d) + 1, Len(inotify)))

\* mpd_inotify_callback()
InotifyCallback(d) ==
  /\ MainIsFree
  /\ d \in notify
  /\ notify' = notify \ {d}
  /\ inotify' = Enqueued(d)
  /\ timer' = TRUE
  /\ UNCHANGED <<fs, changes, requests, dbVars, jobVars, threadVars, removed,
                 events, borrowed, queue, firing>>

\* InotifyQueue::OnTimeout() ...
OnTimeout ==
  /\ MainIsFree /\ timer
  /\ timer' = FALSE
  /\ firing' = TRUE
  /\ UNCHANGED <<envVars, requests, dbVars, jobVars, threadVars, removed, events,
                 borrowed, queue, inotify>>

\* ... and its loop: the next path is given to update_enqueue(), ...
UpdatePath ==
  /\ firing /\ inotify # <<>>
  /\ \E d \in Dirs : d = Head(inotify) /\ UpdateEnqueue(d, FALSE)
  /\ inotify' = Tail(inotify)
  /\ UNCHANGED <<envVars, requests, dbVars, victim, removed, events, borrowed,
                 queue, timer, firing>>

EndTimeoutDrops ==
  /\ firing /\ (inotify = <<>> \/ Refuses)
  /\ firing' = FALSE /\ timer' = FALSE
  /\ inotify' = <<>>
  /\ UNCHANGED <<envVars, requests, dbVars, jobVars, threadVars, removed, events,
                 borrowed, queue>>

EndTimeoutOnce ==
  /\ firing /\ (inotify = <<>> \/ Refuses)
  /\ firing' = FALSE /\ timer' = FALSE
  /\ UNCHANGED <<envVars, requests, dbVars, jobVars, threadVars, removed, events,
                 borrowed, queue, inotify>>

\* ... until there is none left, or it refuses ("retry later").
EndTimeout ==
  /\ firing /\ (inotify = <<>> \/ Refuses)
  /\ firing' = FALSE
  /\ timer' = (inotify # <<>>)
  /\ UNCHANGED <<envVars, requests, dbVars, jobVars, threadVars, removed, events,
                 borrowed, queue, inotify>>

\* The main loop handles an event of a socket; it goes on with a handler.
HandleEvent == Finished \/ RemoveSong \/ \E d \in Dirs : InotifyCallback(d)
GoOn == AppendSong \/ UpdatePath \/ EndTimeout

Next ==
  \/ \E s \in Songs, t \in Times : Change(s, t)
  \/ \E asked \in Asked : Request(asked)
  \/ \E s \in Songs : GetSong(s)
  \/ HandleEvent \/ OnTimeout \/ GoOn
  \/ Thread

\* The scheduler runs both threads.  EventLoop::Run() polls its sockets in each
\* round, after the timers that are due: no timer and no client can keep an
\* event from being handled, though it may have to wait for them.
Fairness ==
  /\ WF_vars(Thread) /\ WF_vars(GoOn)
  /\ SF_vars(HandleEvent) /\ SF_vars(OnTimeout)

Spec == Init /\ [][Next]_vars /\ Fairness

------------------------------------------------------------------------------
(* The main thread keeps no pointer to a song that is freed: the song it has *)
(* got from the database and reads without the lock is in the database still *)
(* or waits in delete_song() for the main thread (UpdateRemove.cxx:44-47).   *)
NoDanglingSong == borrowed # None => db[borrowed] # 0 \/ victim = borrowed

(* The assertions of song_remove_event() and update_finished_event(), and the *)
(* one of update_remove_song(): each event finds the job it is about.         *)
AssertionsHold ==
  /\ "DELETE" \in events => removed # None
  /\ "UPDATE" \in events => progress = "done" /\ next.id # 0 /\ work = <<>>
  /\ removed # None => removed = victim

(* When no update is running, each song of the play queue is in the database *)
(* with the same modification time: "all stale Song instances have been      *)
(* purged" (PlaylistUpdate.cxx:39-41), and none of the others was missed.    *)
QueueFollowsDatabase ==
  progress = "idle" =>
    \A s \in Songs : queue[s] # 0 => borrowed = s \/ queue[s] = db[s]

(* When no update is running, every song of the database is in the database *)
(* file as it is, and clients have been told ("database") of it as it is.   *)
ChangesAreSaved ==
  progress = "idle" =>
    \A s \in Songs : db[s] # 0 => file[s] = db[s] /\ told[s] = db[s]

(* The same of songs that are gone: "the song database has been modified     *)
(* after update" (doc/protocol.xml:311).                                     *)
DeletionsAreTold ==
  progress = "idle" => \A s \in Songs : db[s] = 0 => file[s] = 0 /\ told[s] = 0

(* The id a client was given names one job, though ids start again after     *)
(* update_task_id_max.                                                       *)
JobIdsAreDistinct ==
  /\ progress # "idle" => next.id \in 1 .. MaxId
  /\ \A i, j \in DOMAIN jobs : i # j => jobs[i].id # jobs[j].id
  /\ \A i \in DOMAIN jobs : jobs[i].id # next.id

\* Nothing is left to do: no job, no event of inotify, no path to update.
Quiet == progress = "idle" /\ notify = {} /\ inotify = <<>>

(* With inotify, the database is what the music directory holds once nothing *)
(* is left to do, whatever changed while which directory was being read      *)
(* (InotifyUpdate.cxx, InotifyQueue.cxx).                                    *)
DatabaseFollowsFiles ==
  Quiet => \A s \in Songs : db[s] = IF fs[s] \in Unreadable \cup Unknown THEN 0 ELSE fs[s]

(* Every change is followed: the removal of a song and of a whole directory  *)
(* do not lock the two threads against each other, the queue of jobs drains  *)
(* and the InotifyQueue tries again until its paths are taken.               *)
EventuallyQuiet == []<>Quiet
=============================================================================
