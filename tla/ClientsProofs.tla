---------------------------- MODULE ClientsProofs ----------------------------
(***************************************************************************)
(* Proofs about the global events and the connections: no wake-up of the   *)
(* main loop is lost, for any number of threads and events; whatever their *)
(* peers send, every request gets one response, no response stays in the   *)
(* buffer, and no news for the clients is lost.                            *)
(***************************************************************************)
EXTENDS Clients, FiniteSetTheorems, WellFoundedInduction, TLAPS

-----------------------------------------------------------------------------
(* The events.                                                             *)

EventsInvariant == EventsTypeOK /\ NoLostWakeup

\* The main thread is one of the threads.
LEMMA MainIsAThread == Main \in AllThreads /\ Threads \subseteq AllThreads
BY DEF AllThreads

(* At the start nothing has happened. *)
LEMMA EventsInitOK == EventsInit => EventsInvariant
<1> SUFFICES ASSUME EventsInit PROVE EventsInvariant
  OBVIOUS
<1> USE DEF EventsInit
<1>1. EventsTypeOK
  BY MainIsAThread DEF EventsTypeOK, None
<1>2. NoLostWakeup
  BY DEF NoLostWakeup, IdleIsEmitted, EventIsScheduled, PendingIsWritten
<1> QED BY <1>1, <1>2 DEF EventsInvariant

\* What Goto does to one thread and leaves of the others.
LEMMA GotoShape ==
  ASSUME EventsTypeOK, NEW t \in AllThreads, NEW e \in Events \cup {None},
         NEW where \in {"run", "emit", "schedule", "write"},
         (where = "emit") <=> (e # None), Goto(t, where, e)
  PROVE  /\ pc' \in [AllThreads -> {"run", "emit", "schedule", "write"}]
         /\ emit' \in [AllThreads -> Events \cup {None}]
         /\ pc'[t] = where /\ emit'[t] = e
         /\ \A u \in AllThreads \ {t} : pc'[u] = pc[u] /\ emit'[u] = emit[u]
         /\ \A u \in AllThreads : (pc'[u] = "emit") <=> (emit'[u] # None)
BY DEF EventsTypeOK, Goto

\* No event is called None.
LEMMA NoneIsNoEvent == None \notin Events
BY GlobalEventsAssumption DEF None

(* A thread adds news for the clients. *)
LEMMA IdleAddOK ==
  ASSUME EventsInvariant, NEW t \in AllThreads, NEW added \in SUBSET IdleEvents,
         t = Main => loop = "poll", IdleAdd(t, added)
  PROVE  EventsInvariant'
<1> USE DEF EventsInvariant
<1>1. CASE added \subseteq idle_flags
  <2>1. idle_flags' = idle_flags /\ UNCHANGED eventVars
    BY <1>1 DEF IdleAdd, eventVars
  <2> QED BY <2>1 DEF EventsTypeOK, NoLostWakeup, IdleIsEmitted,
             EventIsScheduled, PendingIsWritten, eventVars
<1>2. CASE ~(added \subseteq idle_flags)
  <2>1. Goto(t, "emit", "IDLE") /\ pc[t] = "run"
    BY <1>2 DEF IdleAdd
  <2>2. "IDLE" \in Events /\ "IDLE" # None
    BY GlobalEventsAssumption DEF None
  <2>3. /\ pc' \in [AllThreads -> {"run", "emit", "schedule", "write"}]
        /\ emit' \in [AllThreads -> Events \cup {None}]
        /\ pc'[t] = "emit" /\ emit'[t] = "IDLE"
        /\ \A u \in AllThreads \ {t} : pc'[u] = pc[u] /\ emit'[u] = emit[u]
        /\ \A u \in AllThreads : (pc'[u] = "emit") <=> (emit'[u] # None)
    BY <2>1, <2>2, GotoShape
  <2>4. UNCHANGED <<flags, pending, fd, loop, todo>>
        /\ idle_flags' = idle_flags \cup added
    BY DEF IdleAdd
  <2>5. EventsTypeOK'
    BY <2>3, <2>4, MainIsAThread DEF EventsTypeOK
  <2>6. IdleIsEmitted'
    BY <2>3 DEF IdleIsEmitted
  <2>7. EventIsScheduled' /\ PendingIsWritten'
    BY <2>1, <2>3, <2>4 DEF NoLostWakeup, EventIsScheduled, PendingIsWritten
  <2> QED BY <2>5, <2>6, <2>7 DEF NoLostWakeup
<1> QED BY <1>1, <1>2

(* A thread is about to emit another event. *)
LEMMA AnnounceOK ==
  ASSUME EventsInvariant, NEW t \in Threads, NEW e \in Events \ {"IDLE"},
         Announce(t, e)
  PROVE  EventsInvariant'
<1> USE DEF EventsInvariant
<1>1. t \in AllThreads /\ t # Main /\ e # None
  BY MainIsAThread, GlobalEventsAssumption, NoneIsNoEvent
<1>2. /\ pc' \in [AllThreads -> {"run", "emit", "schedule", "write"}]
      /\ emit' \in [AllThreads -> Events \cup {None}]
      /\ pc'[t] = "emit" /\ emit'[t] = e
      /\ \A u \in AllThreads \ {t} : pc'[u] = pc[u] /\ emit'[u] = emit[u]
      /\ \A u \in AllThreads : (pc'[u] = "emit") <=> (emit'[u] # None)
  BY <1>1, GotoShape DEF Announce
<1>3. pc[t] = "run" /\ UNCHANGED <<idle_flags, flags, pending, fd, loop, todo>>
  BY DEF Announce
<1>4. EventsTypeOK'
  BY <1>1, <1>2, <1>3, MainIsAThread DEF EventsTypeOK
<1>5. NoLostWakeup'
  BY <1>2, <1>3 DEF NoLostWakeup, IdleIsEmitted, EventIsScheduled, PendingIsWritten
<1> QED BY <1>4, <1>5

(* The flag is set: who sets the first one schedules the monitor. *)
LEMMA EmitOK ==
  ASSUME EventsInvariant, NEW t \in AllThreads, Emit(t)
  PROVE  EventsInvariant'
<1> USE DEF EventsInvariant
<1> DEFINE where == IF flags = {} THEN "schedule" ELSE "run"
<1>1. /\ pc[t] = "emit" /\ emit[t] \in Events /\ flags' = flags \cup {emit[t]}
      /\ Goto(t, where, None)
      /\ UNCHANGED <<idle_flags, pending, fd, loop, todo>>
  BY DEF Emit, EventsTypeOK
<1>2. /\ pc' \in [AllThreads -> {"run", "emit", "schedule", "write"}]
      /\ emit' \in [AllThreads -> Events \cup {None}]
      /\ pc'[t] = where
      /\ \A u \in AllThreads \ {t} : pc'[u] = pc[u] /\ emit'[u] = emit[u]
      /\ \A u \in AllThreads : (pc'[u] = "emit") <=> (emit'[u] # None)
  BY <1>1, GotoShape
<1>3. EventsTypeOK'
  BY <1>1, <1>2, MainIsAThread DEF EventsTypeOK
<1>4. IdleIsEmitted'
  BY <1>1, <1>2 DEF NoLostWakeup, IdleIsEmitted
<1>5. EventIsScheduled' /\ PendingIsWritten'
  BY <1>1, <1>2 DEF NoLostWakeup, EventIsScheduled, PendingIsWritten
<1> QED BY <1>3, <1>4, <1>5 DEF NoLostWakeup

(* The monitor is scheduled: who finds it idle writes to its eventfd. *)
LEMMA ScheduleOK ==
  ASSUME EventsInvariant, NEW t \in AllThreads, Schedule(t)
  PROVE  EventsInvariant'
<1> USE DEF EventsInvariant
<1> DEFINE where == IF pending THEN "run" ELSE "write"
<1>1. /\ pc[t] = "schedule" /\ pending' = TRUE
      /\ Goto(t, where, None)
      /\ UNCHANGED <<idle_flags, flags, fd, loop, todo>>
  BY DEF Schedule
<1>2. /\ pc' \in [AllThreads -> {"run", "emit", "schedule", "write"}]
      /\ emit' \in [AllThreads -> Events \cup {None}]
      /\ pc'[t] = where
      /\ \A u \in AllThreads \ {t} : pc'[u] = pc[u] /\ emit'[u] = emit[u]
      /\ \A u \in AllThreads : (pc'[u] = "emit") <=> (emit'[u] # None)
  BY <1>1, GotoShape
<1>3. EventsTypeOK'
  BY <1>1, <1>2, MainIsAThread DEF EventsTypeOK
<1>4. IdleIsEmitted' /\ EventIsScheduled'
  BY <1>1, <1>2 DEF NoLostWakeup, IdleIsEmitted, EventIsScheduled
<1>5. PendingIsWritten'
  BY <1>1, <1>2 DEF NoLostWakeup, PendingIsWritten
<1> QED BY <1>3, <1>4, <1>5 DEF NoLostWakeup

(* The eventfd is written. *)
LEMMA WriteFDOK ==
  ASSUME EventsInvariant, NEW t \in AllThreads, WriteFD(t)
  PROVE  EventsInvariant'
<1> USE DEF EventsInvariant
<1>1. /\ pc[t] = "write" /\ fd' = TRUE /\ Goto(t, "run", None)
      /\ UNCHANGED <<idle_flags, flags, pending, loop, todo>>
  BY DEF WriteFD
<1>2. /\ pc' \in [AllThreads -> {"run", "emit", "schedule", "write"}]
      /\ emit' \in [AllThreads -> Events \cup {None}]
      /\ pc'[t] = "run"
      /\ \A u \in AllThreads \ {t} : pc'[u] = pc[u] /\ emit'[u] = emit[u]
      /\ \A u \in AllThreads : (pc'[u] = "emit") <=> (emit'[u] # None)
  BY <1>1, GotoShape
<1>3. EventsTypeOK'
  BY <1>1, <1>2, MainIsAThread DEF EventsTypeOK
<1>4. NoLostWakeup'
  BY <1>1, <1>2 DEF NoLostWakeup, IdleIsEmitted, EventIsScheduled, PendingIsWritten
<1> QED BY <1>3, <1>4

(* The main loop takes what is there, in the order opposite to the writers'. *)
LEMMA LoopOK ==
  ASSUME EventsInvariant, Wake \/ Exchange \/ Take
  PROVE  EventsInvariant'
<1> USE DEF EventsInvariant
<1>1. UNCHANGED <<pc, emit, idle_flags>>
  BY DEF Wake, Exchange, Take
<1>2. CASE Wake
  <2>1. EventsTypeOK'
    BY <1>1, <1>2 DEF Wake, Polling, EventsTypeOK
  <2>2. NoLostWakeup'
    BY <1>1, <1>2 DEF Wake, Polling, NoLostWakeup, IdleIsEmitted,
       EventIsScheduled, PendingIsWritten
  <2> QED BY <2>1, <2>2
<1>3. CASE Exchange
  <2>1. EventsTypeOK'
    BY <1>1, <1>3 DEF Exchange, EventsTypeOK
  <2>2. NoLostWakeup'
    BY <1>1, <1>3 DEF Exchange, NoLostWakeup, IdleIsEmitted,
       EventIsScheduled, PendingIsWritten
  <2> QED BY <2>1, <2>2
<1>4. CASE Take
  <2>1. EventsTypeOK'
    BY <1>1, <1>4 DEF Take, EventsTypeOK
  <2>2. todo = {} /\ todo' = flags /\ flags' = {} /\ loop = "take"
        /\ UNCHANGED <<pending, fd>>
    BY <1>4 DEF Take, EventsTypeOK
  <2>3. IdleIsEmitted'
    BY <1>1, <2>2 DEF NoLostWakeup, IdleIsEmitted
  <2>4. EventIsScheduled' /\ PendingIsWritten'
    BY <1>1, <2>2 DEF NoLostWakeup, EventIsScheduled, PendingIsWritten
  <2> QED BY <2>1, <2>3, <2>4 DEF NoLostWakeup
<1> QED BY <1>2, <1>3, <1>4

(* The IDLE handler leaves no news behind. *)
LEMMA HandleIdleOK ==
  ASSUME EventsInvariant, HandleIdle
  PROVE  EventsInvariant'
<1> USE DEF EventsInvariant
<1>1. EventsTypeOK'
  BY DEF HandleIdle, Handling, EventsTypeOK
<1>2. NoLostWakeup'
  BY DEF HandleIdle, Handling, NoLostWakeup, IdleIsEmitted, EventIsScheduled,
         PendingIsWritten
<1> QED BY <1>1, <1>2

(* Any other handler keeps the IDLE event it has not come to yet. *)
LEMMA HandleOtherOK ==
  ASSUME EventsInvariant, NEW added \in SUBSET IdleEvents, HandleOther(added)
  PROVE  EventsInvariant'
<1> USE DEF EventsInvariant
<1>1. PICK e \in Events \ {"IDLE"} : Handling(e)
  BY DEF HandleOther
<1>2. /\ loop = "handle" /\ pc[Main] = "run" /\ todo' = todo \ {e}
      /\ loop' \in {"poll", "handle"} /\ (loop' # "handle" => todo' = {})
      /\ idle_flags' = idle_flags \cup added
      /\ UNCHANGED <<flags, pending, fd>>
  BY <1>1 DEF Handling, HandleOther
<1>3. CASE added \subseteq idle_flags
  <2>1. UNCHANGED <<pc, emit, idle_flags>>
    BY <1>2, <1>3 DEF HandleOther
  <2>2. EventsTypeOK'
    BY <1>2, <2>1 DEF EventsTypeOK
  <2>3. NoLostWakeup'
    BY <1>2, <2>1 DEF NoLostWakeup, IdleIsEmitted, EventIsScheduled, PendingIsWritten
  <2> QED BY <2>2, <2>3
<1>4. CASE ~(added \subseteq idle_flags)
  <2>1. Goto(Main, "emit", "IDLE")
    BY <1>4 DEF HandleOther
  <2>2. "IDLE" \in Events /\ "IDLE" # None
    BY GlobalEventsAssumption DEF None
  <2>3. /\ pc' \in [AllThreads -> {"run", "emit", "schedule", "write"}]
        /\ emit' \in [AllThreads -> Events \cup {None}]
        /\ pc'[Main] = "emit" /\ emit'[Main] = "IDLE"
        /\ \A u \in AllThreads \ {Main} : pc'[u] = pc[u] /\ emit'[u] = emit[u]
        /\ \A u \in AllThreads : (pc'[u] = "emit") <=> (emit'[u] # None)
    BY <2>1, <2>2, GotoShape, MainIsAThread
  <2>4. EventsTypeOK'
    BY <1>2, <2>3 DEF EventsTypeOK
  <2>5. IdleIsEmitted'
    BY <2>3, MainIsAThread DEF IdleIsEmitted
  <2>6. EventIsScheduled' /\ PendingIsWritten'
    BY <1>2, <2>3 DEF NoLostWakeup, EventIsScheduled, PendingIsWritten
  <2> QED BY <2>4, <2>5, <2>6 DEF NoLostWakeup
<1> QED BY <1>3, <1>4

(* Every step of any thread preserves the invariant. *)
LEMMA EventsNextOK ==
  ASSUME EventsInvariant, [EventsNext]_eventVars
  PROVE  EventsInvariant'
<1>1. ASSUME NEW t \in Threads, NEW e \in IdleEvents, IdleAdd(t, {e})
      PROVE  EventsInvariant'
  BY <1>1, IdleAddOK, MainIsAThread, GlobalEventsAssumption
<1>2. ASSUME NEW t \in Threads, NEW e \in Events \ {"IDLE"}, Announce(t, e)
      PROVE  EventsInvariant'
  BY <1>2, AnnounceOK
<1>3. ASSUME NEW e \in IdleEvents, Polling, IdleAdd(Main, {e})
      PROVE  EventsInvariant'
  BY <1>3, IdleAddOK, MainIsAThread DEF Polling
<1>4. ASSUME NEW t \in AllThreads, ThreadStep(t)
      PROVE  EventsInvariant'
  BY <1>4, EmitOK, ScheduleOK, WriteFDOK DEF ThreadStep
<1>5. CASE MainStep
  BY <1>5, LoopOK, HandleOtherOK DEF MainStep, LoopStep
<1>6. CASE HandleIdle
  BY <1>6, HandleIdleOK
<1>7. CASE UNCHANGED eventVars
  BY <1>7 DEF EventsInvariant, EventsTypeOK, NoLostWakeup, IdleIsEmitted,
              EventIsScheduled, PendingIsWritten, eventVars
<1> QED BY <1>1, <1>2, <1>3, <1>4, <1>5, <1>6, <1>7 DEF EventsNext

(* The flags hold what they should, whatever the threads do. *)
THEOREM EventsTypeCorrect == EventsSpec => []EventsTypeOK
<1>1. EventsInvariant => EventsTypeOK
  BY DEF EventsInvariant
<1> QED BY <1>1, EventsInitOK, EventsNextOK, PTL DEF EventsSpec

(* However the atomic operations of the threads interleave, news that no     *)
(* client has been told yet is always on its way to the main loop.           *)
THEOREM NoWakeupIsLost == EventsSpec => []NoLostWakeup
<1>1. EventsInvariant => NoLostWakeup
  BY DEF EventsInvariant
<1> QED BY <1>1, EventsInitOK, EventsNextOK, PTL DEF EventsSpec

-----------------------------------------------------------------------------
(* The connections.                                                        *)

\* The sockets: what is in the buffer is going to be sent, by one callback.
Sound(k) ==
  /\ k \in Connection
  /\ k.write => k.output > 0 /\ ~k.idle
  /\ IF k.state = "open" THEN k.output > 0 <=> k.idle \/ k.write
                         ELSE k.output = 0 /\ ~k.idle /\ ~k.write

\* A client between two lines.
Resting(k) ==
  /\ Sound(k)
  /\ k.state = "open" =>
       /\ k.timer = "timeout" => ~k.waiting
       /\ IF k.waiting THEN k.owed = 1 /\ k.flags \cap k.mask = {}
                       ELSE k.owed = 0

\* A client whose line is being processed, and has no response yet.
Serving(k) ==
  /\ Sound(k)
  /\ k.state # "none"
  /\ k.state = "open" => ~k.waiting /\ k.owed = 1

ClientsInvariant ==
  /\ EventsInvariant
  /\ client \in [Clients -> Connection]
  /\ \A c \in Clients : Resting(client[c])

-----------------------------------------------------------------------------
(* One client.                                                             *)

\* A client that is not there has nothing to send and is owed nothing.
LEMMA NoClientOK == Resting(NoClient) /\ NoClient \in Connection
<1>1. <<>> \in Seq(AllLines) /\ Len(<<>>) = 0
  OBVIOUS
<1>2. <<>> \in CommandLists
  BY <1>1, ClientsAssumption DEF CommandLists
<1>3. NoClient \in Connection
  BY <1>1, <1>2, ClientsAssumption DEF NoClient, Connection
<1> QED BY <1>3 DEF NoClient, Resting, Sound

\* A new client has nothing to send and is owed nothing.
LEMMA NewClientOK == Resting(NewClient)
<1>1. NewClient \in Connection
  BY NoClientOK DEF NewClient, Connection, NoClient
<1> QED BY <1>1 DEF NewClient, NoClient, Resting, Sound

\* SetExpired() drops the output and who would send it.
LEMMA SetExpiredOK ==
  ASSUME NEW k, Sound(k)
  PROVE  /\ Resting(SetExpired(k)) /\ SetExpired(k).state = "expired"
         /\ SetExpired(k).messages = k.messages
<1>1. CASE k.state = "expired"
  BY <1>1 DEF SetExpired, Resting, Sound
<1>2. CASE k.state # "expired"
  <2> DEFINE e == [k EXCEPT !.state = "expired", !.input = <<>>, !.output = 0,
                            !.idle = FALSE, !.write = FALSE, !.timer = "now"]
  <2>1. <<>> \in Seq(AllLines) /\ 0 \in 0 .. MaxOutput /\ k \in Connection
    BY ClientsAssumption DEF Sound
  <2>2. e \in Connection
    BY <2>1 DEF Connection
  <2>3. /\ e.state = "expired" /\ e.output = 0 /\ ~e.idle /\ ~e.write
        /\ e.messages = k.messages
    BY DEF Sound, Connection
  <2>4. SetExpired(k) = e
    BY <1>2 DEF SetExpired
  <2> QED BY <2>2, <2>3, <2>4 DEF Resting, Sound
<1> QED BY <1>1, <1>2

\* What Put() leaves of a client that is still there.
Kept(k, r) ==
  /\ r.messages = k.messages
  /\ r.state \in {"open", "expired"}
  /\ r.state = "open" =>
       /\ k.state = "open" /\ r.waiting = k.waiting /\ r.owed = k.owed
       /\ r.flags = k.flags /\ r.mask = k.mask /\ r.timer = k.timer

\* Lines are added to the buffer and scheduled, or the client has expired.
LEMMA PutOK ==
  ASSUME NEW k, Sound(k), k.state # "none", NEW n \in Nat
  PROVE  Sound(Put(k, n)) /\ Kept(k, Put(k, n))
<1>1. k.state \in {"open", "expired"} /\ k.output \in Nat
  BY DEF Sound, Connection
<1>2. CASE k.state = "expired" \/ n = 0
  BY <1>1, <1>2 DEF Put, Kept
<1>3. CASE k.state # "expired" /\ n # 0 /\ k.output + n > MaxOutput
  <2>1. Put(k, n) = SetExpired(k)
    BY <1>3 DEF Put
  <2> QED BY <2>1, SetExpiredOK DEF Resting, Kept
<1>4. CASE k.state # "expired" /\ n # 0 /\ ~(k.output + n > MaxOutput)
  <2> DEFINE r == [k EXCEPT !.output = @ + n, !.idle = @ \/ k.output = 0]
  <2>1. Put(k, n) = r
    BY <1>4 DEF Put
  <2> DEFINE o == k.output + n
             i == k.idle \/ k.output = 0
  <2>2. o \in 0 .. MaxOutput /\ i \in BOOLEAN /\ k \in Connection
    BY <1>1, <1>4, ClientsAssumption DEF Sound
  <2>3. r = [k EXCEPT !.output = o, !.idle = i]
    OBVIOUS
  <2> HIDE DEF o, i
  <2>4. r \in Connection
    BY <2>2, <2>3 DEF Connection
  <2> USE DEF o, i
  <2>5. /\ r.output = k.output + n /\ r.write = k.write /\ r.state = k.state
        /\ r.idle = (k.idle \/ k.output = 0)
        /\ r.waiting = k.waiting /\ r.owed = k.owed /\ r.flags = k.flags
        /\ r.mask = k.mask /\ r.timer = k.timer /\ r.messages = k.messages
    BY DEF Sound, Connection
  <2>6. r.idle <=> k.idle \/ k.output = 0
    BY <2>5
  <2> HIDE DEF r
  <2>7. Sound(r)
    BY <1>1, <1>4, <2>4, <2>5, <2>6 DEF Sound
  <2> QED BY <1>1, <1>4, <2>1, <2>5, <2>7 DEF Kept
<1> QED BY <1>1, <1>2, <1>3, <1>4

\* The response counts as given, and nothing else is changed.
LEMMA RespondOK ==
  ASSUME NEW k, Sound(k), k.state # "none"
  PROVE  LET r == Respond(k) IN
         /\ Sound(r) /\ r.state \in {"open", "expired"}
         /\ r.messages = k.messages
         /\ r.state = "open" =>
              /\ k.state = "open" /\ r.waiting = k.waiting /\ r.owed = k.owed - 1
              /\ r.flags = k.flags /\ r.mask = k.mask /\ r.timer = k.timer
<1> DEFINE a == [k EXCEPT !.owed = @ - 1]
<1>1. a \in Connection
  BY DEF Sound, Connection
<1>2. /\ a.output = k.output /\ a.write = k.write /\ a.state = k.state
      /\ a.idle = k.idle /\ a.owed = k.owed - 1
      /\ a.waiting = k.waiting /\ a.flags = k.flags /\ a.mask = k.mask
      /\ a.timer = k.timer /\ a.messages = k.messages
  BY DEF Sound, Connection
<1>3. Respond(k) = Put(a, 1)
  BY DEF Respond
<1> HIDE DEF a
<1>4. Sound(a)
  BY <1>1, <1>2 DEF Sound
<1>5. Sound(Put(a, 1)) /\ Kept(a, Put(a, 1))
  BY <1>2, <1>4, PutOK
<1> QED BY <1>2, <1>3, <1>5 DEF Kept

\* A response to a line: the client is owed nothing any more.
LEMMA AnswerOK ==
  ASSUME NEW k, Serving(k)
  PROVE  Resting(Respond(k))
BY RespondOK DEF Serving, Resting, Sound, Connection

\* IdleNotify(): the client that was told has got its response.
LEMMA IdleNotifyOK ==
  ASSUME NEW k, Sound(k), k.state = "open", k.owed = 1
  PROVE  Resting(IdleNotify(k)) /\ IdleNotify(k).messages = k.messages
<1> DEFINE told == [k EXCEPT !.flags = {}, !.waiting = FALSE]
           n == Cardinality(k.flags \cap k.mask)
           p == Put(told, n)
           r == Respond(p)
           i == [r EXCEPT !.timer = "timeout"]
<1>1. told \in Connection
  BY DEF Sound, Connection
<1>2. /\ told.output = k.output /\ told.write = k.write /\ told.state = "open"
      /\ told.idle = k.idle /\ told.owed = 1 /\ told.waiting = FALSE
      /\ told.messages = k.messages
  BY DEF Sound, Connection
<1>3. n \in Nat
  <2>1. k.flags \cap k.mask \in SUBSET IdleEvents
    BY DEF Sound, Connection
  <2> QED BY <2>1, ClientsAssumption, FS_Subset, FS_CardinalityType
<1>4. IdleNotify(k) = i
  BY DEF IdleNotify
<1> HIDE DEF told, n
<1>5. Sound(told)
  BY <1>1, <1>2 DEF Sound
<1>6. Sound(p) /\ Kept(told, p)
  BY <1>2, <1>3, <1>5, PutOK
<1> HIDE DEF p
<1>7. /\ Sound(r) /\ r.state \in {"open", "expired"}
      /\ r.messages = k.messages
      /\ r.state = "open" => r.waiting = FALSE /\ r.owed = 0
  BY <1>2, <1>6, RespondOK DEF Kept
<1> HIDE DEF r
<1>8. i \in Connection
  BY <1>7 DEF Sound, Connection
<1>9. /\ i.output = r.output /\ i.write = r.write /\ i.state = r.state
      /\ i.idle = r.idle /\ i.owed = r.owed /\ i.waiting = r.waiting
      /\ i.messages = r.messages
  BY <1>7 DEF Sound, Connection
<1> HIDE DEF i
<1> QED BY <1>4, <1>7, <1>8, <1>9 DEF Resting, Sound

\* Client::IdleAdd(): a client that is told of nothing has more to be told of.
LEMMA ClientIdleAddOK ==
  ASSUME NEW k, Resting(k) \/ Serving(k), NEW added \in SUBSET IdleEvents
  PROVE  LET n == ClientIdleAdd(k, added) IN
         /\ Resting(k) => Resting(n)
         /\ Serving(k) => Serving(n)
         /\ n.messages = k.messages
<1>0. Sound(k)
  BY DEF Resting, Serving
<1> DEFINE f == k.flags \cup added
           n == [k EXCEPT !.flags = f]
<1>1. f \in SUBSET IdleEvents
  BY <1>0 DEF Sound, Connection
<1> HIDE DEF f
<1>2. n \in Connection
  BY <1>0, <1>1 DEF Sound, Connection
<1>3. /\ n.output = k.output /\ n.write = k.write /\ n.state = k.state
      /\ n.idle = k.idle /\ n.owed = k.owed /\ n.waiting = k.waiting
      /\ n.timer = k.timer /\ n.mask = k.mask /\ n.flags = f
      /\ n.messages = k.messages
  BY <1>0 DEF Sound, Connection
<1> USE DEF f
<1>4. ClientIdleAdd(k, added) =
        IF k.state # "open" THEN k
        ELSE IF k.waiting /\ f \cap k.mask # {} THEN IdleNotify(n) ELSE n
  BY DEF ClientIdleAdd
<1> HIDE DEF f, n
<1>5. Sound(n)
  BY <1>0, <1>2, <1>3 DEF Sound
<1>6. CASE k.state # "open"
  BY <1>4, <1>6 DEF Sound
<1>7. CASE k.state = "open" /\ k.waiting /\ f \cap k.mask # {}
  <2>1. ClientIdleAdd(k, added) = IdleNotify(n)
    BY <1>4, <1>7
  <2>2. ~Serving(k)
    BY <1>7 DEF Serving
  <2>3. Resting(IdleNotify(n)) /\ IdleNotify(n).messages = n.messages
    BY <1>3, <1>5, <1>7, <2>2, IdleNotifyOK DEF Resting
  <2> QED BY <1>3, <2>1, <2>2, <2>3
<1>8. CASE k.state = "open" /\ ~(k.waiting /\ f \cap k.mask # {})
  <2>1. ClientIdleAdd(k, added) = n
    BY <1>4, <1>8
  <2> QED BY <1>2, <1>3, <1>5, <1>8, <2>1 DEF Resting, Serving
<1> QED BY <1>6, <1>7, <1>8

\* Client::PushMessage() leaves the response that the client waits for alone.
LEMMA PushMessageOK ==
  ASSUME NEW k, Resting(k) \/ Serving(k)
  PROVE  LET r == PushMessage(k) IN
         /\ Resting(k) => Resting(r)
         /\ Serving(k) => Serving(r)
<1> DEFINE n == IF k.messages = 0 THEN ClientIdleAdd(k, {"message"}) ELSE k
           r == [n EXCEPT !.messages = @ + 1]
<1>1. k.messages \in 0 .. MaxMessages
  BY DEF Resting, Serving, Sound, Connection
<1>2. CASE k.state = "none" \/ ~k.subscribed \/ k.messages >= MaxMessages
  BY <1>2 DEF PushMessage
<1>3. CASE ~(k.state = "none" \/ ~k.subscribed \/ k.messages >= MaxMessages)
  <2>1. PushMessage(k) = r
    BY <1>3 DEF PushMessage
  <2>2. /\ Resting(k) => Resting(n)
        /\ Serving(k) => Serving(n)
        /\ n.messages = k.messages
    BY ClientIdleAddOK, ClientsAssumption
  <2> HIDE DEF n
  <2>3. n \in Connection /\ n.messages + 1 \in 0 .. MaxMessages
    BY <1>1, <1>3, <2>2, ClientsAssumption DEF Resting, Serving, Sound
  <2>4. r \in Connection
    BY <2>3 DEF Connection
  <2>5. /\ r.output = n.output /\ r.write = n.write /\ r.state = n.state
        /\ r.idle = n.idle /\ r.owed = n.owed /\ r.waiting = n.waiting
        /\ r.timer = n.timer /\ r.mask = n.mask /\ r.flags = n.flags
    BY <2>3 DEF Connection
  <2> HIDE DEF r
  <2> QED BY <2>1, <2>2, <2>4, <2>5 DEF Resting, Serving, Sound
<1> QED BY <1>2, <1>3

\* Client::IdleWait(): the client waits, or is told at once.
LEMMA IdleWaitOK ==
  ASSUME NEW k, Serving(k), k.state = "open", NEW mask \in SUBSET IdleEvents
  PROVE  Resting(IdleWait(k, mask))
<1> DEFINE n == [k EXCEPT !.waiting = TRUE, !.mask = mask]
           r == [n EXCEPT !.timer = "off"]
<1>1. n \in Connection
  BY DEF Serving, Sound, Connection
<1>2. /\ n.output = k.output /\ n.write = k.write /\ n.state = "open"
      /\ n.idle = k.idle /\ n.owed = 1 /\ n.waiting = TRUE
      /\ n.flags = k.flags /\ n.mask = mask
  BY DEF Serving, Sound, Connection
<1>3. IdleWait(k, mask) = IF k.flags \cap mask # {} THEN IdleNotify(n) ELSE r
  BY DEF IdleWait
<1> HIDE DEF n
<1>4. Sound(n)
  BY <1>1, <1>2 DEF Serving, Sound
<1>5. CASE k.flags \cap mask # {}
  BY <1>2, <1>3, <1>4, <1>5, IdleNotifyOK
<1>6. CASE k.flags \cap mask = {}
  <2>1. r \in Connection
    BY <1>1 DEF Connection
  <2>2. /\ r.output = n.output /\ r.write = n.write /\ r.state = n.state
        /\ r.idle = n.idle /\ r.owed = n.owed /\ r.waiting = n.waiting
        /\ r.flags = n.flags /\ r.mask = n.mask /\ r.timer = "off"
    BY <1>1 DEF Connection
  <2>3. IdleWait(k, mask) = r
    BY <1>3, <1>6
  <2> HIDE DEF r
  <2> QED BY <1>2, <1>4, <1>6, <2>1, <2>2, <2>3 DEF Resting, Sound
<1> QED BY <1>5, <1>6

\* A client whose next line has been taken from the buffer.
Called(k) ==
  /\ Sound(k) /\ k.state = "open" /\ k.timer = "timeout"
  /\ k.owed = IF k.waiting THEN 1 ELSE 0

\* "noidle" ends the waiting with a response, if there is any.
LEMMA NoIdleOK ==
  ASSUME NEW k, Called(k)
  PROVE  Resting(NoIdle(k))
<1> DEFINE n == [k EXCEPT !.waiting = FALSE]
<1>1. CASE k.waiting
  <2>1. n \in Connection
    BY DEF Called, Sound, Connection
  <2>2. /\ n.output = k.output /\ n.write = k.write /\ n.state = "open"
        /\ n.idle = k.idle /\ n.owed = 1 /\ n.waiting = FALSE
    BY <1>1 DEF Called, Sound, Connection
  <2>3. NoIdle(k) = Respond(n)
    BY <1>1 DEF NoIdle
  <2> HIDE DEF n
  <2>4. Serving(n)
    BY <2>1, <2>2 DEF Called, Serving, Sound
  <2> QED BY <2>3, <2>4, AnswerOK
<1>2. CASE ~k.waiting
  BY <1>2 DEF NoIdle, Called, Resting
<1> QED BY <1>1, <1>2

\* FullyBufferedSocket::OnIdle(): what is not sent waits for the socket.
LEMMA FlushIdleOK ==
  ASSUME NEW k, Resting(k), k.idle, NEW n \in 0 .. k.output
  PROVE  Resting([Flush([k EXCEPT !.idle = FALSE], n)
                    EXCEPT !.write = @ \/ n < k.output])
<1> DEFINE e == [k EXCEPT !.idle = FALSE]
           o == k.output - n
           more == n < k.output
           f == Flush(e, n)
           r == [f EXCEPT !.write = @ \/ n < k.output]
<1>1. /\ k \in Connection /\ k.state = "open" /\ k.output > 0 /\ ~k.write
      /\ k.output \in 0 .. MaxOutput /\ MaxOutput \in Nat
  BY ClientsAssumption DEF Resting, Sound, Connection
<1>2. o \in 0 .. MaxOutput /\ more \in BOOLEAN /\ (o > 0 <=> more)
  BY <1>1
<1>3. /\ e \in Connection /\ e.output = k.output /\ e.idle = FALSE
      /\ e.write = k.write
      /\ e.state = k.state /\ e.owed = k.owed /\ e.waiting = k.waiting
      /\ e.timer = k.timer /\ e.mask = k.mask /\ e.flags = k.flags
  BY <1>1 DEF Connection
<1> HIDE DEF e
<1>4. f = [e EXCEPT !.output = o, !.idle = FALSE, !.write = FALSE]
  BY <1>1, <1>3 DEF Flush
<1>5. /\ f \in Connection /\ f.output = o /\ f.idle = FALSE /\ f.write = FALSE
      /\ f.state = k.state /\ f.owed = k.owed /\ f.waiting = k.waiting
      /\ f.timer = k.timer /\ f.mask = k.mask /\ f.flags = k.flags
  <2> HIDE DEF f, o
  <2> QED BY <1>2, <1>3, <1>4 DEF Connection
<1> HIDE DEF f
<1>6. r = [f EXCEPT !.write = more]
  BY <1>5
<1>7. /\ r \in Connection /\ r.output = o /\ r.idle = FALSE /\ r.write = more
      /\ r.state = k.state /\ r.owed = k.owed /\ r.waiting = k.waiting
      /\ r.timer = k.timer /\ r.mask = k.mask /\ r.flags = k.flags
  <2> HIDE DEF r, more
  <2> QED BY <1>2, <1>5, <1>6 DEF Connection
<1>8. r.write <=> o > 0
  BY <1>2, <1>7
<1> HIDE DEF r, o, more
<1>9. Sound(r)
  BY <1>1, <1>2, <1>7, <1>8 DEF Sound
<1>10. Resting(r)
  BY <1>7, <1>9 DEF Resting
<1> QED BY <1>10 DEF r, f, e

\* FullyBufferedSocket::OnSocketReady(WRITE): it goes on while there is output.
LEMMA FlushWriteOK ==
  ASSUME NEW k, Resting(k), k.write, NEW n \in 1 .. k.output
  PROVE  Resting(Flush(k, n))
<1> DEFINE o == k.output - n
           more == k.output # n
           f == Flush(k, n)
<1>1. /\ k \in Connection /\ k.state = "open" /\ k.output > 0
      /\ k.idle = FALSE /\ k.write = TRUE
      /\ k.output \in 0 .. MaxOutput /\ MaxOutput \in Nat
  BY ClientsAssumption DEF Resting, Sound, Connection
<1>2. o \in 0 .. MaxOutput /\ more \in BOOLEAN /\ (o > 0 <=> more)
  BY <1>1
<1>3. f = [k EXCEPT !.output = o, !.idle = FALSE, !.write = more]
  <2>1. (k.idle /\ k.output # n /\ k.output # 0) = FALSE
    BY <1>1
  <2>2. (k.write /\ k.output # n /\ k.output # 0) = more
    BY <1>1
  <2> HIDE DEF o, more
  <2> QED BY <2>1, <2>2 DEF Flush, o
<1>4. /\ f \in Connection /\ f.output = o /\ f.idle = FALSE /\ f.write = more
      /\ f.state = k.state /\ f.owed = k.owed /\ f.waiting = k.waiting
      /\ f.timer = k.timer /\ f.mask = k.mask /\ f.flags = k.flags
  <2> HIDE DEF f, o, more
  <2> QED BY <1>1, <1>2, <1>3 DEF Connection
<1>5. f.write <=> o > 0
  BY <1>2, <1>4
<1> HIDE DEF f, o, more
<1>6. Sound(f)
  BY <1>1, <1>2, <1>4, <1>5 DEF Sound
<1>7. Resting(f)
  BY <1>4, <1>6 DEF Resting
<1> QED BY <1>7 DEF f

-----------------------------------------------------------------------------
(* Commands.                                                               *)

\* While a line of client c is processed, it is owed one response until the
\* command writes it or waits; the others are as between two lines.
Progress(w, c) ==
  /\ w = Outcome(w.clients, w.added, w.ret)
  /\ w.clients \in [Clients -> Connection]
  /\ w.added \in SUBSET IdleEvents
  /\ w.ret \in {"OK", "ERROR", "IDLE", "FINISH"}
  /\ \A d \in Clients \ {c} : Resting(w.clients[d])
  /\ IF w.ret \in {"OK", "FINISH"} THEN Serving(w.clients[c])
                                   ELSE Resting(w.clients[c])

\* The client of a command is changed, and no other.
LEMMA ProgressOfOne ==
  ASSUME NEW c \in Clients, NEW w, Progress(w, c), NEW k,
         NEW added \in SUBSET IdleEvents,
         NEW ret \in {"OK", "ERROR", "IDLE", "FINISH"},
         IF ret \in {"OK", "FINISH"} THEN Serving(k) ELSE Resting(k)
  PROVE  Progress(Outcome([w.clients EXCEPT ![c] = k], added, ret), c)
<1> DEFINE cl == [w.clients EXCEPT ![c] = k]
           v == Outcome(cl, added, ret)
<1>1. k \in Connection
  BY DEF Serving, Resting, Sound
<1>2. cl \in [Clients -> Connection]
  BY <1>1 DEF Progress
<1>3. cl[c] = k /\ \A d \in Clients \ {c} : cl[d] = w.clients[d]
  BY DEF Progress
<1>4. /\ v.clients = cl /\ v.added = added /\ v.ret = ret
      /\ v = Outcome(v.clients, v.added, v.ret)
  BY DEF Outcome
<1> HIDE DEF v, cl
<1>5. Progress(v, c)
  BY <1>2, <1>3, <1>4 DEF Progress
<1> QED BY <1>5 DEF v, cl

\* A command that fails has responded.
LEMMA FailedOK ==
  ASSUME NEW c \in Clients, NEW w, Progress(w, c), w.ret = "OK"
  PROVE  Progress(Failed(w, c), c)
<1> DEFINE k == Respond(w.clients[c])
<1>1. Serving(w.clients[c]) /\ w.added \in SUBSET IdleEvents
  BY DEF Progress
<1>2. Resting(k)
  BY <1>1, AnswerOK
<1>3. Failed(w, c) = Outcome([w.clients EXCEPT ![c] = k], w.added, "ERROR")
  BY DEF Failed, Progress
<1> HIDE DEF k
<1>4. Progress(Outcome([w.clients EXCEPT ![c] = k], w.added, "ERROR"), c)
  BY <1>1, <1>2, ProgressOfOne
<1> QED BY <1>3, <1>4

\* A command that succeeds has not responded yet.
LEMMA SucceededOK ==
  ASSUME NEW c \in Clients, NEW w, Progress(w, c), w.ret = "OK",
         NEW k, Serving(k), NEW added
  PROVE  Progress(Succeeded(w, [w.clients EXCEPT ![c] = k], added), c)
<1> DEFINE a == w.added \cup (added \cap IdleEvents)
<1>1. a \in SUBSET IdleEvents
  BY DEF Progress
<1>2. Succeeded(w, [w.clients EXCEPT ![c] = k], added)
        = Outcome([w.clients EXCEPT ![c] = k], a, "OK")
  BY DEF Succeeded
<1> HIDE DEF a
<1>3. Progress(Outcome([w.clients EXCEPT ![c] = k], a, "OK"), c)
  BY <1>1, ProgressOfOne
<1> QED BY <1>2, <1>3

\* Fields of a client that say nothing about its output.
LEMMA SubscribedOK ==
  ASSUME NEW k, Serving(k), NEW b \in BOOLEAN
  PROVE  Serving([k EXCEPT !.subscribed = b])
<1> DEFINE r == [k EXCEPT !.subscribed = b]
<1>1. r \in Connection
  BY DEF Serving, Sound, Connection
<1>2. /\ r.output = k.output /\ r.write = k.write /\ r.state = k.state
      /\ r.idle = k.idle /\ r.owed = k.owed /\ r.waiting = k.waiting
  BY DEF Serving, Sound, Connection
<1> HIDE DEF r
<1>3. Serving(r)
  BY <1>1, <1>2 DEF Serving, Sound
<1> QED BY <1>3 DEF r

\* "readmessages" writes the messages and empties the queue.
LEMMA ReadMessagesOK ==
  ASSUME NEW k, Serving(k)
  PROVE  Serving([Put(k, k.messages) EXCEPT !.messages = 0])
<1> DEFINE p == Put(k, k.messages)
           r == [p EXCEPT !.messages = 0]
<1>1. k.messages \in Nat /\ 0 \in 0 .. MaxMessages
  BY ClientsAssumption DEF Serving, Sound, Connection
<1>2. Sound(p) /\ Kept(k, p)
  BY <1>1, PutOK DEF Serving
<1> HIDE DEF p
<1>3. r \in Connection
  BY <1>1, <1>2 DEF Sound, Connection
<1>4. /\ r.output = p.output /\ r.write = p.write /\ r.state = p.state
      /\ r.idle = p.idle /\ r.owed = p.owed /\ r.waiting = p.waiting
  BY <1>2 DEF Sound, Connection
<1> HIDE DEF r
<1>5. Serving(r)
  BY <1>2, <1>3, <1>4 DEF Serving, Sound, Kept
<1> QED BY <1>5 DEF r, p

\* "sendmessage" to every client that has subscribed, its own included.
LEMMA SendMessageOK ==
  ASSUME NEW c \in Clients, NEW w, Progress(w, c), w.ret = "OK"
  PROVE  Progress(Succeeded(w, [d \in Clients |-> PushMessage(w.clients[d])], {}), c)
<1> DEFINE sent == [d \in Clients |-> PushMessage(w.clients[d])]
           v == Succeeded(w, sent, {})
<1>1. \A d \in Clients \ {c} : Resting(sent[d])
  BY PushMessageOK DEF Progress
<1>2. Serving(sent[c])
  BY PushMessageOK DEF Progress
<1>3. sent \in [Clients -> Connection]
  BY <1>1, <1>2 DEF Resting, Serving, Sound
<1>4. /\ v.clients = sent /\ v.ret = "OK" /\ v.added = w.added \cup ({} \cap IdleEvents)
      /\ v = Outcome(v.clients, v.added, v.ret)
  BY DEF Succeeded, Outcome
<1>5. v.added \in SUBSET IdleEvents
  BY <1>4 DEF Progress
<1> HIDE DEF sent, v
<1>6. Progress(v, c)
  BY <1>1, <1>2, <1>3, <1>4, <1>5 DEF Progress
<1> QED BY <1>6 DEF v, sent

(* Every command either leaves the response to its caller or has given it. *)
LEMMA ExecuteOK ==
  ASSUME NEW c \in Clients, NEW w, Progress(w, c), w.ret = "OK",
         w.clients[c].state = "open", NEW line, line.mask \in SUBSET IdleEvents
  PROVE  Progress(Execute(w, c, line), c)
<1> DEFINE cl == w.clients
           k == cl[c]
<1>1. Serving(k) /\ cl \in [Clients -> Connection] /\ w.added \in SUBSET IdleEvents
  BY DEF Progress
<1>2. cl = [cl EXCEPT ![c] = k]
  BY <1>1
<1>3. CASE line.cmd = "ping"
  <2>1. Execute(w, c, line) = Succeeded(w, cl, {})
    BY <1>3 DEF Execute
  <2> QED BY <1>1, <1>2, <2>1, SucceededOK
<1>4. CASE line.cmd = "change"
  <2>1. Execute(w, c, line) = Succeeded(w, cl, {"player"})
    BY <1>4 DEF Execute
  <2> QED BY <1>1, <1>2, <2>1, SucceededOK
<1>5. CASE line.cmd = "idle"
  <2> DEFINE i == IdleWait(k, line.mask)
  <2>1. Execute(w, c, line) = Outcome([cl EXCEPT ![c] = i], w.added, "IDLE")
    BY <1>5 DEF Execute
  <2>2. Resting(i)
    BY <1>1, IdleWaitOK
  <2> HIDE DEF i
  <2>3. Progress(Outcome([cl EXCEPT ![c] = i], w.added, "IDLE"), c)
    BY <1>1, <2>2, ProgressOfOne
  <2> QED BY <2>1, <2>3
<1>6. CASE line.cmd = "close"
  <2>1. Execute(w, c, line) = Outcome(cl, w.added, "FINISH")
    BY <1>6 DEF Execute
  <2>2. Progress(Outcome([cl EXCEPT ![c] = k], w.added, "FINISH"), c)
    BY <1>1, ProgressOfOne
  <2> QED BY <1>2, <2>1, <2>2
<1>7. CASE line.cmd = "subscribe"
  <2> DEFINE s == [k EXCEPT !.subscribed = TRUE]
  <2>1. Execute(w, c, line) =
          IF k.subscribed THEN Failed(w, c)
          ELSE Succeeded(w, [cl EXCEPT ![c] = s], {"subscription"})
    BY <1>7 DEF Execute
  <2>2. Serving(s)
    BY <1>1, SubscribedOK
  <2> HIDE DEF s
  <2>3. Progress(Succeeded(w, [cl EXCEPT ![c] = s], {"subscription"}), c)
    BY <2>2, SucceededOK
  <2> QED BY <2>1, <2>3, FailedOK
<1>8. CASE line.cmd = "unsubscribe"
  <2> DEFINE s == [k EXCEPT !.subscribed = FALSE]
  <2>1. Execute(w, c, line) =
          IF ~k.subscribed THEN Failed(w, c)
          ELSE Succeeded(w, [cl EXCEPT ![c] = s], {"subscription"})
    BY <1>8 DEF Execute
  <2>2. Serving(s)
    BY <1>1, SubscribedOK
  <2> HIDE DEF s
  <2>3. Progress(Succeeded(w, [cl EXCEPT ![c] = s], {"subscription"}), c)
    BY <2>2, SucceededOK
  <2> QED BY <2>1, <2>3, FailedOK
<1>9. CASE line.cmd = "readmessages"
  <2> DEFINE s == [Put(k, k.messages) EXCEPT !.messages = 0]
  <2>1. Execute(w, c, line) = Succeeded(w, [cl EXCEPT ![c] = s], {})
    BY <1>9 DEF Execute
  <2>2. Serving(s)
    BY <1>1, ReadMessagesOK
  <2> HIDE DEF s
  <2> QED BY <2>1, <2>2, SucceededOK
<1>10. CASE line.cmd = "sendmessage"
  <2> DEFINE sent == [d \in Clients |-> PushMessage(cl[d])]
  <2>1. Execute(w, c, line) =
          IF \E d \in Clients : sent[d].messages # cl[d].messages
          THEN Succeeded(w, sent, {}) ELSE Failed(w, c)
    BY <1>10 DEF Execute
  <2>2. Progress(Succeeded(w, sent, {}), c)
    BY SendMessageOK
  <2> HIDE DEF sent
  <2> QED BY <2>1, <2>2, FailedOK
<1>11. CASE line.cmd \notin {"ping", "change", "idle", "close", "subscribe",
                            "unsubscribe", "readmessages", "sendmessage"}
  <2>1. Execute(w, c, line) = Failed(w, c)
    BY <1>11 DEF Execute
  <2> QED BY <2>1, FailedOK
<1> QED BY <1>3, <1>4, <1>5, <1>6, <1>7, <1>8, <1>9, <1>10, <1>11

\* The first m steps of the loop in client_process_command_list()
ListLoop(w, c, list, m, f) ==
  f = [i \in 0 .. m |->
         IF i = 0 THEN w
         ELSE IF f[i - 1].ret # "OK" \/ f[i - 1].clients[c].state = "expired"
         THEN f[i - 1]
         ELSE Execute(f[i - 1], c, list[i])]

\* What the loop makes of v with the next line.
NextOfList(v, c, line) ==
  IF v.ret # "OK" \/ v.clients[c].state = "expired" THEN v ELSE Execute(v, c, line)

\* Every non-empty set of natural numbers has a least element.
LEMMA LeastStep ==
  ASSUME NEW S, S \subseteq Nat, S # {}
  PROVE  \E x \in S : \A y \in S : x <= y
<1>1. IsWellFoundedOn(OpToRel(<, Nat), Nat)
  BY NatLessThanWellFounded
<1>2. PICK x \in S : \A y \in S : <<y, x>> \notin OpToRel(<, Nat)
  BY <1>1, WFMin
<1>3. ASSUME NEW y \in S
      PROVE  x <= y
  <2>1. <<y, x>> \notin OpToRel(<, Nat)
    BY <1>2
  <2> QED BY <2>1 DEF OpToRel
<1> QED BY <1>3

(* The loop over a command list has a value at every step it takes. *)
LEMMA ListLoopExists ==
  ASSUME NEW w, NEW c, NEW list, NEW m \in Nat
  PROVE  \E f : ListLoop(w, c, list, m, f)
<1> DEFINE bad == {k \in Nat : ~\E f : ListLoop(w, c, list, k, f)}
<1> SUFFICES ASSUME bad # {} PROVE FALSE
  OBVIOUS
<1>1. PICK k \in bad : \A j \in bad : k <= j
  BY LeastStep
<1>2. CASE k = 0
  <2>1. ListLoop(w, c, list, 0, [i \in 0 .. 0 |-> w])
    BY DEF ListLoop
  <2> QED BY <1>2, <2>1
<1>3. CASE k # 0
  <2>1. k \in Nat /\ k - 1 \in Nat /\ k - 1 \notin bad
    BY <1>1, <1>3
  <2>2. PICK f : ListLoop(w, c, list, k - 1, f)
    BY <2>1
  <2> DEFINE g == [i \in 0 .. k |-> IF i = k THEN NextOfList(f[k - 1], c, list[k])
                                    ELSE f[i]]
  <2>3. ASSUME NEW i \in 0 .. k
        PROVE  g[i] = IF i = 0 THEN w ELSE NextOfList(g[i - 1], c, list[i])
    <3>1. CASE i = k
      <4>1. i # 0 /\ i - 1 \in 0 .. k /\ i - 1 # k
        BY <2>1, <3>1, <1>3
      <4> QED BY <3>1, <4>1
    <3>2. CASE i # k
      <4>1. i \in 0 .. (k - 1) /\ g[i] = f[i]
        BY <2>1, <3>2
      <4>2. i # 0 => i - 1 \in 0 .. k /\ i - 1 # k /\ g[i - 1] = f[i - 1]
        BY <2>1, <4>1
      <4>3. f[i] = IF i = 0 THEN w ELSE NextOfList(f[i - 1], c, list[i])
        BY <2>2, <4>1 DEF ListLoop, NextOfList
      <4> QED BY <4>1, <4>2, <4>3
    <3> QED BY <3>1, <3>2
  <2>4. ListLoop(w, c, list, k, g)
    <3>1. g = [i \in 0 .. k |-> g[i]]
      OBVIOUS
    <3> HIDE DEF g
    <3> QED BY <2>3, <3>1 DEF ListLoop, NextOfList
  <2> QED BY <2>1, <2>4
<1> QED BY <1>2, <1>3

(* client_process_command_list(): no command runs after one that has given   *)
(* the response, so that the list as a whole is owed one.                    *)
LEMMA ExecuteListOK ==
  ASSUME NEW c \in Clients, NEW w, Progress(w, c)
  PROVE  Progress(ExecuteList(w, c), c)
<1> DEFINE list == w.clients[c].list
<1>1. list \in Seq(AllLines) /\ Len(list) \in Nat
  BY DEF Progress, Connection, CommandLists
<1>2. \E f : ListLoop(w, c, list, Len(list), f)
  BY <1>1, ListLoopExists
<1>3. PICK f : /\ ListLoop(w, c, list, Len(list), f)
               /\ ExecuteList(w, c) = f[Len(list)]
  BY <1>2 DEF ExecuteList, ListLoop
<1> DEFINE bad == {i \in 0 .. Len(list) : ~Progress(f[i], c)}
<1>4. bad = {}
  <2> SUFFICES ASSUME bad # {} PROVE FALSE
    OBVIOUS
  <2>1. bad \subseteq Nat
    BY <1>1
  <2>2. PICK i \in bad : \A j \in bad : i <= j
    BY <2>1, LeastStep
  <2>3. i \in 0 .. Len(list) /\ i \in Nat
    BY <1>1, <2>2
  <2>4. CASE i = 0
    <3>1. f[0] = w
      BY <1>1, <1>3, <2>3, <2>4 DEF ListLoop
    <3> QED BY <2>2, <2>4, <3>1
  <2>5. CASE i # 0
    <3>1. i - 1 \in 0 .. Len(list) /\ i - 1 \notin bad
      BY <1>1, <2>2, <2>3, <2>5
    <3>2. Progress(f[i - 1], c)
      BY <3>1
    <3>3. f[i] = NextOfList(f[i - 1], c, list[i])
      BY <1>3, <2>3, <2>5 DEF ListLoop, NextOfList
    <3>4. i \in 1 .. Len(list)
      BY <2>3, <2>5
    <3>5. list[i] \in AllLines
      BY <1>1, <3>4
    <3>6. list[i].mask \in SUBSET IdleEvents
      BY <3>5, ClientsAssumption DEF AllLines
    <3>7. CASE f[i - 1].ret # "OK" \/ f[i - 1].clients[c].state = "expired"
      BY <2>2, <3>2, <3>3, <3>7 DEF NextOfList
    <3>8. CASE f[i - 1].ret = "OK" /\ f[i - 1].clients[c].state # "expired"
      <4>1. f[i - 1].clients[c].state = "open"
        BY <3>2, <3>8 DEF Progress, Serving, Sound, Connection
      <4>2. f[i] = Execute(f[i - 1], c, list[i])
        BY <3>3, <3>8 DEF NextOfList
      <4> QED BY <2>2, <3>2, <3>6, <3>8, <4>1, <4>2, ExecuteOK
    <3> QED BY <3>7, <3>8
  <2> QED BY <2>4, <2>5
<1>5. Len(list) \in 0 .. Len(list)
  BY <1>1
<1> QED BY <1>3, <1>4, <1>5

\* What client_process_line() leaves behind.
Result(r, c) ==
  /\ r = Outcome(r.clients, r.added, r.ret)
  /\ r.clients \in [Clients -> Connection]
  /\ r.added \in SUBSET IdleEvents
  /\ \A d \in Clients \ {c} : Resting(r.clients[d])
  /\ Sound(r.clients[c])
  /\ r.ret \notin {"FINISH", "CLOSE"} => Resting(r.clients[c])

\* The response is given at the end, unless the command has done so.
LEMMA AnsweredOK ==
  ASSUME NEW c \in Clients, NEW w, Progress(w, c)
  PROVE  Result(Answered(w, c), c)
<1>1. CASE w.ret = "OK" /\ w.clients[c].state = "open"
  <2> DEFINE k == Respond(w.clients[c])
             cl == [w.clients EXCEPT ![c] = k]
  <2>1. Serving(w.clients[c])
    BY <1>1 DEF Progress
  <2>2. Resting(k)
    BY <2>1, AnswerOK
  <2>3. w.clients \in [Clients -> Connection]
    BY DEF Progress
  <2>4. Answered(w, c) = Outcome(cl, w.added, w.ret)
    BY <1>1 DEF Answered
  <2>5. k \in Connection
    BY <2>2 DEF Resting, Sound
  <2> HIDE DEF k
  <2>6. /\ cl \in [Clients -> Connection] /\ cl[c] = k
        /\ \A d \in Clients \ {c} : cl[d] = w.clients[d]
    BY <2>3, <2>5
  <2> HIDE DEF cl
  <2>7. /\ Outcome(cl, w.added, w.ret).clients = cl
        /\ Outcome(cl, w.added, w.ret).added = w.added
        /\ Outcome(cl, w.added, w.ret).ret = w.ret
    BY DEF Outcome
  <2> QED BY <2>2, <2>4, <2>6, <2>7 DEF Progress, Result, Resting
<1>2. CASE ~(w.ret = "OK" /\ w.clients[c].state = "open")
  <2>1. Answered(w, c) = w
    BY <1>2 DEF Answered
  <2> QED BY <1>2, <2>1 DEF Progress, Result, Serving, Resting
<1> QED BY <1>1, <1>2

\* The clients are changed by what happens to one of them.
LEMMA ResultOfOne ==
  ASSUME ClientsInvariant, NEW c \in Clients, NEW k, Sound(k),
         NEW ret, ret \notin {"FINISH", "CLOSE"} => Resting(k)
  PROVE  Result(Outcome(WithClient(k, c), {}, ret), c)
<1> DEFINE cl == WithClient(k, c)
           r == Outcome(cl, {}, ret)
<1>1. /\ cl \in [Clients -> Connection] /\ cl[c] = k
      /\ \A d \in Clients \ {c} : cl[d] = client[d]
  BY DEF WithClient, ClientsInvariant, Sound
<1> HIDE DEF cl
<1>2. /\ r.clients = cl /\ r.added = {} /\ r.ret = ret
      /\ r = Outcome(r.clients, r.added, r.ret)
  BY DEF Outcome
<1> HIDE DEF r
<1>3. Result(r, c)
  BY <1>1, <1>2 DEF Result, ClientsInvariant
<1> QED BY <1>3 DEF r, cl

\* A client that does not wait asks for something.
LEMMA AskedOK ==
  ASSUME ClientsInvariant, NEW c \in Clients, NEW k, Called(k), ~k.waiting
  PROVE  Progress(Outcome(WithClient([k EXCEPT !.owed = @ + 1], c), {}, "OK"), c)
<1> DEFINE asked == [k EXCEPT !.owed = @ + 1]
           cl == WithClient(asked, c)
           w == Outcome(cl, {}, "OK")
<1>1. k.owed = 0
  BY DEF Called
<1>2. asked \in Connection
  BY DEF Called, Sound, Connection
<1>3. /\ asked.output = k.output /\ asked.write = k.write /\ asked.state = "open"
      /\ asked.idle = k.idle /\ asked.owed = 1 /\ ~asked.waiting
  BY <1>1 DEF Called, Sound, Connection
<1> HIDE DEF asked
<1>4. Serving(asked)
  BY <1>2, <1>3 DEF Called, Sound, Serving
<1>5. /\ cl \in [Clients -> Connection] /\ cl[c] = asked
      /\ \A d \in Clients \ {c} : cl[d] = client[d]
  BY <1>2 DEF WithClient, ClientsInvariant
<1> HIDE DEF cl
<1>6. /\ w.clients = cl /\ w.added = {} /\ w.ret = "OK"
      /\ w = Outcome(w.clients, w.added, w.ret)
  BY DEF Outcome
<1> HIDE DEF w
<1>7. Progress(w, c)
  BY <1>4, <1>5, <1>6 DEF Progress, ClientsInvariant
<1> QED BY <1>7 DEF w, cl, asked

\* A client's list begins, grows, or ends.
LEMMA ListedOK ==
  ASSUME NEW k, Sound(k), NEW list \in CommandLists, NEW listing \in BOOLEAN
  PROVE  LET r == [k EXCEPT !.list = list, !.listing = listing] IN
         Sound(r) /\ (Resting(k) => Resting(r))
<1> DEFINE r == [k EXCEPT !.list = list, !.listing = listing]
<1>1. r \in Connection
  BY DEF Sound, Connection
<1>2. /\ r.output = k.output /\ r.write = k.write /\ r.state = k.state
      /\ r.idle = k.idle /\ r.owed = k.owed /\ r.waiting = k.waiting
      /\ r.timer = k.timer /\ r.flags = k.flags /\ r.mask = k.mask
  BY DEF Sound, Connection
<1> HIDE DEF r
<1>3. Sound(r) /\ (Resting(k) => Resting(r))
  BY <1>1, <1>2 DEF Sound, Resting
<1> QED BY <1>3 DEF r

\* The end of a command list: the list is emptied after its response.
LEMMA ListEndOK ==
  ASSUME NEW c \in Clients, NEW w, Result(w, c)
  PROVE  Result(Outcome([w.clients EXCEPT ![c] = [@ EXCEPT !.list = <<>>,
                                                           !.listing = FALSE]],
                        w.added, w.ret), c)
<1> DEFINE k == [w.clients[c] EXCEPT !.list = <<>>, !.listing = FALSE]
           cl == [w.clients EXCEPT ![c] = k]
           r == Outcome(cl, w.added, w.ret)
<1>1. <<>> \in CommandLists
  BY ClientsAssumption DEF CommandLists
<1>2. /\ Sound(w.clients[c]) /\ w.clients \in [Clients -> Connection]
      /\ w.added \in SUBSET IdleEvents
  BY DEF Result
<1>3. Sound(k) /\ (Resting(w.clients[c]) => Resting(k))
  BY <1>1, <1>2, ListedOK
<1>4. [w.clients EXCEPT ![c] = [@ EXCEPT !.list = <<>>, !.listing = FALSE]] = cl
  BY <1>2
<1> HIDE DEF k
<1>5. /\ cl \in [Clients -> Connection] /\ cl[c] = k
      /\ \A d \in Clients \ {c} : cl[d] = w.clients[d]
  BY <1>2, <1>3 DEF Sound
<1> HIDE DEF cl
<1>6. /\ r.clients = cl /\ r.added = w.added /\ r.ret = w.ret
      /\ r = Outcome(r.clients, r.added, r.ret)
  BY DEF Outcome
<1> HIDE DEF r
<1>7. Result(r, c)
  BY <1>2, <1>3, <1>5, <1>6 DEF Result
<1> QED BY <1>4, <1>7 DEF r

(* client_process_line(): whatever the line, the client rests after it or is *)
(* going to be closed.                                                       *)
LEMMA ProcessLineOK ==
  ASSUME ClientsInvariant, NEW c \in Clients, NEW k, Called(k),
         NEW line \in AllLines
  PROVE  Result(ProcessLine(k, c, line), c)
<1> DEFINE asked == Outcome(WithClient([k EXCEPT !.owed = @ + 1], c), {}, "OK")
<1>1. line.mask \in SUBSET IdleEvents
  BY ClientsAssumption DEF AllLines
<1>2. Sound(k) /\ k.state = "open"
  BY DEF Called
<1>3. ~k.waiting => Resting(k)
  BY DEF Called, Resting
<1>4. ~k.waiting => Progress(asked, c)
  BY AskedOK
<1>5. CASE line.cmd = "noidle"
  <2>1. ProcessLine(k, c, line) = Outcome(WithClient(NoIdle(k), c), {}, "OK")
    BY <1>5 DEF ProcessLine
  <2>2. Resting(NoIdle(k)) /\ Sound(NoIdle(k))
    BY NoIdleOK DEF Resting
  <2> QED BY <2>1, <2>2, ResultOfOne
<1>6. CASE line.cmd # "noidle" /\ k.waiting
  <2>1. ProcessLine(k, c, line) = Outcome(WithClient(k, c), {}, "CLOSE")
    BY <1>6 DEF ProcessLine
  <2> QED BY <1>2, <2>1, ResultOfOne
<1>7. CASE line.cmd # "noidle" /\ ~k.waiting /\ k.listing
           /\ line.cmd = "command_list_end"
  <2> DEFINE w == Answered(ExecuteList(asked, c), c)
  <2>1. ProcessLine(k, c, line) =
          Outcome([w.clients EXCEPT ![c] = [@ EXCEPT !.list = <<>>,
                                                     !.listing = FALSE]],
                  w.added, w.ret)
    BY <1>7 DEF ProcessLine
  <2> HIDE DEF asked
  <2>2. Result(w, c)
    BY <1>4, <1>7, ExecuteListOK, AnsweredOK
  <2> HIDE DEF w
  <2> QED BY <2>1, <2>2, ListEndOK
<1>8. CASE line.cmd # "noidle" /\ ~k.waiting /\ k.listing
           /\ line.cmd # "command_list_end"
  <2>1. CASE Len(k.list) = MaxList
    <3>1. ProcessLine(k, c, line) = Outcome(WithClient(k, c), {}, "CLOSE")
      BY <1>8, <2>1 DEF ProcessLine
    <3> QED BY <1>2, <3>1, ResultOfOne
  <2>2. CASE Len(k.list) # MaxList
    <3> DEFINE list == Append(k.list, line)
               n == [k EXCEPT !.list = list]
    <3>1. k.list \in Seq(AllLines) /\ Len(k.list) <= MaxList /\ k \in Connection
      BY <1>2 DEF Sound, Connection, CommandLists
    <3>2. list \in CommandLists
      BY <2>2, <3>1, ClientsAssumption DEF CommandLists
    <3>3. ProcessLine(k, c, line) = Outcome(WithClient(n, c), {}, "OK")
      BY <1>8, <2>2 DEF ProcessLine
    <3> HIDE DEF list
    <3>4. n = [k EXCEPT !.list = list, !.listing = TRUE]
      BY <1>8, <3>1 DEF Connection
    <3>5. Sound(n) /\ Resting(n)
      BY <1>2, <1>3, <1>8, <3>2, <3>4, ListedOK
    <3> HIDE DEF n
    <3> QED BY <3>3, <3>5, ResultOfOne
  <2> QED BY <2>1, <2>2
<1>9. CASE line.cmd = "command_list_begin" /\ ~k.waiting /\ ~k.listing
  <2> DEFINE n == [k EXCEPT !.listing = TRUE]
  <2>1. ProcessLine(k, c, line) = Outcome(WithClient(n, c), {}, "OK")
    BY <1>9 DEF ProcessLine
  <2>2. k \in Connection /\ k.list \in CommandLists
    BY <1>2 DEF Sound, Connection
  <2>3. n = [k EXCEPT !.list = k.list, !.listing = TRUE]
    BY <2>2 DEF Connection
  <2>4. Sound(n) /\ Resting(n)
    BY <1>2, <1>3, <1>9, <2>2, <2>3, ListedOK
  <2> HIDE DEF n
  <2> QED BY <2>1, <2>4, ResultOfOne
<1>10. CASE line.cmd \notin {"noidle", "command_list_begin"} /\ ~k.waiting
            /\ ~k.listing
  <2>1. ProcessLine(k, c, line) = Answered(Execute(asked, c, line), c)
    BY <1>10 DEF ProcessLine
  <2>2. asked.ret = "OK" /\ asked.clients[c].state = "open"
    <3>1. asked.ret = "OK" /\ asked.clients = WithClient([k EXCEPT !.owed = @ + 1], c)
      BY DEF Outcome
    <3> HIDE DEF asked
    <3>2. asked.clients[c] = [k EXCEPT !.owed = @ + 1]
      BY <3>1 DEF WithClient, ClientsInvariant
    <3> QED BY <1>2, <3>1, <3>2 DEF Sound, Connection
  <2> HIDE DEF asked
  <2>3. Progress(Execute(asked, c, line), c)
    BY <1>1, <1>4, <1>10, <2>2, ExecuteOK
  <2> QED BY <2>1, <2>3, AnsweredOK
<1> QED BY <1>5, <1>6, <1>7, <1>8, <1>9, <1>10

-----------------------------------------------------------------------------
(* The steps.                                                              *)

\* A callback of the main loop leaves clients that rest.
LEMMA LeaveOK ==
  ASSUME ClientsInvariant, Polling, NEW cl \in [Clients -> Connection],
         \A c \in Clients : Resting(cl[c]), NEW added \in SUBSET IdleEvents,
         Leave(cl, added)
  PROVE  ClientsInvariant'
<1>1. EventsInvariant'
  <2>1. CASE added = {}
    BY <2>1 DEF Leave, ClientsInvariant, EventsInvariant, EventsTypeOK,
       NoLostWakeup, IdleIsEmitted, EventIsScheduled, PendingIsWritten, eventVars
  <2>2. CASE added # {}
    BY <2>2, IdleAddOK, MainIsAThread DEF Leave, ClientsInvariant, Polling
  <2> QED BY <2>1, <2>2
<1>2. client' = cl
  BY DEF Leave
<1> QED BY <1>1, <1>2 DEF ClientsInvariant

\* A callback that changes one client.
LEMMA LeaveOneOK ==
  ASSUME ClientsInvariant, Polling, NEW c \in Clients, NEW k, Resting(k),
         Leave(WithClient(k, c), {})
  PROVE  ClientsInvariant'
<1> DEFINE cl == WithClient(k, c)
<1>1. cl \in [Clients -> Connection] /\ \A d \in Clients : Resting(cl[d])
  BY DEF WithClient, ClientsInvariant, Resting, Sound
<1> HIDE DEF cl
<1> QED BY <1>1, LeaveOK DEF cl

\* What happens to the clients does not concern the events, and vice versa.
LEMMA ClientsUntouched ==
  ASSUME ClientsInvariant, EventsInvariant', UNCHANGED client
  PROVE  ClientsInvariant'
BY DEF ClientsInvariant

\* A line of a client is processed.
LEMMA OnSocketInputOK ==
  ASSUME ClientsInvariant, NEW c \in Clients, OnSocketInput(c)
  PROVE  ClientsInvariant'
<1> DEFINE k == [client[c] EXCEPT !.timer = "timeout", !.input = Tail(@)]
           line == Head(client[c].input)
           w == ProcessLine(k, c, line)
<1>1. /\ Resting(client[c]) /\ client[c].state = "open" /\ Polling
      /\ client[c] \in Connection /\ client[c].input \in Seq(AllLines)
      /\ client[c].input # <<>>
  BY DEF OnSocketInput, ClientsInvariant, Connection
<1>2. line \in AllLines /\ Tail(client[c].input) \in Seq(AllLines)
  BY <1>1
<1>3. k \in Connection
  BY <1>1, <1>2 DEF Connection
<1>4. /\ k.output = client[c].output /\ k.write = client[c].write
      /\ k.state = "open" /\ k.idle = client[c].idle
      /\ k.owed = client[c].owed /\ k.waiting = client[c].waiting
      /\ k.timer = "timeout"
  BY <1>1 DEF Connection
<1>5. /\ IF w.ret = "FINISH"
         THEN \E failed \in BOOLEAN :
                Leave([w.clients EXCEPT ![c] = IF failed /\ @.output > 0
                                               THEN SetExpired(@) ELSE Close],
                      w.added)
         ELSE IF w.ret = "CLOSE" \/ w.clients[c].state = "expired"
         THEN Leave([w.clients EXCEPT ![c] = Close], w.added)
         ELSE Leave(w.clients, w.added)
  BY DEF OnSocketInput
<1> HIDE DEF k, line
<1>6. Called(k)
  BY <1>1, <1>3, <1>4 DEF Called, Resting, Sound
<1>7. Result(w, c)
  BY <1>2, <1>6, ProcessLineOK
<1> HIDE DEF w
<1>8. /\ w.clients \in [Clients -> Connection] /\ w.added \in SUBSET IdleEvents
      /\ \A d \in Clients \ {c} : Resting(w.clients[d])
      /\ Sound(w.clients[c])
  BY <1>7 DEF Result
<1>9. ASSUME NEW n, Resting(n), Leave([w.clients EXCEPT ![c] = n], w.added)
      PROVE  ClientsInvariant'
  <2> DEFINE cl == [w.clients EXCEPT ![c] = n]
  <2>1. cl \in [Clients -> Connection] /\ \A d \in Clients : Resting(cl[d])
    BY <1>8, <1>9 DEF Resting, Sound
  <2> HIDE DEF cl
  <2> QED BY <1>1, <1>8, <1>9, <2>1, LeaveOK DEF cl
<1>10. CASE w.ret = "FINISH"
  <2>1. PICK failed \in BOOLEAN :
          Leave([w.clients EXCEPT ![c] = IF failed /\ @.output > 0
                                         THEN SetExpired(@) ELSE Close], w.added)
    BY <1>5, <1>10
  <2> DEFINE n == IF failed /\ w.clients[c].output > 0
                  THEN SetExpired(w.clients[c]) ELSE Close
  <2>2. Resting(n)
    BY <1>8, SetExpiredOK, NoClientOK DEF Close
  <2>3. Leave([w.clients EXCEPT ![c] = n], w.added)
    BY <2>1
  <2> HIDE DEF n
  <2> QED BY <1>9, <2>2, <2>3
<1>11. CASE w.ret # "FINISH" /\ (w.ret = "CLOSE" \/ w.clients[c].state = "expired")
  BY <1>5, <1>9, <1>11, NoClientOK DEF Close
<1>12. CASE w.ret # "FINISH" /\ ~(w.ret = "CLOSE" \/ w.clients[c].state = "expired")
  <2>1. Leave(w.clients, w.added)
    BY <1>5, <1>12
  <2>2. \A d \in Clients : Resting(w.clients[d])
    BY <1>7, <1>8, <1>12 DEF Result
  <2> QED BY <1>1, <1>8, <2>1, <2>2, LeaveOK
<1> QED BY <1>10, <1>11, <1>12

\* The "idle" handler tells every client what has changed.
LEMMA IdleEventEmittedOK ==
  ASSUME ClientsInvariant, IdleEventEmitted
  PROVE  ClientsInvariant'
<1>1. EventsInvariant'
  BY HandleIdleOK DEF IdleEventEmitted, ClientsInvariant
<1>2. idle_flags \in SUBSET IdleEvents
  BY DEF ClientsInvariant, EventsInvariant, EventsTypeOK
<1>3. \A c \in Clients : /\ Resting(client[c])
                         /\ Resting(ClientIdleAdd(client[c], idle_flags))
  BY <1>2, ClientIdleAddOK DEF ClientsInvariant
<1>4. client' = [c \in Clients |-> IF idle_flags = {} THEN client[c]
                                   ELSE ClientIdleAdd(client[c], idle_flags)]
  BY DEF IdleEventEmitted
<1>5. \A c \in Clients : Resting(client'[c]) /\ client'[c] \in Connection
  BY <1>3, <1>4 DEF Resting, Sound
<1>6. client' \in [Clients -> Connection]
  BY <1>4, <1>5
<1> QED BY <1>1, <1>5, <1>6 DEF ClientsInvariant

\* The peer's next line does not change what it is owed.
LEMMA SendOK ==
  ASSUME ClientsInvariant, NEW c \in Clients, NEW line \in Lines[c], Send(c, line)
  PROVE  ClientsInvariant'
<1> DEFINE k == client[c]
           r == [k EXCEPT !.input = <<line>>]
<1>1. Resting(k) /\ k \in Connection
  BY DEF ClientsInvariant
<1>2. <<line>> \in Seq(AllLines)
  BY DEF AllLines
<1>3. r \in Connection
  BY <1>1, <1>2 DEF Connection
<1>4. /\ r.output = k.output /\ r.write = k.write /\ r.state = k.state
      /\ r.idle = k.idle /\ r.owed = k.owed /\ r.waiting = k.waiting
      /\ r.timer = k.timer /\ r.flags = k.flags /\ r.mask = k.mask
  BY <1>1 DEF Connection
<1>5. client' = [client EXCEPT ![c] = r]
  BY DEF Send
<1> HIDE DEF r
<1>6. Resting(r)
  BY <1>1, <1>3, <1>4 DEF Resting, Sound
<1>7. client' \in [Clients -> Connection] /\ \A d \in Clients : Resting(client'[d])
  BY <1>3, <1>5, <1>6 DEF ClientsInvariant
<1>8. EventsInvariant'
  BY DEF Send, ClientsInvariant, EventsInvariant, EventsTypeOK,
     NoLostWakeup, IdleIsEmitted, EventIsScheduled, PendingIsWritten, eventVars
<1> QED BY <1>7, <1>8 DEF ClientsInvariant

(* At the start there is nobody. *)
LEMMA ClientsInitOK == Init => ClientsInvariant
BY EventsInitOK, NoClientOK DEF Init, ClientsInvariant

(* Every step of a peer, a thread or the main loop preserves the invariant. *)
LEMMA ClientsNextOK ==
  ASSUME ClientsInvariant, [Next]_vars
  PROVE  ClientsInvariant'
<1>1. EventsInvariant /\ client \in [Clients -> Connection]
      /\ \A c \in Clients : Resting(client[c]) /\ Sound(client[c])
  BY DEF ClientsInvariant, Resting
<1>2. ASSUME NEW t \in Threads, IdleAdd(t, {"player"}), UNCHANGED client
      PROVE  ClientsInvariant'
  <2>1. t \in AllThreads /\ t # Main /\ {"player"} \in SUBSET IdleEvents
    BY MainIsAThread, GlobalEventsAssumption, ClientsAssumption
  <2> QED BY <1>1, <1>2, <2>1, IdleAddOK, ClientsUntouched
<1>3. ASSUME NEW t \in AllThreads, ThreadStep(t), UNCHANGED client
      PROVE  ClientsInvariant'
  BY <1>1, <1>3, EmitOK, ScheduleOK, WriteFDOK, ClientsUntouched DEF ThreadStep
<1>4. CASE LoopStep /\ UNCHANGED client
  BY <1>1, <1>4, LoopOK, ClientsUntouched DEF LoopStep
<1>5. CASE IdleEventEmitted
  BY <1>5, IdleEventEmittedOK
<1>6. CASE OthersSendMessage
  <2> DEFINE cl == [c \in Clients |-> PushMessage(client[c])]
  <2>1. \A c \in Clients : Resting(cl[c]) /\ cl[c] \in Connection
    BY <1>1, PushMessageOK DEF Resting, Sound
  <2>2. cl \in [Clients -> Connection]
    BY <2>1
  <2>3. Polling /\ Leave(cl, {})
    BY <1>6 DEF OthersSendMessage
  <2> HIDE DEF cl
  <2> QED BY <2>1, <2>2, <2>3, LeaveOK
<1>7. CASE OthersChange
  BY <1>1, <1>7, LeaveOK, ClientsAssumption DEF OthersChange
<1>8. ASSUME NEW c \in Clients, Connect(c)
      PROVE  ClientsInvariant'
  BY <1>8, NewClientOK, LeaveOneOK DEF Connect
<1>9. ASSUME NEW c \in Clients, OnIdle(c)
      PROVE  ClientsInvariant'
  <2> DEFINE k == [client[c] EXCEPT !.idle = FALSE]
  <2>1. k.output = client[c].output
    BY <1>1 DEF Connection
  <2>2. PICK n \in 0 .. k.output :
          Leave(WithClient([Flush(k, n) EXCEPT !.write = @ \/ n < k.output], c), {})
    BY <1>9 DEF OnIdle
  <2>3. n \in 0 .. client[c].output /\ client[c].idle /\ Polling
    BY <1>9, <2>1 DEF OnIdle
  <2>4. Leave(WithClient([Flush(k, n) EXCEPT !.write = @ \/ n < client[c].output],
                         c), {})
    BY <2>1, <2>2
  <2> QED BY <1>1, <2>3, <2>4, FlushIdleOK, LeaveOneOK
<1>10. ASSUME NEW c \in Clients, OnWritable(c)
       PROVE  ClientsInvariant'
  BY <1>1, <1>10, FlushWriteOK, LeaveOneOK DEF OnWritable
<1>11. ASSUME NEW c \in Clients, OnSocketClosed(c)
       PROVE  ClientsInvariant'
  BY <1>1, <1>11, SetExpiredOK, LeaveOneOK DEF OnSocketClosed
<1>12. ASSUME NEW c \in Clients, OnTimeout(c)
       PROVE  ClientsInvariant'
  BY <1>12, NoClientOK, LeaveOneOK DEF OnTimeout, Close
<1>13. CASE UNCHANGED vars
  BY <1>1, <1>13, ClientsUntouched DEF vars, EventsInvariant, EventsTypeOK,
     NoLostWakeup, IdleIsEmitted, EventIsScheduled, PendingIsWritten, eventVars
<1> QED BY <1>2, <1>3, <1>4, <1>5, <1>6, <1>7, <1>8, <1>9, <1>10, <1>11, <1>12,
        <1>13, OnSocketInputOK, SendOK DEF Next

-----------------------------------------------------------------------------
(* The theorems.                                                           *)

\* Together: the specification keeps the invariant.
LEMMA ClientsInvariantHolds == Spec => []ClientsInvariant
BY ClientsInitOK, ClientsNextOK, PTL DEF Spec

(* The buffers, the lists and the flags of the clients hold what they should. *)
THEOREM ClientsKeepTypes == Spec => []ClientsTypeOK
<1>1. ClientsInvariant => ClientsTypeOK
  BY DEF ClientsInvariant, EventsInvariant, ClientsTypeOK
<1> QED BY <1>1, ClientsInvariantHolds, PTL

(* News of a thread, of a command or of another client is always on its way  *)
(* to the main loop (Idle.cxx, GlobalEvents.cxx, DeferredMonitor.cxx), with   *)
(* the clients, whose commands add news of their own, taking part.           *)
THEOREM ClientsAreWoken == Spec => []NoLostWakeup
<1>1. ClientsInvariant => NoLostWakeup
  BY DEF ClientsInvariant, EventsInvariant
<1> QED BY <1>1, ClientsInvariantHolds, PTL

(* The assertions of the sockets and of Client::OnTimeout() never fail,      *)
(* whatever is sent and whenever a connection is lost.                       *)
THEOREM ClientAssertionsHold == Spec => []AssertionsHold
<1>1. ClientsInvariant => AssertionsHold
  BY DEF ClientsInvariant, AssertionsHold, Resting, Sound
<1> QED BY <1>1, ClientsInvariantHolds, PTL

(* FullyBufferedSocket never leaves a response in its buffer that nobody     *)
(* is registered to send.                                                    *)
THEOREM ResponsesAreSent == Spec => []OutputIsScheduled
<1>1. ClientsInvariant => OutputIsScheduled
  BY DEF ClientsInvariant, OutputIsScheduled, Resting, Sound
<1> QED BY <1>1, ClientsInvariantHolds, PTL

(* client_process_line() and Client::IdleNotify() together answer every      *)
(* request once, in and out of command lists, across "noidle" and messages.  *)
THEOREM RequestsAreAnswered == Spec => []OneResponse
<1>1. ClientsInvariant => OneResponse
  BY DEF ClientsInvariant, OneResponse, Resting
<1> QED BY <1>1, ClientsInvariantHolds, PTL
==============================================================================
