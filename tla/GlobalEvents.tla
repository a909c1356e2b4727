---------------------------- MODULE GlobalEvents ----------------------------
(***************************************************************************)
(* How a thread tells the main loop that something has happened, and how   *)
(* it says what clients that idle should be told: Idle.cxx,                *)
(* GlobalEvents.cxx, DeferredMonitor.cxx and the wake-up of the EventLoop. *)
(*                                                                         *)
(* There is no lock.  A thread sets a bit and passes the news on only if   *)
(* the bit was not set; the main thread clears the bits before it acts.    *)
(* Each atomic operation is a step, so threads come in between any two.    *)
(***************************************************************************)
EXTENDS Integers

CONSTANTS Threads,     \* the threads other than the main thread
          Main,        \* the main thread, which runs the EventLoop
          IdleEvents,  \* what a client may wait for (IDLE_PLAYER, ...)
          Events       \* the GlobalEvents in use

\* The order of GlobalEvents::Event, in which handlers are invoked.
Rank(e) == CASE e = "UPDATE" -> 0 [] e = "DELETE" -> 1 [] e = "IDLE" -> 2
             [] e = "PLAYLIST" -> 3 [] e = "TAG" -> 4 [] OTHER -> 5

ASSUME GlobalEventsAssumption ==
  /\ Main \notin Threads
  /\ "IDLE" \in Events
  /\ Events \subseteq {"UPDATE", "DELETE", "IDLE", "PLAYLIST", "TAG", "MIXER"}

VARIABLES
  idle_flags,  \* what has changed and no client has been told yet
  flags,       \* the GlobalEvents to handle
  pending,     \* DeferredMonitor::pending
  fd,          \* is the eventfd of the DeferredMonitor readable?
  pc,          \* what each thread is about to do
  emit,        \* the event it is about to emit
  loop,        \* what the main loop is about to do
  todo         \* the events RunDeferred() has taken and not handled

eventVars == <<idle_flags, flags, pending, fd, pc, emit, loop, todo>>

AllThreads == Threads \cup {Main}
None == "none"

EventsTypeOK ==
  /\ idle_flags \subseteq IdleEvents
  /\ flags \subseteq Events /\ todo \subseteq Events
  /\ pending \in BOOLEAN /\ fd \in BOOLEAN
  /\ pc \in [AllThreads -> {"run", "emit", "schedule", "write"}]
  /\ emit \in [AllThreads -> Events \cup {None}]
  /\ \A t \in AllThreads : (pc[t] = "emit") <=> (emit[t] # None)
  /\ loop \in {"poll", "exchange", "take", "handle"}
  /\ loop # "handle" => todo = {}
  /\ pc[Main] # "run" => loop \in {"poll", "handle"}

EventsInit ==
  /\ idle_flags = {} /\ flags = {} /\ todo = {}
  /\ pending = FALSE /\ fd = FALSE
  /\ pc = [t \in AllThreads |-> "run"]
  /\ emit = [t \in AllThreads |-> None]
  /\ loop = "poll"

------------------------------------------------------------------------------
(* The thread that has news.                                              *)

Goto(t, where, e) ==
  /\ pc' = [pc EXCEPT ![t] = where]
  /\ emit' = [emit EXCEPT ![t] = e]

\* (News of the main loop's own is left for the next event.)
IdleAddOfMainUntold(t, added) ==
  /\ pc[t] = "run"
  /\ added # {}
  /\ idle_flags' = idle_flags \cup added
  /\ IF t = Main \/ added \subseteq idle_flags THEN UNCHANGED <<pc, emit>>
                                               ELSE Goto(t, "emit", "IDLE")
  /\ UNCHANGED <<flags, pending, fd, loop, todo>>

\* idle_add(): only a bit that was not set is announced to the main thread.
IdleAdd(t, added) ==
  /\ pc[t] = "run"
  /\ added # {}
  /\ idle_flags' = idle_flags \cup added
  /\ IF added \subseteq idle_flags THEN UNCHANGED <<pc, emit>>
                                   ELSE Goto(t, "emit", "IDLE")
  /\ UNCHANGED <<flags, pending, fd, loop, todo>>

\* A thread calls GlobalEvents::Emit() itself.
Announce(t, e) ==
  /\ pc[t] = "run"
  /\ Goto(t, "emit", e)
  /\ UNCHANGED <<idle_flags, flags, pending, fd, loop, todo>>

\* GlobalEvents::Emit(): flags.fetch_or().
Emit(t) ==
  /\ pc[t] = "emit"
  /\ flags' = flags \cup {emit[t]}
  /\ Goto(t, IF flags = {} THEN "schedule" ELSE "run", None)
  /\ UNCHANGED <<idle_flags, pending, fd, loop, todo>>

\* DeferredMonitor::Schedule(): pending.exchange(true).
Schedule(t) ==
  /\ pc[t] = "schedule"
  /\ pending' = TRUE
  /\ Goto(t, IF pending THEN "run" ELSE "write", None)
  /\ UNCHANGED <<idle_flags, flags, fd, loop, todo>>

\* fd.Write()
WriteFD(t) ==
  /\ pc[t] = "write"
  /\ fd' = TRUE
  /\ Goto(t, "run", None)
  /\ UNCHANGED <<idle_flags, flags, pending, loop, todo>>

ThreadStep(t) == Emit(t) \/ Schedule(t) \/ WriteFD(t)

------------------------------------------------------------------------------
(* The main loop.                                                          *)

\* It waits for its next event.
Polling == loop = "poll" /\ pc[Main] = "run"

\* DeferredMonitor::OnSocketReady(): fd.Read(), then pending.exchange(false).
Wake ==
  /\ Polling /\ fd
  /\ fd' = FALSE
  /\ loop' = "exchange"
  /\ UNCHANGED <<idle_flags, flags, pending, pc, emit, todo>>

ExchangeStaysPending ==
  /\ loop = "exchange"
  /\ loop' = IF pending THEN "take" ELSE "poll"
  /\ UNCHANGED <<idle_flags, flags, pending, fd, pc, emit, todo>>

Exchange ==
  /\ loop = "exchange"
  /\ pending' = FALSE
  /\ loop' = IF pending THEN "take" ELSE "poll"
  /\ UNCHANGED <<idle_flags, flags, fd, pc, emit, todo>>

\* GlobalEvents::Monitor::RunDeferred(): flags.exchange(0).
Take ==
  /\ loop = "take"
  /\ todo' = flags
  /\ flags' = {}
  /\ loop' = IF flags = {} THEN "poll" ELSE "handle"
  /\ UNCHANGED <<idle_flags, pending, fd, pc, emit>>

\* RunDeferred() invokes the next handler.
Handling(e) ==
  /\ loop = "handle" /\ pc[Main] = "run"
  /\ e \in todo
  /\ \A f \in todo : Rank(e) <= Rank(f)
  /\ todo' = todo \ {e}
  /\ loop' = IF todo' = {} THEN "poll" ELSE "handle"

\* idle_event_emitted() takes the flags; what it tells to whom is up to Clients.
HandleIdle ==
  /\ Handling("IDLE")
  /\ idle_flags' = {}
  /\ UNCHANGED <<flags, pending, fd, pc, emit>>

\* Any other handler; it may have news for the clients itself ("message" is
\* the one event that idle_add() is never called with).
HandleOther(added) ==
  /\ \E e \in Events \ {"IDLE"} : Handling(e)
  /\ idle_flags' = idle_flags \cup added
  /\ IF added \subseteq idle_flags THEN UNCHANGED <<pc, emit>>
                                   ELSE Goto(Main, "emit", "IDLE")
  /\ UNCHANGED <<flags, pending, fd>>

\* EventLoop::Run() comes to the DeferredMonitor.
LoopStep == Wake \/ Exchange \/ Take

MainStep ==
  \/ LoopStep
  \/ \E added \in SUBSET (IdleEvents \ {"message"}) : HandleOther(added)

------------------------------------------------------------------------------
(* The events by themselves, with any thread that has any news.            *)

EventsNext ==
  \/ \E t \in Threads, e \in IdleEvents : IdleAdd(t, {e})
  \/ \E t \in Threads, e \in Events \ {"IDLE"} : Announce(t, e)
  \/ \E e \in IdleEvents : Polling /\ IdleAdd(Main, {e})
  \/ \E t \in AllThreads : ThreadStep(t)
  \/ MainStep
  \/ HandleIdle

EventsSpec == EventsInit /\ [][EventsNext]_eventVars

------------------------------------------------------------------------------
(* No wake-up is lost: whatever is still to be told, somebody is on the    *)
(* way to tell the main thread (Idle.cxx, GlobalEvents.cxx and             *)
(* DeferredMonitor.cxx pass news on only if there was none before).        *)

\* News for clients: the IDLE event is set, about to be set or being handled.
IdleIsEmitted ==
  idle_flags # {} =>
    \/ "IDLE" \in flags \cup todo
    \/ \E t \in AllThreads : pc[t] = "emit" /\ emit[t] = "IDLE"

\* An event: the monitor is pending, about to be, or about to take the event.
EventIsScheduled ==
  flags # {} => \/ pending
                \/ loop = "take"
                \/ \E t \in AllThreads : pc[t] = "schedule"

\* A pending monitor: the eventfd is readable, about to be, or has just been read.
PendingIsWritten ==
  pending => \/ fd
             \/ loop = "exchange"
             \/ \E t \in AllThreads : pc[t] = "write"

(* No thread that has news, whatever the others are at, leaves the main     *)
(* loop asleep with them: the three flags are handed on in this order.      *)
NoLostWakeup == IdleIsEmitted /\ EventIsScheduled /\ PendingIsWritten
==============================================================================
