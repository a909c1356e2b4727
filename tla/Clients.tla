------------------------------- MODULE Clients -------------------------------
(***************************************************************************)
(* The connections of MPD: Client*.cxx, the sockets below them             *)
(* (event/FullyBufferedSocket.cxx and its bases), command lists, the       *)
(* "idle" command and messages between clients, on top of GlobalEvents.    *)
(*                                                                         *)
(* The main loop runs one callback at a time: a line of input, a writable  *)
(* socket, an IdleMonitor, a timer, or the GlobalEvents.  The peer of each *)
(* connection sends what it likes (Lines), reads or does not, and may hang *)
(* up at any moment.                                                       *)
(***************************************************************************)
EXTENDS GlobalEvents, Sequences, FiniteSets

CONSTANTS Clients,
          Lines,        \* for each client: the lines its peer may send
          MaxOutput,    \* size of the output buffer, in lines
          MaxList,      \* size of a command list
          MaxMessages   \* CLIENT_MAX_MESSAGES

ASSUME ClientsAssumption ==
  /\ MaxOutput \in Nat \ {0} /\ MaxList \in Nat /\ MaxMessages \in Nat \ {0}
  /\ IsFiniteSet(IdleEvents) /\ {"player", "message"} \subseteq IdleEvents
  /\ \A c \in Clients : \A line \in Lines[c] : line.mask \subseteq IdleEvents

VARIABLE client

vars == <<eventVars, client>>

\* A connection that is not there.
NoClient ==
  [state |-> "none", waiting |-> FALSE, flags |-> {}, mask |-> {},
   subscribed |-> FALSE, messages |-> 0, listing |-> FALSE, list |-> <<>>,
   input |-> <<>>, output |-> 0, idle |-> FALSE, write |-> FALSE,
   timer |-> "off", owed |-> 0]

\* Client::Client() starts the timer that closes silent connections.
NewClient == [NoClient EXCEPT !.state = "open", !.timer = "timeout"]

AllLines == UNION {Lines[c] : c \in Clients}

\* What a client keeps of a command list that has not ended.
CommandLists == {l \in Seq(AllLines) : Len(l) <= MaxList}

\* The state of a client and its socket.
Connection ==
  [state : {"none", "open", "expired"},
   waiting : BOOLEAN, flags : SUBSET IdleEvents, mask : SUBSET IdleEvents,
   subscribed : BOOLEAN, messages : 0 .. MaxMessages,
   listing : BOOLEAN, list : CommandLists,
   input : Seq(AllLines), output : 0 .. MaxOutput,
   idle : BOOLEAN, write : BOOLEAN, timer : {"off", "timeout", "now"}, owed : Int]

ClientsTypeOK == EventsTypeOK /\ client \in [Clients -> Connection]

Init == EventsInit /\ client = [c \in Clients |-> NoClient]

------------------------------------------------------------------------------
(* Operators on one client.                                                *)

\* Client::SetExpired() closes the socket and leaves the rest to a timer.
SetExpiredUntimed(k) ==
  IF k.state = "expired" THEN k
  ELSE [k EXCEPT !.state = "expired", !.input = <<>>, !.output = 0,
                 !.idle = FALSE, !.write = FALSE, !.timer = "off"]

SetExpired(k) ==
  IF k.state = "expired" THEN k
  ELSE [k EXCEPT !.state = "expired", !.input = <<>>, !.output = 0,
                 !.idle = FALSE, !.write = FALSE, !.timer = "now"]

\* client_puts() of n lines, and FullyBufferedSocket::Write(): a full buffer is
\* an error that expires the client, and so ends the writing.
Put(k, n) ==
  IF k.state = "expired" \/ n = 0 THEN k
  ELSE IF k.output + n > MaxOutput THEN SetExpired(k)
  ELSE [k EXCEPT !.output = @ + n, !.idle = @ \/ k.output = 0]

\* The line that ends a response: "OK" or "ACK".
Respond(k) == Put([k EXCEPT !.owed = @ - 1], 1)

\* Client::IdleNotify()
IdleNotify(k) ==
  LET told == [k EXCEPT !.flags = {}, !.waiting = FALSE]
  IN  [Respond(Put(told, Cardinality(k.flags \cap k.mask)))
         EXCEPT !.timer = "timeout"]

\* Client::IdleAdd()
ClientIdleAdd(k, added) ==
  LET f == k.flags \cup added
      n == [k EXCEPT !.flags = f]
  IN  IF k.state # "open" THEN k
      ELSE IF k.waiting /\ f \cap k.mask # {} THEN IdleNotify(n) ELSE n

IdleWaitTimed(k, mask) ==
  LET n == [k EXCEPT !.waiting = TRUE, !.mask = mask]
  IN  IF k.flags \cap mask # {} THEN IdleNotify(n) ELSE n

\* Client::IdleWait()
IdleWait(k, mask) ==
  LET n == [k EXCEPT !.waiting = TRUE, !.mask = mask]
  IN  IF k.flags \cap mask # {} THEN IdleNotify(n) ELSE [n EXCEPT !.timer = "off"]

NoIdleAlways(k) == Respond([k EXCEPT !.waiting = FALSE])

\* "noidle": a client that does not wait any more has got its response already.
NoIdle(k) == IF k.waiting THEN Respond([k EXCEPT !.waiting = FALSE]) ELSE k

\* Client::PushMessage(): only the first message in the queue is an event.
PushMessage(k) ==
  IF k.state = "none" \/ ~k.subscribed \/ k.messages >= MaxMessages THEN k
  ELSE LET n == IF k.messages = 0 THEN ClientIdleAdd(k, {"message"}) ELSE k
       IN  [n EXCEPT !.messages = @ + 1]

\* FullyBufferedSocket::Flush(): send() takes n lines of the output.
Flush(k, n) ==
  [k EXCEPT !.output = @ - n,
            !.idle = @ /\ k.output # n /\ k.output # 0,
            !.write = @ /\ k.output # n /\ k.output # 0]

\* The timer or the peer has ended the connection: Client::Close().
Close == NoClient

------------------------------------------------------------------------------
(* Commands.  A line is a record with the command and, for idle, what the   *)
(* client waits for.  Running it yields the clients, what idle_add() was    *)
(* given, and the CommandResult.                                           *)

Outcome(cl, added, ret) == [clients |-> cl, added |-> added, ret |-> ret]

\* command_error() writes the response at once.
Failed(w, c) ==
  Outcome([w.clients EXCEPT ![c] = Respond(@)], w.added, "ERROR")

Succeeded(w, cl, added) ==
  Outcome(cl, w.added \cup (added \cap IdleEvents), "OK")

\* command_process() of a line of client c.
Execute(w, c, line) ==
  LET cl == w.clients
      k == cl[c]
  IN  CASE line.cmd = "ping" -> Succeeded(w, cl, {})
        [] line.cmd = "change" -> Succeeded(w, cl, {"player"})
        [] line.cmd = "idle" ->
             Outcome([cl EXCEPT ![c] = IdleWait(k, line.mask)], w.added, "IDLE")
        [] line.cmd = "close" -> Outcome(cl, w.added, "FINISH")
        [] line.cmd = "subscribe" ->
             IF k.subscribed THEN Failed(w, c)
             ELSE Succeeded(w, [cl EXCEPT ![c].subscribed = TRUE], {"subscription"})
        [] line.cmd = "unsubscribe" ->
             IF ~k.subscribed THEN Failed(w, c)
             ELSE Succeeded(w, [cl EXCEPT ![c].subscribed = FALSE], {"subscription"})
        [] line.cmd = "readmessages" ->
             Succeeded(w, [cl EXCEPT ![c] = [Put(k, k.messages)
                                               EXCEPT !.messages = 0]], {})
        [] line.cmd = "sendmessage" ->
             LET sent == [d \in Clients |-> PushMessage(cl[d])]
             IN  IF \E d \in Clients : sent[d].messages # cl[d].messages
                 THEN Succeeded(w, sent, {}) ELSE Failed(w, c)
        [] OTHER -> Failed(w, c)

\* client_process_command_list(): it ends with the first command that does not
\* return OK, or that expires the client.
ExecuteList(w, c) ==
  LET list == w.clients[c].list
      run[i \in 0 .. Len(list)] ==
        IF i = 0 THEN w
        ELSE IF run[i - 1].ret # "OK" \/ run[i - 1].clients[c].state = "expired"
        THEN run[i - 1]
        ELSE Execute(run[i - 1], c, list[i])
  IN  run[Len(list)]

\* The end of client_process_line(): the response to a command that succeeded.
Answered(w, c) ==
  IF w.ret = "OK" /\ w.clients[c].state = "open"
  THEN Outcome([w.clients EXCEPT ![c] = Respond(@)], w.added, w.ret)
  ELSE w

WithClient(k, c) == [client EXCEPT ![c] = k]

\* client_process_line()
ProcessLine(k, c, line) ==
  LET asked == [k EXCEPT !.owed = @ + 1]
  IN  IF line.cmd = "noidle"
      THEN Outcome(WithClient(NoIdle(k), c), {}, "OK")
      ELSE IF k.waiting THEN Outcome(WithClient(k, c), {}, "CLOSE")
      ELSE IF k.listing /\ line.cmd = "command_list_end"
      THEN LET w == Answered(ExecuteList(Outcome(WithClient(asked, c), {}, "OK"),
                                         c), c)
           IN  Outcome([w.clients EXCEPT ![c] = [@ EXCEPT !.list = <<>>,
                                                          !.listing = FALSE]],
                       w.added, w.ret)
      ELSE IF k.listing
      THEN IF Len(k.list) = MaxList
           THEN Outcome(WithClient(k, c), {}, "CLOSE")
           ELSE Outcome(WithClient([k EXCEPT !.list = Append(@, line)], c), {},
                        "OK")
      ELSE IF line.cmd = "command_list_begin"
      THEN Outcome(WithClient([k EXCEPT !.listing = TRUE], c), {}, "OK")
      ELSE Answered(Execute(Outcome(WithClient(asked, c), {}, "OK"), c, line), c)

------------------------------------------------------------------------------
(* The main loop.                                                          *)

\* What a callback leaves behind; idle_add() continues in GlobalEvents.
Leave(cl, added) ==
  /\ client' = cl
  /\ IF added = {} THEN UNCHANGED eventVars ELSE IdleAdd(Main, added)

\* client_new()
Connect(c) ==
  /\ Polling /\ client[c].state = "none"
  /\ Leave(WithClient(NewClient, c), {})

\* Client::OnSocketInput() with the next line.
OnSocketInput(c) ==
  LET k == client[c]
      line == Head(k.input)
      w == ProcessLine([k EXCEPT !.timer = "timeout", !.input = Tail(@)], c, line)
  IN  /\ Polling /\ k.state = "open" /\ k.input # <<>>
      /\ IF w.ret = "FINISH"
         THEN \E failed \in BOOLEAN :
                Leave([w.clients EXCEPT ![c] = IF failed /\ @.output > 0
                                               THEN SetExpired(@) ELSE Close],
                      w.added)
         ELSE IF w.ret = "CLOSE" \/ w.clients[c].state = "expired"
         THEN Leave([w.clients EXCEPT ![c] = Close], w.added)
         ELSE Leave(w.clients, w.added)

OnIdleOnce(c) ==
  /\ Polling /\ client[c].idle
  /\ \E n \in 0 .. client[c].output :
       Leave(WithClient(Flush([client[c] EXCEPT !.idle = FALSE], n), c), {})

\* FullyBufferedSocket::OnIdle(), and then ScheduleWrite() for the rest.
OnIdle(c) ==
  LET k == [client[c] EXCEPT !.idle = FALSE]
  IN  /\ Polling /\ client[c].idle
      /\ \E n \in 0 .. k.output :
           Leave(WithClient([Flush(k, n) EXCEPT !.write = @ \/ n < k.output], c), {})

\* FullyBufferedSocket::OnSocketReady(WRITE): there is room for a line at least.
OnWritable(c) ==
  LET k == client[c]
  IN  /\ Polling /\ k.write
      /\ \E n \in 1 .. k.output : Leave(WithClient(Flush(k, n), c), {})

\* The peer hangs up, which a read or a write finds out: OnSocketClosed().
OnSocketClosed(c) ==
  /\ Polling /\ client[c].state = "open"
  /\ Leave(WithClient(SetExpired(client[c]), c), {})

\* Client::OnTimeout()
OnTimeout(c) ==
  /\ Polling /\ client[c].timer # "off"
  /\ Leave(WithClient(Close, c), {})

\* idle_event_emitted() and ClientList::IdleAdd()
IdleEventEmitted ==
  /\ HandleIdle
  /\ client' = [c \in Clients |-> IF idle_flags = {} THEN client[c]
                                  ELSE ClientIdleAdd(client[c], idle_flags)]

\* The peer sends a line.
Send(c, line) ==
  /\ client[c].state = "open" /\ client[c].input = <<>>
  /\ client' = [client EXCEPT ![c].input = <<line>>]
  /\ UNCHANGED eventVars

\* A client that is not in Clients sends a message, or changes something.
OthersSendMessage ==
  Polling /\ Leave([c \in Clients |-> PushMessage(client[c])], {})

OthersChange == Polling /\ Leave(client, {"player"})

Next ==
  \/ \E t \in Threads : IdleAdd(t, {"player"}) /\ UNCHANGED client
  \/ \E t \in AllThreads : ThreadStep(t) /\ UNCHANGED client
  \/ LoopStep /\ UNCHANGED client
  \/ IdleEventEmitted \/ OthersSendMessage \/ OthersChange
  \/ \E c \in Clients :
       \/ Connect(c) \/ OnSocketInput(c) \/ OnIdle(c) \/ OnWritable(c)
       \/ OnSocketClosed(c) \/ OnTimeout(c)
       \/ \E line \in Lines[c] : Send(c, line)

(* The threads run, and the main loop comes to every callback that is due:  *)
(* EventLoop::Run() invokes all timers that have expired, then all          *)
(* IdleMonitors, then every socket that epoll_wait() has returned.          *)
Fairness ==
  /\ \A t \in AllThreads : WF_vars(ThreadStep(t) /\ UNCHANGED client)
  /\ SF_vars(Wake /\ UNCHANGED client)
  /\ WF_vars(LoopStep /\ ~Polling /\ UNCHANGED client)
  /\ WF_vars(IdleEventEmitted)
  /\ \A c \in Clients : SF_vars(OnTimeout(c) /\ client[c].state = "expired")

Spec == Init /\ [][Next]_vars /\ Fairness

------------------------------------------------------------------------------
(* Properties.                                                             *)

(* The assertions of the sockets and of Client::OnTimeout(): a client that   *)
(* idles has no timer, and who waits for a writable socket has something to  *)
(* write and no IdleMonitor that would write it as well.                     *)
AssertionsHold ==
  \A c \in Clients : LET k == client[c] IN
    /\ k.timer = "timeout" /\ k.state = "open" => ~k.waiting
    /\ k.write => k.output > 0 /\ ~k.idle

(* No response is left in the buffer: as long as there is output, the client  *)
(* is registered to send it, by the IdleMonitor or for a writable socket.     *)
OutputIsScheduled ==
  \A c \in Clients : client[c].state = "open" =>
    (client[c].output > 0 <=> client[c].idle \/ client[c].write)

(* Every request gets one response, though a notification may cross the      *)
(* "noidle" that was meant to prevent it: a client is owed one only while it *)
(* idles, and it idles only while there is nothing to tell it.               *)
OneResponse ==
  \A c \in Clients : client[c].state = "open" =>
    IF client[c].waiting THEN client[c].owed = 1 /\ client[c].flags \cap client[c].mask = {}
                         ELSE client[c].owed = 0

(* News reaches whoever waits for it, from any thread.                       *)
WaitersAreTold ==
  \A c \in Clients, e \in IdleEvents \ {"message"} :
    (e \in idle_flags /\ client[c].waiting /\ e \in client[c].mask)
      ~> ~client[c].waiting

(* A connection that has failed is removed from the list of clients.         *)
ExpiredIsRemoved ==
  \A c \in Clients : (client[c].state = "expired") ~> (client[c].state # "expired")

(* "idle flags pending on this client, to be sent as soon as the client      *)
(* enters "idle"" (Client.hxx:59): a pending flag goes away only when the    *)
(* client is told of it, or is gone.                                        *)
PendingIsSent ==
  [][\A c \in Clients : \A e \in client[c].flags \ client'[c].flags :
       \/ e \in client'[c].mask
       \/ client'[c].state # "open"]_vars
==============================================================================
