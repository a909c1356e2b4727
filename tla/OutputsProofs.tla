---------------------------- MODULE OutputsProofs ----------------------------
(***************************************************************************)
(* The audio outputs, for every number of them and every number of chunks: *)
(* the pipe they share, and the commands the player sends them.  Outputs   *)
(* with always_on are left out (AlwaysOn = {}).                            *)
(***************************************************************************)
EXTENDS Outputs, TLAPS

-----------------------------------------------------------------------------
(* The inductive invariant.  What is left of an operation of the player is *)
(* used only as a set of steps, with the order in which kinds of steps are *)
(* taken.                                                                  *)

\* Steps of an operation come in this order; awaiting is put in front of them.
Rank(op) ==
  CASE op = "sleep" -> 0
    [] op = "await" -> 1
    [] op = "result" -> 2
    [] op = "reset" -> 3
    [] op = "enable" -> 4
    [] op = "update" -> 5
    [] op \in {"opened", "push", "pause", "drain", "cancel", "release", "close",
               "shift"} -> 6
    [] op \in {"await_all", "delete", "check", "wake"} -> 7
    [] op = "clear" -> 8
    [] OTHER -> 9

\* The steps of one operation: two steps that are left belong to the same.
Operations ==
  {{"sleep", "await", "result", "reset", "enable", "update", "opened"},
   {"sleep", "await", "result", "update", "push"},
   {"sleep", "await", "result", "update", "pause", "await_all"},
   {"sleep", "drain", "await_all"},
   {"sleep", "cancel", "await_all", "clear", "allow"},
   {"sleep", "await", "release", "close", "delete"},
   {"check", "shift"},
   {"wake"}}

Together(s, t) ==
  /\ \E ops \in Operations : s.op \in ops /\ t.op \in ops
  /\ ~(s.op = "release" /\ t.op = "close" /\ s.o = t.o)

OfPlayer == {"sleep", "await_all", "opened", "push", "clear", "delete", "check", "shift"}
OfOutput == {"await", "result", "reset", "enable", "update", "pause", "drain", "cancel",
             "release", "close", "wake", "allow"}

StepSet == [op : OfPlayer, o : {0}] \cup [op : OfOutput, o : Outputs]

TodoOK(todo) ==
  /\ todo \in Seq(StepSet)
  /\ \A i \in 1 .. Len(todo), j \in 1 .. Len(todo) :
       /\ Together(todo[i], todo[j])
       /\ i < j => Rank(todo[i].op) <= Rank(todo[j].op) /\ todo[i] # todo[j]

Elements(todo) == {todo[i] : i \in 1 .. Len(todo)}
Has(p, op, o) == Step(op, o) \in Elements(p.todo)

Output ==
  [command : Commands, open : BOOLEAN, enabled : BOOLEAN, really_enabled : BOOLEAN,
   allow_play : BOOLEAN, pause : BOOLEAN, chunk : Nat, chunk_finished : BOOLEAN,
   in_playback_loop : BOOLEAN, woken_for_play : BOOLEAN,
   pipe : {"null", "g_mp", "stale"}, failed : BOOLEAN, format : Formats \cup {None},
   pc : Places, last : Nat]

\* An output by itself.
ThreadOK(a) ==
  /\ a.open => a.pipe = "g_mp" /\ a.really_enabled /\ ~a.failed
  /\ a.chunk # None => a.open
  /\ a.pc = "plugin_play" => a.chunk # None /\ ~a.chunk_finished
  /\ a.pc \in {"closing", "pause_closing"} => ~a.open
  /\ a.in_playback_loop => a.pc \in {"plugin_play", "closing"}
  /\ a.pc = "wait" => a.command = "NONE" /\ ~a.woken_for_play
  /\ a.pause => a.pc \in {"notify_continue", "paused", "pause_closing"}
  /\ a.pc \in {"paused", "pause_closing"} => a.pause
  /\ a.pause /\ a.pc # "pause_closing" => a.open
  /\ a.chunk # None /\ a.pc # "plugin_play" => a.chunk_finished
  /\ a.chunk # None /\ a.chunk_finished =>
       a.last >= a.chunk \/ a.command # "NONE" \/ a.pause

\* A command that waits to be executed, or is.
CommandOK(a) ==
  /\ a.pc = "exec" => a.command # "NONE"
  /\ a.command = "OPEN" => ~a.open /\ a.pipe = "g_mp" /\ (a.pc = "exec" => ~a.failed)
  /\ a.command = "REOPEN" => a.open /\ a.chunk = None /\ ~a.pause
  /\ a.command = "ENABLE" => ~a.open
  /\ a.pc = "exec" /\ a.command \in {"CLOSE", "DISABLE"} => ~a.open
  /\ a.pc = "exec" /\ a.command = "CANCEL" => a.chunk = None

\* The operators of the model, for any pipe m.
InPipe(c, m) == \E i \in 1 .. Len(m.chunks) : m.chunks[i] = c
After(c, m) ==
  LET behind == {i \in 2 .. Len(m.chunks) : m.chunks[i - 1] = c}
  IN  IF behind = {} THEN None ELSE m.chunks[CHOOSE i \in behind : TRUE]
First(m) == IF m.chunks = <<>> THEN None ELSE Head(m.chunks)
NextOf(a, m) == IF a.chunk # None THEN After(a.chunk, m) ELSE First(m)
Playable(a, m) == a.open /\ a.allow_play /\ NextOf(a, m) # None

\* An output and the pipe.
PipeOK(a, m, n) ==
  /\ a.chunk # None => InPipe(a.chunk, m)
  /\ a.chunk # None /\ a.chunk # First(m) => a.last >= a.chunk - 1
  /\ a.last <= n
  /\ a.open \/ a.command = "OPEN" => ~m.null
  /\ a.command \in {"OPEN", "REOPEN"} => a.format = m.format
  /\ a.open /\ a.format # m.format => m.chunks = <<>>
  /\ a.open /\ (a.pause \/ a.command = "PAUSE") => a.format = m.format
  /\ a.command = "REOPEN" \/ (a.open /\ a.command = "DRAIN") => m.chunks = <<>>

Single == {"ENABLE", "DISABLE", "OPEN", "REOPEN", "CLOSE"}
Commanding == {"enable", "update", "pause", "drain", "cancel", "release", "close"}

\* An output and the player's operation: who waits for the command ...
AwaitOK(o, a, p) ==
  /\ a.command \in Single => Has(p, "await", o)
  /\ a.open /\ a.command # "NONE" =>
       \/ Has(p, "await", o)
       \/ /\ Has(p, "await_all", 0)
          /\ \A op \in Commanding : ~Has(p, op, o)

\* ... and what is still to be done to the output.
PlanOK(o, a, m, p) ==
  /\ a.open /\ a.format # m.format => Has(p, "update", o) \/ a.command = "CLOSE"
  /\ a.open /\ a.pause =>
       \/ p.mode \in {"paused", "off"} \/ a.command \in {"CANCEL", "CLOSE"}
       \/ Has(p, "update", o)
  /\ a.open /\ a.command = "PAUSE" => p.mode \in {"paused", "off"}
  /\ Has(p, "clear", 0) /\ a.open =>
       \/ Has(p, "cancel", o)
       \/ ~a.allow_play /\ (a.command = "CANCEL" \/ a.chunk = None)
  /\ Has(p, "delete", 0) =>
       /\ a.open => Has(p, "release", o) \/ Has(p, "close", o) \/ a.command = "CLOSE"
       /\ a.command \notin {"OPEN", "REOPEN"}

\* The head of the pipe is about to be removed.
ShiftOK(a, m, p) ==
  Has(p, "shift", 0) /\ a.open =>
    /\ a.chunk # None
    /\ a.chunk = First(m) => a.chunk_finished /\ After(First(m), m) = None

\* An output that sleeps has nothing to play, or will be woken.
SleepOK(o, a, m, p) ==
  a.pc = "wait" /\ Playable(a, m) => Has(p, "wake", o)

OutputOK(o, a, m, n, p) ==
  /\ ThreadOK(a) /\ CommandOK(a) /\ PipeOK(a, m, n)
  /\ AwaitOK(o, a, p) /\ PlanOK(o, a, m, p)
  /\ ShiftOK(a, m, p) /\ SleepOK(o, a, m, p)

\* The chunks of the pipe are the last that have been sent.
ChunksOK(m, n) ==
  /\ m \in [null : BOOLEAN, chunks : Seq(Nat \ {0}), format : Formats \cup {None}]
  /\ IF m.null THEN m.format = None /\ m.chunks = <<>> ELSE m.format \in Formats
  /\ n \in 0 .. MaxChunks /\ Len(m.chunks) <= n
  /\ \A i \in 1 .. Len(m.chunks) : m.chunks[i] = n - Len(m.chunks) + i

Doing(p, ops) == \E x \in Elements(p.todo) : x.op \in ops

PlayerOK(p, m, n) ==
  /\ p \in [mode : {"off", "opening", "on", "paused"}, todo : Seq(StepSet), opened : BOOLEAN]
  /\ TodoOK(p.todo)
  /\ p.mode = "on" => ~m.null
  /\ Doing(p, {"push"}) => p.mode = "on"
  /\ Doing(p, {"check", "shift"}) => p.mode \in {"on", "paused"}
  /\ Doing(p, {"pause"}) => p.mode \in {"paused", "off"}
  /\ Doing(p, {"opened"}) => p.mode = "opening"
  /\ Doing(p, {"delete"}) => p.mode # "on"
  /\ Doing(p, {"push"}) => n < MaxChunks
  /\ Doing(p, {"drain"}) => m.chunks = <<>>
  /\ Doing(p, {"shift"}) => m.chunks # <<>>
  /\ Doing(p, {"pause", "drain", "cancel"}) => Has(p, "await_all", 0)

OutputsInv ==
  /\ ChunksOK(mp, sent) /\ PlayerOK(player, mp, sent)
  /\ ao \in [Outputs -> Output]
  /\ \A o \in Outputs : OutputOK(o, ao[o], mp, sent, player)
  /\ PipeAssertionsHold

\* Without failures, only the player closes an output.
NoFailure(a) ==
  /\ a.command \in {"PAUSE", "DRAIN", "CANCEL"} => a.open
  /\ a.command = "CLOSE" /\ a.pc # "exec" => a.open
NoFailureInv == AssertionsHold /\ \A o \in Outputs : NoFailure(ao[o])

-----------------------------------------------------------------------------
(* The operations of the player: what is left of them.                     *)

LEMMA StepsAreSteps ==
  ASSUME NEW op, NEW o
  PROVE  /\ op \in OfPlayer /\ o = 0 => Step(op, o) \in StepSet
         /\ op \in OfOutput /\ o \in Outputs => Step(op, o) \in StepSet
         /\ Step(op, o).op = op /\ Step(op, o).o = o
  BY DEF Step, StepSet

\* A step is what Has() asks for.
LEMMA StepIsRecord ==
  ASSUME NEW x \in StepSet
  PROVE  /\ x = Step(x.op, x.o)
         /\ x.op \in OfPlayer \cup OfOutput
         /\ x.op \in OfPlayer => x.o = 0
         /\ x.op \in OfOutput => x.o \in Outputs
  BY DEF Step, StepSet, OfPlayer, OfOutput

\* The next step is taken: exactly that one is no longer left.
LEMMA NextStep ==
  ASSUME NEW todo, TodoOK(todo), todo # <<>>
  PROVE  /\ Head(todo) \in StepSet /\ Head(todo) \in Elements(todo)
         /\ \A x \in Elements(todo) :
              x \in StepSet /\ Together(Head(todo), x) /\ Rank(Head(todo).op) <= Rank(x.op)
         /\ TodoOK(Tail(todo))
         /\ Elements(Tail(todo)) = Elements(todo) \ {Head(todo)}
<1> DEFINE rest == Tail(todo)
<1>1. todo \in Seq(StepSet) /\ Len(todo) \in Nat \ {0}
  BY DEF TodoOK
<1>2. Head(todo) = todo[1] /\ 1 \in 1 .. Len(todo) /\ todo[1] \in StepSet
  BY <1>1
<1>3. rest \in Seq(StepSet) /\ Len(rest) = Len(todo) - 1
      /\ \A i \in 1 .. Len(rest) : rest[i] = todo[i + 1]
  BY <1>1
<1> HIDE DEF rest
<1>4. \A i \in 1 .. Len(rest) : i + 1 \in 1 .. Len(todo)
  BY <1>1, <1>3
<1>5. TodoOK(rest)
  <2>1. ASSUME NEW i \in 1 .. Len(rest), NEW j \in 1 .. Len(rest)
        PROVE  /\ Together(rest[i], rest[j])
               /\ i < j => Rank(rest[i].op) <= Rank(rest[j].op) /\ rest[i] # rest[j]
    <3>1. Together(todo[i + 1], todo[j + 1])
      BY <1>4 DEF TodoOK
    <3>2. i + 1 < j + 1 => Rank(todo[i + 1].op) <= Rank(todo[j + 1].op)
                           /\ todo[i + 1] # todo[j + 1]
      BY <1>4 DEF TodoOK
    <3> QED BY <1>3, <3>1, <3>2
  <2> QED BY <1>3, <2>1 DEF TodoOK
<1>6. Elements(rest) = Elements(todo) \ {todo[1]}
  <2>1. ASSUME NEW i \in 1 .. Len(rest)
        PROVE  rest[i] \in Elements(todo) /\ rest[i] # todo[1]
    <3>1. 1 < i + 1 => todo[1] # todo[i + 1]
      BY <1>2, <1>4 DEF TodoOK
    <3> QED BY <1>3, <1>4, <3>1 DEF Elements
  <2>2. ASSUME NEW i \in 1 .. Len(todo), todo[i] # todo[1]
        PROVE  todo[i] \in Elements(rest)
    <3>1. i - 1 \in 1 .. Len(rest)
      BY <1>1, <1>3, <2>2
    <3>2. rest[i - 1] = todo[i]
      BY <1>3, <3>1
    <3> QED BY <3>1, <3>2 DEF Elements
  <2> QED BY <2>1, <2>2 DEF Elements
<1>7. ASSUME NEW i \in 1 .. Len(todo)
      PROVE  todo[i] \in StepSet /\ Together(todo[1], todo[i])
             /\ Rank(todo[1].op) <= Rank(todo[i].op)
  <2>1. Together(todo[1], todo[i]) /\ todo[i] \in StepSet
    BY <1>1, <1>2 DEF TodoOK
  <2>2. CASE i = 1
    <3>1. Rank(todo[1].op) \in Nat
      BY DEF Rank
    <3> QED BY <2>1, <2>2, <3>1
  <2>3. CASE i # 1
    <3>1. 1 < i BY <2>3
    <3> QED BY <2>1, <3>1, <1>2 DEF TodoOK
  <2> QED BY <2>2, <2>3
<1> QED BY <1>2, <1>5, <1>6, <1>7 DEF rest, Elements

LEMMA NothingLeft ==
  TodoOK(<<>>) /\ Elements(<<>>) = {}
  BY DEF TodoOK, Elements

LEMMA OneStep ==
  ASSUME NEW x \in StepSet, Together(x, x)
  PROVE  TodoOK(<<x>>) /\ Elements(<<x>>) = {x}
<1>1. <<x>> \in Seq(StepSet) /\ Len(<<x>>) = 1 /\ <<x>>[1] = x
  OBVIOUS
<1> QED BY <1>1 DEF TodoOK, Elements

\* Two lists of steps, one after the other.
LEMMA StepsThenSteps ==
  ASSUME NEW s, NEW t, TodoOK(s), TodoOK(t),
         \A x \in Elements(s), y \in Elements(t) :
           /\ Together(x, y) /\ Together(y, x)
           /\ Rank(x.op) <= Rank(y.op) /\ x # y
  PROVE  TodoOK(s \o t) /\ Elements(s \o t) = Elements(s) \cup Elements(t)
<1> DEFINE u == s \o t
<1>1. s \in Seq(StepSet) /\ t \in Seq(StepSet) /\ Len(s) \in Nat /\ Len(t) \in Nat
  BY DEF TodoOK
<1>2. u \in Seq(StepSet) /\ Len(u) = Len(s) + Len(t)
  BY <1>1
<1>3. \A i \in 1 .. Len(s) : u[i] = s[i] /\ i \in 1 .. Len(u)
  BY <1>1
<1>4. \A i \in 1 .. Len(t) : u[i + Len(s)] = t[i] /\ i + Len(s) \in 1 .. Len(u)
  BY <1>1
<1>5. \A i \in 1 .. Len(u) :
        (i <= Len(s) /\ i \in 1 .. Len(s)) \/ (i > Len(s) /\ i - Len(s) \in 1 .. Len(t))
  BY <1>1, <1>2
<1>5a. \A i \in 1 .. Len(u) : i > Len(s) => u[i] = t[i - Len(s)]
  <2> TAKE i \in 1 .. Len(u)
  <2> HAVE i > Len(s)
  <2>1. i - Len(s) \in 1 .. Len(t) /\ (i - Len(s)) + Len(s) = i
    BY <1>1, <1>5
  <2> QED BY <1>4, <2>1
<1> HIDE DEF u
<1>6. ASSUME NEW i \in 1 .. Len(u), NEW j \in 1 .. Len(u)
      PROVE  /\ Together(u[i], u[j])
             /\ i < j => Rank(u[i].op) <= Rank(u[j].op) /\ u[i] # u[j]
  <2>1. CASE i <= Len(s) /\ j <= Len(s)
    <3>1. i \in 1 .. Len(s) /\ j \in 1 .. Len(s)
      BY <1>5, <2>1, <1>1
    <3> QED BY <1>3, <3>1 DEF TodoOK
  <2>2. CASE i > Len(s) /\ j > Len(s)
    <3> DEFINE k == i - Len(s)  l == j - Len(s)
    <3>1. k \in 1 .. Len(t) /\ l \in 1 .. Len(t) /\ (i < j => k < l)
      BY <1>5, <2>2, <1>1
    <3>2. u[i] = t[k] /\ u[j] = t[l]
      BY <1>5a, <2>2
    <3> HIDE DEF k, l
    <3> QED BY <3>1, <3>2 DEF TodoOK
  <2>3. CASE i <= Len(s) /\ j > Len(s)
    <3>1. i \in 1 .. Len(s) /\ j - Len(s) \in 1 .. Len(t)
      BY <1>5, <2>3, <1>1
    <3>2. u[i] \in Elements(s) /\ u[j] \in Elements(t)
      BY <1>3, <1>5a, <2>3, <3>1 DEF Elements
    <3> QED BY <3>2
  <2>4. CASE i > Len(s) /\ j <= Len(s)
    <3>1. j \in 1 .. Len(s) /\ i - Len(s) \in 1 .. Len(t) /\ ~(i < j)
      BY <1>5, <2>4, <1>1
    <3>2. u[j] \in Elements(s) /\ u[i] \in Elements(t)
      BY <1>3, <1>5a, <2>4, <3>1 DEF Elements
    <3> QED BY <3>1, <3>2
  <2> QED BY <1>1, <2>1, <2>2, <2>3, <2>4
<1>7. TodoOK(u)
  BY <1>2, <1>6 DEF TodoOK
<1>8. ASSUME NEW x \in Elements(u) PROVE x \in Elements(s) \cup Elements(t)
  <2>1. PICK i \in 1 .. Len(u) : x = u[i]
    BY DEF Elements
  <2> QED BY <1>3, <1>5, <1>5a, <2>1 DEF Elements
<1>9. ASSUME NEW x \in Elements(s) \cup Elements(t) PROVE x \in Elements(u)
  <2>1. CASE x \in Elements(s)
    BY <1>3, <2>1 DEF Elements
  <2>2. CASE x \in Elements(t)
    <3>1. PICK i \in 1 .. Len(t) : x = t[i]
      BY <2>2 DEF Elements
    <3> QED BY <1>4, <3>1 DEF Elements
  <2> QED BY <2>1, <2>2
<1> QED BY <1>7, <1>8, <1>9 DEF u

\* A step for every output.
LEMMA StepForEach ==
  ASSUME NEW op \in OfOutput
  PROVE  TodoOK(Each(op)) /\ Elements(Each(op)) = {Step(op, o) : o \in Outputs}
<1>1. NumOutputs \in Nat /\ Outputs = 1 .. NumOutputs
  BY OutputsAssumption DEF Outputs
<1>2. \A o \in Outputs : Step(op, o) \in StepSet /\ Step(op, o).op = op /\ Step(op, o).o = o
  BY StepsAreSteps
<1>3. Each(op) \in Seq(StepSet) /\ Len(Each(op)) = NumOutputs
  BY <1>1, <1>2 DEF Each
<1>4. \A i \in 1 .. NumOutputs : Each(op)[i] = Step(op, i)
  BY DEF Each
<1>5. \E ops \in Operations : op \in ops
  BY DEF Operations, OfOutput
<1>6. \A i, j : Together(Step(op, i), Step(op, j))
  BY <1>5, StepsAreSteps DEF Together
<1>7. Rank(op) \in Nat
  BY DEF Rank
<1>8. ASSUME NEW i \in 1 .. NumOutputs, NEW j \in 1 .. NumOutputs
      PROVE  /\ Together(Each(op)[i], Each(op)[j])
             /\ i < j => Rank(Each(op)[i].op) <= Rank(Each(op)[j].op)
                         /\ Each(op)[i] # Each(op)[j]
  <2>1. Each(op)[i] = Step(op, i) /\ Each(op)[j] = Step(op, j)
    BY <1>4
  <2>2. Step(op, i).op = op /\ Step(op, j).op = op /\ Step(op, i).o = i /\ Step(op, j).o = j
    BY <1>1, <1>2
  <2> QED BY <1>6, <1>7, <2>1, <2>2
<1>9. TodoOK(Each(op))
  BY <1>3, <1>8 DEF TodoOK
<1> QED BY <1>1, <1>3, <1>4, <1>9 DEF Elements

\* What can still be left when the next step is of a given kind.
LEMMA WhatFollows ==
  ASSUME NEW p, TodoOK(p.todo), p.todo # <<>>, NEW t, NEW i, Has(p, t, i)
  PROVE  LET h == Head(p.todo).op
             Left(op, ops) == h = op => t \in ops
         IN
         /\ Left("reset", {"reset", "enable", "update", "opened"})
         /\ Left("enable", {"enable", "update", "opened"})
         /\ Left("update", {"update", "opened", "push", "pause", "await_all"})
         /\ Left("opened", {"opened"})
         /\ Left("push", {"push"})
         /\ Left("pause", {"pause", "await_all"})
         /\ Left("drain", {"drain", "await_all"})
         /\ Left("cancel", {"cancel", "await_all", "clear", "allow"})
         /\ Left("await_all", {"await_all", "clear", "allow"})
         /\ Left("clear", {"clear", "allow"})
         /\ Left("allow", {"allow"})
         /\ Left("release", {"release", "close", "delete"})
         /\ Left("close", {"release", "close", "delete"})
         /\ Left("delete", {"delete"})
         /\ Left("check", {"check"})
         /\ Left("shift", {"shift", "check"})
         /\ Left("wake", {"wake"})
         /\ Left("await", OfOutput \cup (OfPlayer \ {"sleep"}))
<1> DEFINE h == Head(p.todo).op
<1>1. PICK ops \in Operations : h \in ops /\ t \in ops
  BY NextStep, StepsAreSteps DEF Has, Together
<1>2. Rank(h) <= Rank(t)
  BY NextStep, StepsAreSteps DEF Has
<1>3. t \in OfOutput \cup OfPlayer
  <2>1. Step(t, i) \in StepSet /\ Step(t, i).op = t
    BY NextStep, StepsAreSteps DEF Has
  <2> QED BY <2>1, StepIsRecord
<1> HIDE DEF h
<1>4. h = "reset" => t \in {"reset", "enable", "update", "opened"}
  BY <1>1, <1>2 DEF Operations, Rank
<1>5. h = "enable" => t \in {"enable", "update", "opened"}
  BY <1>1, <1>2 DEF Operations, Rank
<1>6. h = "update" => t \in {"update", "opened", "push", "pause", "await_all"}
  BY <1>1, <1>2 DEF Operations, Rank
<1>7. h = "opened" => t = "opened"
  BY <1>1, <1>2 DEF Operations, Rank
<1>8. h = "push" => t = "push"
  BY <1>1, <1>2 DEF Operations, Rank
<1>9. h = "pause" => t \in {"pause", "await_all"}
  BY <1>1, <1>2 DEF Operations, Rank
<1>10. h = "drain" => t \in {"drain", "await_all"}
  BY <1>1, <1>2 DEF Operations, Rank
<1>11. h = "cancel" => t \in {"cancel", "await_all", "clear", "allow"}
  BY <1>1, <1>2 DEF Operations, Rank
<1>12. h = "await_all" => t \in {"await_all", "clear", "allow"}
  BY <1>1, <1>2 DEF Operations, Rank
<1>13. h = "clear" => t \in {"clear", "allow"}
  BY <1>1, <1>2 DEF Operations, Rank
<1>14. h = "allow" => t = "allow"
  BY <1>1, <1>2 DEF Operations, Rank
<1>15. h \in {"release", "close"} => t \in {"release", "close", "delete"}
  BY <1>1, <1>2 DEF Operations, Rank
<1>16. h = "delete" => t = "delete"
  BY <1>1, <1>2 DEF Operations, Rank
<1>17. h = "check" => t = "check"
  BY <1>1, <1>2 DEF Operations, Rank
<1>18. h = "shift" => t \in {"shift", "check"}
  BY <1>1, <1>2 DEF Operations, Rank
<1>19. h = "wake" => t = "wake"
  BY <1>1, <1>2 DEF Operations, Rank
<1>20. h = "await" => t # "sleep"
  BY <1>2 DEF Rank
<1>21. t \in {"opened"} <=> t = "opened"
  OBVIOUS
<1> QED
  BY <1>3, <1>4, <1>5, <1>6, <1>7, <1>8, <1>9, <1>10, <1>11, <1>12, <1>13, <1>14, <1>15,
     <1>16, <1>17, <1>18, <1>19, <1>20 DEF h

\* While a command is waited for, the head of the pipe is not removed, the
\* pipe is not cleared, and no output is woken for new chunks.
LEMMA AwaitingExcludes ==
  ASSUME NEW p, TodoOK(p.todo), NEW i, Has(p, "await", i) \/ Has(p, "await_all", i)
  PROVE  /\ \A t \in {"shift", "check", "wake"} : \A j : ~Has(p, t, j)
         /\ \A t \in {"clear", "allow"} : \A j : Has(p, t, j) => ~Has(p, "await", i)
<1> SUFFICES ASSUME NEW t, NEW j, Has(p, t, j)
             PROVE  /\ t \notin {"shift", "check", "wake"}
                    /\ t \in {"clear", "allow"} => ~Has(p, "await", i)
  OBVIOUS
<1>1. \A x, y : Has(p, x, i) /\ Has(p, y, j) => \E ops \in Operations : x \in ops /\ y \in ops
  <2> SUFFICES ASSUME NEW x, NEW y, Has(p, x, i), Has(p, y, j)
               PROVE  \E ops \in Operations : x \in ops /\ y \in ops
    OBVIOUS
  <2>1. Together(Step(x, i), Step(y, j))
    BY DEF Has, TodoOK, Elements
  <2> QED BY <2>1, StepsAreSteps DEF Together
<1>2. Has(p, "await", i) => \E ops \in Operations : "await" \in ops /\ t \in ops
  BY <1>1
<1>3. Has(p, "await_all", i) => \E ops \in Operations : "await_all" \in ops /\ t \in ops
  BY <1>1
<1>4. Has(p, "await", i) => t \notin {"shift", "check", "wake", "clear", "allow"}
  BY <1>2 DEF Operations
<1>5. Has(p, "await_all", i) => t \notin {"shift", "check", "wake"}
  BY <1>3 DEF Operations
<1> QED BY <1>4, <1>5

-----------------------------------------------------------------------------
(* The pipe.                                                               *)

\* The chunks of the pipe are consecutive.
LEMMA Chunks ==
  ASSUME NEW m, NEW n, ChunksOK(m, n)
  PROVE  /\ n \in Nat /\ Len(m.chunks) \in 0 .. n
         /\ m.chunks = <<>> <=> Len(m.chunks) = 0
         /\ \A c : InPipe(c, m) <=> c \in Nat /\ n - Len(m.chunks) < c /\ c <= n
         /\ First(m) = IF m.chunks = <<>> THEN None ELSE n - Len(m.chunks) + 1
         /\ \A c \in Nat : After(c, m) = IF InPipe(c, m) /\ c < n THEN c + 1 ELSE None
<1> DEFINE s == m.chunks  k == Len(m.chunks)
<1>1. s \in Seq(Nat \ {0}) /\ n \in Nat /\ k \in Nat /\ k <= n
  BY OutputsAssumption DEF ChunksOK
<1>2. \A i \in 1 .. k : s[i] = n - k + i
  BY DEF ChunksOK
<1>3. s = <<>> <=> k = 0
  BY <1>1
<1>4. s # <<>> => Head(s) = s[1] /\ 1 \in 1 .. k
  BY <1>1
<1>5. InPipe(1, m) <=> \E i \in 1 .. k : s[i] = 1
  BY DEF InPipe
<1> HIDE DEF k, s
<1>6. \A c : InPipe(c, m) <=> \E i \in 1 .. k : s[i] = c
  BY DEF InPipe, s, k
<1>7. \A c : InPipe(c, m) <=> c \in Nat /\ n - k < c /\ c <= n
  <2> TAKE c
  <2>1. ASSUME InPipe(c, m) PROVE c \in Nat /\ n - k < c /\ c <= n
    <3>1. PICK i \in 1 .. k : s[i] = c
      BY <1>6, <2>1
    <3> QED BY <1>1, <1>2, <3>1
  <2>2. ASSUME c \in Nat, n - k < c, c <= n PROVE InPipe(c, m)
    <3>1. c - (n - k) \in 1 .. k
      BY <1>1, <2>2
    <3>2. s[c - (n - k)] = c
      BY <1>1, <1>2, <2>2, <3>1
    <3> QED BY <1>6, <3>1, <3>2
  <2> QED BY <2>1, <2>2
<1>8. First(m) = IF s = <<>> THEN None ELSE n - k + 1
  BY <1>2, <1>4 DEF First, s
<1>9. ASSUME NEW c \in Nat
      PROVE  After(c, m) = IF InPipe(c, m) /\ c < n THEN c + 1 ELSE None
  <2> DEFINE behind == {i \in 2 .. k : s[i - 1] = c}
  <2>1. After(c, m) = IF behind = {} THEN None ELSE s[CHOOSE i \in behind : TRUE]
    BY DEF After, s, k
  <2>2. \A i \in 2 .. k : i - 1 \in 1 .. k /\ i \in 1 .. k
    BY <1>1
  <2>3. \A i \in 2 .. k : s[i - 1] = n - k + (i - 1) /\ s[i] = n - k + i
    BY <1>2, <2>2
  <2>4. \A i \in behind : n - k < c /\ c < n /\ s[i] = c + 1
    <3> TAKE i \in behind
    <3>1. i \in 2 .. k /\ s[i - 1] = c
      OBVIOUS
    <3>2. c = n - k + (i - 1) /\ s[i] = n - k + i
      BY <2>3, <3>1
    <3> QED BY <1>1, <3>1, <3>2
  <2>5. CASE InPipe(c, m) /\ c < n
    <3>1. c - (n - k) + 1 \in 2 .. k
      BY <1>1, <1>7, <2>5
    <3>2. s[(c - (n - k) + 1) - 1] = c
      <4>1. s[(c - (n - k) + 1) - 1] = n - k + ((c - (n - k) + 1) - 1)
        BY <2>3, <3>1
      <4> QED BY <1>1, <4>1
    <3>3. behind # {}
      BY <3>1, <3>2
    <3>4. (CHOOSE i \in behind : TRUE) \in behind
      BY <3>3
    <3> DEFINE j == CHOOSE i \in behind : TRUE
    <3>5. j \in behind => s[j] = c + 1
      BY <2>4
    <3>6. After(c, m) = s[j]
      BY <2>1, <3>3
    <3> HIDE DEF behind
    <3> QED BY <2>5, <3>4, <3>5, <3>6
  <2>6. CASE ~(InPipe(c, m) /\ c < n)
    <3>1. ~(n - k < c /\ c < n)
      BY <1>1, <1>7, <2>6
    <3>2. behind = {}
      BY <2>4, <3>1
    <3> QED BY <2>1, <2>6, <3>2
  <2> QED BY <2>5, <2>6
<1> QED BY <1>1, <1>3, <1>7, <1>8, <1>9 DEF s, k

-----------------------------------------------------------------------------
(* The output threads.                                                     *)

\* A step of one output.
LEMMA OutputChanges ==
  ASSUME OutputsInv, NEW o \in Outputs, NEW b \in Output, Thread(o, b),
         OutputOK(o, b, mp, sent, player), PipeAssertionsHold'
  PROVE  OutputsInv'
<1>1. ao' = [ao EXCEPT ![o] = b] /\ mp' = mp /\ player' = player /\ sent' = sent
  BY DEF Thread
<1>2. ao' \in [Outputs -> Output]
  BY <1>1 DEF OutputsInv
<1>3. \A i \in Outputs : ao'[i] = IF i = o THEN b ELSE ao[i]
  BY <1>1 DEF OutputsInv
<1>4. \A i \in Outputs : OutputOK(i, ao'[i], mp', sent', player')
  BY <1>1, <1>3 DEF OutputsInv
<1>5. ChunksOK(mp', sent') /\ PlayerOK(player', mp', sent')
  BY <1>1 DEF OutputsInv
<1> QED BY <1>2, <1>4, <1>5 DEF OutputsInv

\* An output that only goes to another place.
Alike(a, b) ==
  /\ b.command = a.command /\ b.open = a.open /\ b.format = a.format
  /\ b.chunk = a.chunk /\ b.last = a.last /\ b.chunk_finished = a.chunk_finished
  /\ b.allow_play = a.allow_play /\ b.pause = a.pause

LEMMA OnlyMoves ==
  ASSUME NEW o, NEW a, NEW b, NEW m, NEW n, NEW p, OutputOK(o, a, m, n, p),
         Alike(a, b), b.pc = "wait" => a.pc = "wait" \/ ~Playable(a, m),
         ThreadOK(b), CommandOK(b)
  PROVE  OutputOK(o, b, m, n, p)
<1>1. PipeOK(b, m, n)
  BY DEF OutputOK, PipeOK, Alike
<1>2. AwaitOK(o, b, p) /\ PlanOK(o, b, m, p)
  BY DEF OutputOK, AwaitOK, PlanOK, Alike
<1>3. Playable(b, m) <=> Playable(a, m)
  BY DEF Playable, NextOf, Alike
<1>4. ShiftOK(b, m, p) /\ SleepOK(o, b, m, p)
  BY <1>3 DEF OutputOK, ShiftOK, SleepOK, Alike
<1> QED BY <1>1, <1>2, <1>4 DEF OutputOK

\* An output that closes itself, or is closed.
LEMMA IsClosed ==
  ASSUME NEW o, NEW a, NEW b \in Output, NEW m, NEW n \in Nat, NEW p, OutputOK(o, a, m, n, p),
         ~b.open, b.chunk = None, b.last <= n,
         (b.command = a.command /\ b.format = a.format) \/ b.command = "NONE",
         ThreadOK(b), CommandOK(b)
  PROVE  OutputOK(o, b, m, n, p)
<1>1. PipeOK(b, m, n)
  BY DEF OutputOK, PipeOK
<1>2. AwaitOK(o, b, p) /\ PlanOK(o, b, m, p)
  BY DEF OutputOK, AwaitOK, PlanOK, Single
<1>3. ShiftOK(b, m, p) /\ SleepOK(o, b, m, p)
  BY DEF ShiftOK, SleepOK, Playable
<1> QED BY <1>1, <1>2, <1>3 DEF OutputOK

LEMMA ClosedOutput ==
  ASSUME NEW a \in Output
  PROVE  /\ Closed(a) \in Output
         /\ ~Closed(a).open /\ Closed(a).chunk = None /\ Closed(a).last = None
         /\ Closed(a).command = a.command /\ Closed(a).format = a.format
         /\ Closed(a).pc = a.pc /\ Closed(a).pause = a.pause
         /\ Closed(a).in_playback_loop = a.in_playback_loop
         /\ Closed(a).woken_for_play = a.woken_for_play
         /\ Closed(a).failed = a.failed /\ Closed(a).really_enabled = a.really_enabled
  BY DEF Output, Closed, None

LEMMA StartCommandStep ==
  ASSUME OutputsInv, NEW o \in Outputs, StartCommand(o)
  PROVE  OutputsInv'
<1> DEFINE a == ao[o]
<1>1. a \in Output /\ OutputOK(o, a, mp, sent, player) /\ sent \in Nat
  BY OutputsAssumption DEF OutputsInv, ChunksOK
<1>2. ThreadOK(a) /\ CommandOK(a)
  BY <1>1 DEF OutputOK
<1>3. PipeAssertionsHold'
  <2>1. a.command = "OPEN" \/ (a.command = "REOPEN" /\ ~a.open) =>
          ~a.open /\ a.pipe # "null" /\ a.chunk = None
    BY <1>2 DEF CommandOK, ThreadOK
  <2>2. a.command = "DRAIN" /\ a.open => a.chunk = None /\ Peek = None
    <3>1. a.command = "DRAIN" /\ a.open => mp.chunks = <<>>
      BY <1>1 DEF OutputOK, PipeOK
    <3>2. a.chunk # None => InPipe(a.chunk, mp)
      BY <1>1 DEF OutputOK, PipeOK
    <3>3. mp.chunks = <<>> => ~InPipe(a.chunk, mp)
      BY DEF InPipe
    <3> QED BY <3>1, <3>2, <3>3 DEF Peek
  <2>3. asserts' = asserts \cup Fails(a.command = "CLOSE" => a.open, "close_open")
    BY <2>1, <2>2 DEF StartCommand, Fails
  <2> QED BY <2>3 DEF PipeAssertionsHold, OutputsInv, Fails
<1>4. a.pc = "top" /\ a.command # "NONE"
  BY DEF StartCommand
<1>5. CASE a.command \in {"ENABLE", "REOPEN", "PAUSE", "DRAIN"}
  <2> DEFINE b == [a EXCEPT !.pc = "exec"]
  <2>1. b \in Output /\ Thread(o, b)
    BY <1>1, <1>5 DEF StartCommand, Output, Places
  <2>2. ThreadOK(b) /\ CommandOK(b) /\ Alike(a, b) /\ b.pc # "wait"
    BY <1>1, <1>2, <1>4, <1>5 DEF Output, ThreadOK, CommandOK, Alike
  <2> QED BY <1>1, <1>3, <2>1, <2>2, OnlyMoves, OutputChanges
<1>6. CASE a.command = "OPEN"
  <2> DEFINE b == [a EXCEPT !.failed = FALSE, !.pc = "exec"]
  <2>1. b \in Output /\ Thread(o, b)
    BY <1>1, <1>6 DEF StartCommand, Output, Places
  <2>2. ThreadOK(b) /\ CommandOK(b) /\ Alike(a, b) /\ b.pc # "wait"
    BY <1>1, <1>2, <1>4, <1>6 DEF Output, ThreadOK, CommandOK, Alike
  <2> QED BY <1>1, <1>3, <2>1, <2>2, OnlyMoves, OutputChanges
<1>7. CASE a.command \in {"DISABLE", "CLOSE"}
  <2> DEFINE c == IF a.open \/ a.command = "CLOSE" THEN Closed(a) ELSE a
             r == IF a.command = "DISABLE" THEN FALSE ELSE a.really_enabled
             b == [c EXCEPT !.really_enabled = r, !.pc = "exec"]
  <2>1. /\ c \in Output /\ ~c.open /\ c.chunk = None /\ c.last \in {None, a.last}
        /\ c.command = a.command /\ c.format = a.format /\ c.pc = a.pc
        /\ c.pause = a.pause /\ c.in_playback_loop = a.in_playback_loop
        /\ c.really_enabled = a.really_enabled
    BY <1>1, <1>2, ClosedOutput DEF ThreadOK
  <2>2. r \in BOOLEAN
    BY <1>1 DEF Output
  <2>3. Thread(o, b)
    <3>1. CASE a.command = "DISABLE"
      BY <1>7, <3>1 DEF StartCommand
    <3>2. CASE a.command = "CLOSE"
      <4>1. b = [c EXCEPT !.pc = "exec"]
        BY <2>1, <3>2 DEF Output
      <4> QED BY <3>2, <4>1 DEF StartCommand
    <3> QED BY <1>7, <3>1, <3>2
  <2> HIDE DEF c, r
  <2>4. b \in Output
    BY <2>1, <2>2 DEF Output, Places
  <2>5. /\ ThreadOK(b) /\ CommandOK(b)
        /\ ~b.open /\ b.chunk = None
        /\ b.command = a.command /\ b.format = a.format
    BY <1>2, <1>4, <1>7, <2>1 DEF Output, ThreadOK, CommandOK
  <2>6. b.last <= sent
    BY <1>1, <2>1 DEF OutputOK, PipeOK, Output, None
  <2> QED BY <1>1, <1>3, <2>3, <2>4, <2>5, <2>6, IsClosed, OutputChanges
<1>8. CASE a.command = "CANCEL"
  <2> DEFINE b == [a EXCEPT !.chunk = None, !.pc = "exec"]
  <2>1. b \in Output /\ Thread(o, b)
    BY <1>1, <1>8 DEF StartCommand, Output, Places, None
  <2>2. /\ b.command = "CANCEL" /\ b.chunk = None /\ b.pc = "exec"
        /\ b.open = a.open /\ b.format = a.format /\ b.last = a.last
        /\ b.allow_play = a.allow_play /\ b.pause = a.pause
    BY <1>1, <1>8 DEF Output
  <2>3. ThreadOK(b) /\ CommandOK(b)
    BY <1>1, <1>2, <1>4, <1>8 DEF Output, ThreadOK, CommandOK
  <2> HIDE DEF b
  <2>4. PipeOK(b, mp, sent)
    BY <1>1, <1>8, <2>2 DEF OutputOK, PipeOK
  <2>5. AwaitOK(o, b, player) /\ PlanOK(o, b, mp, player)
    BY <1>1, <1>8, <2>2 DEF OutputOK, AwaitOK, PlanOK, Single
  <2>6. ShiftOK(b, mp, player) /\ SleepOK(o, b, mp, player)
    <3>1. b.open => ~Has(player, "shift", 0)
      BY <1>1, <1>4, <2>2, AwaitingExcludes DEF OutputOK, AwaitOK, OutputsInv, PlayerOK
    <3> QED BY <2>2, <3>1 DEF ShiftOK, SleepOK
  <2>7. OutputOK(o, b, mp, sent, player)
    BY <2>3, <2>4, <2>5, <2>6 DEF OutputOK
  <2> QED BY <1>3, <2>1, <2>7, OutputChanges
<1> QED
  <2>1. a.command \in Commands
    BY <1>1 DEF Output
  <2> QED BY <1>4, <1>5, <1>6, <1>7, <1>8, <2>1 DEF Commands

\* An output whose command is done: the player need not wait for it any more.
LEMMA CommandIsDone ==
  ASSUME NEW o, NEW a, NEW b, NEW m, NEW n, NEW p, OutputOK(o, a, m, n, p),
         TodoOK(p.todo), ThreadOK(b), b.command = "NONE", b.pc \notin {"exec", "wait"},
         b.open => b.format = m.format \/ (a.open /\ b.format = a.format),
         b.chunk = a.chunk, b.last = a.last, b.chunk_finished = a.chunk_finished,
         b.allow_play = a.allow_play,
         a.open /\ b.open => a.command # "CLOSE" /\ (b.open /\ b.pause => a.format = m.format),
         b.open /\ b.pause => p.mode \in {"paused", "off"},
         a.command = "CANCEL" => a.chunk = None,
         b.open => a.open \/ a.command = "OPEN"
  PROVE  OutputOK(o, b, m, n, p)
<1>1. CommandOK(b)
  BY DEF CommandOK
<1>2. PipeOK(b, m, n)
  BY DEF OutputOK, PipeOK
<1>3. AwaitOK(o, b, p)
  BY DEF AwaitOK, Single
<1>4. ~a.open /\ b.open => Has(p, "await", o)
  BY DEF OutputOK, AwaitOK, Single
<1>5. ~a.open /\ b.open => ~Has(p, "clear", 0) /\ ~Has(p, "shift", 0)
  BY <1>4, AwaitingExcludes
<1>6. PlanOK(o, b, m, p)
  BY <1>5 DEF OutputOK, PlanOK, ThreadOK
<1>7. ShiftOK(b, m, p)
  BY <1>5 DEF OutputOK, ShiftOK
<1>8. SleepOK(o, b, m, p)
  BY DEF SleepOK
<1> QED BY <1>1, <1>2, <1>3, <1>6, <1>7, <1>8 DEF OutputOK

LEMMA FinishCommandStep ==
  ASSUME OutputsInv, NEW o \in Outputs, FinishCommand(o)
  PROVE  OutputsInv'
<1> DEFINE a == ao[o]
           pause == a.command = "PAUSE" /\ a.open
           pc == IF a.command \in {"DRAIN", "CANCEL"} \/ pause
                 THEN "notify_continue" ELSE "notify_break"
<1>1. a \in Output /\ OutputOK(o, a, mp, sent, player) /\ sent \in Nat
  BY OutputsAssumption DEF OutputsInv, ChunksOK
<1>2. ThreadOK(a) /\ CommandOK(a) /\ a.pc = "exec" /\ TodoOK(player.todo)
  BY <1>1 DEF OutputOK, FinishCommand, OutputsInv, PlayerOK
<1>3. PipeAssertionsHold'
  BY DEF FinishCommand, OutputsInv, PipeAssertionsHold
<1>4. PICK b : /\ b \in CASE a.command \in {"OPEN", "REOPEN"} -> Opened(a)
                          [] a.command = "ENABLE" -> Enabled(a)
                          [] OTHER -> {a}
               /\ Thread(o, [b EXCEPT !.command = "NONE", !.pause = pause, !.pc = pc])
  BY DEF FinishCommand
<1> DEFINE c == [b EXCEPT !.command = "NONE", !.pause = pause, !.pc = pc]
<1>5. /\ pause \in BOOLEAN /\ pc \in {"notify_continue", "notify_break"}
      /\ pause => pc = "notify_continue"
  OBVIOUS
<1>6. /\ a.open => a.command \notin {"OPEN", "ENABLE", "CLOSE", "DISABLE"}
      /\ a.command \in {"OPEN", "REOPEN"} => ~a.failed /\ a.pipe = "g_mp" /\ a.chunk = None
      /\ a.open => ~a.failed
      /\ ~a.in_playback_loop
      /\ a.command = "REOPEN" => a.open
      /\ a.command = "CANCEL" => a.chunk = None
  BY <1>2 DEF ThreadOK, CommandOK
<1>7. /\ a.open /\ a.command = "PAUSE" =>
           a.format = mp.format /\ player.mode \in {"paused", "off"}
      /\ a.command \in {"OPEN", "REOPEN"} => a.format = mp.format
      /\ a.open /\ a.command = "DRAIN" => a.chunk = None
  <2>1. a.open /\ a.command = "DRAIN" => mp.chunks = <<>>
    BY <1>1 DEF OutputOK, PipeOK
  <2>2. mp.chunks = <<>> => ~InPipe(a.chunk, mp)
    BY DEF InPipe
  <2> QED BY <1>1, <2>1, <2>2 DEF OutputOK, PipeOK, PlanOK
<1>8. a.open /\ a.chunk # None /\ a.chunk_finished => a.last >= a.chunk \/ pause
  <2>1. a.open /\ a.chunk # None => a.command \in {"NONE", "PAUSE"}
    <3>1. a.command \in Commands
      BY <1>1 DEF Output
    <3> QED BY <1>6, <1>7, <3>1 DEF Commands
  <2>2. ~a.pause /\ a.command # "NONE"
    BY <1>2 DEF ThreadOK, CommandOK
  <2> QED BY <1>2, <2>1, <2>2 DEF ThreadOK
<1> HIDE DEF pause, pc
<1>9. CASE b = a
  <2>1. c \in Output
    BY <1>1, <1>5, <1>9, ZenonT(60) DEF Output, Commands, Places
  <2>2. /\ c.command = "NONE" /\ c.open = a.open /\ c.format = a.format /\ c.chunk = a.chunk
        /\ c.last = a.last /\ c.chunk_finished = a.chunk_finished
        /\ c.allow_play = a.allow_play /\ c.pause = pause /\ c.pc = pc
        /\ c.pipe = a.pipe /\ c.really_enabled = a.really_enabled /\ c.failed = a.failed
        /\ c.in_playback_loop = a.in_playback_loop
    BY <1>1, <1>9 DEF Output
  <2> HIDE DEF c
  <2>3. pause => a.open /\ a.command = "PAUSE"
    BY DEF pause
  <2>4. ThreadOK(c)
    BY <1>2, <1>5, <1>6, <1>8, <2>2, <2>3 DEF ThreadOK
  <2>5. OutputOK(o, c, mp, sent, player)
    BY <1>1, <1>2, <1>5, <1>6, <1>7, <2>2, <2>3, <2>4, CommandIsDone
  <2> QED BY <1>3, <1>4, <2>1, <2>5, OutputChanges DEF c
<1>10. CASE b = [a EXCEPT !.open = TRUE, !.really_enabled = TRUE]
            /\ a.command \in {"OPEN", "REOPEN"}
  <2>1. c \in Output
    BY <1>1, <1>5, <1>10, ZenonT(60) DEF Output, Commands, Places
  <2>2. /\ c.command = "NONE" /\ c.open /\ c.format = a.format /\ c.chunk = a.chunk
        /\ c.last = a.last /\ c.chunk_finished = a.chunk_finished
        /\ c.allow_play = a.allow_play /\ c.pause = pause /\ c.pc = pc
        /\ c.pipe = a.pipe /\ c.really_enabled = TRUE /\ c.failed = a.failed
        /\ c.in_playback_loop = a.in_playback_loop
    BY <1>1, <1>10 DEF Output
  <2> HIDE DEF c
  <2>3. ~pause
    BY <1>10 DEF pause
  <2>4. ThreadOK(c)
    BY <1>2, <1>5, <1>6, <1>10, <2>2, <2>3 DEF ThreadOK
  <2>5. OutputOK(o, c, mp, sent, player)
    BY <1>1, <1>2, <1>5, <1>6, <1>7, <1>10, <2>2, <2>3, <2>4, CommandIsDone
  <2> QED BY <1>3, <1>4, <2>1, <2>5, OutputChanges DEF c
<1>11. CASE \E p \in {a.pipe, "null"} :
              /\ b = [Closed(a) EXCEPT !.failed = TRUE, !.really_enabled = TRUE, !.pipe = p]
              /\ a.command \in {"OPEN", "REOPEN"}
  <2>0. PICK p \in {a.pipe, "null"} :
          /\ b = [Closed(a) EXCEPT !.failed = TRUE, !.really_enabled = TRUE, !.pipe = p]
          /\ a.command \in {"OPEN", "REOPEN"}
    BY <1>11
  <2>0a. p \in {"null", "g_mp", "stale"}
    BY <1>1, <2>0 DEF Output
  <2> DEFINE d == Closed(a)
  <2>1. d \in Output /\ ~d.open /\ d.chunk = None /\ d.last = None /\ ~d.in_playback_loop
    BY <1>1, <1>6, ClosedOutput
  <2> HIDE DEF d
  <2>2. b = [d EXCEPT !.failed = TRUE, !.really_enabled = TRUE, !.pipe = p]
    BY <2>0 DEF d
  <2>3. c \in Output
    BY <1>5, <2>0a, <2>1, <2>2, ZenonT(60) DEF Output, Commands, Places
  <2>4. /\ c.command = "NONE" /\ ~c.open /\ c.chunk = None /\ c.last = None
        /\ c.pause = pause /\ c.pc = pc /\ ~c.in_playback_loop
    BY <2>1, <2>2 DEF Output
  <2> HIDE DEF c
  <2>5. ~pause
    BY <2>0 DEF pause
  <2>6. ThreadOK(c) /\ CommandOK(c) /\ c.last <= sent
    BY <1>1, <1>5, <2>4, <2>5 DEF ThreadOK, CommandOK, None
  <2> QED BY <1>1, <1>3, <1>4, <2>3, <2>4, <2>6, IsClosed, OutputChanges DEF c
<1>12. CASE b = [a EXCEPT !.really_enabled = TRUE] /\ a.command = "ENABLE"
  <2>1. c \in Output
    BY <1>1, <1>5, <1>12 DEF Output, Commands, Places
  <2>2. /\ c.command = "NONE" /\ ~c.open /\ c.chunk = None /\ c.last = a.last
        /\ c.pause = pause /\ c.pc = pc /\ c.in_playback_loop = a.in_playback_loop
    BY <1>1, <1>2, <1>6, <1>12 DEF Output, ThreadOK
  <2> HIDE DEF c
  <2>3. ~pause
    BY <1>12 DEF pause
  <2>4. ThreadOK(c) /\ CommandOK(c)
    BY <1>5, <1>6, <2>2, <2>3 DEF ThreadOK, CommandOK
  <2>5. c.last <= sent
    BY <1>1, <2>2 DEF OutputOK, PipeOK
  <2> QED BY <1>1, <1>3, <1>4, <2>1, <2>2, <2>4, <2>5, IsClosed, OutputChanges DEF c
<1> QED
  <2>1. CASE a.command \in {"OPEN", "REOPEN"}
    <3>1. b \in Opened(a)
      BY <1>4, <2>1
    <3>2. \/ b = a
          \/ b = [a EXCEPT !.open = TRUE, !.really_enabled = TRUE]
          \/ \E p \in {a.pipe, "null"} :
               b = [Closed(a) EXCEPT !.failed = TRUE, !.really_enabled = TRUE, !.pipe = p]
      BY <3>1 DEF Opened
    <3> QED BY <1>9, <1>10, <1>11, <2>1, <3>2
  <2>2. CASE a.command = "ENABLE"
    BY <1>4, <1>9, <1>12, <2>2 DEF Enabled
  <2>3. CASE a.command \notin {"OPEN", "REOPEN", "ENABLE"}
    BY <1>4, <1>9, <2>3
  <2> QED BY <2>1, <2>2, <2>3

\* What the proof of a step of output o starts from.
LEMMA OutputFacts ==
  ASSUME OutputsInv, NEW o \in Outputs
  PROVE  /\ ao[o] \in Output /\ OutputOK(o, ao[o], mp, sent, player)
         /\ ThreadOK(ao[o]) /\ CommandOK(ao[o]) /\ PipeOK(ao[o], mp, sent)
         /\ AwaitOK(o, ao[o], player) /\ PlanOK(o, ao[o], mp, player)
         /\ ShiftOK(ao[o], mp, player) /\ SleepOK(o, ao[o], mp, player)
         /\ sent \in Nat /\ TodoOK(player.todo) /\ ChunksOK(mp, sent)
  BY OutputsAssumption DEF OutputsInv, ChunksOK, OutputOK, PlayerOK

LEMMA QuietStep ==
  ASSUME OutputsInv, UNCHANGED asserts
  PROVE  PipeAssertionsHold'
  BY DEF OutputsInv, PipeAssertionsHold

LEMMA SameNext ==
  /\ \A c : ChunkAfter(c) = After(c, mp)
  /\ Peek = First(mp)
  /\ \A a : ao_next_chunk(a) = NextOf(a, mp)
  /\ \A a : CanPlay(a) <=> Playable(a, mp)
<1>1. \A c : ChunkAfter(c) = After(c, mp)
  BY DEF ChunkAfter, After
<1>2. Peek = First(mp)
  BY DEF Peek, First
<1>3. \A a : ao_next_chunk(a) = NextOf(a, mp)
  BY <1>1, <1>2 DEF ao_next_chunk, NextOf
<1> QED BY <1>1, <1>2, <1>3 DEF CanPlay, Playable

LEMMA NotifyStep ==
  ASSUME OutputsInv, NEW o \in Outputs, Notify(o)
  PROVE  OutputsInv'
<1> DEFINE a == ao[o]
           b == [a EXCEPT !.pc = AfterCommand(a)]
<1>1. AfterCommand(a) \in {"paused", "play", "top"} /\ (AfterCommand(a) = "paused" <=> a.pause)
  BY DEF AfterCommand
<1>2. b \in Output /\ Thread(o, b)
  BY <1>1, OutputFacts DEF Notify, Output, Places
<1>3. ThreadOK(b) /\ CommandOK(b) /\ Alike(a, b) /\ b.pc # "wait"
  BY <1>1, OutputFacts DEF Notify, Output, ThreadOK, CommandOK, Alike
<1>4. PipeAssertionsHold'
  BY QuietStep DEF Notify
<1> QED BY <1>2, <1>3, <1>4, OutputFacts, OnlyMoves, OutputChanges

\* An output goes on with the next chunk: everything before that has been played.
LEMMA GoesOn ==
  ASSUME NEW o, NEW a \in Output, NEW b \in Output, NEW m, NEW n, NEW p,
         OutputOK(o, a, m, n, p), ChunksOK(m, n), ThreadOK(b), CommandOK(b),
         a.open, b.chunk = NextOf(a, m), NextOf(a, m) # None,
         (b.last = a.last /\ a.last >= a.chunk) \/ b.last = a.chunk,
         b.open, b.command = a.command, b.format = a.format, b.allow_play = a.allow_play,
         b.pause = a.pause, b.pc = "plugin_play",
         a.command = "NONE", a.allow_play \/ a.chunk # None,
         a.chunk # None => a.pc = "plugin_play" \/ a.last >= a.chunk
  PROVE  OutputOK(o, b, m, n, p)
<1> DEFINE k == Len(m.chunks)
<1>1. a.chunk \in Nat /\ a.last \in Nat /\ b.chunk \in Nat /\ b.last \in Nat
  BY DEF Output
<1>2. /\ n \in Nat /\ k \in 0 .. n /\ (m.chunks = <<>> <=> k = 0)
      /\ \A c : InPipe(c, m) <=> c \in Nat /\ n - k < c /\ c <= n
      /\ First(m) = IF m.chunks = <<>> THEN None ELSE n - k + 1
      /\ After(a.chunk, m) = IF InPipe(a.chunk, m) /\ a.chunk < n THEN a.chunk + 1 ELSE None
  BY <1>1, Chunks
<1> HIDE DEF k
<1>3. b.chunk = IF a.chunk # None THEN a.chunk + 1 ELSE First(m)
  BY <1>2 DEF NextOf
<1>4. InPipe(b.chunk, m) /\ m.chunks # <<>>
  BY <1>1, <1>2, <1>3 DEF NextOf, None
<1>5. b.chunk # First(m) => b.last >= b.chunk - 1
  BY <1>1, <1>2, <1>3
<1>6. b.last <= n
  <2>1. a.chunk # None => InPipe(a.chunk, m)
    BY DEF OutputOK, PipeOK
  <2> QED BY <1>1, <1>2, <2>1 DEF OutputOK, PipeOK, None
<1>7. PipeOK(b, m, n)
  BY <1>4, <1>5, <1>6 DEF OutputOK, PipeOK
<1>8. AwaitOK(o, b, p)
  BY DEF AwaitOK, Single
<1>9. PlanOK(o, b, m, p)
  BY DEF OutputOK, PlanOK
<1>10. ~Has(p, "shift", 0) \/ (a.chunk # None /\ a.chunk # First(m))
  <2>1. a.chunk # None /\ a.chunk = First(m) => After(First(m), m) # None
    BY DEF NextOf
  <2> QED BY <2>1 DEF OutputOK, ShiftOK
<1>11. ShiftOK(b, m, p)
  <2>1. a.chunk # None /\ a.chunk # First(m) => b.chunk # First(m) /\ b.chunk # None
    <3>1. a.chunk # None => InPipe(a.chunk, m)
      BY DEF OutputOK, PipeOK
    <3> QED BY <1>1, <1>2, <1>3, <3>1 DEF None
  <2> QED BY <1>10, <2>1 DEF ShiftOK
<1>12. SleepOK(o, b, m, p)
  BY DEF SleepOK
<1> QED BY <1>7, <1>8, <1>9, <1>11, <1>12 DEF OutputOK

\* An output is done with its chunk, or gives it up for a command.
LEMMA StopsPlaying ==
  ASSUME NEW o, NEW a \in Output, NEW b \in Output, NEW m, NEW n, NEW p,
         OutputOK(o, a, m, n, p), ChunksOK(m, n), ThreadOK(b), CommandOK(b),
         a.open, b.open, b.command = a.command, b.format = a.format, b.allow_play = a.allow_play,
         b.pause = a.pause, b.pc # "wait", b.chunk = a.chunk,
         b.last = a.last \/ b.last = a.chunk, b.chunk_finished
  PROVE  OutputOK(o, b, m, n, p)
<1> DEFINE k == Len(m.chunks)
<1>1. a.chunk \in Nat /\ a.last \in Nat /\ b.chunk \in Nat /\ b.last \in Nat
  BY DEF Output
<1>2. /\ n \in Nat /\ k \in 0 .. n /\ (m.chunks = <<>> <=> k = 0)
      /\ \A c : InPipe(c, m) <=> c \in Nat /\ n - k < c /\ c <= n
  BY Chunks
<1> HIDE DEF k
<1>3. PipeOK(b, m, n)
  <2>1. b.last <= n
    BY <1>1, <1>2 DEF OutputOK, PipeOK, None
  <2>2. b.chunk # None /\ b.chunk # First(m) => b.last >= b.chunk - 1
    BY <1>1 DEF OutputOK, PipeOK
  <2> QED BY <2>1, <2>2 DEF OutputOK, PipeOK
<1>4. AwaitOK(o, b, p) /\ PlanOK(o, b, m, p)
  BY DEF OutputOK, AwaitOK, PlanOK
<1>5. ShiftOK(b, m, p) /\ SleepOK(o, b, m, p)
  BY DEF OutputOK, ShiftOK, SleepOK
<1> QED BY <1>3, <1>4, <1>5 DEF OutputOK

LEMMA StartPlayStep ==
  ASSUME OutputsInv, NEW o \in Outputs, StartPlay(o)
  PROVE  OutputsInv'
<1> DEFINE a == ao[o]
           next == NextOf(a, mp)
<1>1. a.open /\ a.allow_play /\ next # None /\ a.pc \in {"play", "top"}
  BY SameNext DEF StartPlay, CanPlay, TriesToPlay
<1>2. PipeAssertionsHold'
  <2>1. a.pipe = "g_mp" /\ ~mp.null
    BY <1>1, OutputFacts DEF ThreadOK, PipeOK
  <2> QED BY <2>1, QuietStep DEF StartPlay, Fails
<1>3. a.chunk # None => InPipe(a.chunk, mp) /\ a.chunk \in Nat
  BY OutputFacts DEF PipeOK, Output
<1>4. next \in Nat
  <2>1. ChunksOK(mp, sent)
    BY OutputFacts
  <2>2. First(mp) \in Nat
    BY <2>1, Chunks DEF None
  <2>3. a.chunk \in Nat => After(a.chunk, mp) \in Nat
    BY <2>1, Chunks DEF None
  <2> QED BY <1>3, <2>2, <2>3 DEF NextOf
<1> HIDE DEF next
<1>5. CASE a.command = "NONE"
  <2> DEFINE b == [a EXCEPT !.chunk = next, !.chunk_finished = FALSE,
                            !.in_playback_loop = TRUE, !.pc = "plugin_play"]
  <2>1. Thread(o, b)
    BY <1>5, SameNext DEF StartPlay, next
  <2>2. b \in Output
    BY <1>4, OutputFacts, ZenonT(60) DEF Output, Places
  <2>3. ThreadOK(b) /\ CommandOK(b)
    BY <1>1, <1>5, OutputFacts DEF ThreadOK, CommandOK, Output
  <2>4. a.chunk # None => a.last >= a.chunk
    BY <1>1, <1>5, OutputFacts DEF ThreadOK
  <2>5. a.chunk = None => a.last >= a.chunk
    BY OutputFacts DEF Output, None
  <2>6. /\ b.chunk = next /\ b.last = a.last /\ b.open /\ b.command = a.command
        /\ b.format = a.format /\ b.allow_play = a.allow_play /\ b.pause = a.pause
        /\ b.pc = "plugin_play"
    BY <1>1, OutputFacts DEF Output
  <2> HIDE DEF b
  <2>7. OutputOK(o, b, mp, sent, player)
    BY <1>1, <1>5, <2>2, <2>3, <2>4, <2>5, <2>6, OutputFacts, GoesOn DEF next
  <2> QED BY <1>2, <2>1, <2>2, <2>7, OutputChanges
<1>6. CASE a.command # "NONE"
  <2> DEFINE b == [a EXCEPT !.chunk_finished = TRUE, !.pc = "top"]
  <2>1. b \in Output /\ Thread(o, b)
    BY <1>6, OutputFacts, ZenonT(60) DEF StartPlay, Output, Places
  <2>2. ThreadOK(b) /\ CommandOK(b)
    BY <1>1, <1>6, OutputFacts DEF ThreadOK, CommandOK, Output
  <2>3. /\ b.open /\ b.command = a.command /\ b.format = a.format
        /\ b.allow_play = a.allow_play /\ b.pause = a.pause /\ b.pc # "wait"
        /\ b.chunk = a.chunk /\ b.last = a.last /\ b.chunk_finished
    BY <1>1, OutputFacts DEF Output
  <2> HIDE DEF b
  <2>4. OutputOK(o, b, mp, sent, player)
    BY <1>1, <2>1, <2>2, <2>3, OutputFacts, StopsPlaying
  <2> QED BY <1>2, <2>1, <2>4, OutputChanges
<1> QED BY <1>5, <1>6

LEMMA SleepStep ==
  ASSUME OutputsInv, NEW o \in Outputs, Sleep(o)
  PROVE  OutputsInv'
<1> DEFINE a == ao[o]
           w == IF a.command = "NONE" THEN FALSE ELSE a.woken_for_play
           pc == IF a.command = "NONE" THEN "wait" ELSE "top"
           b == [a EXCEPT !.woken_for_play = w, !.pc = pc]
<1>1. a.pc \in {"play", "top"} /\ ~Playable(a, mp)
  BY SameNext DEF Sleep, TriesToPlay
<1>2. Thread(o, b)
  <2>1. a.command # "NONE" => b = [a EXCEPT !.pc = "top"]
    BY OutputFacts DEF Output
  <2> QED BY <2>1 DEF Sleep
<1>3. b \in Output
  <2>1. a \in Output /\ w \in BOOLEAN /\ pc \in Places
    BY OutputFacts DEF Output, Places
  <2> HIDE DEF a, w, pc
  <2> QED BY <2>1, ZenonT(60) DEF Output
<1>4. ThreadOK(b) /\ CommandOK(b) /\ Alike(a, b)
  BY <1>1, OutputFacts DEF Output, ThreadOK, CommandOK, Alike
<1>5. PipeAssertionsHold'
  BY QuietStep DEF Sleep
<1> HIDE DEF b
<1> QED BY <1>1, <1>2, <1>3, <1>4, <1>5, OutputFacts, OnlyMoves, OutputChanges

LEMMA PlayedChunkStep ==
  ASSUME OutputsInv, NEW o \in Outputs, PlayedChunk(o)
  PROVE  OutputsInv'
<1> DEFINE a == ao[o]
           c == [a EXCEPT !.last = a.chunk]
           next == ChunkAfter(c.chunk)
<1>1. a.pc = "plugin_play" /\ a.chunk # None /\ a.open /\ a.in_playback_loop \in BOOLEAN
  BY OutputFacts DEF PlayedChunk, ThreadOK, Output
<1>2. c \in Output /\ c.chunk = a.chunk /\ c.command = a.command
  BY OutputFacts DEF Output
<1>3. next = NextOf(a, mp)
  BY <1>1, <1>2, SameNext DEF NextOf
<1>4. PipeAssertionsHold'
  BY <1>1, <1>2, QuietStep DEF PlayedChunk, Fails
<1>5. CASE next # None /\ a.command = "NONE"
  <2> DEFINE b == [c EXCEPT !.chunk = next]
  <2>1. Thread(o, b)
    BY <1>2, <1>5 DEF PlayedChunk
  <2>2. next \in Nat
    <3>1. ChunksOK(mp, sent) /\ a.chunk \in Nat
      BY OutputFacts DEF Output
    <3>2. After(a.chunk, mp) \in Nat
      BY <3>1, Chunks DEF None
    <3> QED BY <1>1, <1>3, <3>2 DEF NextOf
  <2>3. /\ b.chunk = next /\ b.last = a.chunk /\ b.open /\ b.command = a.command
        /\ b.format = a.format /\ b.allow_play = a.allow_play /\ b.pause = a.pause
        /\ b.pc = "plugin_play"
    BY <1>1, OutputFacts DEF Output
  <2> HIDE DEF next
  <2>4. b \in Output
    BY <2>2, OutputFacts DEF Output
  <2>5. ThreadOK(b) /\ CommandOK(b)
    BY <1>1, <1>5, <2>2, OutputFacts DEF ThreadOK, CommandOK, Output
  <2> HIDE DEF b
  <2>6. OutputOK(o, b, mp, sent, player)
    BY <1>1, <1>3, <1>5, <2>3, <2>4, <2>5, OutputFacts, GoesOn
  <2> QED BY <1>4, <2>1, <2>4, <2>6, OutputChanges
<1>6. CASE ~(next # None /\ a.command = "NONE")
  <2> DEFINE b == EndPlay(c)
  <2>1. Thread(o, b)
    BY <1>2, <1>6 DEF PlayedChunk
  <2>2. b \in Output
    BY OutputFacts, ZenonT(60) DEF EndPlay, Output, Places
  <2>3. /\ b.open /\ b.command = a.command /\ b.format = a.format
        /\ b.allow_play = a.allow_play /\ b.pause = a.pause /\ b.pc # "wait"
        /\ b.chunk = a.chunk /\ b.last = a.chunk /\ b.chunk_finished
    BY <1>1, OutputFacts DEF EndPlay, Output
  <2>4. ThreadOK(b) /\ CommandOK(b)
    BY <1>1, OutputFacts DEF ThreadOK, CommandOK, EndPlay, Output
  <2> HIDE DEF b
  <2>5. OutputOK(o, b, mp, sent, player)
    BY <1>1, <2>2, <2>3, <2>4, OutputFacts, StopsPlaying
  <2> QED BY <1>4, <2>1, <2>2, <2>5, OutputChanges
<1> QED BY <1>5, <1>6

LEMMA InterruptedStep ==
  ASSUME OutputsInv, NEW o \in Outputs, Interrupted(o)
  PROVE  OutputsInv'
<1> DEFINE a == ao[o]
           b == EndPlay(a)
<1>1. a.pc = "plugin_play" /\ a.chunk # None /\ a.open /\ a.command # "NONE"
  BY OutputFacts DEF Interrupted, ThreadOK
<1>2. PipeAssertionsHold'
  BY <1>1, QuietStep DEF Interrupted, Fails
<1>3. b \in Output /\ Thread(o, b)
  <2>1. b \in Output
    BY OutputFacts, ZenonT(60) DEF EndPlay, Output, Places
  <2> QED BY <2>1 DEF Interrupted
<1>4. /\ b.open /\ b.command = a.command /\ b.format = a.format
      /\ b.allow_play = a.allow_play /\ b.pause = a.pause /\ b.pc # "wait"
      /\ b.chunk = a.chunk /\ b.last = a.last /\ b.chunk_finished
  BY <1>1, OutputFacts DEF EndPlay, Output
<1>5. ThreadOK(b) /\ CommandOK(b)
  BY <1>1, OutputFacts DEF ThreadOK, CommandOK, EndPlay, Output
<1> HIDE DEF b
<1>6. OutputOK(o, b, mp, sent, player)
  BY <1>1, <1>3, <1>4, <1>5, OutputFacts, StopsPlaying
<1> QED BY <1>2, <1>3, <1>6, OutputChanges

\* The plugin has failed: the output closes itself.
LEMMA PlayFailsStep ==
  ASSUME OutputsInv, NEW o \in Outputs, PlayFails(o) \/ PauseFails(o)
  PROVE  OutputsInv'
<1> DEFINE a == ao[o]
           c == Closed(a)
           pc == IF a.pc = "plugin_play" THEN "closing" ELSE "pause_closing"
           b == [c EXCEPT !.pc = pc]
<1>1. a.pc \in {"plugin_play", "paused"}
  BY DEF PlayFails, PauseFails
<1>2. Thread(o, b) /\ PipeAssertionsHold'
  BY QuietStep DEF PlayFails, PauseFails
<1>3. pc \in {"closing", "pause_closing"} /\ (pc = "closing" <=> a.pc = "plugin_play")
  OBVIOUS
<1>4. /\ c \in Output /\ ~c.open /\ c.chunk = None /\ c.last = None
      /\ c.command = a.command /\ c.format = a.format /\ c.pause = a.pause
      /\ c.in_playback_loop = a.in_playback_loop
  BY OutputFacts, ClosedOutput
<1> HIDE DEF c, pc
<1>5. b \in Output
  BY <1>3, <1>4 DEF Output, Places
<1>6. /\ ~b.open /\ b.chunk = None /\ b.last = None /\ b.command = a.command
      /\ b.format = a.format /\ b.pause = a.pause /\ b.pc = pc
      /\ b.in_playback_loop = a.in_playback_loop
  BY <1>4 DEF Output
<1> HIDE DEF b
<1>7. a.pause <=> a.pc = "paused"
  BY <1>1, OutputFacts DEF ThreadOK
<1>7a. a.in_playback_loop => a.pc = "plugin_play"
  BY <1>1, OutputFacts DEF ThreadOK
<1>8. a.command # "REOPEN" /\ (a.command = "OPEN" => ~a.open) /\ a.open
  BY <1>1, OutputFacts DEF ThreadOK, CommandOK
<1>9. ThreadOK(b) /\ CommandOK(b)
  BY <1>1, <1>3, <1>6, <1>7, <1>7a, <1>8 DEF ThreadOK, CommandOK
<1>10. b.last <= sent
  BY <1>6, OutputFacts DEF None
<1> QED BY <1>2, <1>5, <1>6, <1>9, <1>10, OutputFacts, IsClosed, OutputChanges

LEMMA PlayClosedStep ==
  ASSUME OutputsInv, NEW o \in Outputs, PlayClosed(o)
  PROVE  OutputsInv'
<1> DEFINE a == ao[o]
           b == [EndPlay(a) EXCEPT !.failed = TRUE]
<1>1. a.pc = "closing" /\ ~a.open /\ a.chunk = None
  BY OutputFacts DEF PlayClosed, ThreadOK
<1>2. Thread(o, b) /\ PipeAssertionsHold'
  BY QuietStep DEF PlayClosed
<1>3. b \in Output
  BY OutputFacts, ZenonT(60) DEF EndPlay, Output, Places
<1>4. /\ ThreadOK(b) /\ CommandOK(b) /\ ~b.open /\ b.chunk = None /\ b.last = a.last
      /\ b.command = a.command /\ b.format = a.format
  BY <1>1, OutputFacts DEF EndPlay, Output, ThreadOK, CommandOK
<1> HIDE DEF b
<1>5. b.last <= sent
  BY <1>4, OutputFacts DEF PipeOK
<1> QED BY <1>2, <1>3, <1>4, <1>5, OutputFacts, IsClosed, OutputChanges

LEMMA ResumeStep ==
  ASSUME OutputsInv, NEW o \in Outputs, Resume(o)
  PROVE  OutputsInv'
<1> DEFINE a == ao[o]
           b == [a EXCEPT !.pause = FALSE, !.pc = "top"]
<1>1. a.pc = "paused" /\ a.command # "NONE" /\ a.open
  BY OutputFacts DEF Resume, ThreadOK
<1>2. b \in Output /\ Thread(o, b) /\ PipeAssertionsHold'
  BY OutputFacts, QuietStep, ZenonT(60) DEF Resume, Output, Places
<1>3. ThreadOK(b) /\ CommandOK(b)
  BY <1>1, OutputFacts DEF Output, ThreadOK, CommandOK
<1>4. /\ b.command = a.command /\ b.open /\ b.format = a.format /\ b.chunk = a.chunk
      /\ b.last = a.last /\ b.chunk_finished = a.chunk_finished /\ ~b.pause
      /\ b.allow_play = a.allow_play /\ b.pc = "top"
  BY <1>1, OutputFacts DEF Output
<1> HIDE DEF b
<1>5. PipeOK(b, mp, sent)
  BY <1>1, <1>4, OutputFacts DEF PipeOK
<1>6. AwaitOK(o, b, player) /\ PlanOK(o, b, mp, player)
  BY <1>1, <1>4, OutputFacts DEF AwaitOK, PlanOK
<1>7. ShiftOK(b, mp, player) /\ SleepOK(o, b, mp, player)
  BY <1>1, <1>4, OutputFacts DEF ShiftOK, SleepOK
<1>8. OutputOK(o, b, mp, sent, player)
  BY <1>3, <1>5, <1>6, <1>7 DEF OutputOK
<1> QED BY <1>2, <1>8, OutputChanges

LEMMA PauseClosedStep ==
  ASSUME OutputsInv, NEW o \in Outputs, PauseClosed(o)
  PROVE  OutputsInv'
<1> DEFINE a == ao[o]
           b == [a EXCEPT !.pause = FALSE, !.pc = "top"]
<1>1. a.pc = "pause_closing" /\ ~a.open /\ a.chunk = None
  BY OutputFacts DEF PauseClosed, ThreadOK
<1>2. b \in Output /\ Thread(o, b) /\ PipeAssertionsHold'
  BY OutputFacts, QuietStep, ZenonT(60) DEF PauseClosed, Output, Places
<1>3. /\ ThreadOK(b) /\ CommandOK(b) /\ ~b.open /\ b.chunk = None /\ b.last = a.last
      /\ b.command = a.command /\ b.format = a.format
  BY <1>1, OutputFacts DEF Output, ThreadOK, CommandOK
<1> HIDE DEF b
<1>4. b.last <= sent
  BY <1>3, OutputFacts DEF PipeOK
<1> QED BY <1>2, <1>3, <1>4, OutputFacts, IsClosed, OutputChanges

LEMMA OutputThreadStep ==
  ASSUME OutputsInv, NEW o \in Outputs, OutputThread(o)
  PROVE  OutputsInv'
  BY StartCommandStep, FinishCommandStep, NotifyStep, StartPlayStep, SleepStep,
     PlayedChunkStep, InterruptedStep, PlayFailsStep, PlayClosedStep, ResumeStep,
     PauseClosedStep DEF OutputThread

LEMMA ToggleStep ==
  ASSUME OutputsInv, NEW o \in Outputs, Toggle(o)
  PROVE  OutputsInv'
<1> DEFINE a == ao[o]
           b == [a EXCEPT !.enabled = ~@]
<1>1. b \in Output /\ Thread(o, b) /\ PipeAssertionsHold'
  BY OutputFacts, QuietStep, ZenonT(60) DEF Toggle, Thread, Output
<1>2. ThreadOK(b) /\ CommandOK(b) /\ Alike(a, b) /\ b.pc = a.pc
  BY OutputFacts DEF Output, ThreadOK, CommandOK, Alike
<1> HIDE DEF b
<1> QED BY <1>1, <1>2, OutputFacts, OnlyMoves, OutputChanges

-----------------------------------------------------------------------------
(* The player's steps with one output.                                     *)

\* Less is left of an operation, but nothing an output waits for.
LEMMA LessIsLeft ==
  ASSUME NEW o, NEW a, NEW m, NEW n, NEW p, NEW q, OutputOK(o, a, m, n, p),
         q.mode = p.mode,
         \A t : Has(q, t, o) => Has(p, t, o) \/ t \in {"await", "result"},
         \A t \in {"await", "update", "cancel", "release", "close", "wake"} :
            Has(p, t, o) => Has(q, t, o),
         Has(p, "await_all", 0) => Has(q, "await_all", 0),
         \A t \in {"clear", "delete", "shift"} : Has(q, t, 0) => Has(p, t, 0)
  PROVE  OutputOK(o, a, m, n, q)
<1>1. \A t \in Commanding : Has(q, t, o) => Has(p, t, o)
  BY DEF Commanding
<1>2. AwaitOK(o, a, q)
  BY <1>1 DEF OutputOK, AwaitOK
<1>3. PlanOK(o, a, m, q)
  BY DEF OutputOK, PlanOK
<1>4. ShiftOK(a, m, q) /\ SleepOK(o, a, m, q)
  BY DEF OutputOK, ShiftOK, SleepOK
<1> QED BY <1>2, <1>3, <1>4 DEF OutputOK

\* Nothing is to be done to an output that is closed.
LEMMA NothingToDo ==
  ASSUME NEW o, NEW a, NEW b, NEW m, NEW n, NEW p, NEW q, OutputOK(o, a, m, n, p),
         ~a.open, ~b.open, ThreadOK(b), CommandOK(b), b.command = a.command, b.last = a.last,
         b.format = a.format,
         Has(p, "await", o) => Has(q, "await", o),
         Has(q, "delete", 0) => Has(p, "delete", 0)
  PROVE  OutputOK(o, b, m, n, q)
<1>1. PipeOK(b, m, n)
  BY DEF OutputOK, PipeOK, ThreadOK
<1>2. AwaitOK(o, b, q) /\ PlanOK(o, b, m, q)
  BY DEF OutputOK, AwaitOK, PlanOK
<1>3. ShiftOK(b, m, q) /\ SleepOK(o, b, m, q)
  BY DEF ShiftOK, SleepOK, Playable
<1> QED BY <1>1, <1>2, <1>3 DEF OutputOK

\* An output has got a command, and the player waits for it.
LEMMA Commanded ==
  ASSUME NEW o, NEW b, NEW m, NEW n, NEW q, ThreadOK(b), CommandOK(b), PipeOK(b, m, n),
         TodoOK(q.todo), Has(q, "await", o), b.pc # "wait", b.command # "PAUSE",
         b.open /\ b.format # m.format => b.command = "CLOSE" \/ Has(q, "update", o),
         b.open /\ b.pause => \/ q.mode \in {"paused", "off"}
                              \/ b.command \in {"CANCEL", "CLOSE"}
                              \/ Has(q, "update", o),
         Has(q, "delete", 0) => /\ b.open => b.command = "CLOSE"
                                /\ b.command \notin {"OPEN", "REOPEN"}
  PROVE  OutputOK(o, b, m, n, q)
<1>1. ~Has(q, "shift", 0) /\ ~Has(q, "clear", 0)
  BY AwaitingExcludes
<1>2. AwaitOK(o, b, q) /\ PlanOK(o, b, m, q)
  BY <1>1 DEF AwaitOK, PlanOK
<1>3. ShiftOK(b, m, q) /\ SleepOK(o, b, m, q)
  BY <1>1 DEF ShiftOK, SleepOK
<1> QED BY <1>2, <1>3 DEF OutputOK

\* The player's step with output o: the steps that come instead are for it, too.
LEMMA PlayerChanges ==
  ASSUME OutputsInv, player.todo # <<>>, NEW o \in Outputs, Head(player.todo).o = o,
         NEW b \in Output, NEW more, NEW opened \in BOOLEAN, NEW failed,
         Steps(o, b, more, opened, failed),
         failed \subseteq {"command_none", "same_pipe"},
         TodoOK(more \o Tail(player.todo)),
         Elements(more \o Tail(player.todo)) =
           Elements(more) \cup (Elements(player.todo) \ {Head(player.todo)}),
         \A x \in Elements(more) : x.o = o /\ x.op \in {"await", "result", "close"},
         OutputOK(o, b, mp, sent, player')
  PROVE  OutputsInv'
<1> DEFINE q == player'
           h == Head(player.todo)
<1>1. /\ ao' = [ao EXCEPT ![o] = b] /\ mp' = mp /\ sent' = sent
      /\ asserts' = asserts \cup failed
      /\ q = [player EXCEPT !.todo = more \o Tail(player.todo), !.opened = opened]
  BY DEF Steps
<1>2. /\ player \in [mode : {"off", "opening", "on", "paused"}, todo : Seq(StepSet), opened : BOOLEAN]
      /\ TodoOK(player.todo) /\ PlayerOK(player, mp, sent) /\ ChunksOK(mp, sent)
  BY DEF OutputsInv, PlayerOK
<1>3. q.mode = player.mode /\ q.todo = more \o Tail(player.todo) /\ q.opened = opened
  BY <1>1, <1>2
<1>4. TodoOK(q.todo) /\ q.todo \in Seq(StepSet)
  BY <1>3 DEF TodoOK
<1>5. q \in [mode : {"off", "opening", "on", "paused"}, todo : Seq(StepSet), opened : BOOLEAN]
  <2>1. q = [mode |-> player.mode, todo |-> more \o Tail(player.todo), opened |-> opened]
    BY <1>1, <1>2
  <2> QED BY <1>2, <1>3, <1>4, <2>1
<1>6. Elements(q.todo) = Elements(more) \cup (Elements(player.todo) \ {h})
  BY <1>3
<1>7. 0 \notin Outputs
  BY OutputsAssumption DEF Outputs
<1> HIDE DEF q, h
<1>8. \A i, t : i # o => (Has(q, t, i) <=> Has(player, t, i))
  BY <1>6, StepsAreSteps DEF Has, h
<1>9. ASSUME NEW ops, Doing(q, ops), ops \cap {"await", "result", "close"} = {}
      PROVE  Doing(player, ops)
  BY <1>6, <1>9 DEF Doing
<1>10. PlayerOK(q, mp, sent)
  <2>1. /\ q.mode = "on" => ~mp.null
        /\ Doing(q, {"push"}) => q.mode = "on"
        /\ Doing(q, {"check", "shift"}) => q.mode \in {"on", "paused"}
        /\ Doing(q, {"pause"}) => q.mode \in {"paused", "off"}
        /\ Doing(q, {"opened"}) => q.mode = "opening"
    BY <1>2, <1>3, <1>9 DEF PlayerOK
  <2>2. /\ Doing(q, {"delete"}) => q.mode # "on"
        /\ Doing(q, {"push"}) => sent < MaxChunks
        /\ Doing(q, {"drain"}) => mp.chunks = <<>>
        /\ Doing(q, {"shift"}) => mp.chunks # <<>>
    BY <1>2, <1>3, <1>9 DEF PlayerOK
  <2>3. Doing(q, {"pause", "drain", "cancel"}) => Has(q, "await_all", 0)
    BY <1>2, <1>7, <1>8, <1>9 DEF PlayerOK
  <2> QED BY <1>4, <1>5, <2>1, <2>2, <2>3 DEF PlayerOK
<1>11. ao' \in [Outputs -> Output]
  BY <1>1 DEF OutputsInv
<1>12. \A i \in Outputs : OutputOK(i, ao'[i], mp, sent, q)
  <2> TAKE i \in Outputs
  <2>1. CASE i = o
    BY <1>1, <2>1 DEF OutputsInv, q
  <2>2. CASE i # o
    <3>1. ao'[i] = ao[i] /\ OutputOK(i, ao[i], mp, sent, player)
      BY <1>1, <2>2 DEF OutputsInv
    <3> QED BY <1>3, <1>7, <1>8, <2>2, <3>1, LessIsLeft
  <2> QED BY <2>1, <2>2
<1>13. PipeAssertionsHold'
  BY <1>1 DEF OutputsInv, PipeAssertionsHold
<1> QED BY <1>1, <1>2, <1>10, <1>11, <1>12, <1>13 DEF OutputsInv, q

\* What is left after a step, and before the ones that come instead.
LEMMA StepsInFront ==
  ASSUME OutputsInv, player.todo # <<>>, NEW h, h = Head(player.todo), NEW o \in Outputs,
         NEW rest, rest = Tail(player.todo)
  PROVE  /\ TodoOK(<<>> \o rest)
         /\ Elements(<<>> \o rest) = Elements(<<>>) \cup (Elements(player.todo) \ {h})
         /\ h.op \in {"enable", "update", "close"} =>
              LET more == <<Step("await", o)>> IN
              /\ TodoOK(more \o rest)
              /\ Elements(more \o rest) = Elements(more) \cup (Elements(player.todo) \ {h})
              /\ Elements(more) = {Step("await", o)}
         /\ h.op = "update" =>
              LET more == <<Step("await", o), Step("result", o)>> IN
              /\ TodoOK(more \o rest)
              /\ Elements(more \o rest) = Elements(more) \cup (Elements(player.todo) \ {h})
              /\ Elements(more) = {Step("await", o), Step("result", o)}
<1>1. TodoOK(player.todo)
  BY DEF OutputsInv, PlayerOK
<1>2. /\ h \in StepSet /\ TodoOK(rest)
      /\ Elements(rest) = Elements(player.todo) \ {h}
      /\ \A x \in Elements(rest) :
           x \in StepSet /\ Together(h, x) /\ Rank(h.op) <= Rank(x.op)
  BY <1>1, NextStep
<1>3. <<>> \o rest = rest
  BY <1>2 DEF TodoOK
<1>4. ASSUME NEW t \in {"await", "result"}, NEW x \in Elements(rest),
             t = "await" => h.op \in {"enable", "update", "close"},
             t = "result" => h.op = "update"
      PROVE  /\ Together(Step(t, o), x) /\ Together(x, Step(t, o))
             /\ Rank(t) <= Rank(x.op) /\ Step(t, o) # x
  <2>1. PICK ops \in Operations : h.op \in ops /\ x.op \in ops
    BY <1>2 DEF Together
  <2>2. t \in ops
    BY <1>4, <2>1 DEF Operations
  <2>3. Step(t, o).op = t
    BY StepsAreSteps
  <2>4. Together(Step(t, o), x) /\ Together(x, Step(t, o))
    BY <2>1, <2>2, <2>3 DEF Together
  <2>5. Rank(t) \in 0 .. 2 /\ Rank(h.op) \in 3 .. 9 /\ Rank(x.op) \in 0 .. 9
    BY <1>4 DEF Rank
  <2>6. Rank(t) < Rank(x.op)
    BY <1>2, <2>5
  <2> QED BY <2>3, <2>4, <2>5, <2>6
<1>5. ASSUME NEW t \in {"await", "result"}
      PROVE  /\ TodoOK(<<Step(t, o)>>) /\ Elements(<<Step(t, o)>>) = {Step(t, o)}
  <2>1. Step(t, o) \in StepSet /\ Step(t, o).op = t
    BY StepsAreSteps DEF OfOutput
  <2>2. Together(Step(t, o), Step(t, o))
    BY <2>1 DEF Together, Operations
  <2> QED BY <2>1, <2>2, OneStep
<1>6. \A t : Step(t, o).op = t
  BY StepsAreSteps
<1>7. ASSUME h.op \in {"enable", "update", "close"}
      PROVE  /\ TodoOK(<<Step("await", o)>> \o rest)
             /\ Elements(<<Step("await", o)>> \o rest) = {Step("await", o)} \cup Elements(rest)
  <2> DEFINE x == Step("await", o)
  <2>1. \A v \in Elements(rest) :
          Together(x, v) /\ Together(v, x) /\ Rank(x.op) <= Rank(v.op) /\ x # v
    <3> TAKE v \in Elements(rest)
    <3>1. Together(x, v) /\ Together(v, x) /\ Rank("await") <= Rank(v.op) /\ x # v
      <4>1. "await" # "result" /\ "await" \in {"await", "result"}
        OBVIOUS
      <4> QED BY <1>4, <1>7, <4>1, Zenon
    <3> QED BY <1>6, <3>1
  <2>2. TodoOK(<<x>>) /\ Elements(<<x>>) = {x}
    BY <1>5
  <2> HIDE DEF x
  <2>3. TodoOK(<<x>> \o rest) /\ Elements(<<x>> \o rest) = {x} \cup Elements(rest)
    BY <1>2, <2>1, <2>2, StepsThenSteps
  <2> QED BY <2>3 DEF x
<1>8. ASSUME h.op = "update"
      PROVE  LET more == <<Step("await", o), Step("result", o)>> IN
             /\ TodoOK(more \o rest)
             /\ Elements(more) = {Step("await", o), Step("result", o)}
             /\ Elements(more \o rest) = Elements(more) \cup Elements(rest)
  <2> DEFINE x == Step("await", o)  y == Step("result", o)  more == <<x, y>>
  <2>1. more = <<x>> \o <<y>>
    OBVIOUS
  <2>2. Together(x, y) /\ Together(y, x) /\ Rank(x.op) <= Rank(y.op) /\ x # y
    BY <1>6 DEF Together, Operations, Rank
  <2> HIDE DEF x, y
  <2>3. TodoOK(<<x>> \o <<y>>) /\ Elements(<<x>> \o <<y>>) = {x} \cup {y}
    BY <1>5, <2>2, StepsThenSteps DEF x, y
  <2>4. TodoOK(more) /\ Elements(more) = {x, y}
    BY <2>1, <2>3
  <2> HIDE DEF more
  <2>5. \A u \in Elements(more), v \in Elements(rest) :
          Together(u, v) /\ Together(v, u) /\ Rank(u.op) <= Rank(v.op) /\ u # v
    <3> TAKE u \in Elements(more), v \in Elements(rest)
    <3>1. PICK t \in {"await", "result"} : u = Step(t, o)
      BY <2>4 DEF x, y
    <3>2. Together(u, v) /\ Together(v, u) /\ Rank(t) <= Rank(v.op) /\ u # v
      <4>1. h.op \in {"enable", "update", "close"}
        BY <1>8
      <4> QED BY <1>4, <1>8, <3>1, <4>1, Zenon
    <3> QED BY <1>6, <3>1, <3>2
  <2>6. TodoOK(more \o rest) /\ Elements(more \o rest) = Elements(more) \cup Elements(rest)
    BY <1>2, <2>4, <2>5, StepsThenSteps
  <2> QED BY <2>4, <2>6 DEF more, x, y
<1>9. Elements(<<>>) = {}
  BY NothingLeft
<1> QED BY <1>2, <1>3, <1>5, <1>7, <1>8, <1>9

\* What is left after the player's step with output o.
LEMMA LeftAfter ==
  ASSUME OutputsInv, player.todo # <<>>, NEW o \in Outputs, NEW h, h = Head(player.todo),
         h.o = o, NEW b, NEW more, NEW opened, NEW failed, Steps(o, b, more, opened, failed),
         TodoOK(more \o Tail(player.todo)),
         Elements(more \o Tail(player.todo)) =
           Elements(more) \cup (Elements(player.todo) \ {h})
  PROVE  /\ player'.mode = player.mode /\ TodoOK(player'.todo)
         /\ \A t, i : Has(player', t, i) <=>
              Step(t, i) \in Elements(more) \/ (Has(player, t, i) /\ ~(t = h.op /\ i = o))
<1>1. player'.mode = player.mode /\ player'.todo = more \o Tail(player.todo)
  BY DEF Steps, OutputsInv, PlayerOK
<1>2. h \in StepSet
  BY NextStep DEF OutputsInv, PlayerOK
<1>3. h = Step(h.op, o)
  BY <1>2, StepIsRecord
<1>4. \A t, i : Step(t, i) = h <=> t = h.op /\ i = o
  BY <1>3, StepsAreSteps
<1>5. Elements(player'.todo) = Elements(more) \cup (Elements(player.todo) \ {h})
  BY <1>1
<1>6. \A t, i : Has(player', t, i) <=>
        Step(t, i) \in Elements(more) \/ (Has(player, t, i) /\ ~(t = h.op /\ i = o))
  BY <1>4, <1>5 DEF Has
<1> QED BY <1>1, <1>6

\* Nothing comes instead.
LEMMA NothingInstead ==
  ASSUME OutputsInv, player.todo # <<>>, NEW o \in Outputs, NEW h, h = Head(player.todo),
         h.o = o, NEW b, NEW opened, NEW failed, Steps(o, b, <<>>, opened, failed)
  PROVE  /\ player'.mode = player.mode /\ TodoOK(player'.todo)
         /\ \A t, i : Has(player', t, i) <=> Has(player, t, i) /\ ~(t = h.op /\ i = o)
<1>1. /\ TodoOK(<<>> \o Tail(player.todo))
      /\ Elements(<<>> \o Tail(player.todo)) =
           Elements(<<>>) \cup (Elements(player.todo) \ {h})
  BY StepsInFront
<1>2. Elements(<<>>) = {}
  BY NothingLeft
<1> QED BY <1>1, <1>2, LeftAfter

LEMMA StepTaken ==
  ASSUME OutputsInv, player.todo # <<>>, NEW o \in Outputs, Head(player.todo).o = o,
         NEW b \in Output, NEW opened \in BOOLEAN, NEW failed,
         Steps(o, b, <<>>, opened, failed), failed \subseteq {"command_none", "same_pipe"},
         OutputOK(o, b, mp, sent, player')
  PROVE  OutputsInv'
<1>1. /\ TodoOK(<<>> \o Tail(player.todo))
      /\ Elements(<<>> \o Tail(player.todo)) =
           Elements(<<>>) \cup (Elements(player.todo) \ {Head(player.todo)})
  BY StepsInFront
<1>2. Elements(<<>>) = {}
  BY NothingLeft
<1> QED BY <1>1, <1>2, PlayerChanges

\* Waiting for the command comes next, and perhaps its result.
LEMMA AwaitInFront ==
  ASSUME OutputsInv, player.todo # <<>>, NEW o \in Outputs, NEW h, h = Head(player.todo),
         NEW more,
         \/ more = <<Step("await", o)>> /\ h.op \in {"enable", "update", "close"}
         \/ more = <<Step("await", o), Step("result", o)>> /\ h.op = "update"
  PROVE  /\ TodoOK(more \o Tail(player.todo))
         /\ Elements(more \o Tail(player.todo)) =
              Elements(more) \cup (Elements(player.todo) \ {h})
         /\ Step("await", o) \in Elements(more)
         /\ \A x \in Elements(more) : x = Step("await", o) \/ x = Step("result", o)
<1> DEFINE rest == Tail(player.todo)
           all == Elements(player.todo) \ {h}
           one == <<Step("await", o)>>
           two == <<Step("await", o), Step("result", o)>>
<1>1. h.op \in {"enable", "update", "close"} =>
        /\ TodoOK(one \o rest)
        /\ Elements(one \o rest) = Elements(one) \cup all
        /\ Elements(one) = {Step("await", o)}
  BY StepsInFront
<1>2. h.op = "update" =>
        /\ TodoOK(two \o rest)
        /\ Elements(two \o rest) = Elements(two) \cup all
        /\ Elements(two) = {Step("await", o), Step("result", o)}
  BY StepsInFront
<1> HIDE DEF rest, all, one, two
<1>3. \/ more = one /\ h.op \in {"enable", "update", "close"}
      \/ more = two /\ h.op = "update"
  BY DEF one, two
<1>4. /\ TodoOK(more \o rest) /\ Elements(more \o rest) = Elements(more) \cup all
      /\ Elements(more) \in {{Step("await", o)}, {Step("await", o), Step("result", o)}}
  BY <1>1, <1>2, <1>3
<1> QED BY <1>4 DEF rest, all

LEMMA AwaitInstead ==
  ASSUME OutputsInv, player.todo # <<>>, NEW o \in Outputs, NEW h, h = Head(player.todo),
         h.o = o, NEW b, NEW more, NEW opened, NEW failed, Steps(o, b, more, opened, failed),
         \/ more = <<Step("await", o)>> /\ h.op \in {"enable", "update", "close"}
         \/ more = <<Step("await", o), Step("result", o)>> /\ h.op = "update"
  PROVE  /\ player'.mode = player.mode /\ TodoOK(player'.todo)
         /\ Has(player', "await", o)
         /\ \A t, i : t \notin {"await", "result"} =>
              (Has(player', t, i) <=> Has(player, t, i) /\ ~(t = h.op /\ i = o))
<1>1. /\ TodoOK(more \o Tail(player.todo))
      /\ Elements(more \o Tail(player.todo)) =
           Elements(more) \cup (Elements(player.todo) \ {h})
      /\ Step("await", o) \in Elements(more)
      /\ \A x \in Elements(more) : x = Step("await", o) \/ x = Step("result", o)
  BY AwaitInFront
<1>2. /\ player'.mode = player.mode /\ TodoOK(player'.todo)
      /\ \A t, i : Has(player', t, i) <=>
              Step(t, i) \in Elements(more) \/ (Has(player, t, i) /\ ~(t = h.op /\ i = o))
  BY <1>1, LeftAfter
<1>3. \A t, i : t \notin {"await", "result"} => Step(t, i) \notin Elements(more)
  BY <1>1, StepsAreSteps
<1> QED BY <1>1, <1>2, <1>3

LEMMA CommandSent ==
  ASSUME OutputsInv, player.todo # <<>>, NEW o \in Outputs, Head(player.todo).o = o,
         NEW b \in Output, NEW more, NEW opened \in BOOLEAN, NEW failed,
         Steps(o, b, more, opened, failed), failed \subseteq {"command_none", "same_pipe"},
         \/ more = <<Step("await", o)>> /\ Head(player.todo).op \in {"enable", "update", "close"}
         \/ more = <<Step("await", o), Step("result", o)>> /\ Head(player.todo).op = "update",
         OutputOK(o, b, mp, sent, player')
  PROVE  OutputsInv'
<1>1. /\ TodoOK(more \o Tail(player.todo))
      /\ Elements(more \o Tail(player.todo)) =
           Elements(more) \cup (Elements(player.todo) \ {Head(player.todo)})
      /\ \A x \in Elements(more) : x = Step("await", o) \/ x = Step("result", o)
  BY AwaitInFront
<1>2. \A x \in Elements(more) : x.o = o /\ x.op \in {"await", "result", "close"}
  BY <1>1, StepsAreSteps
<1> QED BY <1>1, <1>2, PlayerChanges

\* The player only sends commands to outputs that have none.
LEMMA ReadyForCommand ==
  ASSUME OutputsInv, player.todo # <<>>, NEW o \in Outputs, NEW h, h = Head(player.todo),
         h.o = o, h.op \in Commanding
  PROVE  /\ ao[o].open => ao[o].command = "NONE" /\ ao[o].pc # "exec"
         /\ Has(player, h.op, o) /\ ~Has(player, "await", o)
<1>1. TodoOK(player.todo) /\ AwaitOK(o, ao[o], player) /\ CommandOK(ao[o])
  BY OutputFacts
<1>2. h \in StepSet /\ h \in Elements(player.todo)
  BY <1>1, NextStep
<1>3. Has(player, h.op, o)
  BY <1>2, StepIsRecord DEF Has
<1>4. ~Has(player, "await", o)
  BY <1>1, WhatFollows DEF Commanding
<1> QED BY <1>1, <1>3, <1>4 DEF AwaitOK, CommandOK

LEMMA AsyncOutput ==
  ASSUME NEW a \in Output, NEW command \in Commands
  PROVE  LET b == Async(a, command) IN
         /\ b \in Output
         /\ b.command = command /\ b.pc # "wait"
         /\ b.pc = a.pc \/ (a.pc = "wait" /\ b.pc = "top")
         /\ b.open = a.open /\ b.really_enabled = a.really_enabled
         /\ b.allow_play = a.allow_play /\ b.pause = a.pause /\ b.chunk = a.chunk
         /\ b.chunk_finished = a.chunk_finished /\ b.in_playback_loop = a.in_playback_loop
         /\ b.woken_for_play = a.woken_for_play /\ b.pipe = a.pipe /\ b.failed = a.failed
         /\ b.format = a.format /\ b.last = a.last
  BY DEF Async, Signalled, Output, Places

LEMMA IdleAssertions ==
  ASSUME NEW a PROVE IdleAssertion(a) \subseteq {"command_none", "same_pipe"}
  BY DEF IdleAssertion, Fails

LEMMA EnableDisableStep ==
  ASSUME OutputsInv, EnableDisable
  PROVE  OutputsInv'
<1> DEFINE h == Head(player.todo)  o == h.o  a == ao[o]
           command == IF a.enabled THEN "ENABLE" ELSE "DISABLE"
           b == Async(a, command)
<1>1. player.todo # <<>> /\ h.op = "enable" /\ h \in StepSet
  BY NextStep DEF EnableDisable, Now, OutputsInv, PlayerOK
<1>2. o \in Outputs
  BY <1>1, StepIsRecord DEF OfOutput
<1>3. player.opened \in BOOLEAN
  BY DEF OutputsInv, PlayerOK
<1>4. CASE a.enabled = a.really_enabled
  <2>1. Steps(o, a, <<>>, player.opened, {})
    BY <1>4 DEF EnableDisable, Step1, Target
  <2>2. OutputOK(o, a, mp, sent, player')
    BY <1>1, <1>2, <2>1, NothingInstead, OutputFacts, LessIsLeft
  <2> QED BY <1>1, <1>2, <1>3, <2>1, <2>2, OutputFacts, StepTaken
<1>5. CASE a.enabled # a.really_enabled
  <2>1. Steps(o, b, <<Step("await", o)>>, player.opened, IdleAssertion(a))
    BY <1>5 DEF EnableDisable, Step1, Target, Command
  <2>2. command \in {"ENABLE", "DISABLE"} /\ (command = "ENABLE" => ~a.open)
    BY <1>2, <1>5, OutputFacts DEF ThreadOK, Output
  <2>3. a.open => a.command = "NONE" /\ a.pc # "exec"
    BY <1>1, <1>2, ReadyForCommand DEF Commanding
  <2> DEFINE q == player'
  <2>4. /\ q.mode = player.mode /\ TodoOK(q.todo) /\ Has(q, "await", o)
        /\ Has(q, "update", o) <=> Has(player, "update", o)
        /\ Has(q, "cancel", o) <=> Has(player, "cancel", o)
        /\ Has(q, "delete", 0) <=> Has(player, "delete", 0)
    BY <1>1, <1>2, <2>1, AwaitInstead
  <2>5. ~Has(player, "delete", 0) /\ ~Has(player, "cancel", o)
    BY <1>1, WhatFollows DEF OutputsInv, PlayerOK
  <2> HIDE DEF q, h, command, b
  <2>6. a \in Output /\ ThreadOK(a) /\ CommandOK(a) /\ PipeOK(a, mp, sent) /\ PlanOK(o, a, mp, player)
    BY <1>2, OutputFacts
  <2>7. /\ b \in Output
        /\ b.command = command /\ b.pc # "wait"
        /\ b.pc = a.pc \/ (a.pc = "wait" /\ b.pc = "top")
        /\ b.open = a.open /\ b.really_enabled = a.really_enabled
        /\ b.allow_play = a.allow_play /\ b.pause = a.pause /\ b.chunk = a.chunk
        /\ b.chunk_finished = a.chunk_finished /\ b.in_playback_loop = a.in_playback_loop
        /\ b.woken_for_play = a.woken_for_play /\ b.pipe = a.pipe /\ b.failed = a.failed
        /\ b.format = a.format /\ b.last = a.last
    BY <2>2, <2>6, AsyncOutput DEF b, Commands
  <2> HIDE DEF a
  <2>8. ThreadOK(b) /\ CommandOK(b)
    BY <2>2, <2>3, <2>6, <2>7 DEF ThreadOK, CommandOK
  <2>9. PipeOK(b, mp, sent)
    BY <2>2, <2>6, <2>7 DEF PipeOK
  <2>10. /\ b.open /\ b.format # mp.format => Has(q, "update", o)
         /\ b.open /\ b.pause => q.mode \in {"paused", "off"} \/ Has(q, "update", o)
    BY <2>3, <2>4, <2>5, <2>6, <2>7 DEF PlanOK
  <2>11. OutputOK(o, b, mp, sent, q)
    BY <2>2, <2>4, <2>5, <2>7, <2>8, <2>9, <2>10, Commanded
  <2> QED BY <1>1, <1>2, <1>3, <2>1, <2>7, <2>11, IdleAssertions, CommandSent DEF q, h
<1> QED BY <1>4, <1>5

LEMMA ResetReopenStep ==
  ASSUME OutputsInv, ResetReopen
  PROVE  OutputsInv'
<1> DEFINE h == Head(player.todo)  o == h.o  a == ao[o]
           b == [a EXCEPT !.failed = @ /\ a.open]
<1>1. player.todo # <<>> /\ h.op = "reset" /\ h \in StepSet /\ player.opened \in BOOLEAN
  BY NextStep DEF ResetReopen, Now, OutputsInv, PlayerOK
<1>2. o \in Outputs
  BY <1>1, StepIsRecord DEF OfOutput
<1>3. Steps(o, b, <<>>, player.opened, {})
  BY DEF ResetReopen, Step1, Target
<1>4. b \in Output
  BY <1>2, OutputFacts DEF Output
<1>5. ThreadOK(b) /\ CommandOK(b) /\ Alike(a, b) /\ b.pc = a.pc
  BY <1>2, OutputFacts, ZenonT(60) DEF Output, ThreadOK, CommandOK, Alike
<1> HIDE DEF b
<1>6. OutputOK(o, b, mp, sent, player)
  BY <1>2, <1>5, OutputFacts, OnlyMoves
<1>7. OutputOK(o, b, mp, sent, player')
  BY <1>1, <1>2, <1>3, <1>6, NothingInstead, LessIsLeft
<1> QED BY <1>1, <1>2, <1>3, <1>4, <1>7, StepTaken

LEMMA OpenResultStep ==
  ASSUME OutputsInv, OpenResult
  PROVE  OutputsInv'
<1> DEFINE h == Head(player.todo)  o == h.o  a == ao[o]
           opened == player.opened \/ a.open
<1>1. player.todo # <<>> /\ h.op = "result" /\ h \in StepSet /\ player.opened \in BOOLEAN
  BY NextStep DEF OpenResult, Now, OutputsInv, PlayerOK
<1>2. o \in Outputs
  BY <1>1, StepIsRecord DEF OfOutput
<1>3. Steps(o, a, <<>>, opened, {})
  BY DEF OpenResult, Target
<1>4. opened \in BOOLEAN
  BY <1>1, <1>2, OutputFacts DEF Output
<1> HIDE DEF opened
<1>5. OutputOK(o, a, mp, sent, player')
  BY <1>1, <1>2, <1>3, OutputFacts, NothingInstead, LessIsLeft
<1> QED BY <1>1, <1>2, <1>3, <1>4, <1>5, OutputFacts, StepTaken

LEMMA WakeStep ==
  ASSUME OutputsInv, Wake
  PROVE  OutputsInv'
<1> DEFINE h == Head(player.todo)  o == h.o  a == ao[o]
           wakes == a.open /\ ~a.in_playback_loop /\ ~a.woken_for_play
           c == [a EXCEPT !.woken_for_play = TRUE, !.pc = Signalled(a)]
           b == IF wakes THEN c ELSE a
           q == player'
<1>1. player.todo # <<>> /\ h.op = "wake" /\ h \in StepSet /\ player.opened \in BOOLEAN
  BY NextStep DEF Wake, Now, OutputsInv, PlayerOK
<1>2. o \in Outputs
  BY <1>1, StepIsRecord DEF OfOutput
<1>3. Steps(o, b, <<>>, player.opened, {})
  BY DEF Wake, Step1, Target
<1>4. c \in Output /\ Alike(a, c) /\ c.pc # "wait"
  BY <1>2, OutputFacts, ZenonT(60) DEF Output, Places, Signalled, Alike
<1>5. ThreadOK(c) /\ CommandOK(c)
  BY <1>2, OutputFacts, ZenonT(60) DEF Output, Signalled, ThreadOK, CommandOK
<1> HIDE DEF c
<1>6. b \in Output /\ OutputOK(o, b, mp, sent, player)
  BY <1>2, <1>4, <1>5, OutputFacts, OnlyMoves
<1>7. ~(b.pc = "wait" /\ Playable(b, mp))
  <2>1. CASE wakes
    BY <1>4, <2>1
  <2>2. CASE ~wakes
    BY <1>2, <2>2, OutputFacts DEF ThreadOK, Playable
  <2> QED BY <2>1, <2>2
<1> HIDE DEF b
<1>8. \A t, i : Has(q, t, i) <=> Has(player, t, i) /\ ~(t = "wake" /\ i = o)
  BY <1>1, <1>2, <1>3, NothingInstead
<1>9. q.mode = player.mode
  BY <1>1, <1>2, <1>3, NothingInstead
<1> HIDE DEF q
<1>10. AwaitOK(o, b, q) /\ PlanOK(o, b, mp, q) /\ ShiftOK(b, mp, q)
  <2>1. AwaitOK(o, b, q)
    BY <1>6, <1>8 DEF OutputOK, AwaitOK
  <2>2. PlanOK(o, b, mp, q)
    BY <1>6, <1>8, <1>9 DEF OutputOK, PlanOK
  <2>3. ShiftOK(b, mp, q)
    BY <1>6, <1>8 DEF OutputOK, ShiftOK
  <2> QED BY <2>1, <2>2, <2>3
<1>11. OutputOK(o, b, mp, sent, q)
  BY <1>6, <1>7, <1>10 DEF OutputOK, SleepOK
<1> QED BY <1>1, <1>2, <1>3, <1>6, <1>11, StepTaken DEF q

LEMMA CloseOutputStep ==
  ASSUME OutputsInv, player.todo # <<>>, NEW h, h = Head(player.todo),
         h.op \in {"update", "close"}, h.o \in Outputs, CloseOutput(h.o)
  PROVE  OutputsInv'
<1> DEFINE o == h.o  a == ao[o]  q == player'
<1>1. player.opened \in BOOLEAN
  BY DEF OutputsInv, PlayerOK
<1>2. a \in Output /\ OutputOK(o, a, mp, sent, player)
      /\ ThreadOK(a) /\ CommandOK(a) /\ PipeOK(a, mp, sent) /\ PlanOK(o, a, mp, player)
  BY OutputFacts
<1>3. CASE a.open
  <2> DEFINE b == Async(a, "CLOSE")
  <2>1. Steps(o, b, <<Step("await", o)>>, player.opened, IdleAssertion(a))
    BY <1>3 DEF CloseOutput, Step1, Command
  <2>2. a.command = "NONE" /\ a.pc # "exec"
    BY <1>3, ReadyForCommand DEF Commanding
  <2>3. q.mode = player.mode /\ TodoOK(q.todo) /\ Has(q, "await", o)
    BY <2>1, AwaitInstead
  <2> HIDE DEF q
  <2>4. /\ b \in Output /\ b.command = "CLOSE" /\ b.pc # "wait"
        /\ b.pc = a.pc \/ (a.pc = "wait" /\ b.pc = "top")
        /\ b.open = a.open /\ b.really_enabled = a.really_enabled
        /\ b.allow_play = a.allow_play /\ b.pause = a.pause /\ b.chunk = a.chunk
        /\ b.chunk_finished = a.chunk_finished /\ b.in_playback_loop = a.in_playback_loop
        /\ b.woken_for_play = a.woken_for_play /\ b.pipe = a.pipe /\ b.failed = a.failed
        /\ b.format = a.format /\ b.last = a.last
    <3>1. a \in Output /\ "CLOSE" \in Commands
      BY <1>2 DEF Commands
    <3> HIDE DEF a
    <3> QED BY <3>1, AsyncOutput
  <2> HIDE DEF a, b
  <2>5. ThreadOK(b) /\ CommandOK(b) /\ PipeOK(b, mp, sent)
    BY <1>2, <2>2, <2>4 DEF ThreadOK, CommandOK, PipeOK
  <2>6. OutputOK(o, b, mp, sent, q)
    BY <2>3, <2>4, <2>5, Commanded
  <2> QED BY <1>1, <2>1, <2>4, <2>6, IdleAssertions, CommandSent DEF q
<1>4. CASE ~a.open
  <2> DEFINE b == [a EXCEPT !.failed = FALSE]
  <2>1. Steps(o, b, <<>>, player.opened, {})
    BY <1>4 DEF CloseOutput, Step1
  <2>2. \A t, i : Has(q, t, i) <=> Has(player, t, i) /\ ~(t = h.op /\ i = o)
    BY <2>1, NothingInstead
  <2> HIDE DEF q
  <2>3. b \in Output /\ ThreadOK(b) /\ CommandOK(b) /\ ~b.open /\ b.command = a.command
        /\ b.last = a.last /\ b.format = a.format
    BY <1>2, <1>4 DEF Output, ThreadOK, CommandOK
  <2> HIDE DEF a, b
  <2>4. OutputOK(o, b, mp, sent, q)
    BY <1>2, <1>4, <2>2, <2>3, NothingToDo
  <2> QED BY <1>1, <2>1, <2>3, <2>4, StepTaken DEF q
<1> QED BY <1>3, <1>4

LEMMA CloseStep ==
  ASSUME OutputsInv, Close
  PROVE  OutputsInv'
<1> DEFINE h == Head(player.todo)
<1>1. player.todo # <<>> /\ h.op = "close" /\ h \in StepSet /\ CloseOutput(h.o)
  BY NextStep DEF Close, Now, Target, OutputsInv, PlayerOK
<1>2. h.o \in Outputs
  BY <1>1, StepIsRecord DEF OfOutput
<1> QED BY <1>1, <1>2, CloseOutputStep

LEMMA OpenOutputStep ==
  ASSUME OutputsInv, player.todo # <<>>, NEW h, h = Head(player.todo), h.op = "update",
         NEW o \in Outputs, o = h.o, mp.format # None, ao[o].really_enabled, OpenOutput(o)
  PROVE  OutputsInv'
<1> DEFINE a == ao[o]  q == player'
           c == [a EXCEPT !.failed = FALSE]
           d == [c EXCEPT !.chunk = None, !.pipe = "g_mp"]
<1>1. player.opened \in BOOLEAN /\ ~mp.null /\ mp.format \in Formats /\ TodoOK(player.todo)
  BY DEF OutputsInv, PlayerOK, ChunksOK
<1>2. a \in Output /\ OutputOK(o, a, mp, sent, player)
      /\ ThreadOK(a) /\ CommandOK(a) /\ PipeOK(a, mp, sent) /\ PlanOK(o, a, mp, player)
  BY OutputFacts
<1>3. a.open => a.command = "NONE" /\ a.pc # "exec"
  BY ReadyForCommand DEF Commanding
<1>4. \A t \in {"delete", "cancel", "clear", "shift"} : \A i : ~Has(player, t, i)
  BY <1>1, WhatFollows
<1>5. /\ c \in Output /\ d \in Output
      /\ c.open = a.open /\ c.pause = a.pause /\ c.format = a.format
      /\ d.command = a.command /\ d.open = a.open /\ d.pc = a.pc
      /\ d.really_enabled = a.really_enabled
      /\ d.allow_play = a.allow_play /\ d.pause = a.pause /\ d.chunk = None
      /\ d.chunk_finished = a.chunk_finished /\ d.in_playback_loop = a.in_playback_loop
      /\ d.woken_for_play = a.woken_for_play /\ d.pipe = "g_mp" /\ d.failed = FALSE
      /\ d.format = a.format /\ d.last = a.last
  BY <1>2, ZenonT(60) DEF Output, None
<1>5a. c \in Output /\ d \in Output
  BY <1>5
<1>6. CASE a.open /\ a.format = mp.format /\ a.pause
  <2> DEFINE b == Async(d, "CANCEL")
             failed == IdleAssertion(c) \cup SamePipe(o)
  <2>1. Steps(o, b, <<Step("await", o)>>, TRUE, failed)
    BY <1>5, <1>6 DEF OpenOutput
  <2>2. failed \subseteq {"command_none", "same_pipe"}
    BY DEF IdleAssertion, SamePipe, Fails
  <2> HIDE DEF failed
  <2>3. q.mode = player.mode /\ TodoOK(q.todo) /\ Has(q, "await", o)
        /\ (Has(q, "delete", 0) <=> Has(player, "delete", 0))
    BY <2>1, AwaitInstead, ZenonT(60)
  <2> HIDE DEF q, c, d
  <2>4. /\ b \in Output /\ b.command = "CANCEL" /\ b.pc # "wait"
        /\ b.pc = d.pc \/ (d.pc = "wait" /\ b.pc = "top")
        /\ b.open = d.open /\ b.really_enabled = d.really_enabled
        /\ b.allow_play = d.allow_play /\ b.pause = d.pause /\ b.chunk = d.chunk
        /\ b.chunk_finished = d.chunk_finished /\ b.in_playback_loop = d.in_playback_loop
        /\ b.woken_for_play = d.woken_for_play /\ b.pipe = d.pipe /\ b.failed = d.failed
        /\ b.format = d.format /\ b.last = d.last
    BY <1>5a, AsyncOutput DEF Commands
  <2> HIDE DEF a, b
  <2>5. a.pc # "plugin_play"
    BY <1>2, <1>6 DEF ThreadOK
  <2>6. ThreadOK(b) /\ CommandOK(b)
    BY <1>2, <1>3, <1>5, <1>6, <2>4, <2>5 DEF ThreadOK, CommandOK
  <2>7. PipeOK(b, mp, sent)
    BY <1>1, <1>2, <1>5, <1>6, <2>4 DEF PipeOK
  <2>8. OutputOK(o, b, mp, sent, q)
    BY <1>4, <1>5, <1>6, <2>3, <2>4, <2>6, <2>7, Commanded
  <2> QED BY <2>1, <2>2, <2>4, <2>8, CommandSent DEF q
<1>7. CASE a.open /\ a.format = mp.format /\ ~a.pause
  <2>1. Steps(o, c, <<>>, TRUE, SamePipe(o))
    BY <1>5, <1>7 DEF OpenOutput
  <2>2. SamePipe(o) \subseteq {"command_none", "same_pipe"}
    BY DEF SamePipe, Fails
  <2>4. ThreadOK(c) /\ CommandOK(c) /\ Alike(a, c) /\ c.pc = a.pc
    BY <1>2, <1>7 DEF Output, ThreadOK, CommandOK, Alike
  <2> HIDE DEF c
  <2>3. \A t, i : Has(q, t, i) <=> Has(player, t, i) /\ ~(t = h.op /\ i = o)
    BY <2>1, NothingInstead, ZenonT(60)
  <2>3a. q.mode = player.mode
    BY <2>1, NothingInstead
  <2> HIDE DEF q
  <2>5. OutputOK(o, c, mp, sent, player)
    BY <1>2, <2>4, OnlyMoves
  <2>6. c.open /\ c.format = mp.format /\ ~c.pause /\ c.command = "NONE"
    BY <1>3, <1>5, <1>7, <2>4 DEF Alike
  <2>7. AwaitOK(o, c, q) /\ PlanOK(o, c, mp, q)
    BY <1>4, <2>3, <2>3a, <2>6 DEF AwaitOK, PlanOK, Single
  <2>8. ShiftOK(c, mp, q) /\ SleepOK(o, c, mp, q)
    BY <2>3, <2>5 DEF OutputOK, ShiftOK, SleepOK
  <2>9. OutputOK(o, c, mp, sent, q)
    BY <2>5, <2>7, <2>8 DEF OutputOK
  <2> QED BY <1>5, <2>1, <2>2, <2>9, StepTaken DEF q
<1>8. CASE ~(a.open /\ a.format = mp.format)
  <2> DEFINE e == [d EXCEPT !.format = mp.format]
             command == IF a.open THEN "REOPEN" ELSE "OPEN"
             more == <<Step("await", o), Step("result", o)>>
             b == Async(e, command)
  <2>1. Steps(o, b, more, player.opened, IdleAssertion(c))
    BY <1>5, <1>8 DEF OpenOutput, Step1
  <2> HIDE DEF c, d
  <2>2. e \in Output /\ e.format = mp.format
        /\ e.command = a.command /\ e.open = a.open /\ e.pc = a.pc
        /\ e.really_enabled = a.really_enabled
        /\ e.allow_play = a.allow_play /\ e.pause = a.pause /\ e.chunk = None
        /\ e.chunk_finished = a.chunk_finished /\ e.in_playback_loop = a.in_playback_loop
        /\ e.woken_for_play = a.woken_for_play /\ e.pipe = "g_mp" /\ e.failed = FALSE
        /\ e.last = a.last
    BY <1>1, <1>5 DEF Output
  <2>2a. e \in Output /\ command \in Commands
    BY <2>2 DEF Commands
  <2>3. q.mode = player.mode /\ TodoOK(q.todo) /\ Has(q, "await", o)
        /\ (Has(q, "delete", 0) <=> Has(player, "delete", 0))
    BY <2>1, AwaitInstead
  <2> HIDE DEF q, e
  <2>4. /\ b \in Output /\ b.command = command /\ b.pc # "wait"
        /\ b.pc = e.pc \/ (e.pc = "wait" /\ b.pc = "top")
        /\ b.open = e.open /\ b.really_enabled = e.really_enabled
        /\ b.allow_play = e.allow_play /\ b.pause = e.pause /\ b.chunk = e.chunk
        /\ b.chunk_finished = e.chunk_finished /\ b.in_playback_loop = e.in_playback_loop
        /\ b.woken_for_play = e.woken_for_play /\ b.pipe = e.pipe /\ b.failed = e.failed
        /\ b.format = e.format /\ b.last = e.last
    <3> HIDE DEF command
    <3> QED BY <2>2a, AsyncOutput
  <2> HIDE DEF a, b
  <2>5. a.open => mp.chunks = <<>> /\ ~a.pause /\ a.format # mp.format /\ a.chunk = None
    <3>1. mp.chunks = <<>> => ~InPipe(a.chunk, mp)
      BY DEF InPipe
    <3> QED BY <1>2, <1>8, <3>1 DEF PipeOK
  <2>6. a.pc # "plugin_play"
    BY <1>2, <2>5 DEF ThreadOK
  <2>7. ThreadOK(b) /\ CommandOK(b)
    BY <1>2, <1>3, <2>2, <2>4, <2>5, <2>6 DEF ThreadOK, CommandOK
  <2>8. PipeOK(b, mp, sent)
    BY <1>1, <1>2, <2>2, <2>4, <2>5 DEF PipeOK
  <2>9. OutputOK(o, b, mp, sent, q)
    BY <1>4, <2>2, <2>3, <2>4, <2>5, <2>7, <2>8, Commanded
  <2> QED BY <1>1, <2>1, <2>4, <2>9, IdleAssertions, CommandSent DEF q
<1> QED BY <1>6, <1>7, <1>8

LEMMA UpdateStep ==
  ASSUME OutputsInv, Update
  PROVE  OutputsInv'
<1> DEFINE h == Head(player.todo)  o == h.o  a == ao[o]  q == player'
<1>1. player.todo # <<>> /\ h.op = "update" /\ h \in StepSet /\ player.opened \in BOOLEAN
  BY NextStep DEF Update, Now, OutputsInv, PlayerOK
<1>2. o \in Outputs
  BY <1>1, StepIsRecord DEF OfOutput
<1>3. a \in Output /\ OutputOK(o, a, mp, sent, player) /\ ThreadOK(a) /\ CommandOK(a)
      /\ PipeOK(a, mp, sent)
  BY <1>2, OutputFacts
<1>4. CASE mp.format # None /\ a.really_enabled /\ OpenOutput(o)
  BY <1>1, <1>2, <1>4, OpenOutputStep
<1>5. CASE CloseOutput(o)
  BY <1>1, <1>2, <1>5, CloseOutputStep
<1>6. CASE ~a.open /\ Step1(o, a, <<>>, {})
  <2>1. Steps(o, a, <<>>, player.opened, {})
    BY <1>6 DEF Step1
  <2>2. \A t, i : Has(q, t, i) <=> Has(player, t, i) /\ ~(t = h.op /\ i = o)
    BY <1>1, <1>2, <2>1, NothingInstead
  <2> HIDE DEF q
  <2>3. OutputOK(o, a, mp, sent, q)
    BY <1>1, <1>3, <1>6, <2>2, NothingToDo
  <2> QED BY <1>1, <1>2, <1>3, <2>1, <2>3, StepTaken DEF q
<1>7. mp.format = None => ~a.open
  BY <1>3, OutputsAssumption DEF OutputsInv, ChunksOK, PipeOK
<1>8. a.failed => ~a.open
  BY <1>3 DEF ThreadOK
<1> QED BY <1>4, <1>5, <1>6, <1>7, <1>8 DEF Update, Target

\* A command is sent to all open outputs, and then waited for.
LEMMA SendStep ==
  ASSUME OutputsInv, NEW op, NEW command, NEW v \in BOOLEAN,
         <<op, command>> \in {<<"pause", "PAUSE">>, <<"drain", "DRAIN">>, <<"cancel", "CANCEL">>},
         player.todo # <<>>, NEW h, h = Head(player.todo), h.op = op, NEW o \in Outputs, h.o = o,
         v = IF op = "cancel" THEN ao[o].allow_play /\ ~ao[o].open ELSE ao[o].allow_play,
         Send(op, command, [ao[o] EXCEPT !.allow_play = v])
  PROVE  OutputsInv'
<1> DEFINE a == ao[o]  q == player'
           c == [a EXCEPT !.allow_play = v]
<1>1. player.opened \in BOOLEAN /\ TodoOK(player.todo) /\ PlayerOK(player, mp, sent)
  BY DEF OutputsInv, PlayerOK
<1>2. a \in Output /\ OutputOK(o, a, mp, sent, player)
      /\ ThreadOK(a) /\ CommandOK(a) /\ PipeOK(a, mp, sent) /\ PlanOK(o, a, mp, player)
  BY OutputFacts
<1>3. op \in {"pause", "drain", "cancel"}
      /\ (op = "pause" <=> command = "PAUSE") /\ (op = "drain" <=> command = "DRAIN")
      /\ (op = "cancel" <=> command = "CANCEL") /\ command \in {"PAUSE", "DRAIN", "CANCEL"}
  OBVIOUS
<1>4. (a.open => a.command = "NONE" /\ a.pc # "exec") /\ Has(player, op, o)
  BY <1>3, ReadyForCommand DEF Commanding
<1>5. \A t, i : Has(player, t, i) =>
        \/ op = "pause" /\ t \in {"pause", "await_all"}
        \/ op = "drain" /\ t \in {"drain", "await_all"}
        \/ op = "cancel" /\ t \in {"cancel", "await_all", "clear", "allow"}
  BY <1>1, <1>3, WhatFollows
<1>6. Doing(player, {op})
  BY <1>4, StepsAreSteps DEF Doing, Has
<1>7. /\ op = "pause" => player.mode \in {"paused", "off"}
      /\ op = "drain" => mp.chunks = <<>>
      /\ Has(player, "await_all", 0)
  <2>1. Doing(player, {"pause", "drain", "cancel"})
    BY <1>3, <1>6 DEF Doing
  <2> QED BY <1>1, <1>6, <2>1 DEF PlayerOK
<1>8. /\ c \in Output
      /\ c.command = a.command /\ c.open = a.open /\ c.pc = a.pc /\ c.allow_play = v
      /\ c.really_enabled = a.really_enabled /\ c.pause = a.pause /\ c.chunk = a.chunk
      /\ c.chunk_finished = a.chunk_finished /\ c.in_playback_loop = a.in_playback_loop
      /\ c.woken_for_play = a.woken_for_play /\ c.pipe = a.pipe /\ c.failed = a.failed
      /\ c.format = a.format /\ c.last = a.last
  BY <1>2 DEF Output
<1>9. c \in Output
  BY <1>8
<1> HIDE DEF c
<1>10. CASE a.open
  <2> DEFINE b == Async(c, command)
  <2>1. Steps(o, b, <<>>, player.opened, IdleAssertion(c))
    BY <1>8, <1>10 DEF Send, Step1, Target, c
  <2>2. /\ \A t, i : Has(q, t, i) <=> Has(player, t, i) /\ ~(t = op /\ i = o)
        /\ q.mode = player.mode
    BY <2>1, NothingInstead
  <2> HIDE DEF q
  <2>3. command \in Commands
    BY <1>3 DEF Commands
  <2>4. /\ b \in Output /\ b.command = command /\ b.pc # "wait"
        /\ b.pc = c.pc \/ (c.pc = "wait" /\ b.pc = "top")
        /\ b.open = c.open /\ b.really_enabled = c.really_enabled
        /\ b.allow_play = c.allow_play /\ b.pause = c.pause /\ b.chunk = c.chunk
        /\ b.chunk_finished = c.chunk_finished /\ b.in_playback_loop = c.in_playback_loop
        /\ b.woken_for_play = c.woken_for_play /\ b.pipe = c.pipe /\ b.failed = c.failed
        /\ b.format = c.format /\ b.last = c.last
    BY <1>9, <2>3, AsyncOutput
  <2> HIDE DEF a, b
  <2>5. ThreadOK(b) /\ CommandOK(b)
    BY <1>2, <1>3, <1>4, <1>8, <1>10, <2>4 DEF ThreadOK, CommandOK
  <2>6. a.format = mp.format
    BY <1>2, <1>3, <1>4, <1>5, <1>10 DEF PlanOK
  <2>7. PipeOK(b, mp, sent)
    BY <1>2, <1>3, <1>7, <1>8, <2>4, <2>6 DEF PipeOK
  <2>8. AwaitOK(o, b, q)
    <3>1. \A t \in Commanding : ~Has(q, t, o)
      BY <1>3, <1>5, <2>2 DEF Commanding
    <3>2. Has(q, "await_all", 0)
      BY <1>3, <1>7, <2>2
    <3>3. b.command \notin Single
      BY <1>3, <2>4 DEF Single
    <3> QED BY <3>1, <3>2, <3>3 DEF AwaitOK
  <2>9. PlanOK(o, b, mp, q)
    <3>1. b.format = mp.format /\ ~Has(q, "delete", 0)
      BY <1>3, <1>5, <1>8, <2>2, <2>4, <2>6
    <3>2. a.pause => q.mode \in {"paused", "off"} \/ b.command = "CANCEL"
      BY <1>2, <1>3, <1>4, <1>5, <1>10, <2>2, <2>4 DEF PlanOK
    <3>3. b.command = "PAUSE" => q.mode \in {"paused", "off"}
      BY <1>3, <1>7, <2>2, <2>4
    <3>4. Has(q, "clear", 0) => ~b.allow_play /\ b.command = "CANCEL"
      <4>1. Has(q, "clear", 0) => op = "cancel"
        BY <1>3, <1>5, <2>2
      <4>2. op = "cancel" => ~v
        BY <1>10 DEF a
      <4> QED BY <1>3, <1>8, <2>4, <4>1, <4>2
    <3> QED BY <1>8, <2>4, <3>1, <3>2, <3>3, <3>4 DEF PlanOK
  <2>10. ShiftOK(b, mp, q) /\ SleepOK(o, b, mp, q)
    BY <1>3, <1>5, <2>2, <2>4 DEF ShiftOK, SleepOK
  <2>11. OutputOK(o, b, mp, sent, q)
    BY <2>5, <2>7, <2>8, <2>9, <2>10 DEF OutputOK
  <2> QED BY <1>1, <2>1, <2>4, <2>11, IdleAssertions, StepTaken DEF q
<1>11. CASE ~a.open
  <2>1. Steps(o, c, <<>>, player.opened, {})
    BY <1>8, <1>11 DEF Send, Step1, Target, c
  <2>2. \A t, i : Has(q, t, i) <=> Has(player, t, i) /\ ~(t = op /\ i = o)
    BY <2>1, NothingInstead
  <2> HIDE DEF q, a
  <2>3. ThreadOK(c) /\ CommandOK(c)
    BY <1>2, <1>8 DEF ThreadOK, CommandOK
  <2>4. OutputOK(o, c, mp, sent, q)
    BY <1>2, <1>3, <1>8, <1>11, <2>2, <2>3, NothingToDo
  <2> QED BY <1>1, <1>9, <2>1, <2>4, StepTaken DEF q
<1> QED BY <1>10, <1>11

LEMMA SendSteps ==
  ASSUME OutputsInv, PauseOutput \/ DrainOutput \/ CancelOutput
  PROVE  OutputsInv'
<1> DEFINE h == Head(player.todo)  o == h.o  a == ao[o]
<1>1. player.todo # <<>> /\ h.op \in {"pause", "drain", "cancel"} /\ h \in StepSet
  BY NextStep DEF PauseOutput, DrainOutput, CancelOutput, Send, Now, OutputsInv, PlayerOK
<1>2. o \in Outputs
  BY <1>1, StepIsRecord DEF OfOutput
<1>3. a \in Output
  BY <1>2, OutputFacts
<1>4. a = [a EXCEPT !.allow_play = a.allow_play] /\ a.allow_play \in BOOLEAN
  BY <1>3 DEF Output
<1>5. CASE PauseOutput
  <2>1. Send("pause", "PAUSE", [a EXCEPT !.allow_play = a.allow_play]) /\ h.op = "pause"
    BY <1>4, <1>5 DEF PauseOutput, Target, Send, Now
  <2> QED BY <1>1, <1>2, <1>4, <2>1, SendStep
<1>6. CASE DrainOutput
  <2>1. Send("drain", "DRAIN", [a EXCEPT !.allow_play = a.allow_play]) /\ h.op = "drain"
    BY <1>4, <1>6 DEF DrainOutput, Target, Send, Now
  <2> QED BY <1>1, <1>2, <1>4, <2>1, SendStep
<1>7. CASE CancelOutput
  <2> DEFINE v == a.allow_play /\ ~a.open
  <2>1. Send("cancel", "CANCEL", [a EXCEPT !.allow_play = v]) /\ h.op = "cancel"
    BY <1>7 DEF CancelOutput, Target, Send, Now
  <2>2. v \in BOOLEAN
    BY <1>3 DEF Output
  <2> QED BY <1>1, <1>2, <2>1, <2>2, SendStep
<1> QED BY <1>5, <1>6, <1>7

LEMMA AllowPlayStep ==
  ASSUME OutputsInv, AllowPlay
  PROVE  OutputsInv'
<1> DEFINE h == Head(player.todo)  o == h.o  a == ao[o]  q == player'
           pc == IF a.open THEN Signalled(a) ELSE a.pc
           b == [a EXCEPT !.allow_play = TRUE, !.pc = pc]
<1>1. player.todo # <<>> /\ h.op = "allow" /\ h \in StepSet /\ player.opened \in BOOLEAN
      /\ TodoOK(player.todo)
  BY NextStep DEF AllowPlay, Now, OutputsInv, PlayerOK
<1>2. o \in Outputs
  BY <1>1, StepIsRecord DEF OfOutput
<1>3. a \in Output /\ OutputOK(o, a, mp, sent, player)
  BY <1>2, OutputFacts
<1>4. Steps(o, b, <<>>, player.opened, {})
  BY DEF AllowPlay, Step1, Target
<1>5. /\ \A t, i : Has(q, t, i) <=> Has(player, t, i) /\ ~(t = "allow" /\ i = o)
      /\ q.mode = player.mode
  <2> HIDE DEF b
  <2> QED BY <1>1, <1>2, <1>4, NothingInstead
<1>6. ~Has(player, "clear", 0)
  BY <1>1, WhatFollows
<1>7. pc \in Places /\ (pc = a.pc \/ (pc = "top" /\ a.pc = "wait")) /\ (a.open => pc # "wait")
  BY <1>3 DEF Output, Places, Signalled
<1> HIDE DEF q, a, pc
<1>8. /\ b \in Output /\ b.pc = pc
      /\ b.command = a.command /\ b.open = a.open
      /\ b.really_enabled = a.really_enabled /\ b.pause = a.pause /\ b.chunk = a.chunk
      /\ b.chunk_finished = a.chunk_finished /\ b.in_playback_loop = a.in_playback_loop
      /\ b.woken_for_play = a.woken_for_play /\ b.pipe = a.pipe /\ b.failed = a.failed
      /\ b.format = a.format /\ b.last = a.last
  BY <1>3, <1>7 DEF Output
<1> HIDE DEF b
<1>9. ThreadOK(b) /\ CommandOK(b)
  BY <1>3, <1>7, <1>8 DEF OutputOK, ThreadOK, CommandOK
<1>10. PipeOK(b, mp, sent)
  BY <1>3, <1>8 DEF OutputOK, PipeOK
<1>11. AwaitOK(o, b, q)
  BY <1>3, <1>5, <1>8 DEF OutputOK, AwaitOK
<1>12. PlanOK(o, b, mp, q)
  BY <1>3, <1>5, <1>6, <1>8 DEF OutputOK, PlanOK
<1>13. ShiftOK(b, mp, q) /\ SleepOK(o, b, mp, q)
  BY <1>3, <1>5, <1>7, <1>8 DEF OutputOK, ShiftOK, SleepOK, Playable
<1>14. OutputOK(o, b, mp, sent, q)
  BY <1>9, <1>10, <1>11, <1>12, <1>13 DEF OutputOK
<1> QED BY <1>1, <1>2, <1>4, <1>8, <1>14, StepTaken DEF q

\* No output is always on: audio_output_release() closes it.
LEMMA ReleaseStep ==
  ASSUME OutputsInv, Release, AlwaysOn = {}
  PROVE  OutputsInv'
<1> DEFINE h == Head(player.todo)  o == h.o  a == ao[o]  q == player'
           x == Step("close", o)  rest == Tail(player.todo)
<1>1. player.todo # <<>> /\ h.op = "release" /\ h \in StepSet /\ player.opened \in BOOLEAN
      /\ TodoOK(player.todo)
  BY NextStep DEF Release, Now, OutputsInv, PlayerOK
<1>2. o \in Outputs
  BY <1>1, StepIsRecord DEF OfOutput
<1>3. a \in Output /\ OutputOK(o, a, mp, sent, player)
  BY <1>2, OutputFacts
<1>4. Steps(o, a, <<x>>, player.opened, {})
  <2>1. Goes(<<x>> \o rest)
    BY DEF Release, Target
  <2>2. ao' = [ao EXCEPT ![o] = a]
    BY <2>1 DEF Goes, OutputsInv
  <2>3. player' = [player EXCEPT !.todo = <<x>> \o Tail(@), !.opened = player.opened]
    BY <2>1 DEF Goes, OutputsInv, PlayerOK
  <2> QED BY <2>1, <2>2, <2>3 DEF Goes, Steps
<1>5. /\ TodoOK(rest) /\ Elements(rest) = Elements(player.todo) \ {h}
      /\ \A y \in Elements(rest) :
           y \in StepSet /\ Together(h, y) /\ Rank(h.op) <= Rank(y.op)
  BY <1>1, NextStep
<1>6. x.op = "close" /\ x.o = o /\ x \in StepSet /\ h = Step("release", o)
  BY <1>1, <1>2, StepsAreSteps, StepIsRecord DEF OfOutput
<1> HIDE DEF h, x, rest
<1>7. TodoOK(<<x>>) /\ Elements(<<x>>) = {x}
  <2>1. Together(x, x)
    BY <1>6 DEF Together, Operations
  <2> QED BY <1>6, <2>1, OneStep
<1>8. \A y \in Elements(rest) :
        Together(x, y) /\ Together(y, x) /\ Rank(x.op) <= Rank(y.op) /\ x # y
  <2> TAKE y \in Elements(rest)
  <2>1. PICK ops \in Operations : h.op \in ops /\ y.op \in ops
    BY <1>5 DEF Together
  <2>2. ~(y.op = "close" /\ y.o = o)
    BY <1>1, <1>5 DEF Together, o
  <2>3. y # h /\ y \in StepSet
    BY <1>5
  <2>4. ~(y.op = "release" /\ y.o = o)
    BY <1>6, <2>3, StepIsRecord
  <2>5. "close" \in ops /\ y.op \in ops
    BY <1>1, <2>1 DEF Operations
  <2>6. Together(x, y) /\ Together(y, x)
    BY <1>6, <2>2, <2>4, <2>5 DEF Together
  <2>7. Rank(x.op) = Rank(h.op)
    BY <1>1, <1>6 DEF Rank
  <2> QED BY <1>5, <1>6, <2>2, <2>6, <2>7
<1>9. TodoOK(<<x>> \o rest) /\ Elements(<<x>> \o rest) = Elements(<<x>>) \cup Elements(rest)
  BY <1>5, <1>7, <1>8, StepsThenSteps
<1>10. /\ q.mode = player.mode
       /\ \A t, i : Has(q, t, i) <=>
            Step(t, i) = x \/ (Has(player, t, i) /\ ~(t = "release" /\ i = o))
  BY <1>1, <1>2, <1>4, <1>5, <1>7, <1>9, LeftAfter DEF h, rest
<1>11. \A t, i : Step(t, i) = x <=> t = "close" /\ i = o
  BY StepsAreSteps DEF x
<1>12. Has(player, "release", o) /\ (a.open => a.command = "NONE")
  BY <1>1, <1>2, ReadyForCommand DEF Commanding, h
<1>13. \A t \in {"await", "update", "cancel", "clear", "shift", "wake"} : \A i : ~Has(player, t, i)
  <2>1. \A t, i : Has(player, t, i) => t \in {"release", "close", "delete"}
    BY <1>1, WhatFollows DEF h
  <2> QED BY <2>1
<1> HIDE DEF q
<1>14. OutputOK(o, a, mp, sent, q)
  <2>1. AwaitOK(o, a, q)
    BY <1>3, <1>12, <1>13 DEF OutputOK, AwaitOK
  <2>2. PlanOK(o, a, mp, q)
    <3>1. Has(q, "close", o) /\ ~Has(q, "clear", 0)
      BY <1>10, <1>11, <1>13
    <3>2. Has(q, "delete", 0) => Has(player, "delete", 0)
      BY <1>10, <1>11
    <3> QED BY <1>3, <1>10, <1>12, <1>13, <3>1, <3>2 DEF OutputOK, PlanOK
  <2>3. ShiftOK(a, mp, q) /\ SleepOK(o, a, mp, q)
    BY <1>3, <1>10, <1>11, <1>13 DEF OutputOK, ShiftOK, SleepOK
  <2> QED BY <1>3, <2>1, <2>2, <2>3 DEF OutputOK
<1>15. \A y \in Elements(<<x>>) : y.o = o /\ y.op \in {"await", "result", "close"}
  BY <1>6, <1>7
<1> QED
  BY <1>1, <1>2, <1>3, <1>4, <1>5, <1>9, <1>14, <1>15, PlayerChanges DEF q, h, rest

-----------------------------------------------------------------------------
(* The player's steps with the pipe, and with all outputs.                 *)

\* What the proof of such a step starts from.
LEMMA NextIs ==
  ASSUME OutputsInv, NEW op, Now(op), NEW h, h = Head(player.todo)
  PROVE  /\ player.todo # <<>> /\ h.op = op /\ Has(player, op, h.o) /\ h = Step(op, h.o)
         /\ TodoOK(player.todo) /\ PlayerOK(player, mp, sent) /\ ChunksOK(mp, sent)
         /\ op \in OfPlayer => h.o = 0
         /\ op \in OfOutput => h.o \in Outputs
         /\ player.mode \in {"off", "opening", "on", "paused"} /\ player.opened \in BOOLEAN
         /\ player = [mode |-> player.mode, todo |-> player.todo, opened |-> player.opened]
<1>1. player.todo # <<>> /\ h.op = op /\ TodoOK(player.todo)
  BY DEF Now, OutputsInv, PlayerOK
<1>2. h \in StepSet /\ h \in Elements(player.todo)
  BY <1>1, NextStep
<1>3. h = Step(op, h.o) /\ (op \in OfPlayer => h.o = 0) /\ (op \in OfOutput => h.o \in Outputs)
  BY <1>1, <1>2, StepIsRecord
<1>4. Has(player, op, h.o)
  BY <1>2, <1>3 DEF Has
<1> QED BY <1>1, <1>3, <1>4 DEF OutputsInv, PlayerOK

LEMMA OtherSteps ==
  ASSUME NEW todo
  PROVE  OutputsInv => [player EXCEPT !.todo = todo] =
                         [mode |-> player.mode, todo |-> todo, opened |-> player.opened]
  <1>1. OutputsInv =>
          player \in [mode : {"off", "opening", "on", "paused"}, todo : Seq(StepSet), opened : BOOLEAN]
    BY DEF OutputsInv, PlayerOK
  <1> QED BY <1>1

LEMMA DoesWhatIsLeft ==
  ASSUME NEW p, TodoOK(p.todo), NEW ops
  PROVE  Doing(p, ops) <=> \E t \in ops : \E i : Has(p, t, i)
<1>1. \A x \in Elements(p.todo) : x \in StepSet
  BY DEF TodoOK, Elements
<1>2. \A x \in Elements(p.todo) : x = Step(x.op, x.o)
  BY <1>1, StepIsRecord
<1> QED BY <1>2, StepsAreSteps DEF Doing, Has

\* The player goes on to the next step.
LEMMA Gone ==
  ASSUME OutputsInv, NEW op, Now(op)
  PROVE  LET q == [player EXCEPT !.todo = Tail(@)]
             h == Head(player.todo)
         IN
         /\ q \in [mode : {"off", "opening", "on", "paused"}, todo : Seq(StepSet), opened : BOOLEAN]
         /\ q.mode = player.mode /\ TodoOK(q.todo)
         /\ \A t, i : Has(q, t, i) <=> Has(player, t, i) /\ ~(t = op /\ i = h.o)
<1> DEFINE q == [player EXCEPT !.todo = Tail(@)]
           h == Head(player.todo)
<1>1. /\ player.todo # <<>> /\ TodoOK(player.todo) /\ h = Step(op, h.o)
      /\ player.mode \in {"off", "opening", "on", "paused"} /\ player.opened \in BOOLEAN
      /\ player = [mode |-> player.mode, todo |-> player.todo, opened |-> player.opened]
  BY NextIs
<1>2. q = [mode |-> player.mode, todo |-> Tail(player.todo), opened |-> player.opened]
  BY OtherSteps
<1>3. /\ TodoOK(Tail(player.todo))
      /\ Elements(Tail(player.todo)) = Elements(player.todo) \ {h}
  BY <1>1, NextStep
<1>4. \A t, i : Step(t, i) = h <=> t = op /\ i = h.o
  BY <1>1, StepsAreSteps
<1>5. q.mode = player.mode /\ q.todo = Tail(player.todo)
  BY <1>2
<1>6. Tail(player.todo) \in Seq(StepSet)
  BY <1>3 DEF TodoOK
<1>7. \A t, i : Has(q, t, i) <=> Has(player, t, i) /\ ~(t = op /\ i = h.o)
  BY <1>3, <1>4, <1>5 DEF Has
<1> QED BY <1>1, <1>2, <1>3, <1>5, <1>6, <1>7

\* A step is put in front: sleeping before a command is looked at again,
\* removing the head of the pipe before the next one is looked at.
LEMMA PutInFront ==
  ASSUME OutputsInv, NEW op, Now(op), NEW t0,
         t0 \in {"sleep", "shift"}, t0 = "sleep" => op \in {"await", "await_all"},
         t0 = "shift" => op = "check"
  PROVE  LET q == [player EXCEPT !.todo = All(t0) \o @] IN
         /\ q \in [mode : {"off", "opening", "on", "paused"}, todo : Seq(StepSet), opened : BOOLEAN]
         /\ q.mode = player.mode /\ TodoOK(q.todo)
         /\ \A t, i : Has(q, t, i) <=> Has(player, t, i) \/ (t = t0 /\ i = 0)
<1> DEFINE h == Head(player.todo)  x == Step(t0, 0)
           q == [player EXCEPT !.todo = All(t0) \o @]
<1>1. /\ player.todo # <<>> /\ TodoOK(player.todo) /\ h.op = op
      /\ player.mode \in {"off", "opening", "on", "paused"} /\ player.opened \in BOOLEAN
      /\ player = [mode |-> player.mode, todo |-> player.todo, opened |-> player.opened]
  BY NextIs
<1>2. q = [mode |-> player.mode, todo |-> <<x>> \o player.todo, opened |-> player.opened]
  BY OtherSteps DEF All
<1>3. x \in StepSet /\ x.op = t0 /\ t0 \in {"sleep", "shift"}
  BY StepsAreSteps DEF OfPlayer
<1>4. \A t, i : Step(t, i) = x <=> t = t0 /\ i = 0
  BY StepsAreSteps
<1>5. \A y \in Elements(player.todo) : Together(h, y) /\ Rank(h.op) <= Rank(y.op)
  BY <1>1, NextStep
<1> HIDE DEF x, h
<1>6. TodoOK(<<x>>) /\ Elements(<<x>>) = {x}
  <2>1. Together(x, x)
    BY <1>3 DEF Together, Operations
  <2> QED BY <1>3, <2>1, OneStep
<1>7. \A y \in Elements(player.todo) :
        Together(x, y) /\ Together(y, x) /\ Rank(x.op) <= Rank(y.op) /\ x # y
  <2> TAKE y \in Elements(player.todo)
  <2>1. PICK ops \in Operations : op \in ops /\ y.op \in ops
    BY <1>1, <1>5 DEF Together
  <2>2. t0 \in ops
    BY <2>1 DEF Operations
  <2>3. Together(x, y) /\ Together(y, x)
    BY <1>3, <2>1, <2>2 DEF Together
  <2>4. Rank(x.op) < Rank(h.op) /\ Rank(x.op) \in 0 .. 9 /\ Rank(h.op) \in 0 .. 9
    BY <1>1, <1>3 DEF Rank
  <2>5. Rank(y.op) \in 0 .. 9
    BY DEF Rank
  <2>6. Rank(x.op) < Rank(y.op)
    BY <1>5, <2>4, <2>5
  <2> QED BY <2>3, <2>4, <2>5, <2>6
<1>8. /\ TodoOK(<<x>> \o player.todo)
      /\ Elements(<<x>> \o player.todo) = {x} \cup Elements(player.todo)
  BY <1>1, <1>6, <1>7, StepsThenSteps
<1>9. q.mode = player.mode /\ q.todo = <<x>> \o player.todo
  BY <1>2
<1>10. <<x>> \o player.todo \in Seq(StepSet)
  BY <1>8 DEF TodoOK
<1>11. \A t, i : Has(q, t, i) <=> Has(player, t, i) \/ (t = t0 /\ i = 0)
  BY <1>4, <1>8, <1>9 DEF Has
<1> QED BY <1>1, <1>2, <1>8, <1>9, <1>10, <1>11

\* Nothing changes but the player, or perhaps an assertion that is left out.
LEMMA OnlyThePlayer ==
  ASSUME OutputsInv, UNCHANGED <<ao, mp, sent>>, PipeAssertionsHold',
         PlayerOK(player', mp, sent),
         \A o \in Outputs : OutputOK(o, ao[o], mp, sent, player')
  PROVE  OutputsInv'
<1>1. ao' = ao /\ mp' = mp /\ sent' = sent
  OBVIOUS
<1>2. ChunksOK(mp', sent') /\ PlayerOK(player', mp', sent') /\ ao' \in [Outputs -> Output]
  BY <1>1 DEF OutputsInv
<1>3. \A o \in Outputs : OutputOK(o, ao'[o], mp', sent', player')
  BY <1>1
<1> QED BY <1>2, <1>3 DEF OutputsInv

\* The player's conditions, when what is left of them has not changed.
LEMMA StillThePlayer ==
  ASSUME NEW p, NEW q, NEW m, NEW n, PlayerOK(p, m, n),
         q \in [mode : {"off", "opening", "on", "paused"}, todo : Seq(StepSet), opened : BOOLEAN],
         q.mode = p.mode, TodoOK(q.todo),
         \A t, i : t \notin {"sleep", "await", "await_all"} /\ Has(q, t, i) => Has(p, t, i),
         Has(p, "await_all", 0) => \/ Has(q, "await_all", 0)
                                   \/ \A t \in {"pause", "drain", "cancel"} : \A i : ~Has(q, t, i)
  PROVE  PlayerOK(q, m, n)
<1>1. ASSUME NEW ops, Doing(q, ops), ops \cap {"sleep", "await", "await_all"} = {}
      PROVE  Doing(p, ops)
  BY <1>1, DoesWhatIsLeft DEF PlayerOK
<1>2. /\ q.mode = "on" => ~m.null
      /\ Doing(q, {"push"}) => q.mode = "on"
      /\ Doing(q, {"check", "shift"}) => q.mode \in {"on", "paused"}
      /\ Doing(q, {"pause"}) => q.mode \in {"paused", "off"}
      /\ Doing(q, {"opened"}) => q.mode = "opening"
  BY <1>1 DEF PlayerOK
<1>3. /\ Doing(q, {"delete"}) => q.mode # "on"
      /\ Doing(q, {"push"}) => n < MaxChunks
      /\ Doing(q, {"drain"}) => m.chunks = <<>>
      /\ Doing(q, {"shift"}) => m.chunks # <<>>
  BY <1>1 DEF PlayerOK
<1>4. Doing(q, {"pause", "drain", "cancel"}) => Has(q, "await_all", 0)
  <2> SUFFICES ASSUME Doing(q, {"pause", "drain", "cancel"}) PROVE Has(q, "await_all", 0)
    OBVIOUS
  <2>1. Has(p, "await_all", 0)
    BY <1>1 DEF PlayerOK
  <2>2. \E t \in {"pause", "drain", "cancel"} : \E i : Has(q, t, i)
    BY DoesWhatIsLeft
  <2> QED BY <2>1, <2>2
<1> QED BY <1>2, <1>3, <1>4 DEF PlayerOK

LEMMA AwaitStep ==
  ASSUME OutputsInv, Await
  PROVE  OutputsInv'
<1> DEFINE h == Head(player.todo)  q == player'
           over == IF Now("await") THEN ao[Target].command = "NONE" ELSE AllFinished
<1>1. PICK op \in {"await", "await_all"} : Now(op)
  BY DEF Await
<1>2. UNCHANGED <<ao, mp, notify, sent, asserts>>
  BY DEF Await, Goes
<1>3. CASE over
  <2>1. q = [player EXCEPT !.todo = Tail(@)]
    BY <1>1, <1>3, NextIs DEF Await, Goes
  <2>2. /\ q \in [mode : {"off", "opening", "on", "paused"}, todo : Seq(StepSet), opened : BOOLEAN]
        /\ q.mode = player.mode /\ TodoOK(q.todo)
        /\ \A t, i : Has(q, t, i) <=> Has(player, t, i) /\ ~(t = op /\ i = h.o)
    BY <1>1, <2>1, Gone
  <2>3. h.op = op /\ TodoOK(player.todo) /\ player.todo # <<>>
        /\ PlayerOK(player, mp, sent)
    BY <1>1, NextIs
  <2>4. op = "await_all" => \A t \in Commanding : \A i : ~Has(player, t, i)
    BY <2>3, WhatFollows DEF Commanding
  <2>5. PlayerOK(q, mp, sent)
    <3> HIDE DEF q, h
    <3>1. op = "await" /\ Has(player, "await_all", 0) => Has(q, "await_all", 0)
      BY <2>2
    <3>2. op = "await_all" => \A t \in {"pause", "drain", "cancel"} : \A i : ~Has(q, t, i)
      BY <2>2, <2>4 DEF Commanding
    <3> QED BY <1>1, <2>2, <2>3, <3>1, <3>2, StillThePlayer
  <2>6. ASSUME NEW o \in Outputs PROVE OutputOK(o, ao[o], mp, sent, q)
    <3> DEFINE a == ao[o]
    <3>1. OutputOK(o, a, mp, sent, player)
      BY OutputFacts
    <3>2. AwaitOK(o, a, q)
      <4>1. CASE op = "await"
        <5>1. h.o \in Outputs
          BY <1>1, <4>1, NextIs DEF OfOutput
        <5>2. o = h.o => a.command = "NONE"
          BY <1>1, <1>3, <4>1 DEF Target
        <5> HIDE DEF q, h, a
        <5>3. o # h.o => AwaitOK(o, a, q)
          BY <2>2, <3>1, <4>1 DEF OutputOK, AwaitOK, Commanding
        <5>4. o = h.o => AwaitOK(o, a, q)
          BY <5>2 DEF AwaitOK, Single
        <5> QED BY <5>3, <5>4
      <4>2. CASE op = "await_all"
        <5>1. ~Now("await")
          BY <1>1, <4>2 DEF Now
        <5>2. a.open => a.command = "NONE"
          BY <1>3, <5>1 DEF AllFinished
        <5> HIDE DEF q, h, a
        <5> QED BY <2>2, <3>1, <4>2, <5>2 DEF OutputOK, AwaitOK
      <4> QED BY <1>1, <4>1, <4>2
    <3> HIDE DEF q, a
    <3>3. PlanOK(o, a, mp, q)
      BY <1>1, <2>2, <3>1 DEF OutputOK, PlanOK
    <3>4. ShiftOK(a, mp, q) /\ SleepOK(o, a, mp, q)
      BY <1>1, <2>2, <3>1 DEF OutputOK, ShiftOK, SleepOK
    <3> QED BY <3>1, <3>2, <3>3, <3>4 DEF OutputOK, a
  <2> QED BY <1>2, <2>5, <2>6, QuietStep, OnlyThePlayer
<1>4. CASE ~over
  <2>1. q = [player EXCEPT !.todo = All("sleep") \o @]
    BY <1>1, <1>4, NextIs DEF Await, Goes
  <2>2. /\ q \in [mode : {"off", "opening", "on", "paused"}, todo : Seq(StepSet), opened : BOOLEAN]
        /\ q.mode = player.mode /\ TodoOK(q.todo)
        /\ \A t, i : Has(q, t, i) <=> Has(player, t, i) \/ (t = "sleep" /\ i = 0)
    <3> DEFINE r == [player EXCEPT !.todo = All("sleep") \o @]
    <3>0. "sleep" \in {"sleep", "shift"} /\ "sleep" # "shift"
      OBVIOUS
    <3>1. /\ r \in [mode : {"off", "opening", "on", "paused"}, todo : Seq(StepSet), opened : BOOLEAN]
          /\ r.mode = player.mode /\ TodoOK(r.todo)
          /\ \A t, i : Has(r, t, i) <=> Has(player, t, i) \/ (t = "sleep" /\ i = 0)
      BY <1>1, <3>0, PutInFront, Zenon
    <3> HIDE DEF r
    <3>2. q = r
      BY <2>1 DEF r
    <3> QED BY <3>1, <3>2
  <2>3. PlayerOK(player, mp, sent)
    BY <1>1, NextIs
  <2> HIDE DEF q
  <2>4. PlayerOK(q, mp, sent)
    BY <2>2, <2>3, StillThePlayer
  <2>5. ASSUME NEW o \in Outputs PROVE OutputOK(o, ao[o], mp, sent, q)
    <3>1. \A t : Has(q, t, o) => Has(player, t, o) \/ t \in {"await", "result"}
      BY <2>2, OutputsAssumption DEF Outputs
    <3>2. \A t \in {"clear", "delete", "shift"} : Has(q, t, 0) => Has(player, t, 0)
      BY <2>2
    <3> QED BY <2>2, <3>1, <3>2, OutputFacts, LessIsLeft
  <2> QED BY <1>2, <2>4, <2>5, QuietStep, OnlyThePlayer DEF q
<1> QED BY <1>3, <1>4

LEMMA WaitNotifyStep ==
  ASSUME OutputsInv, WaitNotify
  PROVE  OutputsInv'
<1> DEFINE h == Head(player.todo)  q == player'
<1>1. Now("sleep") /\ q = [player EXCEPT !.todo = Tail(@)] /\ UNCHANGED <<ao, mp, sent, asserts>>
  BY DEF WaitNotify
<1>2. /\ q \in [mode : {"off", "opening", "on", "paused"}, todo : Seq(StepSet), opened : BOOLEAN]
      /\ q.mode = player.mode /\ TodoOK(q.todo)
      /\ \A t, i : Has(q, t, i) <=> Has(player, t, i) /\ ~(t = "sleep" /\ i = h.o)
  BY <1>1, Gone
<1>3. PlayerOK(player, mp, sent)
  BY <1>1, NextIs
<1> HIDE DEF q, h
<1>4. PlayerOK(q, mp, sent)
  BY <1>2, <1>3, StillThePlayer
<1>5. ASSUME NEW o \in Outputs PROVE OutputOK(o, ao[o], mp, sent, q)
  BY <1>2, OutputFacts, LessIsLeft
<1> QED BY <1>1, <1>4, <1>5, QuietStep, OnlyThePlayer DEF q

-----------------------------------------------------------------------------
(* Whole operations: the lists of steps they begin with.                   *)

\* All the steps of some kinds, and no others.
Complete(todo, ops) ==
  /\ TodoOK(todo)
  /\ Elements(todo) = {x \in StepSet : x.op \in ops}

LEMMA CompleteEach ==
  ASSUME NEW op \in OfOutput
  PROVE  Complete(Each(op), {op})
<1>1. TodoOK(Each(op)) /\ Elements(Each(op)) = {Step(op, o) : o \in Outputs}
  BY StepForEach
<1>2. ASSUME NEW x \in StepSet, x.op = op PROVE x \in {Step(op, o) : o \in Outputs}
  BY <1>2, StepIsRecord
<1>3. \A o \in Outputs : Step(op, o) \in StepSet /\ Step(op, o).op = op
  BY StepsAreSteps
<1> QED BY <1>1, <1>2, <1>3 DEF Complete

LEMMA CompleteAll ==
  ASSUME NEW op \in OfPlayer
  PROVE  Complete(All(op), {op})
<1> DEFINE x == Step(op, 0)
<1>1. x \in StepSet /\ x.op = op
  BY StepsAreSteps
<1>2. Together(x, x)
  BY <1>1 DEF Together, Operations, OfPlayer
<1>3. ASSUME NEW y \in StepSet, y.op = op PROVE y = x
  BY <1>3, StepIsRecord
<1>4. All(op) = <<x>>
  BY DEF All
<1> HIDE DEF x
<1>5. TodoOK(<<x>>) /\ Elements(<<x>>) = {x}
  BY <1>1, <1>2, OneStep
<1> QED BY <1>1, <1>3, <1>4, <1>5 DEF Complete

\* The steps of the kinds A come before the ones of the kinds B.
InOrder(A, B) ==
  \A a \in A, b \in B :
    /\ \E ops \in Operations : a \in ops /\ b \in ops
    /\ Rank(a) < Rank(b)
    /\ "release" \in {a, b} => "close" \notin {a, b}

LEMMA CompleteBoth ==
  ASSUME NEW s, NEW t, NEW A, NEW B, Complete(s, A), Complete(t, B), InOrder(A, B)
  PROVE  Complete(s \o t, A \cup B)
<1>1. ASSUME NEW x \in Elements(s), NEW y \in Elements(t)
      PROVE  /\ Together(x, y) /\ Together(y, x)
             /\ Rank(x.op) <= Rank(y.op) /\ x # y
  <2>1. x.op \in A /\ y.op \in B
    BY DEF Complete
  <2>2. Rank(x.op) < Rank(y.op)
    BY <2>1 DEF InOrder
  <2>3. Rank(x.op) \in Nat /\ Rank(y.op) \in Nat
    BY DEF Rank
  <2>4. x # y /\ Rank(x.op) <= Rank(y.op)
    BY <2>2, <2>3
  <2>5. Together(x, y) /\ Together(y, x)
    BY <2>1 DEF Together, InOrder
  <2> QED BY <2>4, <2>5
<1>2. TodoOK(s \o t) /\ Elements(s \o t) = Elements(s) \cup Elements(t)
  BY <1>1, StepsThenSteps DEF Complete
<1> QED BY <1>2 DEF Complete

\* What is left at the beginning.
LEMMA AllIsLeft ==
  ASSUME NEW p, NEW ops, Complete(p.todo, ops)
  PROVE  /\ \A t, i : Has(p, t, i) => t \in ops
         /\ \A t \in ops \cap OfOutput, o \in Outputs : Has(p, t, o)
         /\ \A t \in ops \cap OfPlayer : Has(p, t, 0)
         /\ \A kinds : Doing(p, kinds) => kinds \cap ops # {}
  BY StepsAreSteps DEF Complete, Has, Doing

\* No output has anything to do, and none has to be waited for.
LEMMA Idle ==
  ASSUME OutputsInv, NEW o \in Outputs,
         \A t \in {"await", "update", "cancel", "wake"} : ~Has(player, t, o),
         ~Has(player, "await_all", 0)
  PROVE  LET a == ao[o] IN
         /\ a.command \notin Single
         /\ a.open => a.command = "NONE" /\ a.format = mp.format
         /\ a.open /\ a.pause => player.mode \in {"paused", "off"}
         /\ a.pc = "wait" => ~Playable(a, mp)
<1>1. ao[o].command \notin Single /\ (ao[o].open => ao[o].command = "NONE")
  BY OutputFacts DEF AwaitOK
<1>2. ao[o].open => ao[o].format = mp.format
  BY <1>1, OutputFacts DEF PlanOK
<1>3. ao[o].open /\ ao[o].pause => player.mode \in {"paused", "off"}
  BY <1>1, OutputFacts DEF PlanOK
<1>4. ao[o].pc = "wait" => ~Playable(ao[o], mp)
  BY OutputFacts DEF SleepOK
<1> QED BY <1>1, <1>2, <1>3, <1>4

\* Such an output, when an operation begins.
LEMMA Ready ==
  ASSUME NEW o, NEW a, NEW m, NEW n, NEW q, ThreadOK(a), CommandOK(a), PipeOK(a, m, n),
         a.command \notin Single, a.open => a.command = "NONE",
         a.open => a.format = m.format \/ Has(q, "update", o),
         a.open /\ a.pause => q.mode \in {"paused", "off"} \/ Has(q, "update", o),
         Has(q, "clear", 0) => Has(q, "cancel", o),
         Has(q, "delete", 0) /\ a.open => Has(q, "release", o) \/ Has(q, "close", o),
         ~Has(q, "shift", 0),
         a.pc = "wait" /\ Playable(a, m) => Has(q, "wake", o)
  PROVE  OutputOK(o, a, m, n, q)
<1>1. AwaitOK(o, a, q)
  BY DEF AwaitOK
<1>2. PlanOK(o, a, m, q)
  BY DEF PlanOK, Single
<1>3. ShiftOK(a, m, q) /\ SleepOK(o, a, m, q)
  BY DEF ShiftOK, SleepOK
<1> QED BY <1>1, <1>2, <1>3 DEF OutputOK

\* The operations of the player.
LEMMA Lists ==
  /\ Complete(Each("reset") \o Each("enable") \o Each("update") \o All("opened"),
              {"reset", "enable", "update", "opened"})
  /\ Complete(Each("update") \o All("push"), {"update", "push"})
  /\ Complete(All("check"), {"check"})
  /\ Complete(Each("update") \o Each("pause") \o All("await_all"),
              {"update", "pause", "await_all"})
  /\ Complete(Each("drain") \o All("await_all"), {"drain", "await_all"})
  /\ Complete(CancelSteps, {"cancel", "await_all", "clear", "allow"})
  /\ Complete(Each("release") \o All("delete"), {"release", "delete"})
  /\ Complete(Each("close") \o All("delete"), {"close", "delete"})
  /\ Complete(Each("enable"), {"enable"})
  /\ Complete(Each("wake"), {"wake"})
  /\ Complete(<<>>, {})
<1>1. \A op \in OfOutput : Complete(Each(op), {op})
  BY CompleteEach
<1>2. \A op \in OfPlayer : Complete(All(op), {op})
  BY CompleteAll
<1>3. Complete(Each("reset") \o Each("enable") \o Each("update") \o All("opened"),
              {"reset", "enable", "update", "opened"})
  <2>1. Complete(Each("reset"), {"reset"}) /\ Complete(Each("enable"), {"enable"})
        /\ Complete(Each("update"), {"update"}) /\ Complete(All("opened"), {"opened"})
    BY <1>1, <1>2 DEF OfOutput, OfPlayer
  <2>2. InOrder({"reset"}, {"enable"})
    BY DEF InOrder, Operations, Rank
  <2>3. Complete(Each("reset") \o Each("enable"), {"reset"} \cup {"enable"})
    BY <2>1, <2>2, CompleteBoth
  <2>4. InOrder({"reset"} \cup {"enable"}, {"update"})
    BY DEF InOrder, Operations, Rank
  <2>5. Complete((Each("reset") \o Each("enable")) \o Each("update"),
                 ({"reset"} \cup {"enable"}) \cup {"update"})
    BY <2>1, <2>3, <2>4, CompleteBoth
  <2>6. InOrder(({"reset"} \cup {"enable"}) \cup {"update"}, {"opened"})
    BY DEF InOrder, Operations, Rank
  <2>7. Complete(((Each("reset") \o Each("enable")) \o Each("update")) \o All("opened"),
                 (({"reset"} \cup {"enable"}) \cup {"update"}) \cup {"opened"})
    BY <2>1, <2>5, <2>6, CompleteBoth
  <2>8. (({"reset"} \cup {"enable"}) \cup {"update"}) \cup {"opened"}
          = {"reset", "enable", "update", "opened"}
    OBVIOUS
  <2> QED BY <2>7, <2>8
<1>4. Complete(Each("update") \o All("push"), {"update", "push"})
  <2>1. Complete(Each("update"), {"update"}) /\ Complete(All("push"), {"push"})
    BY <1>1, <1>2 DEF OfOutput, OfPlayer
  <2>2. InOrder({"update"}, {"push"})
    BY DEF InOrder, Operations, Rank
  <2>3. Complete(Each("update") \o All("push"), {"update"} \cup {"push"})
    BY <2>1, <2>2, CompleteBoth
  <2>4. {"update"} \cup {"push"} = {"update", "push"}
    OBVIOUS
  <2> QED BY <2>3, <2>4
<1>5. Complete(Each("update") \o Each("pause") \o All("await_all"),
              {"update", "pause", "await_all"})
  <2>1. Complete(Each("update"), {"update"}) /\ Complete(Each("pause"), {"pause"})
        /\ Complete(All("await_all"), {"await_all"})
    BY <1>1, <1>2 DEF OfOutput, OfPlayer
  <2>2. InOrder({"update"}, {"pause"})
    BY DEF InOrder, Operations, Rank
  <2>3. Complete(Each("update") \o Each("pause"), {"update"} \cup {"pause"})
    BY <2>1, <2>2, CompleteBoth
  <2>4. InOrder({"update"} \cup {"pause"}, {"await_all"})
    BY DEF InOrder, Operations, Rank
  <2>5. Complete((Each("update") \o Each("pause")) \o All("await_all"),
                 ({"update"} \cup {"pause"}) \cup {"await_all"})
    BY <2>1, <2>3, <2>4, CompleteBoth
  <2>6. ({"update"} \cup {"pause"}) \cup {"await_all"} = {"update", "pause", "await_all"}
    OBVIOUS
  <2> QED BY <2>5, <2>6
<1>6. Complete(Each("drain") \o All("await_all"), {"drain", "await_all"})
  <2>1. Complete(Each("drain"), {"drain"}) /\ Complete(All("await_all"), {"await_all"})
    BY <1>1, <1>2 DEF OfOutput, OfPlayer
  <2>2. InOrder({"drain"}, {"await_all"})
    BY DEF InOrder, Operations, Rank
  <2>3. Complete(Each("drain") \o All("await_all"), {"drain"} \cup {"await_all"})
    BY <2>1, <2>2, CompleteBoth
  <2>4. {"drain"} \cup {"await_all"} = {"drain", "await_all"}
    OBVIOUS
  <2> QED BY <2>3, <2>4
<1>7. Complete(CancelSteps, {"cancel", "await_all", "clear", "allow"})
  <2>1. Complete(Each("cancel"), {"cancel"}) /\ Complete(All("await_all"), {"await_all"})
        /\ Complete(All("clear"), {"clear"}) /\ Complete(Each("allow"), {"allow"})
    BY <1>1, <1>2 DEF OfOutput, OfPlayer
  <2>2. InOrder({"cancel"}, {"await_all"})
    BY DEF InOrder, Operations, Rank
  <2>3. Complete(Each("cancel") \o All("await_all"), {"cancel"} \cup {"await_all"})
    BY <2>1, <2>2, CompleteBoth
  <2>4. InOrder({"cancel"} \cup {"await_all"}, {"clear"})
    BY DEF InOrder, Operations, Rank
  <2>5. Complete((Each("cancel") \o All("await_all")) \o All("clear"),
                 ({"cancel"} \cup {"await_all"}) \cup {"clear"})
    BY <2>1, <2>3, <2>4, CompleteBoth
  <2>6. InOrder(({"cancel"} \cup {"await_all"}) \cup {"clear"}, {"allow"})
    BY DEF InOrder, Operations, Rank
  <2>7. Complete(CancelSteps, (({"cancel"} \cup {"await_all"}) \cup {"clear"}) \cup {"allow"})
    BY <2>1, <2>5, <2>6, CompleteBoth DEF CancelSteps
  <2>8. (({"cancel"} \cup {"await_all"}) \cup {"clear"}) \cup {"allow"}
          = {"cancel", "await_all", "clear", "allow"}
    OBVIOUS
  <2> QED BY <2>7, <2>8
<1>8. ASSUME NEW op \in {"release", "close"}
      PROVE  Complete(Each(op) \o All("delete"), {op, "delete"})
  <2>1. Complete(Each(op), {op}) /\ Complete(All("delete"), {"delete"})
    BY <1>1, <1>2 DEF OfOutput, OfPlayer
  <2>2. InOrder({op}, {"delete"})
    BY DEF InOrder, Operations, Rank
  <2>3. Complete(Each(op) \o All("delete"), {op} \cup {"delete"})
    BY <2>1, <2>2, CompleteBoth
  <2>4. {op} \cup {"delete"} = {op, "delete"}
    OBVIOUS
  <2> QED BY <2>3, <2>4
<1>9. Complete(All("check"), {"check"}) /\ Complete(Each("enable"), {"enable"})
      /\ Complete(Each("wake"), {"wake"})
  BY <1>1, <1>2 DEF OfOutput, OfPlayer
<1>10. Complete(<<>>, {})
  BY NothingLeft DEF Complete
<1> QED BY <1>3, <1>4, <1>5, <1>6, <1>7, <1>8, <1>9, <1>10

-----------------------------------------------------------------------------
(* The player's operations begin.                                          *)

LEMMA BeginStep ==
  ASSUME OutputsInv, NEW mode \in {"off", "opening", "on", "paused"}, NEW todo, NEW ops, Complete(todo, ops),
         Begin(mode, todo), NEW format, mp' = [mp EXCEPT !.null = FALSE, !.format = format]
                                        \/ mp' = mp,
         ChunksOK(mp', sent),
         mp' # mp => /\ mp.null \/ mp.chunks = <<>> \/ mp.format = format
                     /\ \A o \in Outputs : ao[o].open /\ ao[o].pause => ao[o].format = format
                     /\ "update" \in ops,
         mode = "on" => ~mp'.null,
         "push" \in ops => mode = "on",
         "check" \in ops => mode \in {"on", "paused"},
         "pause" \in ops => mode \in {"paused", "off"},
         "opened" \in ops => mode = "opening",
         "delete" \in ops => mode # "on" /\ "release" \in ops,
         "push" \in ops => sent < MaxChunks,
         "drain" \in ops => mp.chunks = <<>> /\ mp' = mp,
         "shift" \notin ops,
         ops \cap {"pause", "drain", "cancel"} # {} => "await_all" \in ops,
         "clear" \in ops => "cancel" \in ops,
         player.mode \in {"paused", "off"} => mode \in {"paused", "off"} \/ "update" \in ops
  PROVE  OutputsInv'
<1> DEFINE q == player'  m == mp'
<1>1. player.todo = <<>> /\ UNCHANGED <<ao, notify, sent, asserts>>
      /\ q = [mode |-> mode, todo |-> todo, opened |-> FALSE]
  BY DEF Begin
<1>2. \A t, i : ~Has(player, t, i)
  BY <1>1, NothingLeft DEF Has
<1>3. q.mode = mode /\ q.todo = todo /\ Complete(q.todo, ops)
  BY <1>1
<1>4. /\ \A t, i : Has(q, t, i) => t \in ops
      /\ \A t \in ops \cap OfOutput, o \in Outputs : Has(q, t, o)
      /\ \A t \in ops \cap OfPlayer : Has(q, t, 0)
      /\ \A kinds : Doing(q, kinds) => kinds \cap ops # {}
  <2> HIDE DEF q
  <2> QED BY <1>3, AllIsLeft
<1>5. m.chunks = mp.chunks /\ (~mp.null => ~m.null)
      /\ (m.format = mp.format \/ m.format = format)
      /\ (m # mp => m.format = format)
  BY DEF OutputsInv, ChunksOK
<1>6. q \in [mode : {"off", "opening", "on", "paused"}, todo : Seq(StepSet), opened : BOOLEAN]
      /\ TodoOK(q.todo)
  <2>1. TodoOK(todo) /\ todo \in Seq(StepSet)
    BY DEF Complete, TodoOK
  <2> QED BY <1>1, <1>3, <2>1
<1> HIDE DEF q, m
<1>7. PlayerOK(q, m, sent)
  <2>1. /\ q.mode = "on" => ~m.null
        /\ Doing(q, {"push"}) => q.mode = "on"
        /\ Doing(q, {"check", "shift"}) => q.mode \in {"on", "paused"}
        /\ Doing(q, {"pause"}) => q.mode \in {"paused", "off"}
        /\ Doing(q, {"opened"}) => q.mode = "opening"
    <3>1. q.mode = "on" => ~m.null
      BY <1>3 DEF m
    <3> QED BY <1>3, <1>4, <3>1
  <2>2. /\ Doing(q, {"delete"}) => q.mode # "on"
        /\ Doing(q, {"push"}) => sent < MaxChunks
        /\ Doing(q, {"drain"}) => m.chunks = <<>>
        /\ Doing(q, {"shift"}) => m.chunks # <<>>
    BY <1>3, <1>4, <1>5
  <2>3. Doing(q, {"pause", "drain", "cancel"}) => Has(q, "await_all", 0)
    BY <1>4 DEF OfPlayer
  <2> QED BY <1>6, <2>1, <2>2, <2>3 DEF PlayerOK
<1>8. ASSUME NEW o \in Outputs PROVE OutputOK(o, ao[o], m, sent, q)
  <2> DEFINE a == ao[o]
  <2>1. /\ a.command \notin Single
        /\ a.open => a.command = "NONE" /\ a.format = mp.format
        /\ a.open /\ a.pause => player.mode \in {"paused", "off"}
        /\ a.pc = "wait" => ~Playable(a, mp)
    BY <1>2, Idle
  <2>2. ThreadOK(a) /\ CommandOK(a) /\ PipeOK(a, mp, sent)
    BY OutputFacts
  <2>3. First(m) = First(mp) /\ NextOf(a, m) = NextOf(a, mp)
        /\ (InPipe(a.chunk, m) <=> InPipe(a.chunk, mp))
    BY <1>5 DEF First, NextOf, After, InPipe
  <2>4. a.open => a.format = m.format \/ (Has(q, "update", o) /\ m.chunks = <<>>)
    <3>1. a.open => ~mp.null
      BY <2>2 DEF PipeOK
    <3>2. m # mp => Has(q, "update", o)
      BY <1>4 DEF OfOutput, m
    <3>3. m # mp /\ a.open => m.chunks = <<>> \/ m.format = mp.format
      BY <1>5, <3>1 DEF m
    <3>4. CASE m = mp
      BY <2>1, <3>4
    <3>5. CASE m # mp
      <4> HIDE DEF a
      <4> QED BY <2>1, <3>2, <3>3, <3>5
    <3> QED BY <3>4, <3>5
  <2>5. a.open /\ a.pause => a.format = m.format
    BY <1>5, <2>1 DEF m
  <2> HIDE DEF a
  <2>6. PipeOK(a, m, sent)
    BY <1>5, <2>1, <2>2, <2>3, <2>4, <2>5 DEF PipeOK, Single
  <2>7. a.open /\ a.pause => q.mode \in {"paused", "off"} \/ Has(q, "update", o)
    BY <1>3, <1>4, <2>1 DEF OfOutput
  <2>8. (Has(q, "clear", 0) => Has(q, "cancel", o))
        /\ (Has(q, "delete", 0) => Has(q, "release", o)) /\ ~Has(q, "shift", 0)
    BY <1>4 DEF OfOutput
  <2>9. a.pc = "wait" => ~Playable(a, m)
    BY <2>1, <2>3 DEF Playable
  <2>10. OutputOK(o, a, m, sent, q)
    BY <2>1, <2>2, <2>4, <2>6, <2>7, <2>8, <2>9, Ready
  <2> QED BY <2>10 DEF a
<1>9. PipeAssertionsHold'
  BY <1>1, QuietStep
<1>10. ao' = ao /\ sent' = sent
  BY <1>1
<1>11. ao' \in [Outputs -> Output] /\ ChunksOK(mp', sent') /\ PlayerOK(player', mp', sent')
  BY <1>7, <1>10 DEF OutputsInv, q, m
<1>12. \A o \in Outputs : OutputOK(o, ao'[o], mp', sent', player')
  BY <1>8, <1>10 DEF q, m
<1> QED BY <1>9, <1>11, <1>12 DEF OutputsInv

LEMMA PlayerBeginStep ==
  ASSUME OutputsInv, PlayerBegin, OtherFormat = FALSE
  PROVE  OutputsInv'
<1>1. player.mode \in {"off", "opening", "on", "paused"} /\ ChunksOK(mp, sent)
      /\ (player.mode = "on" => ~mp.null)
  BY DEF OutputsInv, PlayerOK
<1>2. CASE \E format \in Formats : Open(format)
  <2>1. PICK format \in Formats : Open(format)
    BY <1>2
  <2> DEFINE todo == Each("reset") \o Each("enable") \o Each("update") \o All("opened")
             ops == {"reset", "enable", "update", "opened"}
  <2>2. /\ mp' = [mp EXCEPT !.null = FALSE, !.format = format] /\ Begin("opening", todo)
        /\ mp.null \/ mp.chunks = <<>> \/ mp.format = format
        /\ \A o \in Outputs : ao[o].open /\ ao[o].pause => ao[o].format = format
    BY <2>1 DEF Open
  <2>3. ChunksOK(mp', sent)
    <3>1. mp' = [null |-> FALSE, chunks |-> mp.chunks, format |-> format]
      BY <1>1, <2>2 DEF ChunksOK
    <3>2. mp'.null = FALSE /\ mp'.chunks = mp.chunks /\ mp'.format = format
      BY <3>1
    <3>3. mp' \in [null : BOOLEAN, chunks : Seq(Nat \ {0}), format : Formats \cup {None}]
      BY <1>1, <3>1 DEF ChunksOK
    <3> QED BY <1>1, <3>2, <3>3 DEF ChunksOK
  <2>4. Complete(todo, ops)
    BY Lists
  <2>5. ops \cap {"push", "check", "pause", "delete", "shift", "drain", "cancel", "clear"} = {}
        /\ {"update", "opened"} \subseteq ops
        /\ "opening" \in {"off", "opening", "on", "paused"} /\ "opening" # "on"
    OBVIOUS
  <2> HIDE DEF todo, ops
  <2>6. mp.null \/ mp.chunks = <<>> \/ mp.format = format
    BY <2>2
  <2>7. \A o \in Outputs : ao[o].open /\ ao[o].pause => ao[o].format = format
    BY <2>2
  <2> QED BY <2>2, <2>3, <2>4, <2>5, <2>6, <2>7, BeginStep
<1>3. CASE Play
  <2> DEFINE todo == Each("update") \o All("push")  ops == {"update", "push"}
  <2>1. Begin("on", todo) /\ mp' = mp /\ player.mode = "on" /\ sent < MaxChunks
    BY <1>3 DEF Play
  <2>2. Complete(todo, ops)
    BY Lists
  <2> HIDE DEF todo
  <2> QED BY <1>1, <2>1, <2>2, BeginStep
<1>4. CASE CheckPipe
  <2> DEFINE todo == All("check")  ops == {"check"}
  <2>1. Begin(player.mode, todo) /\ mp' = mp /\ player.mode \in {"on", "paused"}
    BY <1>4 DEF CheckPipe
  <2>2. Complete(todo, ops)
    BY Lists
  <2> HIDE DEF todo
  <2> QED BY <1>1, <2>1, <2>2, BeginStep
<1>5. CASE Pause
  <2> DEFINE todo == Each("update") \o Each("pause") \o All("await_all")
             ops == {"update", "pause", "await_all"}
  <2>1. PICK mode \in {"paused", "off"} : Begin(mode, todo) /\ mp' = mp
    BY <1>5 DEF Pause
  <2>2. Complete(todo, ops)
    BY Lists
  <2> HIDE DEF todo
  <2> QED BY <1>1, <2>1, <2>2, BeginStep
<1>6. CASE Drain
  <2> DEFINE todo == Each("drain") \o All("await_all")  ops == {"drain", "await_all"}
  <2>1. Begin("off", todo) /\ mp' = mp /\ player.mode = "on" /\ mp.chunks = <<>>
    BY <1>6 DEF Drain
  <2>2. Complete(todo, ops)
    BY Lists
  <2> HIDE DEF todo
  <2> QED BY <1>1, <2>1, <2>2, BeginStep
<1>7. CASE Cancel \/ StopPlayer
  <2> DEFINE ops == {"cancel", "await_all", "clear", "allow"}
  <2>1. PICK mode \in {"off", "opening", "on", "paused"} :
          Begin(mode, CancelSteps) /\ mp' = mp /\ mode \in {player.mode, "off"}
    BY <1>1, <1>7 DEF Cancel, StopPlayer
  <2>2. Complete(CancelSteps, ops)
    BY Lists
  <2> QED BY <1>1, <2>1, <2>2, BeginStep
<1>8. CASE CloseAudio
  <2> DEFINE todo == Each("release") \o All("delete")  ops == {"release", "delete"}
  <2>1. Begin("off", todo) /\ mp' = mp /\ player.mode = "off"
    BY <1>8 DEF CloseAudio
  <2>2. Complete(todo, ops)
    BY Lists
  <2> HIDE DEF todo
  <2> QED BY <1>1, <2>1, <2>2, BeginStep
<1>9. CASE UpdateAudio
  <2> DEFINE todo == Each("enable")  ops == {"enable"}
  <2>1. Begin(player.mode, todo) /\ mp' = mp
    BY <1>9 DEF UpdateAudio
  <2>2. Complete(todo, ops)
    BY Lists
  <2> HIDE DEF todo
  <2> QED BY <1>1, <2>1, <2>2, BeginStep
<1>10. CASE LeaveRun
  <2>1. Begin("off", <<>>) /\ mp' = mp
    BY <1>10 DEF LeaveRun
  <2>2. Complete(<<>>, {})
    BY Lists
  <2> QED BY <1>1, <2>1, <2>2, BeginStep
<1> QED
  BY <1>2, <1>3, <1>4, <1>5, <1>6, <1>7, <1>8, <1>9, <1>10 DEF PlayerBegin

-----------------------------------------------------------------------------
(* The player's steps on the pipe.                                         *)

\* These are taken when nothing else is left.
LEMMA LastSteps ==
  ASSUME OutputsInv, NEW op \in {"push", "opened", "delete", "check"}, Now(op)
  PROVE  \A t, i : Has(player, t, i) => t = op
<1>1. player.todo # <<>> /\ TodoOK(player.todo) /\ Head(player.todo).op = op
  BY NextIs
<1> QED BY <1>1, WhatFollows

\* Nothing is left of the player's operation, or only the steps of a new list.
LEMMA NewList ==
  ASSUME NEW todo, NEW ops, Complete(todo, ops), NEW m, NEW n, NEW p,
         NEW mode \in {"off", "opening", "on", "paused"}, NEW opened \in BOOLEAN,
         p = [mode |-> mode, todo |-> todo, opened |-> opened],
         mode = "on" => ~m.null,
         ops = {"wake"} \/ ops = {} \/ (ops = {"close", "delete"} /\ mode # "on")
  PROVE  /\ PlayerOK(p, m, n)
         /\ \A t, i : Has(p, t, i) => t \in ops
         /\ \A t \in ops \cap OfOutput, o \in Outputs : Has(p, t, o)
<1>1. TodoOK(todo) /\ todo \in Seq(StepSet)
  BY DEF Complete, TodoOK
<1>2. /\ \A t, i : Has(p, t, i) => t \in ops
      /\ \A t \in ops \cap OfOutput, o \in Outputs : Has(p, t, o)
      /\ \A kinds : Doing(p, kinds) => kinds \cap ops # {}
  <2>1. Complete(p.todo, ops)
    OBVIOUS
  <2> QED BY <2>1, AllIsLeft, ZenonT(60)
<1>3. p.mode = mode /\ p.todo = todo
      /\ p \in [mode : {"off", "opening", "on", "paused"}, todo : Seq(StepSet), opened : BOOLEAN]
  BY <1>1
<1>4. \A kinds : Doing(p, kinds) /\ kinds # {"delete"} => "wake" \in kinds \/ "close" \in kinds
                                                       \/ "delete" \in kinds
  BY <1>2
<1>5. Doing(p, {"delete"}) => mode # "on"
  BY <1>2
<1>6. /\ ~Doing(p, {"check", "shift"}) /\ ~Doing(p, {"pause"}) /\ ~Doing(p, {"opened"})
      /\ ~Doing(p, {"push"}) /\ ~Doing(p, {"drain"}) /\ ~Doing(p, {"shift"})
      /\ ~Doing(p, {"pause", "drain", "cancel"})
  BY <1>4
<1> QED BY <1>1, <1>2, <1>3, <1>5, <1>6 DEF PlayerOK

LEMMA PushStep ==
  ASSUME OutputsInv, Push
  PROVE  OutputsInv'
<1> DEFINE q == player'  m == mp'  n == sent'
<1>1. Now("push") /\ UNCHANGED <<ao, notify, asserts>>
  BY DEF Push
<1>2. /\ ChunksOK(mp, sent) /\ PlayerOK(player, mp, sent) /\ player.mode = "on"
      /\ sent < MaxChunks /\ ~mp.null
  <2>1. ChunksOK(mp, sent) /\ PlayerOK(player, mp, sent) /\ Has(player, "push", 0)
    BY <1>1, NextIs DEF OfPlayer
  <2>2. Doing(player, {"push", "check", "shift"}) /\ Doing(player, {"push"})
    BY <2>1, StepsAreSteps DEF Doing, Has
  <2> QED BY <2>1, <2>2 DEF PlayerOK
<1>3. \A t, i : Has(player, t, i) => t = "push"
  BY <1>1, LastSteps
<1>4. ASSUME NEW o \in Outputs
      PROVE  /\ ThreadOK(ao[o]) /\ CommandOK(ao[o]) /\ PipeOK(ao[o], mp, sent)
             /\ ao[o].command \notin Single
             /\ ao[o].open => ao[o].command = "NONE" /\ ao[o].format = mp.format
             /\ ~(ao[o].open /\ ao[o].pause)
             /\ ao[o].pc = "wait" => ~Playable(ao[o], mp)
  BY <1>2, <1>3, Idle, OutputFacts
<1>5. PipeAssertionsHold'
  BY <1>1, QuietStep
<1>6. player = [mode |-> "on", todo |-> player.todo, opened |-> player.opened]
      /\ player.opened \in BOOLEAN
  BY <1>1, <1>2, NextIs
<1>7. CASE player.opened
  <2>1. /\ m = [mp EXCEPT !.chunks = Append(@, sent + 1)] /\ n = sent + 1
        /\ q = [mode |-> "on", todo |-> Each("wake"), opened |-> player.opened]
    BY <1>6, <1>7 DEF Push
  <2>2. m.chunks = Append(mp.chunks, sent + 1) /\ m.null = mp.null /\ m.format = mp.format
        /\ m \in [null : BOOLEAN, chunks : Seq(Nat \ {0}), format : Formats \cup {None}]
    <3>1. mp = [null |-> mp.null, chunks |-> mp.chunks, format |-> mp.format]
          /\ mp.null \in BOOLEAN /\ mp.chunks \in Seq(Nat \ {0})
          /\ mp.format \in Formats \cup {None} /\ sent + 1 \in Nat \ {0}
      BY <1>2, OutputsAssumption DEF ChunksOK
    <3>2. m = [null |-> mp.null, chunks |-> Append(mp.chunks, sent + 1), format |-> mp.format]
      BY <2>1, <3>1
    <3> HIDE DEF m
    <3>3. Append(mp.chunks, sent + 1) \in Seq(Nat \ {0})
      BY <3>1
    <3> QED BY <3>1, <3>2, <3>3
  <2>3. ChunksOK(m, n) /\ n = sent + 1 /\ Len(m.chunks) = Len(mp.chunks) + 1
    <3> HIDE DEF m, n
    <3>1. Len(m.chunks) = Len(mp.chunks) + 1 /\ Len(mp.chunks) \in Nat
          /\ (\A i \in 1 .. Len(mp.chunks) : m.chunks[i] = mp.chunks[i])
          /\ m.chunks[Len(mp.chunks) + 1] = sent + 1
      BY <1>2, <2>2 DEF ChunksOK
    <3>2. sent \in Nat /\ sent + 1 \in 0 .. MaxChunks /\ Len(mp.chunks) <= sent
      BY <1>2, OutputsAssumption DEF ChunksOK
    <3>3. ASSUME NEW i \in 1 .. Len(m.chunks)
          PROVE  m.chunks[i] = n - Len(m.chunks) + i
      <4>1. i \in 1 .. Len(mp.chunks) => mp.chunks[i] = sent - Len(mp.chunks) + i
        BY <1>2 DEF ChunksOK
      <4>2. n = sent + 1
        BY <2>1
      <4>3. i \in 1 .. Len(mp.chunks) \/ i = Len(mp.chunks) + 1
        BY <3>1
      <4>4. CASE i \in 1 .. Len(mp.chunks)
        <5>1. m.chunks[i] = sent - Len(mp.chunks) + i
          BY <3>1, <4>1, <4>4
        <5> QED BY <3>1, <3>2, <4>2, <4>4, <5>1
      <4>5. CASE i = Len(mp.chunks) + 1
        <5>1. m.chunks[i] = sent + 1
          BY <3>1, <4>5
        <5>2. n - Len(m.chunks) + i = sent + 1
          <6> DEFINE k == Len(mp.chunks)  l == Len(m.chunks)
          <6>1. k \in Nat /\ sent \in Nat /\ l = k + 1 /\ i = k + 1 /\ n = sent + 1
            BY <3>1, <3>2, <4>2, <4>5
          <6> HIDE DEF k, l
          <6>2. n - l + i = sent + 1
            BY <6>1
          <6> QED BY <6>2 DEF l
        <5> QED BY <5>1, <5>2
      <4> QED BY <4>3, <4>4, <4>5
    <3> QED BY <1>2, <2>1, <2>2, <3>1, <3>2, <3>3 DEF ChunksOK
  <2> HIDE DEF q, m, n
  <2>4. Complete(Each("wake"), {"wake"})
    BY Lists
  <2>5. /\ PlayerOK(q, m, n)
        /\ \A t, i : Has(q, t, i) => t = "wake"
        /\ \A o \in Outputs : Has(q, "wake", o)
    <3>1. /\ PlayerOK(q, m, n)
          /\ \A t, i : Has(q, t, i) => t \in {"wake"}
          /\ \A t \in {"wake"} \cap OfOutput, o \in Outputs : Has(q, t, o)
      <4> DEFINE todo == Each("wake")  mode == "on"  ops == {"wake"}  opened == player.opened
      <4>1. Complete(todo, ops) /\ mode \in {"off", "opening", "on", "paused"} /\ opened \in BOOLEAN
            /\ q = [mode |-> mode, todo |-> todo, opened |-> opened] /\ ~m.null
            /\ ops = {"wake"}
        BY <1>2, <1>6, <2>1, <2>2, <2>4
      <4> HIDE DEF todo, mode, ops, opened
      <4>2. /\ PlayerOK(q, m, n)
            /\ \A t, i : Has(q, t, i) => t \in ops
            /\ \A t \in ops \cap OfOutput, o \in Outputs : Has(q, t, o)
        <5>1. mode = "on" => ~m.null
          BY <4>1
        <5>2. ops = {"wake"} \/ ops = {} \/ (ops = {"close", "delete"} /\ mode # "on")
          BY <4>1
        <5> QED BY <4>1, <5>1, <5>2, NewList
      <4> QED BY <4>2 DEF ops
    <3> QED BY <3>1 DEF OfOutput
  <2>6. ASSUME NEW o \in Outputs PROVE OutputOK(o, ao[o], m, n, q)
    <3> DEFINE a == ao[o]
    <3>1. /\ ThreadOK(a) /\ CommandOK(a) /\ PipeOK(a, mp, sent) /\ a.command \notin Single
          /\ (a.open => a.command = "NONE" /\ a.format = mp.format) /\ ~(a.open /\ a.pause)
          /\ a \in Output
      BY <1>4, OutputFacts
    <3> HIDE DEF a
    <3>2. InPipe(a.chunk, mp) => InPipe(a.chunk, m) /\ First(m) = First(mp)
      <4> DEFINE c == a.chunk
      <4>1. /\ InPipe(c, mp) <=> c \in Nat /\ sent - Len(mp.chunks) < c /\ c <= sent
            /\ sent \in Nat /\ Len(mp.chunks) \in 0 .. sent
            /\ mp.chunks = <<>> <=> Len(mp.chunks) = 0
            /\ First(mp) = IF mp.chunks = <<>> THEN None ELSE sent - Len(mp.chunks) + 1
        BY <1>2, Chunks
      <4>2. /\ InPipe(c, m) <=> c \in Nat /\ n - Len(m.chunks) < c /\ c <= n
            /\ m.chunks = <<>> <=> Len(m.chunks) = 0
            /\ First(m) = IF m.chunks = <<>> THEN None ELSE n - Len(m.chunks) + 1
        BY <2>3, Chunks
      <4> HIDE DEF c
      <4>3. n = sent + 1 /\ Len(m.chunks) = Len(mp.chunks) + 1
        BY <2>3
      <4>4. ASSUME InPipe(c, mp) PROVE InPipe(c, m) /\ First(m) = First(mp)
        <5>1. c \in Nat /\ sent - Len(mp.chunks) < c /\ c <= sent
          BY <4>1, <4>4
        <5>2. n - Len(m.chunks) = sent - Len(mp.chunks) /\ c <= n /\ Len(mp.chunks) # 0
              /\ Len(m.chunks) # 0
          BY <4>1, <4>3, <5>1
        <5> QED BY <4>1, <4>2, <5>1, <5>2
      <4> QED BY <4>4 DEF c
    <3>3. a.last <= sent => a.last <= n
      BY <1>2, <2>3, <3>1 DEF ChunksOK, Output
    <3>4. PipeOK(a, m, n)
      BY <2>2, <3>1, <3>2, <3>3 DEF PipeOK, Single
    <3>5. OutputOK(o, a, m, n, q)
      BY <2>2, <2>5, <3>1, <3>4, Ready
    <3> QED BY <3>5 DEF a
  <2>7. ao' \in [Outputs -> Output] /\ ao' = ao
    BY <1>1 DEF OutputsInv
  <2> QED BY <1>5, <2>3, <2>5, <2>6, <2>7 DEF OutputsInv, q, m, n
<1>8. CASE ~player.opened
  <2>1. /\ UNCHANGED <<mp, sent>>
        /\ q = [mode |-> "paused", todo |-> <<>>, opened |-> player.opened]
    BY <1>6, <1>8 DEF Push
  <2> HIDE DEF q
  <2>2. Complete(<<>>, {})
    BY Lists
  <2>3. PlayerOK(q, mp, sent) /\ (\A t, i : ~Has(q, t, i)) /\ q.mode = "paused"
    BY <1>6, <2>1, <2>2, NewList
  <2>4. ASSUME NEW o \in Outputs PROVE OutputOK(o, ao[o], mp, sent, q)
    BY <1>4, <2>3, Ready
  <2> QED BY <1>1, <1>5, <2>1, <2>3, <2>4, OnlyThePlayer DEF q
<1> QED BY <1>6, <1>7, <1>8

LEMMA OpenDoneStep ==
  ASSUME OutputsInv, OpenDone
  PROVE  OutputsInv'
<1> DEFINE q == player'
<1>1. Now("opened") /\ UNCHANGED <<ao, mp, notify, sent, asserts>>
  BY DEF OpenDone
<1>2. player.mode = "opening" /\ player.opened \in BOOLEAN
      /\ player = [mode |-> "opening", todo |-> player.todo, opened |-> player.opened]
  <2>1. PlayerOK(player, mp, sent) /\ Has(player, "opened", 0) /\ player.opened \in BOOLEAN
        /\ player = [mode |-> player.mode, todo |-> player.todo, opened |-> player.opened]
    BY <1>1, NextIs DEF OfPlayer
  <2>2. Doing(player, {"opened"})
    BY <2>1, StepsAreSteps DEF Doing, Has
  <2> QED BY <2>1, <2>2 DEF PlayerOK
<1>3. \A t, i : Has(player, t, i) => t = "opened"
  BY <1>1, LastSteps
<1>4. ASSUME NEW o \in Outputs
      PROVE  /\ ThreadOK(ao[o]) /\ CommandOK(ao[o]) /\ PipeOK(ao[o], mp, sent)
             /\ ao[o].command \notin Single
             /\ ao[o].open => ao[o].command = "NONE" /\ ao[o].format = mp.format /\ ~mp.null
             /\ ~(ao[o].open /\ ao[o].pause)
             /\ ao[o].pc = "wait" => ~Playable(ao[o], mp)
  BY <1>2, <1>3, Idle, OutputFacts DEF PipeOK
<1>5. PipeAssertionsHold'
  BY <1>1, QuietStep
<1>6. CASE \E o \in Outputs : ao[o].open
  <2>1. q = [mode |-> "on", todo |-> <<>>, opened |-> player.opened]
    BY <1>2, <1>6 DEF OpenDone
  <2> HIDE DEF q
  <2>2. ~mp.null
    BY <1>4, <1>6
  <2>3. Complete(<<>>, {})
    BY Lists
  <2>4. PlayerOK(q, mp, sent) /\ (\A t, i : ~Has(q, t, i))
    BY <1>2, <2>1, <2>2, <2>3, NewList
  <2>5. ASSUME NEW o \in Outputs PROVE OutputOK(o, ao[o], mp, sent, q)
    BY <1>4, <2>4, Ready
  <2> QED BY <1>1, <1>5, <2>4, <2>5, OnlyThePlayer DEF q
<1>7. CASE \A o \in Outputs : ~ao[o].open
  <2> DEFINE todo == Each("close") \o All("delete")
  <2>1. q = [mode |-> "off", todo |-> todo, opened |-> player.opened]
    BY <1>2, <1>7 DEF OpenDone
  <2>2. Complete(todo, {"close", "delete"})
    BY Lists
  <2> HIDE DEF q, todo
  <2>3. PlayerOK(q, mp, sent) /\ (\A t, i : Has(q, t, i) => t \in {"close", "delete"})
    BY <1>2, <2>1, <2>2, NewList
  <2>4. ASSUME NEW o \in Outputs PROVE OutputOK(o, ao[o], mp, sent, q)
    BY <1>4, <1>7, <2>3, Ready
  <2> QED BY <1>1, <1>5, <2>3, <2>4, OnlyThePlayer DEF q
<1> QED BY <1>6, <1>7

LEMMA ClearPipeStep ==
  ASSUME OutputsInv, ClearPipe
  PROVE  OutputsInv'
<1> DEFINE q == player'  m == mp'  h == Head(player.todo)
<1>1. Now("clear") /\ UNCHANGED <<ao, notify, sent, asserts>>
      /\ q = [player EXCEPT !.todo = Tail(@)] /\ m = [mp EXCEPT !.chunks = <<>>]
  BY DEF ClearPipe
<1>2. ChunksOK(mp, sent) /\ PlayerOK(player, mp, sent) /\ TodoOK(player.todo)
      /\ player.todo # <<>> /\ h.op = "clear" /\ h.o = 0 /\ Has(player, "clear", 0)
  BY <1>1, NextIs DEF OfPlayer
<1>3. \A t, i : Has(player, t, i) => t \in {"clear", "allow"}
  BY <1>2, WhatFollows
<1>4. /\ q \in [mode : {"off", "opening", "on", "paused"}, todo : Seq(StepSet), opened : BOOLEAN]
      /\ q.mode = player.mode /\ TodoOK(q.todo)
      /\ \A t, i : Has(q, t, i) <=> Has(player, t, i) /\ ~(t = "clear" /\ i = 0)
  BY <1>1, <1>2, Gone
<1>5. /\ m \in [null : BOOLEAN, chunks : Seq(Nat \ {0}), format : Formats \cup {None}]
      /\ m.chunks = <<>> /\ m.null = mp.null /\ m.format = mp.format /\ Len(m.chunks) = 0
  <2>1. mp = [null |-> mp.null, chunks |-> mp.chunks, format |-> mp.format]
        /\ mp.null \in BOOLEAN /\ mp.format \in Formats \cup {None}
    BY <1>2 DEF ChunksOK
  <2>2. m = [null |-> mp.null, chunks |-> <<>>, format |-> mp.format]
    BY <1>1, <2>1
  <2> HIDE DEF m
  <2>3. <<>> \in Seq(Nat \ {0}) /\ Len(<<>>) = 0
    OBVIOUS
  <2> QED BY <2>1, <2>2, <2>3
<1> HIDE DEF q, m, h
<1>6. ChunksOK(m, sent)
  BY <1>2, <1>5, OutputsAssumption DEF ChunksOK
<1>7. PlayerOK(q, m, sent)
  <2>1. PlayerOK(q, mp, sent)
    BY <1>2, <1>3, <1>4, StillThePlayer
  <2>2. ~Doing(q, {"shift"})
    <3>1. \A t, i : Has(q, t, i) => t # "shift"
      BY <1>3, <1>4
    <3> QED BY <1>4, <3>1, DoesWhatIsLeft
  <2> QED BY <1>5, <2>1, <2>2 DEF PlayerOK
<1>8. ASSUME NEW o \in Outputs PROVE OutputOK(o, ao[o], m, sent, q)
  <2> DEFINE a == ao[o]
  <2>1. /\ ThreadOK(a) /\ CommandOK(a) /\ PipeOK(a, mp, sent) /\ a.command \notin Single
        /\ (a.open => a.command = "NONE" /\ a.format = mp.format)
        /\ (a.open /\ a.pause => player.mode \in {"paused", "off"})
        /\ PlanOK(o, a, mp, player)
    BY <1>3, Idle, OutputFacts
  <2> HIDE DEF a
  <2>2. a.chunk = None /\ (a.open => ~a.allow_play)
    BY <1>2, <1>3, <2>1 DEF PlanOK, ThreadOK
  <2>3. PipeOK(a, m, sent)
    BY <1>5, <2>1, <2>2 DEF PipeOK, Single
  <2>4. /\ ~Playable(a, m)
        /\ ~Has(q, "clear", 0) /\ ~Has(q, "delete", 0) /\ ~Has(q, "shift", 0)
    BY <1>3, <1>4, <2>2 DEF Playable
  <2>5. OutputOK(o, a, m, sent, q)
    BY <1>4, <1>5, <2>1, <2>3, <2>4, Ready
  <2> QED BY <2>5 DEF a
<1>9. PipeAssertionsHold'
  BY <1>1, QuietStep
<1>10. ao' \in [Outputs -> Output] /\ ao' = ao /\ sent' = sent
  BY <1>1 DEF OutputsInv
<1> QED BY <1>6, <1>7, <1>8, <1>9, <1>10 DEF OutputsInv, q, m

LEMMA DeletePipeStep ==
  ASSUME OutputsInv, DeletePipe
  PROVE  OutputsInv'
<1> DEFINE q == player'  m == mp'  h == Head(player.todo)
<1>1. Now("delete") /\ UNCHANGED <<notify, sent, asserts>>
      /\ q = [player EXCEPT !.todo = Tail(@)]
      /\ m = [null |-> TRUE, chunks |-> <<>>, format |-> None]
      /\ ao' = [o \in Outputs |-> [ao[o] EXCEPT !.pipe = IF @ = "g_mp" THEN "stale" ELSE @]]
  BY DEF DeletePipe
<1>2. ChunksOK(mp, sent) /\ PlayerOK(player, mp, sent) /\ TodoOK(player.todo)
      /\ player.todo # <<>> /\ h.op = "delete" /\ h.o = 0 /\ Has(player, "delete", 0)
  BY <1>1, NextIs DEF OfPlayer
<1>3. \A t, i : Has(player, t, i) => t = "delete"
  BY <1>1, LastSteps
<1>4. /\ q \in [mode : {"off", "opening", "on", "paused"}, todo : Seq(StepSet), opened : BOOLEAN]
      /\ q.mode = player.mode /\ TodoOK(q.todo)
      /\ \A t, i : Has(q, t, i) <=> Has(player, t, i) /\ ~(t = "delete" /\ i = 0)
  BY <1>1, <1>2, Gone
<1>5. ChunksOK(m, sent) /\ m.null /\ m.chunks = <<>> /\ m.format = None
  BY <1>1, <1>2 DEF ChunksOK
<1>6. player.mode # "on"
  <2>1. Doing(player, {"delete"})
    BY <1>2, StepsAreSteps DEF Doing, Has
  <2> QED BY <1>2, <2>1 DEF PlayerOK
<1> HIDE DEF q, m, h
<1>7. PlayerOK(q, m, sent)
  <2>1. PlayerOK(q, mp, sent)
    BY <1>2, <1>3, <1>4, StillThePlayer
  <2>2. ~Doing(q, {"shift"})
    <3>1. \A t, i : Has(q, t, i) => t # "shift"
      BY <1>3, <1>4
    <3> QED BY <1>4, <3>1, DoesWhatIsLeft
  <2> QED BY <1>4, <1>5, <1>6, <2>1, <2>2 DEF PlayerOK
<1>8. ASSUME NEW o \in Outputs PROVE ao'[o] \in Output /\ OutputOK(o, ao'[o], m, sent, q)
  <2> DEFINE a == ao[o]  b == ao'[o]
  <2>1. /\ ThreadOK(a) /\ CommandOK(a) /\ PipeOK(a, mp, sent) /\ a.command \notin Single
        /\ (a.open => a.command = "NONE") /\ PlanOK(o, a, mp, player) /\ a \in Output
    BY <1>3, Idle, OutputFacts
  <2>2. b = [a EXCEPT !.pipe = IF @ = "g_mp" THEN "stale" ELSE @]
    BY <1>1
  <2> HIDE DEF a, b
  <2>3. ~a.open /\ a.command \notin {"OPEN", "REOPEN"}
    BY <1>2, <1>3, <2>1 DEF PlanOK
  <2>4. /\ b \in Output /\ b.open = a.open /\ b.command = a.command /\ b.chunk = a.chunk
        /\ b.pc = a.pc /\ b.in_playback_loop = a.in_playback_loop /\ b.pause = a.pause
        /\ b.woken_for_play = a.woken_for_play /\ b.last = a.last
        /\ b.chunk_finished = a.chunk_finished /\ b.format = a.format
    BY <2>1, <2>2 DEF Output
  <2>5. ThreadOK(b) /\ CommandOK(b)
    BY <2>1, <2>3, <2>4 DEF ThreadOK, CommandOK
  <2>6. PipeOK(b, m, sent)
    BY <2>1, <2>3, <2>4 DEF PipeOK, ThreadOK
  <2>7. ~b.open /\ ~Playable(b, m) /\ ~Has(q, "clear", 0) /\ ~Has(q, "shift", 0)
    BY <1>3, <1>4, <2>3, <2>4 DEF Playable
  <2>8. OutputOK(o, b, m, sent, q)
    BY <2>1, <2>4, <2>5, <2>6, <2>7, Ready
  <2> QED BY <2>4, <2>8 DEF b
<1>9. PipeAssertionsHold'
  BY <1>1, QuietStep
<1>10. ao' \in [Outputs -> Output] /\ sent' = sent
  <2>1. ao' = [o \in Outputs |-> ao'[o]]
    BY <1>1
  <2> QED BY <1>1, <1>8, <2>1
<1> QED BY <1>5, <1>7, <1>8, <1>9, <1>10 DEF OutputsInv, q, m

LEMMA CheckStep ==
  ASSUME OutputsInv, Check
  PROVE  OutputsInv'
<1> DEFINE q == player'  h == Head(player.todo)
           over == ~(Peek # None /\ chunk_is_consumed(Peek))
<1>1. Now("check") /\ UNCHANGED <<ao, mp, notify, sent>>
      /\ asserts' = asserts \cup
           Fails(\A o \in Outputs : ao[o].open /\ ao[o].chunk # None =>
                   \E i \in DOMAIN mp.chunks : mp.chunks[i] = ao[o].chunk, "contains")
  BY DEF Check
<1>2. /\ ChunksOK(mp, sent) /\ PlayerOK(player, mp, sent) /\ TodoOK(player.todo)
      /\ h.o = 0 /\ Has(player, "check", 0)
  BY <1>1, NextIs DEF OfPlayer
<1>3. \A t, i : Has(player, t, i) => t = "check"
  BY <1>1, LastSteps
<1>4. player.mode \in {"on", "paused"}
  <2>1. Doing(player, {"check", "shift"})
    BY <1>2, StepsAreSteps DEF Doing, Has
  <2> QED BY <1>2, <2>1 DEF PlayerOK
<1>5. PipeAssertionsHold'
  <2>1. \A o \in Outputs : ao[o].open /\ ao[o].chunk # None =>
           \E i \in DOMAIN mp.chunks : mp.chunks[i] = ao[o].chunk
    <3>1. DOMAIN mp.chunks = 1 .. Len(mp.chunks)
      BY <1>2 DEF ChunksOK
    <3> QED BY <3>1, OutputFacts DEF PipeOK, InPipe
  <2>2. asserts' = asserts \cup {}
    BY <1>1, <2>1 DEF Fails
  <2> QED BY <2>2, QuietStep
<1> DEFINE todo == IF Peek # None /\ chunk_is_consumed(Peek)
                   THEN All("shift") \o player.todo ELSE Tail(player.todo)
<1>5a. q = [player EXCEPT !.todo = todo]
  BY DEF Check
<1>6. CASE over
  <2>0. todo = Tail(player.todo)
    BY <1>6
  <2> HIDE DEF todo
  <2>1. q = [player EXCEPT !.todo = Tail(@)]
    BY <1>5a, <2>0
  <2>2. /\ q \in [mode : {"off", "opening", "on", "paused"}, todo : Seq(StepSet), opened : BOOLEAN]
        /\ q.mode = player.mode /\ TodoOK(q.todo)
        /\ \A t, i : Has(q, t, i) <=> Has(player, t, i) /\ ~(t = "check" /\ i = 0)
    BY <1>1, <1>2, <2>1, Gone
  <2> HIDE DEF q, h
  <2>3. PlayerOK(q, mp, sent)
    BY <1>2, <1>3, <2>2, StillThePlayer
  <2>4. ASSUME NEW o \in Outputs PROVE OutputOK(o, ao[o], mp, sent, q)
    BY <1>3, <2>2, OutputFacts, LessIsLeft
  <2> QED BY <1>1, <1>5, <2>3, <2>4, OnlyThePlayer DEF q
<1>7. CASE ~over
  <2>0. todo = All("shift") \o player.todo /\ Peek # None /\ chunk_is_consumed(Peek)
    BY <1>7
  <2> HIDE DEF todo
  <2>1. q = [player EXCEPT !.todo = All("shift") \o @] /\ First(mp) # None
        /\ \A o \in Outputs : chunk_is_consumed_in(ao[o], First(mp))
    BY <1>5a, <2>0, SameNext DEF chunk_is_consumed
  <2>2. /\ q \in [mode : {"off", "opening", "on", "paused"}, todo : Seq(StepSet), opened : BOOLEAN]
        /\ q.mode = player.mode /\ TodoOK(q.todo)
        /\ \A t, i : Has(q, t, i) <=> Has(player, t, i) \/ (t = "shift" /\ i = 0)
    <3> DEFINE r == [player EXCEPT !.todo = All("shift") \o @]
    <3>0. "shift" \in {"sleep", "shift"} /\ "sleep" # "shift"
      OBVIOUS
    <3>1. /\ r \in [mode : {"off", "opening", "on", "paused"}, todo : Seq(StepSet), opened : BOOLEAN]
          /\ r.mode = player.mode /\ TodoOK(r.todo)
          /\ \A t, i : Has(r, t, i) <=> Has(player, t, i) \/ (t = "shift" /\ i = 0)
      BY <1>1, <3>0, PutInFront, Zenon
    <3> HIDE DEF r
    <3>2. q = r
      BY <2>1 DEF r
    <3> QED BY <3>1, <3>2
  <2> HIDE DEF q, h
  <2>3. PlayerOK(q, mp, sent)
    <3>1. \A kinds : Doing(q, kinds) => "check" \in kinds \/ "shift" \in kinds
      BY <1>3, <2>2, DoesWhatIsLeft
    <3>2. mp.chunks # <<>>
      BY <2>1 DEF First
    <3> QED BY <1>2, <1>4, <2>2, <3>1, <3>2 DEF PlayerOK
  <2>4. ASSUME NEW o \in Outputs PROVE OutputOK(o, ao[o], mp, sent, q)
    <3> DEFINE a == ao[o]
    <3>1. /\ OutputOK(o, a, mp, sent, player) /\ AwaitOK(o, a, player)
          /\ PlanOK(o, a, mp, player) /\ SleepOK(o, a, mp, player)
      BY OutputFacts
    <3>2. ShiftOK(a, mp, q)
      BY <2>1, SameNext DEF ShiftOK, chunk_is_consumed_in
    <3> HIDE DEF a
    <3>3. AwaitOK(o, a, q)
      BY <2>2, <3>1 DEF AwaitOK, Commanding
    <3>4. PlanOK(o, a, mp, q)
      BY <2>2, <3>1 DEF PlanOK
    <3>5. SleepOK(o, a, mp, q)
      BY <2>2, <3>1 DEF SleepOK
    <3>6. OutputOK(o, a, mp, sent, q)
      BY <3>1, <3>2, <3>3, <3>4, <3>5 DEF OutputOK
    <3> QED BY <3>6 DEF a
  <2> QED BY <1>1, <1>5, <2>3, <2>4, OnlyThePlayer DEF q
<1> QED BY <1>6, <1>7

-----------------------------------------------------------------------------
(* The head of the pipe is removed.                                        *)

\* No output has anything else to do.
LEMMA ReadyToShift ==
  ASSUME OutputsInv, Now("shift")
  PROVE  /\ ChunksOK(mp, sent) /\ PlayerOK(player, mp, sent) /\ Len(mp.chunks) \in Nat \ {0}
         /\ player.mode \in {"on", "paused"} /\ mp.chunks # <<>> /\ Head(player.todo).o = 0
         /\ \A t, i : Has(player, t, i) => t \in {"shift", "check"} /\ i = 0
         /\ \A o \in Outputs :
              LET a == ao[o] IN
              /\ a \in Output /\ ThreadOK(a) /\ CommandOK(a) /\ PipeOK(a, mp, sent)
              /\ a.command \notin Single
              /\ a.open => /\ a.command = "NONE" /\ a.format = mp.format /\ a.chunk # None
                           /\ a.pause => player.mode = "paused"
                           /\ a.chunk = First(mp) =>
                                a.chunk_finished /\ After(First(mp), mp) = None
              /\ a.pc = "wait" => ~Playable(a, mp)
<1>1. /\ ChunksOK(mp, sent) /\ PlayerOK(player, mp, sent) /\ TodoOK(player.todo)
      /\ player.todo # <<>> /\ Head(player.todo).op = "shift" /\ Head(player.todo).o = 0
      /\ Has(player, "shift", 0)
  BY NextIs DEF OfPlayer
<1>2. Doing(player, {"check", "shift"}) /\ Doing(player, {"shift"})
  BY <1>1, StepsAreSteps DEF Doing, Has
<1>3. player.mode \in {"on", "paused"} /\ mp.chunks # <<>>
  BY <1>1, <1>2 DEF PlayerOK
<1>4. Len(mp.chunks) \in Nat \ {0}
  BY <1>1, <1>3, Chunks
<1>5. \A t, i : Has(player, t, i) => t \in {"shift", "check"}
  BY <1>1, WhatFollows
<1>6. \A t, i : Has(player, t, i) => i = 0
  <2> SUFFICES ASSUME NEW t, NEW i, Has(player, t, i) PROVE i = 0
    OBVIOUS
  <2>1. Step(t, i) \in StepSet /\ Step(t, i).op \in OfPlayer /\ Step(t, i).o = i
    BY <1>1, <1>5, NextStep, StepsAreSteps DEF Has, OfPlayer
  <2> QED BY <2>1, StepIsRecord
<1>7. ASSUME NEW o \in Outputs
      PROVE  /\ ao[o].command \notin Single
             /\ ao[o].open => ao[o].command = "NONE" /\ ao[o].format = mp.format
             /\ ao[o].open /\ ao[o].pause => player.mode = "paused"
             /\ ao[o].pc = "wait" => ~Playable(ao[o], mp)
  BY <1>3, <1>5, Idle
<1>8. ASSUME NEW o \in Outputs PROVE ShiftOK(ao[o], mp, player)
  BY OutputFacts
<1> QED BY <1>1, <1>3, <1>4, <1>5, <1>6, <1>7, <1>8, OutputFacts DEF ShiftOK

LEMMA ShiftStep ==
  ASSUME OutputsInv, Shift
  PROVE  OutputsInv'
<1> DEFINE q == player'  m == mp'  l == Len(mp.chunks)
<1>1. Now("shift") /\ UNCHANGED <<notify, sent>>
      /\ q = [player EXCEPT !.todo = Tail(@)] /\ m = [mp EXCEPT !.chunks = Tail(@)]
      /\ ao' = [o \in Outputs |-> IF l = 1 THEN ClearedTail(ao[o]) ELSE ao[o]]
      /\ asserts' = asserts \cup
           Fails(l = 1 => \A o \in Outputs : ao[o].open =>
                   ao[o].chunk = Peek /\ ao[o].chunk_finished, "tail")
  BY DEF Shift
<1>2. /\ ChunksOK(mp, sent) /\ PlayerOK(player, mp, sent) /\ l \in Nat \ {0} /\ sent \in Nat
      /\ player.mode \in {"on", "paused"} /\ mp.chunks # <<>> /\ Head(player.todo).o = 0
      /\ ~mp.null
      /\ \A t, i : Has(player, t, i) => t \in {"shift", "check"} /\ i = 0
  BY <1>1, ReadyToShift, Chunks DEF ChunksOK
<1>3. /\ q \in [mode : {"off", "opening", "on", "paused"}, todo : Seq(StepSet), opened : BOOLEAN]
      /\ q.mode = player.mode /\ TodoOK(q.todo)
      /\ \A t, i : Has(q, t, i) <=> Has(player, t, i) /\ ~(t = "shift" /\ i = 0)
  BY <1>1, <1>2, Gone
<1>4. /\ m \in [null : BOOLEAN, chunks : Seq(Nat \ {0}), format : Formats \cup {None}]
      /\ m.chunks = Tail(mp.chunks) /\ m.null = mp.null /\ m.format = mp.format
  <2>1. mp = [null |-> mp.null, chunks |-> mp.chunks, format |-> mp.format]
        /\ mp.null \in BOOLEAN /\ mp.format \in Formats \cup {None}
        /\ mp.chunks \in Seq(Nat \ {0})
    BY <1>2 DEF ChunksOK
  <2>2. m = [null |-> mp.null, chunks |-> Tail(mp.chunks), format |-> mp.format]
    BY <1>1, <2>1
  <2> HIDE DEF m
  <2>3. Tail(mp.chunks) \in Seq(Nat \ {0})
    BY <1>2, <2>1
  <2> QED BY <2>1, <2>2, <2>3
<1> HIDE DEF q, m
<1>5. ChunksOK(m, sent) /\ Len(m.chunks) = l - 1
  <2>1. Len(m.chunks) = l - 1 /\ \A i \in 1 .. l - 1 : m.chunks[i] = mp.chunks[i + 1]
    BY <1>2, <1>4 DEF ChunksOK
  <2>2. \A i \in 1 .. l : mp.chunks[i] = sent - l + i
    BY <1>2 DEF ChunksOK
  <2>3. sent \in 0 .. MaxChunks /\ l <= sent /\ m.format \in Formats
    BY <1>2, <1>4 DEF ChunksOK
  <2> HIDE DEF l
  <2>4. ASSUME NEW i \in 1 .. l - 1 PROVE m.chunks[i] = sent - (l - 1) + i
    <3>1. i + 1 \in 1 .. l
      BY <1>2
    <3>2. m.chunks[i] = sent - l + (i + 1)
      BY <2>1, <2>2, <3>1
    <3> QED BY <1>2, <3>2
  <2>5. l - 1 <= sent /\ l - 1 \in Nat
    BY <1>2, <2>3
  <2> QED BY <1>2, <1>4, <2>1, <2>3, <2>4, <2>5 DEF ChunksOK
<1>6. PlayerOK(q, m, sent)
  <2>1. PlayerOK(q, mp, sent)
    BY <1>2, <1>3, StillThePlayer
  <2>2. ~Doing(q, {"shift"}) /\ ~Doing(q, {"drain"})
    <3>1. \A t, i : Has(q, t, i) => t \notin {"shift", "drain"}
      BY <1>2, <1>3
    <3> QED BY <1>3, <3>1, DoesWhatIsLeft
  <2> QED BY <1>4, <2>1, <2>2 DEF PlayerOK
<1>7. /\ \A c : InPipe(c, mp) <=> c \in Nat /\ sent - l < c /\ c <= sent
      /\ First(mp) = sent - l + 1
      /\ \A c \in Nat : After(c, mp) = IF InPipe(c, mp) /\ c < sent THEN c + 1 ELSE None
  BY <1>2, Chunks
<1>8. /\ \A c : InPipe(c, m) <=> c \in Nat /\ sent - (l - 1) < c /\ c <= sent
      /\ First(m) = IF m.chunks = <<>> THEN None ELSE sent - (l - 1) + 1
      /\ m.chunks = <<>> <=> l = 1
      /\ \A c \in Nat : After(c, m) = IF InPipe(c, m) /\ c < sent THEN c + 1 ELSE None
  <2>1. /\ m.chunks = <<>> <=> Len(m.chunks) = 0
        /\ \A c : InPipe(c, m) <=> c \in Nat /\ sent - Len(m.chunks) < c /\ c <= sent
        /\ First(m) = IF m.chunks = <<>> THEN None ELSE sent - Len(m.chunks) + 1
        /\ \A c \in Nat : After(c, m) = IF InPipe(c, m) /\ c < sent THEN c + 1 ELSE None
    BY <1>5, Chunks
  <2>2. Len(m.chunks) = l - 1 /\ l \in Nat
    BY <1>2, <1>5
  <2> HIDE DEF l
  <2>3. l - 1 = 0 <=> l = 1
    BY <2>2
  <2> QED BY <2>1, <2>2, <2>3
<1>9. sent - l + 1 \in Nat \ {None} /\ l <= sent
  BY <1>2, Chunks DEF None
<1>10. ASSUME NEW o \in Outputs
       PROVE  LET a == ao[o] IN
              /\ a \in Output /\ ThreadOK(a) /\ CommandOK(a) /\ PipeOK(a, mp, sent)
              /\ a.command \notin Single
              /\ a.open => /\ a.command = "NONE" /\ a.format = mp.format /\ a.chunk # None
                           /\ a.pause => player.mode = "paused"
                           /\ a.chunk = First(mp) =>
                                a.chunk_finished /\ After(First(mp), mp) = None
              /\ a.pc = "wait" => ~Playable(a, mp)
  BY <1>1, ReadyToShift
<1>11. /\ ~Has(q, "clear", 0) /\ ~Has(q, "delete", 0) /\ ~Has(q, "shift", 0)
  BY <1>2, <1>3
<1> HIDE DEF l
<1>12. ASSUME NEW o \in Outputs, l = 1
       PROVE  /\ ao'[o] \in Output /\ OutputOK(o, ao'[o], m, sent, q)
              /\ ao[o].open => ao[o].chunk = Peek /\ ao[o].chunk_finished
  <2> DEFINE a == ao[o]  b == ClearedTail(a)
  <2>1. /\ a \in Output /\ ThreadOK(a) /\ CommandOK(a) /\ PipeOK(a, mp, sent)
        /\ a.command \notin Single
        /\ a.open => /\ a.command = "NONE" /\ a.format = mp.format /\ a.chunk # None
                     /\ a.pause => player.mode = "paused"
                     /\ a.chunk = First(mp) =>
                          a.chunk_finished /\ After(First(mp), mp) = None
    BY <1>10
  <2>2. ao'[o] = b
    BY <1>1, <1>12
  <2>3. b = IF a.open THEN [a EXCEPT !.chunk = None] ELSE a
    BY DEF ClearedTail
  <2> HIDE DEF a, b
  <2>4. /\ b \in Output /\ b.open = a.open /\ b.command = a.command
        /\ b.chunk = (IF a.open THEN None ELSE a.chunk)
        /\ b.pc = a.pc /\ b.in_playback_loop = a.in_playback_loop /\ b.pause = a.pause
        /\ b.woken_for_play = a.woken_for_play /\ b.last = a.last /\ b.pipe = a.pipe
        /\ b.chunk_finished = a.chunk_finished /\ b.format = a.format
        /\ b.really_enabled = a.really_enabled /\ b.failed = a.failed
    BY <2>1, <2>3 DEF Output, None
  <2>5. a.open => a.chunk = First(mp) /\ a.chunk_finished
    <3>1. a.open => a.chunk \in Nat /\ sent - l < a.chunk /\ a.chunk <= sent
      BY <1>7, <2>1 DEF PipeOK
    <3>2. First(mp) = sent
      BY <1>2, <1>7, <1>12
    <3>3. a.open => a.chunk = sent
      BY <1>2, <1>12, <3>1
    <3> QED BY <2>1, <3>2, <3>3
  <2>6. b.chunk = None
    BY <2>1, <2>4 DEF ThreadOK
  <2>7. ThreadOK(b) /\ CommandOK(b)
    BY <2>1, <2>4, <2>5, <2>6 DEF ThreadOK, CommandOK, Single
  <2>8. PipeOK(b, m, sent)
    BY <1>4, <1>8, <1>12, <2>1, <2>4, <2>6 DEF PipeOK, Single
  <2>9. ~Playable(b, m)
    BY <1>8, <1>12, <2>6 DEF Playable, NextOf
  <2>10. OutputOK(o, b, m, sent, q)
    BY <1>3, <1>4, <1>11, <2>1, <2>4, <2>7, <2>8, <2>9, Ready
  <2> QED BY <2>2, <2>4, <2>5, <2>10, SameNext DEF a
<1>13. ASSUME NEW o \in Outputs, l # 1
       PROVE  ao'[o] \in Output /\ OutputOK(o, ao'[o], m, sent, q)
  <2> DEFINE a == ao[o]
  <2>1. /\ a \in Output /\ ThreadOK(a) /\ CommandOK(a) /\ PipeOK(a, mp, sent)
        /\ a.command \notin Single
        /\ a.open => /\ a.command = "NONE" /\ a.format = mp.format /\ a.chunk # None
                     /\ a.pause => player.mode = "paused"
                     /\ a.chunk = First(mp) =>
                          a.chunk_finished /\ After(First(mp), mp) = None
        /\ a.pc = "wait" => ~Playable(a, mp)
    BY <1>10
  <2>2. ao'[o] = a
    BY <1>1, <1>13
  <2> HIDE DEF a
  <2>3. a.open => a.chunk # First(mp)
    <3>1. First(mp) \in Nat /\ First(mp) < sent /\ InPipe(First(mp), mp)
      BY <1>2, <1>7, <1>9, <1>13
    <3>2. After(First(mp), mp) # None
      <4>1. After(First(mp), mp) = First(mp) + 1
        BY <1>7, <3>1
      <4> QED BY <3>1, <4>1 DEF None
    <3> QED BY <2>1, <3>2
  <2>4. a.open => a.chunk \in Nat /\ sent - l + 1 < a.chunk /\ a.chunk <= sent
    <3>1. a.open => a.chunk \in Nat /\ sent - l < a.chunk /\ a.chunk <= sent
      BY <1>7, <2>1 DEF PipeOK
    <3> QED BY <1>2, <1>7, <2>3, <3>1
  <2>5. a.open => InPipe(a.chunk, m) /\ InPipe(a.chunk, mp)
    BY <1>2, <1>7, <1>8, <2>4
  <2>6. a.open => After(a.chunk, m) = After(a.chunk, mp)
    BY <1>7, <1>8, <2>4, <2>5
  <2>7. PipeOK(a, m, sent)
    BY <1>4, <2>1, <2>3, <2>5 DEF PipeOK, Single, ThreadOK
  <2>8. a.pc = "wait" => ~Playable(a, m)
    BY <2>1, <2>6 DEF Playable, NextOf
  <2>9. OutputOK(o, a, m, sent, q)
    BY <1>3, <1>4, <1>11, <2>1, <2>7, <2>8, Ready
  <2> QED BY <2>1, <2>2, <2>9
<1>14. PipeAssertionsHold'
  <2>1. l = 1 => \A o \in Outputs : ao[o].open => ao[o].chunk = Peek /\ ao[o].chunk_finished
    BY <1>12
  <2>2. asserts' = asserts \cup {}
    BY <1>1, <2>1 DEF Fails
  <2> QED BY <2>2, QuietStep
<1>15. ao' \in [Outputs -> Output] /\ sent' = sent
  <2>1. ao' = [o \in Outputs |-> ao'[o]]
    BY <1>1
  <2>2. \A o \in Outputs : ao'[o] \in Output
    BY <1>12, <1>13
  <2> QED BY <1>1, <2>1, <2>2
<1>16. \A o \in Outputs : OutputOK(o, ao'[o], m, sent', q)
  BY <1>12, <1>13, <1>15
<1> QED BY <1>5, <1>6, <1>14, <1>15, <1>16 DEF OutputsInv, q, m

-----------------------------------------------------------------------------
(* The results.                                                            *)

LEMMA PlayerStepStep ==
  ASSUME OutputsInv, PlayerStep, AlwaysOn = {}
  PROVE  OutputsInv'
<1>1. CASE Await \/ WaitNotify
  BY <1>1, AwaitStep, WaitNotifyStep
<1>2. CASE EnableDisable \/ ResetReopen \/ Update \/ OpenResult \/ Wake
  BY <1>2, EnableDisableStep, ResetReopenStep, UpdateStep, OpenResultStep, WakeStep
<1>3. CASE PauseOutput \/ DrainOutput \/ CancelOutput
  BY <1>3, SendSteps
<1>4. CASE AllowPlay \/ Close \/ Release
  BY <1>4, AllowPlayStep, CloseStep, ReleaseStep
<1>5. CASE Push \/ ClearPipe \/ DeletePipe \/ OpenDone \/ Check \/ Shift
  BY <1>5, PushStep, ClearPipeStep, DeletePipeStep, OpenDoneStep, CheckStep, ShiftStep
<1> QED BY <1>1, <1>2, <1>3, <1>4, <1>5 DEF PlayerStep

LEMMA OutputsInit ==
  Init => OutputsInv
<1> SUFFICES ASSUME Init PROVE OutputsInv
  OBVIOUS
<1>1. /\ mp = [null |-> TRUE, chunks |-> <<>>, format |-> None]
      /\ player = [mode |-> "off", todo |-> <<>>, opened |-> FALSE]
      /\ sent = 0 /\ asserts = {}
      /\ ao = [o \in Outputs |->
           [command |-> "NONE", open |-> FALSE, enabled |-> TRUE,
            really_enabled |-> FALSE, allow_play |-> TRUE, pause |-> FALSE,
            chunk |-> None, chunk_finished |-> FALSE, in_playback_loop |-> FALSE,
            woken_for_play |-> FALSE, pipe |-> "null", failed |-> FALSE,
            format |-> None, pc |-> "wait", last |-> None]]
  BY DEF Init
<1>2. ChunksOK(mp, sent)
  BY <1>1, OutputsAssumption DEF ChunksOK
<1>3. PlayerOK(player, mp, sent) /\ \A t, i : ~Has(player, t, i)
  <2> DEFINE mode == "off"  todo == <<>>  opened == FALSE  ops == {}
  <2>1. /\ Complete(todo, ops) /\ mode \in {"off", "opening", "on", "paused"} /\ opened \in BOOLEAN
        /\ player = [mode |-> mode, todo |-> todo, opened |-> opened] /\ mode # "on"
        /\ ops = {}
    BY <1>1, Lists
  <2> HIDE DEF mode, todo, opened, ops
  <2>2. PlayerOK(player, mp, sent) /\ \A t, i : Has(player, t, i) => t \in ops
    BY <2>1, NewList
  <2> QED BY <2>1, <2>2
<1>4. ASSUME NEW o \in Outputs PROVE ao[o] \in Output /\ OutputOK(o, ao[o], mp, sent, player)
  <2> DEFINE a == ao[o]
  <2>1. /\ a \in Output /\ ~a.open /\ a.chunk = None /\ a.pc = "wait" /\ a.command = "NONE"
        /\ ~a.woken_for_play /\ ~a.in_playback_loop /\ ~a.pause /\ a.last = 0
    BY <1>1 DEF Output, Commands, Places, None
  <2> HIDE DEF a
  <2>2. ThreadOK(a) /\ CommandOK(a)
    BY <2>1 DEF ThreadOK, CommandOK
  <2>3. PipeOK(a, mp, sent)
    BY <1>1, <2>1 DEF PipeOK
  <2>4. a.command \notin Single /\ ~Playable(a, mp)
    BY <2>1 DEF Single, Playable
  <2>5. OutputOK(o, a, mp, sent, player)
    BY <1>3, <2>1, <2>2, <2>3, <2>4, Ready
  <2> QED BY <2>1, <2>5 DEF a
<1>5. ao \in [Outputs -> Output]
  <2>1. ao = [o \in Outputs |-> ao[o]]
    BY <1>1
  <2> QED BY <1>4, <2>1
<1>6. PipeAssertionsHold
  BY <1>1 DEF PipeAssertionsHold
<1> QED BY <1>2, <1>3, <1>4, <1>5, <1>6 DEF OutputsInv

LEMMA OutputsNext ==
  ASSUME AlwaysOn = {}, OtherFormat = FALSE
  PROVE  OutputsInv /\ [Next]_vars => OutputsInv'
<1> SUFFICES ASSUME OutputsInv, [Next]_vars PROVE OutputsInv'
  OBVIOUS
<1>1. CASE PlayerBegin
  BY <1>1, PlayerBeginStep
<1>2. CASE PlayerStep
  BY <1>2, PlayerStepStep
<1>3. CASE \E o \in Outputs : OutputThread(o)
  BY <1>3, OutputThreadStep
<1>4. CASE \E o \in Switched : Toggle(o)
  BY <1>4, ToggleStep, OutputsAssumption
<1>5. CASE UNCHANGED vars
  BY <1>5 DEF OutputsInv, PipeAssertionsHold, vars
<1> QED BY <1>1, <1>2, <1>3, <1>4, <1>5 DEF Next

\* The pipe, the outputs and what is left of the player's operation fit.
THEOREM OutputsKeepInv ==
  ASSUME AlwaysOn = {}, OtherFormat = FALSE
  PROVE  Spec => []OutputsInv
<1>1. Init => OutputsInv
  BY OutputsInit
<1>2. OutputsInv /\ [Next]_vars => OutputsInv'
  BY OutputsNext
<1> QED BY <1>1, <1>2, PTL DEF Spec

\* An output thread is only ever at the places audio_output_task() has, its
\* command is one of the commands, and it is in the playback loop only while
\* it plays, whatever the other threads do.
THEOREM OutputsKeepTypes ==
  ASSUME AlwaysOn = {}, OtherFormat = FALSE
  PROVE  Spec => []OutputsTypeOK
<1>1. OutputsInv => OutputsTypeOK
  <2> SUFFICES ASSUME OutputsInv PROVE OutputsTypeOK
    OBVIOUS
  <2>1. ChunksOK(mp, sent) /\ PlayerOK(player, mp, sent) /\ sent \in 0 .. MaxChunks
        /\ player.mode \in {"off", "opening", "on", "paused"} /\ (mp.null => mp.chunks = <<>>)
    BY DEF OutputsInv, ChunksOK, PlayerOK
  <2>2. ASSUME NEW o \in Outputs
        PROVE  /\ ao[o].command \in Commands /\ ao[o].pc \in Places
               /\ ao[o].pipe \in {"null", "g_mp", "stale"}
               /\ ao[o].chunk \in 0 .. MaxChunks /\ ao[o].last \in 0 .. MaxChunks
               /\ ao[o].in_playback_loop => ao[o].pc \in {"plugin_play", "closing"}
    <3>1. ao[o] \in Output /\ ThreadOK(ao[o]) /\ PipeOK(ao[o], mp, sent)
      BY OutputFacts
    <3>2. ao[o].chunk \in Nat /\ ao[o].chunk <= sent
      <4>1. InPipe(ao[o].chunk, mp) => ao[o].chunk \in Nat /\ ao[o].chunk <= sent
        BY <2>1, Chunks
      <4>2. ao[o].chunk = 0 => ao[o].chunk \in Nat /\ ao[o].chunk <= sent
        BY <2>1
      <4> QED BY <3>1, <4>1, <4>2 DEF PipeOK, None
    <3>3. ao[o].last \in Nat /\ ao[o].last <= sent
      BY <3>1 DEF PipeOK, Output
    <3>4. ao[o].chunk \in 0 .. MaxChunks /\ ao[o].last \in 0 .. MaxChunks
      BY <2>1, <3>2, <3>3, OutputsAssumption
    <3> QED BY <3>1, <3>4 DEF Output, ThreadOK
  <2> QED BY <2>1, <2>2 DEF OutputsTypeOK
<1> QED BY <1>1, OutputsKeepInv, PTL

\* The chunk an open output has in its hands is in the pipe: whatever the
\* interleaving of audio_output_all_check() and audio_output_all_cancel() with
\* the output threads, no chunk is returned to the buffer while it is played.
THEOREM ChunksStayInPipe ==
  ASSUME AlwaysOn = {}, OtherFormat = FALSE
  PROVE  Spec => []ChunkInPipe
<1>1. OutputsInv => ChunkInPipe
  <2> SUFFICES ASSUME OutputsInv, NEW o \in Outputs, ao[o].chunk # None
               PROVE  \E i \in DOMAIN mp.chunks : mp.chunks[i] = ao[o].chunk
    BY DEF ChunkInPipe
  <2>1. InPipe(ao[o].chunk, mp) /\ mp.chunks \in Seq(Nat \ {0})
    BY OutputFacts DEF PipeOK, ChunksOK
  <2> QED BY <2>1 DEF InPipe
<1> QED BY <1>1, OutputsKeepInv, PTL

\* clear_tail_chunk(), chunk_is_consumed_in(), ao_play(), ao_open() and the
\* DRAIN command find what they assert, even when outputs fail at any moment.
THEOREM PipeIsSound ==
  ASSUME AlwaysOn = {}, OtherFormat = FALSE
  PROVE  Spec => []PipeAssertionsHold
<1>1. OutputsInv => PipeAssertionsHold
  BY DEF OutputsInv
<1> QED BY <1>1, OutputsKeepInv, PTL

\* No wake-up is lost: once audio_output_all_play() has woken the outputs, one
\* that could play does not wait in ao->cond.
THEOREM WakeUpsAreNotLost ==
  ASSUME AlwaysOn = {}, OtherFormat = FALSE
  PROVE  Spec => []NoSleepWithWork
<1>1. OutputsInv => NoSleepWithWork
  <2> SUFFICES ASSUME OutputsInv, player.todo = <<>>, NEW o \in Outputs,
                      ao[o].pc = "wait", CanPlay(ao[o])
               PROVE  FALSE
    BY DEF NoSleepWithWork
  <2>1. Playable(ao[o], mp) /\ SleepOK(o, ao[o], mp, player)
    BY SameNext, OutputFacts
  <2>2. Has(player, "wake", o)
    BY <2>1 DEF SleepOK
  <2> QED BY <2>2, NothingLeft DEF Has
<1> QED BY <1>1, OutputsKeepInv, PTL

\* audio_output_all_check() removes the head of the pipe only when every open
\* output has played it to its end, or has been paused in the middle of it and
\* nothing follows it: an output that a command has interrupted counts as
\* finished, but every command except PAUSE takes the chunk away, too.
THEOREM ChunksArePlayed ==
  ASSUME AlwaysOn = {}, OtherFormat = FALSE
  PROVE  Spec => PlayedBeforeRemoved
<1>1. ASSUME OutputsInv, Shift, NEW o \in Outputs, ao[o].open
      PROVE  \/ ao[o].last >= Peek
             \/ player.mode = "paused" /\ ao[o].pause /\ Len(mp.chunks) = 1
  <2> DEFINE a == ao[o]
  <2>0. Now("shift")
    BY <1>1 DEF Shift
  <2>1. /\ ChunksOK(mp, sent) /\ mp.chunks # <<>>
        /\ a \in Output /\ ThreadOK(a) /\ PipeOK(a, mp, sent)
        /\ a.command = "NONE" /\ a.chunk # None
        /\ a.pause => player.mode = "paused"
        /\ a.chunk = First(mp) => a.chunk_finished /\ After(First(mp), mp) = None
    BY <1>1, <2>0, ReadyToShift
  <2>2. Peek = First(mp)
    BY SameNext
  <2> HIDE DEF a
  <2>3. CASE a.chunk = First(mp)
    <3>1. a.last >= Peek \/ (a.pause /\ player.mode = "paused")
      BY <2>1, <2>2, <2>3 DEF ThreadOK
    <3>2. Len(mp.chunks) = 1
      <4> DEFINE c == First(mp)  l == Len(mp.chunks)
      <4>1. InPipe(c, mp) /\ After(c, mp) = None
        BY <2>1, <2>3 DEF PipeOK
      <4>2. /\ sent \in Nat /\ l \in Nat /\ c = sent - l + 1 /\ c \in Nat /\ c <= sent
            /\ After(c, mp) = IF InPipe(c, mp) /\ c < sent THEN c + 1 ELSE None
        BY <2>1, <4>1, Chunks
      <4> HIDE DEF c, l
      <4>3. c < sent => c + 1 = 0
        BY <4>1, <4>2 DEF None
      <4>4. c = sent
        BY <4>2, <4>3
      <4>5. l = 1
        BY <4>2, <4>4
      <4> QED BY <4>5 DEF l
    <3> QED BY <3>1, <3>2 DEF a
  <2>4. CASE a.chunk # First(mp)
    <3>1. a.last >= a.chunk - 1 /\ InPipe(a.chunk, mp)
      BY <2>1, <2>4 DEF PipeOK
    <3>2. /\ a.chunk \in Nat /\ sent - Len(mp.chunks) < a.chunk
          /\ First(mp) = sent - Len(mp.chunks) + 1
          /\ sent \in Nat /\ Len(mp.chunks) \in Nat
      BY <2>1, <3>1, Chunks
    <3>3. a.last \in Nat
      BY <2>1 DEF Output
    <3>4. a.last >= First(mp)
      <4> DEFINE c == a.chunk  last == a.last  first == First(mp)  l == Len(mp.chunks)
      <4>1. /\ c \in Nat /\ sent - l < c /\ first = sent - l + 1 /\ sent \in Nat /\ l \in Nat
            /\ last \in Nat /\ last >= c - 1 /\ c # first
        BY <2>4, <3>1, <3>2, <3>3
      <4> HIDE DEF c, last, first, l
      <4>2. last >= first
        BY <4>1
      <4> QED BY <4>2 DEF last, first
    <3> QED BY <2>2, <3>4 DEF a
  <2> QED BY <2>3, <2>4 DEF a
<1>2. OutputsInv /\ [Next]_vars =>
        [Shift => \A o \in Outputs : ao[o].open =>
           \/ ao[o].last >= Peek
           \/ player.mode = "paused" /\ ao[o].pause /\ Len(mp.chunks) = 1]_vars
  BY <1>1
<1> QED BY <1>2, OutputsKeepInv, PTL DEF Spec, PlayedBeforeRemoved

-----------------------------------------------------------------------------
(* If no plugin fails, only the player closes an output.                   *)

\* The assertions of the pipe.
PipeNames == {"tail", "contains", "chunk_kept", "pipe", "drain_empty", "open_closed"}

LEMMA FailsAtMost ==
  ASSUME NEW condition, NEW name
  PROVE  /\ Fails(condition, name) \subseteq {name}
         /\ condition => Fails(condition, name) = {}
  BY DEF Fails

LEMMA StillNoFailure ==
  ASSUME OutputsInv', NoFailureInv, asserts' \subseteq asserts \cup PipeNames,
         \A o \in Outputs : NoFailure(ao'[o])
  PROVE  NoFailureInv'
<1>1. asserts' = {}
  BY DEF OutputsInv, PipeAssertionsHold, PipeNames, NoFailureInv, AssertionsHold
<1> QED BY <1>1 DEF NoFailureInv, AssertionsHold

LEMMA OneCommand ==
  ASSUME OutputsInv, NoFailureInv, NEW o \in Outputs, NEW b, ao' = [ao EXCEPT ![o] = b],
         NoFailure(b)
  PROVE  \A i \in Outputs : NoFailure(ao'[i])
<1> SUFFICES ASSUME NEW i \in Outputs PROVE NoFailure(ao'[i])
  OBVIOUS
<1>1. ao'[i] = IF i = o THEN b ELSE ao[i]
  BY DEF OutputsInv
<1> QED BY <1>1 DEF NoFailureInv

\* A command is only sent to an output that has none.
LEMMA NoCommandYet ==
  ASSUME OutputsInv, NoFailureInv, player.todo # <<>>, NEW o \in Outputs,
         Head(player.todo).o = o, Head(player.todo).op \in Commanding
  PROVE  ao[o].command = "NONE"
<1>1. /\ ao[o].open => ao[o].command = "NONE"
      /\ ~Has(player, "await", o)
  BY ReadyForCommand
<1>2. ao[o].command \notin Single /\ ao[o].command \in Commands
  BY <1>1, OutputFacts DEF AwaitOK, Output
<1>3. ~ao[o].open => ao[o].command \notin {"PAUSE", "DRAIN", "CANCEL"}
  BY DEF NoFailureInv, NoFailure
<1> QED BY <1>1, <1>2, <1>3 DEF Single, Commands

\* The thread goes on without a change of its command.
LEMMA SameCommand ==
  ASSUME OutputsInv, OutputsInv', NoFailureInv, asserts' \subseteq asserts \cup PipeNames,
         NEW o \in Outputs, NEW b, Thread(o, b),
         b.command = ao[o].command, b.open = ao[o].open, ao[o].pc # "exec"
  PROVE  NoFailureInv'
<1>1. NoFailure(ao[o])
  BY DEF NoFailureInv
<1>2. NoFailure(b)
  BY <1>1 DEF NoFailure
<1> QED BY <1>2, OneCommand, StillNoFailure DEF Thread

LEMMA ThreadNoFailure ==
  ASSUME OutputsInv, OutputsInv', NoFailureInv, CanFail = FALSE, NEW o \in Outputs, OutputThread(o)
  PROVE  NoFailureInv'
<1> DEFINE a == ao[o]
<1>1. a \in Output /\ NoFailure(a)
  BY OutputFacts DEF NoFailureInv
<1>2. CASE StartCommand(o)
  <2>1. asserts' \subseteq asserts \cup PipeNames
    <3>1. a.command = "CLOSE" => a.open
      BY <1>1, <1>2 DEF StartCommand, NoFailure
    <3>2. Fails(a.command = "CLOSE" => a.open, "close_open") = {}
      BY <3>1 DEF Fails
    <3> QED BY <1>2, <3>2 DEF StartCommand, Fails, PipeNames
  <2>2. ASSUME NEW b, Thread(o, b), b.pc = "exec", b.command = a.command,
               b.open = a.open \/ a.command \in {"DISABLE", "CLOSE"}
        PROVE  NoFailureInv'
    <3>1. NoFailure(b)
      BY <1>1, <2>2 DEF NoFailure
    <3> QED BY <2>1, <2>2, <3>1, OneCommand, StillNoFailure DEF Thread
  <2>3. CASE a.command \in {"ENABLE", "REOPEN", "PAUSE", "DRAIN"}
    <3> DEFINE b == [a EXCEPT !.pc = "exec"]
    <3>1. Thread(o, b)
      BY <1>2, <2>3 DEF StartCommand
    <3>2. b.pc = "exec" /\ b.command = a.command /\ b.open = a.open
      BY <1>1 DEF Output
    <3> HIDE DEF a, b
    <3> QED BY <2>2, <3>1, <3>2
  <2>4. CASE a.command = "OPEN"
    <3> DEFINE b == [a EXCEPT !.failed = FALSE, !.pc = "exec"]
    <3>1. Thread(o, b)
      BY <1>2, <2>4 DEF StartCommand
    <3>2. b.pc = "exec" /\ b.command = a.command /\ b.open = a.open
      BY <1>1 DEF Output
    <3> HIDE DEF a, b
    <3> QED BY <2>2, <3>1, <3>2
  <2>5. CASE a.command = "DISABLE"
    <3> DEFINE c == IF a.open THEN Closed(a) ELSE a
               b == [c EXCEPT !.really_enabled = FALSE, !.pc = "exec"]
    <3>1. Thread(o, b)
      BY <1>2, <2>5 DEF StartCommand
    <3>2. c \in Output /\ c.command = a.command
      BY <1>1, ClosedOutput
    <3> HIDE DEF c
    <3>3. b.pc = "exec" /\ b.command = c.command
      BY <3>2 DEF Output
    <3> HIDE DEF a, b
    <3> QED BY <2>2, <2>5, <3>1, <3>2, <3>3
  <2>6. CASE a.command = "CLOSE"
    <3> DEFINE c == Closed(a)  b == [c EXCEPT !.pc = "exec"]
    <3>1. Thread(o, b)
      BY <1>2, <2>6 DEF StartCommand
    <3>2. c \in Output /\ c.command = a.command
      BY <1>1, ClosedOutput
    <3> HIDE DEF c
    <3>3. b.pc = "exec" /\ b.command = c.command
      BY <3>2 DEF Output
    <3> HIDE DEF a, b
    <3> QED BY <2>2, <2>6, <3>1, <3>2, <3>3
  <2>7. CASE a.command = "CANCEL"
    <3> DEFINE b == [a EXCEPT !.chunk = None, !.pc = "exec"]
    <3>1. Thread(o, b)
      BY <1>2, <2>7 DEF StartCommand
    <3>2. b.pc = "exec" /\ b.command = a.command /\ b.open = a.open
      BY <1>1 DEF Output
    <3> HIDE DEF a, b
    <3> QED BY <2>2, <3>1, <3>2
  <2> QED BY <1>2, <2>3, <2>4, <2>5, <2>6, <2>7 DEF StartCommand
<1>3. CASE FinishCommand(o)
  <2>1. PICK b, c : /\ b \in CASE a.command \in {"OPEN", "REOPEN"} -> Opened(a)
                              [] a.command = "ENABLE" -> Enabled(a)
                              [] OTHER -> {a}
                    /\ Thread(o, c) /\ asserts' = asserts
                    /\ c = [b EXCEPT !.command = "NONE",
                                     !.pause = a.command = "PAUSE" /\ a.open,
                                     !.pc = IF a.command \in {"DRAIN", "CANCEL"} \/
                                               (a.command = "PAUSE" /\ a.open)
                                            THEN "notify_continue" ELSE "notify_break"]
    BY <1>3 DEF FinishCommand
  <2>2. b \in Output
    <3> DEFINE c1 == [a EXCEPT !.open = TRUE, !.really_enabled = TRUE]
               c2 == [Closed(a) EXCEPT !.failed = TRUE, !.really_enabled = TRUE]
               c3 == [a EXCEPT !.really_enabled = TRUE]
    <3>0. c1 \in Output /\ c2 \in Output /\ c3 \in Output
      BY <1>1, ClosedOutput, ZenonT(60) DEF Output
    <3>1. Opened(a) \subseteq Output /\ Enabled(a) \subseteq Output
      <4>1. Opened(a) \subseteq {c1, c2, a} /\ Enabled(a) \subseteq {c3, a}
        BY DEF Opened, Enabled
      <4> HIDE DEF c1, c2, c3
      <4> QED BY <1>1, <3>0, <4>1
    <3> QED BY <1>1, <2>1, <3>1
  <2>3. c.command = "NONE"
    BY <2>1, <2>2 DEF Output
  <2>4. NoFailure(c)
    BY <2>3 DEF NoFailure
  <2> QED BY <2>1, <2>4, OneCommand, StillNoFailure DEF Thread
<1>4. CASE Notify(o) \/ StartPlay(o) \/ Sleep(o) \/ PlayedChunk(o) \/ Interrupted(o)
             \/ PlayClosed(o) \/ Resume(o) \/ PauseClosed(o)
  <2>1. asserts' \subseteq asserts \cup PipeNames
    BY <1>4 DEF Notify, StartPlay, Sleep, PlayedChunk, Interrupted, PlayClosed, Resume,
                PauseClosed, Fails, PipeNames
  <2>2. a.pc # "exec"
    BY <1>4 DEF Notify, StartPlay, Sleep, PlayedChunk, Interrupted, PlayClosed, Resume,
                PauseClosed, TriesToPlay
  <2>3. CASE Notify(o)
    <3> DEFINE b == [a EXCEPT !.pc = AfterCommand(a)]
    <3>1. Thread(o, b)
      BY <2>3 DEF Notify
    <3>2. b.command = a.command /\ b.open = a.open
      BY <1>1 DEF Output
    <3> HIDE DEF b
    <3> QED BY <2>1, <2>2, <3>1, <3>2, SameCommand
  <2>4. CASE StartPlay(o) \/ Sleep(o)
    <3> DEFINE b1 == [a EXCEPT !.chunk = ao_next_chunk(a), !.chunk_finished = FALSE,
                               !.in_playback_loop = TRUE, !.pc = "plugin_play"]
               b2 == [a EXCEPT !.chunk_finished = TRUE, !.pc = "top"]
               b3 == [a EXCEPT !.woken_for_play = FALSE, !.pc = "wait"]
               b4 == [a EXCEPT !.pc = "top"]
    <3>1. Thread(o, b1) \/ Thread(o, b2) \/ Thread(o, b3) \/ Thread(o, b4)
      BY <2>4 DEF StartPlay, Sleep
    <3>2. \A b \in {b1, b2, b3, b4} : b.command = a.command /\ b.open = a.open
      BY <1>1 DEF Output
    <3> HIDE DEF b1, b2, b3, b4
    <3> QED BY <2>1, <2>2, <3>1, <3>2, SameCommand
  <2>5. CASE PlayedChunk(o) \/ Interrupted(o)
    <3> DEFINE c == [a EXCEPT !.last = a.chunk]
               b1 == [c EXCEPT !.chunk = ChunkAfter(c.chunk)]
               b2 == EndPlay(c)
               b3 == EndPlay(a)
    <3>1. Thread(o, b1) \/ Thread(o, b2) \/ Thread(o, b3)
      BY <2>5 DEF PlayedChunk, Interrupted
    <3>2. \A b \in {b1, b2, b3} : b.command = a.command /\ b.open = a.open
      BY <1>1 DEF Output, EndPlay
    <3> HIDE DEF b1, b2, b3
    <3> QED BY <2>1, <2>2, <3>1, <3>2, SameCommand
  <2>6. CASE PlayClosed(o) \/ Resume(o) \/ PauseClosed(o)
    <3> DEFINE c == EndPlay(a)
               b1 == [c EXCEPT !.failed = TRUE]
               b2 == [a EXCEPT !.pause = FALSE, !.pc = "top"]
    <3>1. Thread(o, b1) \/ Thread(o, b2)
      BY <2>6 DEF PlayClosed, Resume, PauseClosed
    <3>2. \A b \in {b1, b2} : b.command = a.command /\ b.open = a.open
      BY <1>1 DEF Output, EndPlay
    <3> HIDE DEF b1, b2
    <3> QED BY <2>1, <2>2, <3>1, <3>2, SameCommand
  <2> QED BY <1>4, <2>3, <2>4, <2>5, <2>6
<1> QED BY <1>2, <1>3, <1>4 DEF OutputThread, PlayFails, PauseFails

\* The player's step on an output sends no command to one that has one.
LEMMA StepNoFailure ==
  ASSUME OutputsInv, OutputsInv', NoFailureInv, NEW o \in Outputs, NEW b, NEW more, NEW opened,
         NEW failed, Steps(o, b, more, opened, failed), failed = {}, NoFailure(b)
  PROVE  NoFailureInv'
<1>1. ao' = [ao EXCEPT ![o] = b] /\ asserts' = asserts
  BY DEF Steps
<1> QED BY <1>1, OneCommand, StillNoFailure

LEMMA IdleNoFailure ==
  ASSUME NEW a, a.command = "NONE" PROVE IdleAssertion(a) = {}
  BY DEF IdleAssertion, Fails

\* A command is sent to an output without one.
LEMMA CommandNoFailure ==
  ASSUME OutputsInv, NoFailureInv, NEW a \in Output, a.command = "NONE", NEW command \in Commands,
         a.open \/ command \in {"ENABLE", "DISABLE", "OPEN", "REOPEN"}
  PROVE  NoFailure(Async(a, command)) /\ IdleAssertion(a) = {}
<1>1. Async(a, command).command = command /\ Async(a, command).open = a.open
  BY AsyncOutput
<1> QED BY <1>1, IdleNoFailure DEF NoFailure

LEMMA CloseOutputNoFailure ==
  ASSUME OutputsInv, OutputsInv', NoFailureInv, player.todo # <<>>, NEW o \in Outputs,
         Head(player.todo).o = o, Head(player.todo).op \in {"update", "close"}, CloseOutput(o)
  PROVE  NoFailureInv'
<1> DEFINE a == ao[o]
<1>1. a \in Output /\ a.command = "NONE"
  BY NoCommandYet, OutputFacts DEF Commanding
<1>2. CASE a.open
  <2>1. Steps(o, Async(a, "CLOSE"), <<Step("await", o)>>, player.opened, IdleAssertion(a))
    BY <1>2 DEF CloseOutput, Command, Step1
  <2>2. NoFailure(Async(a, "CLOSE")) /\ IdleAssertion(a) = {}
    BY <1>1, <1>2, CommandNoFailure DEF Commands
  <2> HIDE DEF a
  <2> QED BY <2>1, <2>2, StepNoFailure
<1>3. CASE ~a.open
  <2> DEFINE b == [a EXCEPT !.failed = FALSE]
  <2>1. Steps(o, b, <<>>, player.opened, {})
    BY <1>3 DEF CloseOutput, Step1
  <2>2. b.command = a.command
    BY <1>1 DEF Output
  <2> HIDE DEF a, b
  <2>3. NoFailure(b)
    BY <1>1, <2>2 DEF NoFailure
  <2> QED BY <2>1, <2>3, StepNoFailure
<1> QED BY <1>2, <1>3

LEMMA OpenOutputNoFailure ==
  ASSUME OutputsInv, OutputsInv', NoFailureInv, player.todo # <<>>, NEW o \in Outputs,
         Head(player.todo).o = o, Head(player.todo).op = "update", OpenOutput(o)
  PROVE  NoFailureInv'
<1> DEFINE a0 == ao[o]
           a == [a0 EXCEPT !.failed = FALSE]
           b == [a EXCEPT !.chunk = None, !.pipe = "g_mp"]
           c == [b EXCEPT !.format = mp.format]
<1>1. a0 \in Output /\ a0.command = "NONE" /\ ThreadOK(a0) /\ mp.format \in Formats \cup {None}
  BY NoCommandYet, OutputFacts DEF Commanding, ChunksOK
<1>2. /\ a \in Output /\ a.command = "NONE" /\ a.open = a0.open
      /\ b \in Output /\ b.command = "NONE" /\ b.open = a0.open
      /\ c \in Output /\ c.command = "NONE" /\ c.open = a0.open
  <2> HIDE DEF a0
  <2>1. a \in Output /\ a.command = "NONE" /\ a.open = a0.open
    BY <1>1 DEF Output
  <2> HIDE DEF a
  <2>2. b \in Output /\ b.command = "NONE" /\ b.open = a0.open
    BY <2>1 DEF Output, None
  <2> HIDE DEF b
  <2>3. c \in Output /\ c.command = "NONE" /\ c.open = a0.open
    BY <1>1, <2>2 DEF Output
  <2> QED BY <2>1, <2>2, <2>3
<1>3. SamePipe(o) = {} \/ ~a0.open
  BY <1>1 DEF SamePipe, Fails, ThreadOK
<1>4. \/ /\ a.open
         /\ \/ Steps(o, Async(b, "CANCEL"), <<Step("await", o)>>, TRUE,
                     IdleAssertion(a) \cup SamePipe(o))
            \/ Steps(o, a, <<>>, TRUE, SamePipe(o))
      \/ \E command \in {"REOPEN", "OPEN"} :
           Steps(o, Async(c, command), <<Step("await", o), Step("result", o)>>, player.opened,
                 IdleAssertion(a))
  BY DEF OpenOutput, Step1
<1> HIDE DEF a0, a, b, c
<1>5. CASE a.open /\ Steps(o, Async(b, "CANCEL"), <<Step("await", o)>>, TRUE,
                           IdleAssertion(a) \cup SamePipe(o))
  <2>1. NoFailure(Async(b, "CANCEL")) /\ IdleAssertion(a) \cup SamePipe(o) = {}
    BY <1>2, <1>3, <1>5, CommandNoFailure, IdleNoFailure DEF Commands
  <2> QED BY <1>5, <2>1, StepNoFailure
<1>6. CASE a.open /\ Steps(o, a, <<>>, TRUE, SamePipe(o))
  <2>1. NoFailure(a) /\ SamePipe(o) = {}
    BY <1>2, <1>3, <1>6 DEF NoFailure
  <2> QED BY <1>6, <2>1, StepNoFailure
<1>7. ASSUME NEW command \in {"REOPEN", "OPEN"},
             Steps(o, Async(c, command), <<Step("await", o), Step("result", o)>>, player.opened,
                   IdleAssertion(a))
      PROVE  NoFailureInv'
  <2>1. NoFailure(Async(c, command)) /\ IdleAssertion(a) = {}
    BY <1>2, <1>7, CommandNoFailure, IdleNoFailure DEF Commands
  <2> QED BY <1>7, <2>1, StepNoFailure
<1> QED BY <1>4, <1>5, <1>6, <1>7

LEMMA SendNoFailure ==
  ASSUME OutputsInv, OutputsInv', NoFailureInv, PauseOutput \/ DrainOutput \/ CancelOutput
  PROVE  NoFailureInv'
<1> DEFINE o == Target  a == ao[o]
           b == [a EXCEPT !.allow_play = a.allow_play /\ ~a.open]
<1>1. PICK op \in {"pause", "drain", "cancel"} : Now(op)
  BY DEF PauseOutput, DrainOutput, CancelOutput, Send
<1>2. player.todo # <<>> /\ o \in Outputs /\ Head(player.todo).o = o
      /\ Head(player.todo).op \in Commanding
  BY <1>1, NextIs DEF Target, OfOutput, Commanding
<1>3. a \in Output /\ a.command = "NONE"
  BY <1>2, NoCommandYet, OutputFacts
<1>4. \E command \in {"PAUSE", "DRAIN", "CANCEL"}, c \in {a, b} :
        IF c.open THEN Step1(o, Async(c, command), <<>>, IdleAssertion(c))
                  ELSE Step1(o, c, <<>>, {})
  <2>1. b.open = a.open
    BY <1>3 DEF Output
  <2> QED BY <2>1 DEF PauseOutput, DrainOutput, CancelOutput, Send
<1>5. b \in Output /\ b.command = a.command
  <2> HIDE DEF a
  <2> QED BY <1>3 DEF Output
<1> HIDE DEF o, a, b
<1>6. PICK command \in {"PAUSE", "DRAIN", "CANCEL"}, c \in {a, b} :
        IF c.open THEN Step1(o, Async(c, command), <<>>, IdleAssertion(c))
                  ELSE Step1(o, c, <<>>, {})
  BY <1>4
<1>7. c \in Output /\ c.command = "NONE" /\ command \in Commands
  BY <1>3, <1>5 DEF Commands
<1>8. CASE c.open
  <2>1. NoFailure(Async(c, command)) /\ IdleAssertion(c) = {}
    BY <1>7, <1>8, CommandNoFailure
  <2>2. Steps(o, Async(c, command), <<>>, player.opened, IdleAssertion(c))
    BY <1>6, <1>8 DEF Step1
  <2> QED BY <1>2, <2>1, <2>2, StepNoFailure
<1>9. CASE ~c.open
  <2>1. NoFailure(c)
    BY <1>7 DEF NoFailure
  <2>2. Steps(o, c, <<>>, player.opened, {})
    BY <1>6, <1>9 DEF Step1
  <2> QED BY <1>2, <2>1, <2>2, StepNoFailure
<1> QED BY <1>8, <1>9

\* An output whose command, pc and whether it is open stay.
LEMMA NoCommandNoFailure ==
  ASSUME NoFailureInv, NEW o \in Outputs, NEW b, b.command = ao[o].command, b.open = ao[o].open,
         b.pc = ao[o].pc \/ ao[o].pc # "exec"
  PROVE  NoFailure(b)
<1>1. NoFailure(ao[o])
  BY DEF NoFailureInv
<1> QED BY <1>1 DEF NoFailure

LEMMA UnchangedNoFailure ==
  ASSUME OutputsInv', NoFailureInv, ao' = ao, asserts' \subseteq asserts \cup PipeNames
  PROVE  NoFailureInv'
<1>1. \A o \in Outputs : NoFailure(ao'[o])
  BY DEF NoFailureInv
<1> QED BY <1>1, StillNoFailure

LEMMA QuietNoFailure ==
  ASSUME OutputsInv, OutputsInv', NoFailureInv,
         \/ PlayerBegin \/ Await \/ WaitNotify \/ Release \/ Push \/ ClearPipe \/ OpenDone \/ Check
  PROVE  NoFailureInv'
<1>1. ao' = ao /\ asserts' \subseteq asserts \cup PipeNames
  <2>1. CASE PlayerBegin
    BY <2>1 DEF PlayerBegin, Open, Play, CheckPipe, Pause, Drain, Cancel, StopPlayer,
                LeaveRun, CloseAudio, UpdateAudio, Begin, Fails, PipeNames
  <2>2. CASE Await \/ WaitNotify \/ Release \/ Push \/ ClearPipe \/ OpenDone
    BY <2>2 DEF Await, WaitNotify, Release, Push, ClearPipe, OpenDone, Goes
  <2>3. CASE Check
    BY <2>3 DEF Check, Fails, PipeNames
  <2> QED BY <2>1, <2>2, <2>3
<1> QED BY <1>1, UnchangedNoFailure

LEMMA PipeNoFailure ==
  ASSUME OutputsInv, OutputsInv', NoFailureInv, DeletePipe \/ Shift
  PROVE  NoFailureInv'
<1>1. asserts' \subseteq asserts \cup PipeNames
  BY DEF DeletePipe, Shift, Fails, PipeNames
<1>2. ASSUME NEW o \in Outputs PROVE NoFailure(ao'[o])
  <2> DEFINE a == ao[o]
             b == [a EXCEPT !.pipe = IF @ = "g_mp" THEN "stale" ELSE @]
             c == ClearedTail(a)
  <2>1. a \in Output
    BY OutputFacts
  <2>2. ao'[o] \in {a, b, c}
    BY DEF DeletePipe, Shift
  <2>3. /\ b.command = a.command /\ b.open = a.open /\ b.pc = a.pc
        /\ c.command = a.command /\ c.open = a.open /\ c.pc = a.pc
    <3> HIDE DEF a
    <3> QED BY <2>1 DEF Output, ClearedTail
  <2> HIDE DEF b, c
  <2> QED BY <2>2, <2>3, NoCommandNoFailure
<1> QED BY <1>1, <1>2, StillNoFailure

LEMMA ToggleNoFailure ==
  ASSUME OutputsInv, OutputsInv', NoFailureInv, NEW o \in Outputs, Toggle(o)
  PROVE  NoFailureInv'
<1> DEFINE a == ao[o]  b == [a EXCEPT !.enabled = ~@]
<1>1. ao' = [ao EXCEPT ![o] = b] /\ asserts' = asserts
  BY DEF Toggle
<1>2. a \in Output
  BY OutputFacts
<1>3. b.command = a.command /\ b.open = a.open /\ b.pc = a.pc
  <2> HIDE DEF a
  <2> QED BY <1>2 DEF Output
<1> HIDE DEF b
<1>4. NoFailure(b)
  BY <1>3, NoCommandNoFailure
<1> QED BY <1>1, <1>4, OneCommand, StillNoFailure

LEMMA PlayerNoFailure ==
  ASSUME OutputsInv, OutputsInv', NoFailureInv, PlayerStep
  PROVE  NoFailureInv'
<1> DEFINE o == Target  a == ao[o]
<1>1. CASE EnableDisable
  <2>1. player.todo # <<>> /\ o \in Outputs /\ Head(player.todo).o = o
        /\ Head(player.todo).op \in Commanding
    BY <1>1, NextIs DEF EnableDisable, Target, OfOutput, Commanding
  <2>2. a \in Output /\ a.command = "NONE"
    BY <2>1, NoCommandYet, OutputFacts
  <2>3. \/ Steps(o, a, <<>>, player.opened, {})
        \/ \E command \in {"ENABLE", "DISABLE"} :
             Steps(o, Async(a, command), <<Step("await", o)>>, player.opened, IdleAssertion(a))
    BY <1>1 DEF EnableDisable, Step1, Command
  <2>4. NoFailure(a) /\ \A command \in {"ENABLE", "DISABLE"} :
          NoFailure(Async(a, command)) /\ IdleAssertion(a) = {}
    <3>1. NoFailure(a)
      BY <2>2 DEF NoFailure
    <3>2. ASSUME NEW command \in {"ENABLE", "DISABLE"}
          PROVE  NoFailure(Async(a, command)) /\ IdleAssertion(a) = {}
      <4>1. command \in Commands
        BY DEF Commands
      <4> HIDE DEF a
      <4> QED BY <2>2, <4>1, CommandNoFailure
    <3> QED BY <3>1, <3>2
  <2> HIDE DEF o, a
  <2> QED BY <2>1, <2>3, <2>4, StepNoFailure
<1>2. CASE Update
  <2>1. player.todo # <<>> /\ o \in Outputs /\ Head(player.todo).o = o
        /\ Head(player.todo).op = "update"
    BY <1>2, NextIs DEF Update, Target, OfOutput
  <2>2. NoFailure(a)
    BY <2>1 DEF NoFailureInv
  <2>3. OpenOutput(o) \/ CloseOutput(o) \/ Steps(o, a, <<>>, player.opened, {})
    BY <1>2 DEF Update, Step1
  <2> HIDE DEF o, a
  <2> QED BY <2>1, <2>2, <2>3, OpenOutputNoFailure, CloseOutputNoFailure, StepNoFailure
<1>3. CASE Close
  <2>1. player.todo # <<>> /\ o \in Outputs /\ Head(player.todo).o = o
        /\ Head(player.todo).op = "close" /\ CloseOutput(o)
    BY <1>3, NextIs DEF Close, Target, OfOutput
  <2> HIDE DEF o
  <2> QED BY <2>1, CloseOutputNoFailure
<1>4. CASE ResetReopen \/ OpenResult \/ Wake \/ AllowPlay
  <2> DEFINE b1 == [a EXCEPT !.failed = @ /\ a.open]
             b2 == [a EXCEPT !.woken_for_play = TRUE, !.pc = Signalled(a)]
             b3 == [a EXCEPT !.allow_play = TRUE, !.pc = IF a.open THEN Signalled(a) ELSE @]
  <2>1. o \in Outputs
    BY <1>4, NextIs DEF ResetReopen, OpenResult, Wake, AllowPlay, Target, OfOutput
  <2>2. a \in Output
    BY <2>1, OutputFacts
  <2>3. \E b \in {a, b1, b2, b3} : \E opened : Steps(o, b, <<>>, opened, {})
    <3>1. CASE ResetReopen
      BY <3>1 DEF ResetReopen, Step1
    <3>2. CASE OpenResult
      BY <3>2 DEF OpenResult
    <3>3. CASE Wake
      BY <3>3 DEF Wake, Step1
    <3>4. CASE AllowPlay
      BY <3>4 DEF AllowPlay, Step1
    <3> QED BY <1>4, <3>1, <3>2, <3>3, <3>4
  <2>4. \A b \in {a, b1, b2, b3} : b.command = a.command /\ b.open = a.open
                                   /\ (b.pc = a.pc \/ a.pc # "exec")
    <3> HIDE DEF a
    <3> QED BY <2>2 DEF Output, Signalled
  <2> HIDE DEF b1, b2, b3
  <2>5. \A b \in {a, b1, b2, b3} : NoFailure(b)
    BY <2>1, <2>4, NoCommandNoFailure
  <2> HIDE DEF o, a
  <2> QED BY <2>1, <2>3, <2>5, StepNoFailure
<1> QED
  BY <1>1, <1>2, <1>3, <1>4, SendNoFailure, QuietNoFailure, PipeNoFailure DEF PlayerStep

\* As long as no plugin fails, no assertion of the outputs fails: a command is
\* never sent to an output that has not finished its last one
\* (ao_command_async()), nor CLOSE executed by an output that is not open.
THEOREM AssertionsAreTrue ==
  ASSUME AlwaysOn = {}, OtherFormat = FALSE, CanFail = FALSE
  PROVE  Spec => []AssertionsHold
<1>1. Init => NoFailureInv
  BY DEF Init, NoFailureInv, NoFailure, AssertionsHold
<1>2. OutputsInv /\ OutputsInv' /\ NoFailureInv /\ [Next]_vars => NoFailureInv'
  <2> SUFFICES ASSUME OutputsInv, OutputsInv', NoFailureInv, [Next]_vars PROVE NoFailureInv'
    OBVIOUS
  <2>1. CASE PlayerBegin
    BY <2>1, QuietNoFailure
  <2>2. CASE PlayerStep
    BY <2>2, PlayerNoFailure
  <2>3. CASE \E o \in Outputs : OutputThread(o)
    BY <2>3, ThreadNoFailure
  <2>4. CASE \E o \in Switched : Toggle(o)
    BY <2>4, ToggleNoFailure, OutputsAssumption
  <2>5. CASE UNCHANGED vars
    BY <2>5 DEF NoFailureInv, AssertionsHold, vars
  <2> QED BY <2>1, <2>2, <2>3, <2>4, <2>5 DEF Next
<1>3. NoFailureInv => AssertionsHold
  BY DEF NoFailureInv
<1> QED BY <1>1, <1>2, <1>3, OutputsKeepInv, PTL DEF Spec

=============================================================================
