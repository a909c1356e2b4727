------------------------------ MODULE MCClients ------------------------------
(* Clients with small sets of lines for TLC. *)
EXTENDS Clients

Line(cmd) == [cmd |-> cmd, mask |-> {}]
IdleFor(mask) == [cmd |-> "idle", mask |-> mask]

\* What a client may send.
Commands ==
  [c \in Clients |->
     {IdleFor({"player"}), IdleFor({"message"}), Line("noidle"),
      Line("subscribe"), Line("readmessages"), Line("close"),
      Line("command_list_begin"), Line("command_list_end")}]
==============================================================================
