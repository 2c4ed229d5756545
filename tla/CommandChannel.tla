--------------------------- MODULE CommandChannel ---------------------------
(***************************************************************************)
(* What a reliable command stream promises to Session: the commands the    *)
(* server sends come out whole, in the order they were sent, each once, in *)
(* spite of what UDP does to the packets that carry them.  One packet may  *)
(* unblock several commands at once.                                       *)
(***************************************************************************)
EXTENDS Naturals, Sequences

VARIABLES commands,  (* the commands the server has sent *)
          ready      (* the commands handed to Session   *)

vars == <<commands, ready>>

Init == commands = <<>> /\ ready = <<>>

Send ==
  /\ Len(commands') = Len(commands) + 1
  /\ SubSeq(commands', 1, Len(commands)) = commands
  /\ UNCHANGED ready

Deliver ==
  /\ \E n \in Len(ready) + 1 .. Len(commands) : ready' = SubSeq(commands, 1, n)
  /\ UNCHANGED commands

Next == Send \/ Deliver

Spec == Init /\ [][Next]_vars
=============================================================================
