---------------------------- MODULE BoundedQueue ----------------------------
(***************************************************************************)
(* What a ring promises its two sides: frames, numbered as they are pushed, *)
(* come out once each and in order, and no more than Limit of them wait.    *)
(***************************************************************************)
EXTENDS Naturals, Sequences

CONSTANT Limit

VARIABLES queue,    (* the frames pushed and not taken                        *)
          pushed,   (* how many have been pushed                              *)
          out       (* the last one taken                                     *)

Init == queue = <<>> /\ pushed = 0 /\ out = 0

Push ==
  /\ Len(queue) < Limit
  /\ pushed' = pushed + 1
  /\ queue' = Append(queue, pushed')
  /\ UNCHANGED out

Pop ==
  /\ queue # <<>>
  /\ out' = Head(queue)
  /\ queue' = Tail(queue)
  /\ UNCHANGED pushed

Next == Push \/ Pop
Spec == Init /\ [][Next]_<<queue, pushed, out>>

=============================================================================
