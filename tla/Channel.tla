------------------------------ MODULE Channel ------------------------------
(***************************************************************************)
(* What a mailbox promises its users, with no kernel beneath: a bounded    *)
(* first-in first-out channel.  received is the mail handed out last.      *)
(***************************************************************************)
EXTENDS Integers, Sequences

CONSTANTS Mail, NoMail, Capacity

VARIABLES queue, received
vars == <<queue, received>>

Init == queue = << >> /\ received = NoMail

Send(m) ==
  /\ Len(queue) < Capacity
  /\ queue' = Append(queue, m)
  /\ UNCHANGED received

Receive ==
  /\ queue # << >>
  /\ received' = Head(queue)
  /\ queue' = Tail(queue)

Clear == queue' = << >> /\ UNCHANGED received

Next == Receive \/ Clear \/ \E m \in Mail : Send(m)

Spec == Init /\ [][Next]_vars
=============================================================================
