--------------------------- MODULE MessageChannel ---------------------------
(***************************************************************************)
(* What a message queue promises its users: a Channel on which the urgent  *)
(* messages overtake all others, the last one first.                       *)
(***************************************************************************)
EXTENDS Channel

CONSTANT UrgentMail

Urgent(m) ==
  /\ Len(queue) < Capacity
  /\ queue' = <<m>> \o queue
  /\ UNCHANGED received

UrgentNext ==
  \/ Receive \/ Clear
  \/ \E m \in Mail \ UrgentMail : Send(m)
  \/ \E m \in UrgentMail : Urgent(m)

UrgentSpec == Init /\ [][UrgentNext]_vars
=============================================================================
