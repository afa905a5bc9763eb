--------------------------- MODULE TokenSemaphore ---------------------------
(***************************************************************************)
(* What a counting semaphore promises its users, with no kernel beneath:   *)
(* tokens are given to the waiters in the order of the waiting queue, a    *)
(* token given to a waiter is that waiter's, and a wait may be abandoned.  *)
(***************************************************************************)
EXTENDS Integers, SequencesExt

CONSTANTS Thread, Sem, MaxValue, init_value, flag, urgency

VARIABLES tokens, waiting, granted, failed
vars == <<tokens, waiting, granted, failed>>

Init ==
  /\ tokens = init_value
  /\ waiting = [s \in Sem |-> << >>]
  /\ granted = [s \in Sem |-> {}]
  /\ failed = {}

Engaged == failed \cup UNION {granted[s] \cup ToSet(waiting[s]) : s \in Sem}

\* Behind every waiter at least as urgent, before every less urgent one;
\* behind all of them when the semaphore is FIFO.
Joined(q, t, f) ==
  {w \in {InsertAt(q, i, t) : i \in 1 .. Len(q) + 1} :
     \E i \in DOMAIN w :
       /\ w[i] = t
       /\ f = "FIFO" => i = Len(w)
       /\ f = "PRIO" =>
            /\ \A j \in 1 .. i - 1      : urgency[w[j]] <= urgency[t]
            /\ \A j \in i + 1 .. Len(w) : urgency[t] < urgency[w[j]]}

Take(s) ==
  /\ tokens[s] > 0
  /\ tokens' = [tokens EXCEPT ![s] = @ - 1]
  /\ UNCHANGED <<waiting, granted, failed>>

Wait(t, s) ==
  /\ tokens[s] = 0 /\ t \notin Engaged
  /\ \E w \in Joined(waiting[s], t, flag[s]) : waiting' = [waiting EXCEPT ![s] = w]
  /\ UNCHANGED <<tokens, granted, failed>>

Give(s) ==
  /\ IF waiting[s] = << >>
     THEN /\ tokens' = [tokens EXCEPT ![s] = @ + 1]
          /\ UNCHANGED <<waiting, granted>>
     ELSE /\ granted' = [granted EXCEPT ![s] = @ \cup {Head(waiting[s])}]
          /\ waiting' = [waiting EXCEPT ![s] = Tail(@)]
          /\ UNCHANGED tokens
  /\ UNCHANGED failed

\* A timeout, or one waiter thrown out by a reset or a detach.
Abandon(t, s) ==
  /\ t \in ToSet(waiting[s])
  /\ waiting' = [waiting EXCEPT ![s] = RemoveFirst(@, t)]
  /\ failed' = failed \cup {t}
  /\ UNCHANGED <<tokens, granted>>

Return(t) ==
  /\ t \in Engaged /\ \A s \in Sem : t \notin ToSet(waiting[s])
  /\ granted' = [s \in Sem |-> granted[s] \ {t}]
  /\ failed' = failed \ {t}
  /\ UNCHANGED <<tokens, waiting>>

Reset(s) ==
  /\ waiting[s] = << >>
  /\ \E v \in 0 .. MaxValue : tokens' = [tokens EXCEPT ![s] = v]
  /\ UNCHANGED <<waiting, granted, failed>>

Next ==
  \/ \E s \in Sem : Take(s) \/ Give(s) \/ Reset(s)
  \/ \E t \in Thread : Return(t) \/ \E s \in Sem : Wait(t, s) \/ Abandon(t, s)

Spec == Init /\ [][Next]_vars
=============================================================================
