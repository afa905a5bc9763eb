------------------------------- MODULE Event -------------------------------
(***************************************************************************)
(* One event (ipc.c): a set of flags.  A thread waits for all (AND) or for *)
(* one (OR) of some flags and may take them away (CLEAR); a thread or a    *)
(* handler that sends flags serves the waiting threads in their order.     *)
(*                                                                         *)
(*   set             the flags of the event; the waiting threads are in    *)
(*                   k.waitq[suspend_thread]                               *)
(*   event_set[t]    the flags t waits for, or those it was woken with     *)
(*   event_info[t]   its option                                            *)
(*   asked[t]        history variable: the flags the wait of t began with  *)
(*   claims[f]       history variable: how many receivers with CLEAR got f *)
(*                   since it was last sent                                *)
(***************************************************************************)
EXTENDS Ipc

CONSTANTS
  Flag,    \* the bits of the event
  Asks     \* the flags and options each thread calls rt_event_recv with

ASSUME EventAssumption ==
  /\ Flag # {}
  /\ \A t \in Thread : \A r \in Asks[t] :
       /\ r.flags \in SUBSET Flag \ {{}} /\ r.option \subseteq {"AND", "OR", "CLEAR"}
       /\ "AND" \in r.option \/ "OR" \in r.option

VARIABLES set, event_set, event_info, asked, claims
event == <<set, event_set, event_info, asked, claims>>

EventInit ==
  /\ set = {}
  /\ event_set = [t \in Thread |-> {}] /\ event_info = [t \in Thread |-> {}]
  /\ asked = [t \in Thread |-> {}]
  /\ claims = [f \in Flag |-> 0]

FlagSet == SUBSET Flag \ {{}}

-----------------------------------------------------------------------------
\* The flags s satisfy option o on the flags w.
Satisfied(s, w, o) == IF "AND" \in o THEN w \subseteq s ELSE w \cap s # {}

\* One more receiver, with option o, got the flags w.
Claim(c, w, o) ==
  IF "CLEAR" \in o THEN [f \in Flag |-> IF f \in w THEN c[f] + 1 ELSE c[f]] ELSE c

\* Mutants: the flags a waiting thread takes away are not cleared; a thread
\* that waits with OR is told of none.
ServeKeepsFlags(r, t) ==
  LET w == IF "AND" \in event_info[t] THEN r.want[t] ELSE r.want[t] \cap r.set
  IN  IF ~Satisfied(r.set, r.want[t], event_info[t]) THEN r
      ELSE [k |-> rt_thread_resume(r.k, t), set |-> r.set,
            want |-> [r.want EXCEPT ![t] = w],
            claims |-> Claim(r.claims, w, event_info[t])]

ServeNothing(r, t) ==
  LET w == IF "AND" \in event_info[t] THEN r.want[t] ELSE {}
  IN  IF ~Satisfied(r.set, r.want[t], event_info[t]) THEN r
      ELSE [k |-> rt_thread_resume(r.k, t), set |-> r.set \ r.want[t],
            want |-> [r.want EXCEPT ![t] = w],
            claims |-> Claim(r.claims, w, event_info[t])]

\* One round of the loop of rt_event_send: if the flags satisfy t, it is
\* woken with those it gets.
Serve(r, t) ==
  LET w == IF "AND" \in event_info[t] THEN r.want[t] ELSE r.want[t] \cap r.set
  IN  IF ~Satisfied(r.set, r.want[t], event_info[t]) THEN r
      ELSE [k |-> rt_thread_resume(r.k, t),
            set |-> IF "CLEAR" \in event_info[t] THEN r.set \ w ELSE r.set,
            want |-> [r.want EXCEPT ![t] = w],
            claims |-> Claim(r.claims, w, event_info[t])]

\* The loop: once s is sent, round n serves the n-th of the threads that
\* wait on the event.
Rounds(s) ==
  LET q == k.waitq[suspend_thread]
      round[n \in 0 .. Len(q)] ==
        IF n = 0
        THEN [k |-> k, set |-> set \cup s, want |-> event_set,
              claims |-> [f \in Flag |-> IF f \in s THEN 0 ELSE claims[f]]]
        ELSE Serve(round[n - 1], q[n])
  IN  round

\* Mutant: only the first waiting thread is looked at.
ServedFirst(s) == Rounds(s)[Min({1, Len(k.waitq[suspend_thread])})]

\* All rounds of rt_event_send.
Served(s) == Rounds(s)[Len(k.waitq[suspend_thread])]

Sends(s) ==
  LET r == Served(s)
  IN  /\ k' = r.k /\ set' = r.set /\ event_set' = r.want /\ claims' = r.claims
      /\ UNCHANGED <<event_info, asked>>

\* rt_event_send called by a thread: rt_schedule if it woke one.
rt_event_send(t, s) ==
  /\ Calls(t) /\ Sends(s)
  /\ IF k'.waitq # k.waitq THEN ThenSchedule(t, "run") ELSE Goto(t, "run")
  /\ UNCHANGED <<primask, systick, device, waiting>>

\* rt_event_send called by a device handler.
DeviceEventSend(s) ==
  /\ InThread /\ ~primask /\ ~detached
  /\ Sends(s)
  /\ device' = (k'.waitq # k.waitq)
  /\ UNCHANGED <<pc, cont, primask, systick, waiting>>

-----------------------------------------------------------------------------
\* rt_event_recv, the flags are there.
EventRecv(t, w, o) ==
  /\ Calls(t) /\ t # Idle /\ Satisfied(set, w, o)
  /\ k' = [k EXCEPT !.error[t] = "EOK"]
  /\ set' = IF "CLEAR" \in o THEN set \ w ELSE set
  /\ claims' = Claim(claims, set \cap w, o)
  /\ UNCHANGED <<pc, cont, primask, systick, device, waiting,
                 event_set, event_info, asked>>

\* rt_event_recv, they are not: wait, up to rt_schedule.
EventRecvWait(t, w, o, time) ==
  /\ Calls(t) /\ t # Idle /\ ~Satisfied(set, w, o)
  /\ Await(t, Queued(t, suspend_thread), "event", time) /\ Begins(t, time)
  /\ event_set' = [event_set EXCEPT ![t] = w]
  /\ event_info' = [event_info EXCEPT ![t] = o]
  /\ asked' = [asked EXCEPT ![t] = w]
  /\ UNCHANGED <<set, claims>>

\* Back from rt_schedule: return event_set, or the error.
EventRecvReturn(t) ==
  /\ Running(t) /\ pc[t] = "event"
  /\ Goto(t, "run") /\ Forget(t)
  /\ event_set' = [event_set EXCEPT ![t] = {}]
  /\ event_info' = [event_info EXCEPT ![t] = {}]
  /\ asked' = [asked EXCEPT ![t] = {}]
  /\ UNCHANGED <<k, primask, systick, device, set, claims>>

\* rt_event_control(RESET), when everybody is woken.
EventReset(t) ==
  /\ ResetEnd(t)
  /\ set' = {}
  /\ UNCHANGED <<event_set, event_info, asked, claims>>

-----------------------------------------------------------------------------
EventStep(t) ==
  \/ ObjectStep(t, "run") /\ UNCHANGED event
  \/ EventRecvReturn(t) \/ EventReset(t)

EventCall(t) ==
  \/ ObjectCall(t) /\ UNCHANGED event
  \/ \E s \in FlagSet : rt_event_send(t, s)
  \/ \E r \in Asks[t] :
       \/ EventRecv(t, r.flags, r.option)
       \/ \E time \in WaitTimes[t] : EventRecvWait(t, r.flags, r.option, time)

EventHandler ==
  \/ IpcHandler /\ UNCHANGED event
  \/ \E s \in FlagSet : DeviceEventSend(s)

EventNext == EventHandler \/ \E t \in Thread : EventStep(t) \/ EventCall(t)

-----------------------------------------------------------------------------
EventTypeOK ==
  /\ set \subseteq Flag
  /\ event_set \in [Thread -> SUBSET Flag] /\ asked \in [Thread -> SUBSET Flag]
  /\ event_info \in [Thread -> SUBSET {"AND", "OR", "CLEAR"}]

\* The thread is woken by a send and has not returned yet.
ServedBySend(t) ==
  /\ pc[t] = "event" \/ (pc[t] = "sched" /\ cont[t] = "event")
  /\ k.stat[t] = "READY" /\ k.error[t] = "EOK"

\* No lost wake-up in rt_event_send: nobody waits for flags that are there,
\* in whichever order sends, clearing receivers, timeouts and resets come.
NoWaiterBesideFlags ==
  \A t \in ToSet(k.waitq[suspend_thread]) :
    ~Satisfied(set, event_set[t], event_info[t])

\* A thread that a send woke returns flags it asked for, all of them with
\* AND and at least one with OR, whatever was sent and taken since.
ServedAsAsked ==
  \A t \in Thread : ServedBySend(t) =>
    IF "AND" \in event_info[t] THEN event_set[t] = asked[t]
    ELSE event_set[t] # {} /\ event_set[t] \subseteq asked[t]

\* One send of a flag reaches at most one receiver with RT_EVENT_FLAG_CLEAR,
\* be it one of several waiting threads or one that comes later.
ClearedFlagGoesToOne == \A f \in Flag : claims[f] <= 1
=============================================================================
