-------------------------------- MODULE Ipc --------------------------------
(***************************************************************************)
(* What the mailbox, the event, the message queue (ipc.c) and the memory   *)
(* pool (mempool.c) have in common: a thread that finds nothing queues on  *)
(* a list of the object, for a time or for ever, and goes on when another  *)
(* thread or a handler wakes it, its time is over, or the object is reset  *)
(* or detached.                                                            *)
(*                                                                         *)
(*   timeout[t], start[t]  the locals timeout and tick_delta of the call   *)
(*                         t is inside                                     *)
(*   deadline[t]  history variable: the tick at which the time t called    *)
(*                with is over                                             *)
(*   detached     the object was detached, or is being detached            *)
(***************************************************************************)
EXTENDS Cpu

CONSTANTS
  flag,                   \* the RT_IPC_FLAG: "FIFO" or "PRIO"
  suspend_thread,         \* the list of waiting receivers
  suspend_sender_thread,  \* the list of waiting senders (mailboxes)
  WaitTimes,              \* how long each thread waits: ticks, or Forever
  Forever,                \* RT_WAITING_FOREVER
  Resets,                 \* whether threads reset the object
  Detaches                \* whether threads detach it

ASSUME IpcAssumption ==
  /\ flag \in {"FIFO", "PRIO"}
  /\ {suspend_thread, suspend_sender_thread} \subseteq Object
  /\ suspend_thread # suspend_sender_thread
  /\ Forever = -1
  /\ WaitTimes \in [Thread -> SUBSET ((1 .. HalfTick - 1) \cup {Forever})]
  /\ Resets \in BOOLEAN /\ Detaches \in BOOLEAN

VARIABLES timeout, start, deadline, detached
waiting == <<timeout, start, deadline, detached>>

IpcInit ==
  /\ CpuInit
  /\ timeout = [t \in Thread |-> 0] /\ start = [t \in Thread |-> 0]
  /\ deadline = [t \in Thread |-> 0]
  /\ detached = FALSE

Calls(t) == Running(t) /\ pc[t] = "run" /\ ~detached

\* t goes on inside its call, at c, without an error.
Resumes(t, c) == Running(t) /\ pc[t] = c /\ k.error[t] = "EOK"

-----------------------------------------------------------------------------
\* Wake the first of the threads waiting on o.
Wake(o) == k' = IF k.waitq[o] # << >> THEN rt_ipc_list_resume(k, o) ELSE k

\* The end of a call of t: rt_schedule if it woke a thread of o.
ReturnAfterWake(t, o) ==
  IF k.waitq[o] # << >> THEN ThenSchedule(t, "run") ELSE Goto(t, "run")

\* The locals of a call that is over.
Forget(t) ==
  /\ timeout'  = [timeout EXCEPT ![t] = 0]
  /\ start'    = [start EXCEPT ![t] = 0]
  /\ deadline' = [deadline EXCEPT ![t] = 0]
  /\ UNCHANGED detached

\* u, with the timer of t started unless t waits for ever.
Timed(u, t, time) == IF time > 0 THEN rt_timer_start(u, t, time) ELSE u

\* t suspended and queued on o.
Queued(t, o) == rt_ipc_list_suspend([k EXCEPT !.error[t] = "EOK"], o, t, flag)

\* t, suspended in n, waits time ticks or for ever: up to rt_schedule.
Await(t, n, c, time) ==
  /\ k' = Timed(n, t, time)
  /\ ThenSchedule(t, c)
  /\ timeout' = [timeout EXCEPT ![t] = time]
  /\ start'   = [start EXCEPT ![t] = IF time > 0 THEN k.tick ELSE 0]
  /\ UNCHANGED <<primask, systick, device, detached>>

\* The tick at which a wait of time ticks that begins now is over.
Begins(t, time) ==
  deadline' = [deadline EXCEPT ![t] = IF time > 0 THEN (k.tick + time) % TickMod ELSE 0]

\* Mutant: the whole time again.
AllLeft(t) == timeout[t]

\* What is left of the time when t is back from rt_schedule.
Left(t) ==
  IF timeout[t] > 0
  THEN Max({timeout[t] - TickDiff(k.tick, start[t]), 0}) ELSE timeout[t]

\* t goes on inside its call with an error, and returns it.
Fails(t, c) ==
  /\ Running(t) /\ pc[t] = c /\ k.error[t] # "EOK"
  /\ Goto(t, "run") /\ Forget(t)
  /\ UNCHANGED <<k, primask, systick, device>>

\* No time is left, and the call returns e.
GivesUp(t, c, e) ==
  /\ Resumes(t, c) /\ Left(t) = 0
  /\ k' = [k EXCEPT !.error[t] = e]
  /\ Goto(t, "run") /\ Forget(t)
  /\ UNCHANGED <<primask, systick, device>>

-----------------------------------------------------------------------------
(***************************************************************************)
(* rt_ipc_list_resume_all: the receivers first, then the senders.          *)
(***************************************************************************)
AllEmpty == \A o \in Object : k.waitq[o] = << >>

\* One thread of the list o is woken with -RT_ERROR.
ResumeFirst(o) ==
  LET u == Head(k.waitq[o])
  IN  k' = rt_thread_resume([k EXCEPT !.error[u] = "ERROR"], u)

\* RT_IPC_CMD_RESET: interrupts stay disabled until the object is empty.
ResetCall(t) ==
  /\ Calls(t) /\ t # Idle /\ Resets
  /\ primask' = TRUE /\ Goto(t, "reset")
  /\ UNCHANGED <<k, systick, device, waiting>>

ResetResume(t) ==
  /\ Running(t) /\ pc[t] = "reset"
  /\ \E o \in Object :
       /\ k.waitq[o] # << >>
       /\ o = suspend_sender_thread => k.waitq[suspend_thread] = << >>
       /\ ResumeFirst(o)
  /\ UNCHANGED <<pc, cont, primask, systick, device, waiting>>

\* The lists are empty: the caller clears the object and reschedules.
ResetEnd(t) ==
  /\ Running(t) /\ pc[t] = "reset" /\ AllEmpty
  /\ primask' = FALSE /\ ThenSchedule(t, "run")
  /\ UNCHANGED <<k, systick, device, waiting>>

\* The threads inside a call, at c, that were woken without an error and
\* have not tried again yet.
Woken(c) ==
  {t \in Thread : /\ pc[t] = c \/ (pc[t] = "sched" /\ cont[t] = c)
                  /\ k.stat[t] = "READY" /\ k.error[t] = "EOK"}

(***************************************************************************)
(* Detach: a loop for each list of the object, the receivers' first.  It   *)
(* tests the list with interrupts enabled and takes its head in a critical *)
(* section.  A thread that was woken before and finds nothing queues again *)
(* on the object that is gone; nobody looks at the list any more.          *)
(***************************************************************************)
TestPoint(o)   == IF o = suspend_sender_thread THEN "senders_test" ELSE "detach_test"
ResumePoint(o) == IF o = suspend_sender_thread THEN "senders_resume" ELSE "detach_resume"

DetachCall(t) ==
  /\ Calls(t) /\ t # Idle /\ Detaches
  /\ detached' = TRUE /\ Goto(t, "detach_test")
  /\ UNCHANGED <<k, primask, systick, device, timeout, start, deadline>>

\* Is somebody on the list o?  After its last one t goes on at c.
DetachTest(t, o, c) ==
  /\ Running(t) /\ pc[t] = TestPoint(o)
  /\ Goto(t, IF k.waitq[o] = << >> THEN c ELSE ResumePoint(o))
  /\ UNCHANGED <<k, primask, systick, device, waiting>>

\* A timeout may have emptied the list since the test: then t takes the list
\* itself for a thread, and what it does from there on, at "wild", is not
\* modelled.
DetachResume(t, o) ==
  /\ Running(t) /\ pc[t] = ResumePoint(o)
  /\ IF k.waitq[o] # << >>
     THEN ResumeFirst(o) /\ Goto(t, TestPoint(o))
     ELSE Goto(t, "wild") /\ UNCHANGED k
  /\ UNCHANGED <<primask, systick, device, waiting>>

-----------------------------------------------------------------------------
\* The steps, and the calls, that leave the object alone: of all objects, and
\* of those of ipc.c, with c where the detach goes on after the loop over the
\* receivers.  (That threads also yield and sleep between their calls is a
\* matter of Semaphore and Mutex.)
IpcStep(t) == Schedule(t) /\ UNCHANGED waiting

ObjectStep(t, c) ==
  \/ IpcStep(t) \/ ResetResume(t)
  \/ DetachTest(t, suspend_thread, c) \/ DetachResume(t, suspend_thread)
ObjectCall(t) == ResetCall(t) \/ DetachCall(t)

IpcHandler == (SysTick_Handler \/ rt_timer_check \/ DeviceSchedule) /\ UNCHANGED waiting

-----------------------------------------------------------------------------
Continuation == {"run", "send", "recv", "event", "alloc"}
Point ==
  Continuation \cup {"sched", "reset", "detach_test", "detach_resume",
                    "senders_test", "senders_resume", "wild"}

IpcTypeOK ==
  /\ CpuTypeOK
  /\ cont \in [Thread -> Continuation]
  /\ timeout \in [Thread -> (0 .. HalfTick) \cup {Forever}]
  /\ start \in [Thread -> Tick] /\ deadline \in [Thread -> Tick]
  /\ detached \in BOOLEAN

\* However often a thread waits again for an object of ipc.c (the
\* recalculation of timeout in rt_mb_send_wait, rt_mb_recv and rt_mq_recv),
\* its timer is set to the end of the time it called with.
DeadlineKept ==
  \A o \in {suspend_thread, suspend_sender_thread} :
    \A t \in ToSet(k.waitq[o]) : timeout[t] > 0 => k.timeout[t] = deadline[t]

\* The most urgent ready thread runs.  A detach wakes threads and does not
\* call rt_schedule (ipc.c), so this is claimed of objects in use.
MostUrgentRuns == ~detached => HighestPriorityRuns
=============================================================================
