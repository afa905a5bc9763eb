------------------------------- MODULE Kernel -------------------------------
(***************************************************************************)
(* The data the RT-Thread scheduler, thread manager and timer share, as    *)
(* one record k, and the functions of scheduler.c, thread.c, timer.c and   *)
(* the waiting-list part of ipc.c as functions from such a record to the   *)
(* record after the call.  Every operator is the body of one C function    *)
(* run with interrupts disabled; the modules that extend this one decide   *)
(* where the code enables interrupts between two of them.                  *)
(*                                                                         *)
(*   table    rt_thread_priority_table: the ready list of each priority    *)
(*   group    rt_thread_ready_priority_group: the bits that are set        *)
(*   waitq    the suspend_thread list of each IPC object                   *)
(*   defunct  rt_thread_defunct                                            *)
(*   stat, prio, mask, error, remaining                                    *)
(*            stat, current_priority, number_mask, error and               *)
(*            remaining_tick of each thread                                *)
(*   current  rt_current_thread        lock  rt_scheduler_lock_nest        *)
(*   tick     rt_tick (modulo TickMod: the counter wraps)                  *)
(*   timers   rt_timer_list, the thread timers in it named by their thread *)
(*   timeout  timeout_tick of each thread timer                            *)
(*   active   the thread timers with RT_TIMER_FLAG_ACTIVATED               *)
(*                                                                         *)
(* A thread has one list node (tlist), so table, waitq and defunct are all *)
(* the lists it can be on.  A list is the sequence of its members.         *)
(***************************************************************************)
EXTENDS Integers, SequencesExt

CONSTANTS
  Thread,                 \* the threads, the idle thread included
  Idle,                   \* the idle thread
  Object,                 \* the objects with a list of suspended threads
  RT_THREAD_PRIORITY_MAX,
  TickMod,                \* RT_TICK_MAX + 1
  init_tick               \* the time slice of each thread

Priority == 0 .. RT_THREAD_PRIORITY_MAX - 1
Tick     == 0 .. TickMod - 1
HalfTick == (TickMod - 1) \div 2               \* RT_TICK_MAX / 2

\* rt_timer_start asserts that a timer never runs for half the tick range,
\* and a thread's time slice is positive: rt_tick_increase decrements it
\* before it compares it with zero.
ASSUME KernelAssumption ==
  /\ Idle \in Thread
  /\ RT_THREAD_PRIORITY_MAX \in Nat \ {0}
  /\ TickMod \in Nat \ {0}
  /\ init_tick \in [Thread -> Nat \ {0}]

Stat  == {"INIT", "READY", "SUSPEND", "CLOSE"}
Error == {"EOK", "ETIMEOUT", "ERROR"}

KernelState ==
  [table : [Priority -> Seq(Thread)], group : SUBSET Priority,
   waitq : [Object -> Seq(Thread)], defunct : Seq(Thread),
   stat : [Thread -> Stat], prio : [Thread -> Priority],
   mask : [Thread -> SUBSET Priority], error : [Thread -> Error],
   remaining : [Thread -> Nat \ {0}], current : Thread, lock : Nat,
   tick : Tick, timers : Seq(Thread), timeout : [Thread -> Tick],
   active : SUBSET Thread]

-----------------------------------------------------------------------------
\* rt_list_remove(&thread->tlist): off whichever list the thread is on.
rt_list_remove(k, t) ==
  [k EXCEPT !.table   = [p \in Priority |-> RemoveFirst(k.table[p], t)],
            !.waitq   = [o \in Object |-> RemoveFirst(k.waitq[o], t)],
            !.defunct = RemoveFirst(k.defunct, t)]

rt_schedule_insert_thread(k, t) ==
  [k EXCEPT !.stat[t] = "READY",
            !.table[k.prio[t]] = Append(@, t),
            !.group = @ \cup k.mask[t]]

\* Mutant: the bit of an emptied ready list stays set.
KeepGroupBit(k, t) == rt_list_remove(k, t)

rt_schedule_remove_thread(k, t) ==
  LET u == rt_list_remove(k, t)
  IN  IF u.table[k.prio[t]] = << >>
      THEN [u EXCEPT !.group = @ \ k.mask[t]]
      ELSE u

\* __rt_ffs(rt_thread_ready_priority_group) - 1
highest_ready_priority(k) == Min(k.group)

\* The choice rt_schedule makes; the register switch follows at once when
\* interrupts are enabled again, or when the last handler returns.
rt_schedule(k) ==
  IF k.lock = 0
  THEN [k EXCEPT !.current = Head(k.table[highest_ready_priority(k)])]
  ELSE k

-----------------------------------------------------------------------------
\* The comparisons of timer.c are on unsigned ticks that wrap.
TickDiff(a, b) == (a - b) % TickMod

\* Mutant: the comparison does not know that ticks wrap.
LaterWithoutWrap(k, u, w) == k.timeout[u] > w

\* Timer u goes off strictly after tick w.
Later(k, u, w) ==
  LET d == TickDiff(k.timeout[u], w) IN d # 0 /\ d < HalfTick

\* Nothing reads the timeout_tick of a timer off the list: it is forgotten.
_rt_timer_remove(k, t) ==
  [k EXCEPT !.timers = RemoveFirst(@, t), !.timeout[t] = 0]

\* The index before which a list scan that stops at the first member
\* satisfying Stop links a new node.
FirstIndex(s, Stop(_)) ==
  LET I == {i \in 1 .. Len(s) : Stop(s[i])}
  IN  IF I = {} THEN Len(s) + 1 ELSE Min(I)

\* Mutant: the scan for the place falls off the end of the list.
StartLosesLast(k, t, time) ==
  LET w == (k.tick + time) % TickMod
      i == FirstIndex(k.timers, LAMBDA v : Later(k, v, w))
  IN  [k EXCEPT !.timeout[t] = w,
                !.timers = IF i > Len(@) /\ @ # << >> THEN @ ELSE InsertAt(@, i, t),
                !.active = @ \cup {t}]

\* rt_timer_control(SET_TIME) and rt_timer_start on the timer of thread t.
rt_timer_start(k, t, time) ==
  LET u == _rt_timer_remove(k, t)
      w == (k.tick + time) % TickMod
      i == FirstIndex(u.timers, LAMBDA v : Later(k, v, w))
  IN  [u EXCEPT !.timeout[t] = w,
                !.timers = InsertAt(u.timers, i, t),
                !.active = @ \cup {t}]

rt_timer_stop(k, t) ==
  IF t \in k.active
  THEN [_rt_timer_remove(k, t) EXCEPT !.active = @ \ {t}]
  ELSE k

-----------------------------------------------------------------------------
rt_thread_suspend(k, t) ==
  IF k.stat[t] = "READY"
  THEN rt_timer_stop(
         rt_schedule_remove_thread([k EXCEPT !.stat[t] = "SUSPEND"], t), t)
  ELSE k

\* The first critical section of rt_thread_resume; the second one is
\* rt_schedule_insert_thread.
resume_unlink(k, t) == rt_timer_stop(rt_list_remove(k, t), t)

\* rt_thread_resume called with interrupts disabled.
rt_thread_resume(k, t) ==
  IF k.stat[t] = "SUSPEND"
  THEN rt_schedule_insert_thread(resume_unlink(k, t), t)
  ELSE k

\* The test of rt_thread_yield, tlist.next # tlist.prev, and its critical
\* section: the current thread goes to the end of its ready list.
may_yield(k) ==
  k.stat[k.current] = "READY" /\ Len(k.table[k.prio[k.current]]) > 1

yield_rotate(k) ==
  [rt_list_remove(k, k.current) EXCEPT
     !.table[k.prio[k.current]] = Append(@, k.current)]

\* Mutant: the timeout does not reschedule.
TimeoutWithoutSchedule(k, t) ==
  rt_schedule_insert_thread(
    rt_list_remove([k EXCEPT !.error[t] = "ETIMEOUT"], t), t)

rt_thread_timeout(k, t) ==
  rt_schedule(
    rt_schedule_insert_thread(
      rt_list_remove([k EXCEPT !.error[t] = "ETIMEOUT"], t), t))

\* Mutant: number_mask is not recalculated.
KeepMask(k, t, p) ==
  IF k.stat[t] = "READY"
  THEN rt_schedule_insert_thread(
         [rt_schedule_remove_thread(k, t) EXCEPT !.prio[t] = p], t)
  ELSE [k EXCEPT !.prio[t] = p]

\* rt_thread_control(thread, RT_THREAD_CTRL_CHANGE_PRIORITY, &p)
change_priority(k, t, p) ==
  IF k.stat[t] = "READY"
  THEN rt_schedule_insert_thread(
         [rt_schedule_remove_thread(k, t) EXCEPT !.prio[t] = p,
                                                 !.mask[t] = {p}], t)
  ELSE [k EXCEPT !.prio[t] = p, !.mask[t] = {p}]

-----------------------------------------------------------------------------
\* Mutant: a thread is queued before its equals.
SuspendBeforeEquals(k, o, t, flag) ==
  LET u == rt_thread_suspend(k, t)
      i == FirstIndex(u.waitq[o], LAMBDA v : k.prio[t] <= k.prio[v])
  IN  [u EXCEPT !.waitq[o] =
         IF flag = "PRIO" THEN InsertAt(@, i, t) ELSE Append(@, t)]

\* rt_ipc_list_suspend: suspend t and queue it on object o.
rt_ipc_list_suspend(k, o, t, flag) ==
  LET u == rt_thread_suspend(k, t)
      i == FirstIndex(u.waitq[o], LAMBDA v : k.prio[t] < k.prio[v])
  IN  [u EXCEPT !.waitq[o] =
         IF flag = "PRIO" THEN InsertAt(@, i, t) ELSE Append(@, t)]

rt_ipc_list_resume(k, o) == rt_thread_resume(k, Head(k.waitq[o]))

-----------------------------------------------------------------------------
\* rt_tick_increase up to the call of rt_timer_check.
tick_increase(k) ==
  LET t == k.current
      u == [k EXCEPT !.tick = (@ + 1) % TickMod,
                     !.remaining[t] = IF @ = 1 THEN init_tick[t] ELSE @ - 1]
  IN  IF k.remaining[t] = 1 /\ may_yield(k)
      THEN rt_schedule(yield_rotate(u))
      ELSE u

\* The timer at the head of the list has run out.
Due(k) ==
  /\ k.timers # << >>
  /\ TickDiff(k.tick, k.timeout[Head(k.timers)]) < HalfTick

\* One round of the loop of rt_timer_check: thread timers are one-shot.
timer_expire(k) ==
  LET t == Head(k.timers)
  IN  [rt_thread_timeout(_rt_timer_remove(k, t), t) EXCEPT !.active = @ \ {t}]
-----------------------------------------------------------------------------
(***************************************************************************)
(* What every component keeps true of these data.                          *)
(***************************************************************************)

\* A thread is READY exactly when it is on the ready list of its current
\* priority, and no list holds a thread twice.
ReadyListsMatchStat(k) ==
  \A p \in Priority :
    /\ IsInjective(k.table[p])
    /\ ToSet(k.table[p]) = {t \in Thread : k.stat[t] = "READY" /\ k.prio[t] = p}

\* The bit of a priority is set exactly when its ready list has a member.
GroupMatchesTable(k) ==
  /\ k.group = {p \in Priority : k.table[p] # << >>}
  /\ \A t \in Thread : k.mask[t] = {k.prio[t]}

\* A thread queued on an object is suspended, and on one object only.
WaitListsHoldSuspended(k) ==
  /\ \A o \in Object :
       /\ IsInjective(k.waitq[o])
       /\ \A t \in ToSet(k.waitq[o]) : k.stat[t] = "SUSPEND"
  /\ \A o1, o2 \in Object :
       o1 # o2 => ToSet(k.waitq[o1]) \cap ToSet(k.waitq[o2]) = {}

\* The assertion of rt_thread_timeout: a running thread timer belongs to a
\* suspended thread.
TimersBelongToSuspended(k) ==
  /\ IsInjective(k.timers)
  /\ ToSet(k.timers) = k.active
  /\ \A t \in k.active : k.stat[t] = "SUSPEND"

\* The threads waiting to be reclaimed are closed ones.
DefunctIsClosed(k) ==
  /\ IsInjective(k.defunct)
  /\ \A t \in ToSet(k.defunct) : k.stat[t] = "CLOSE"

\* The idle thread is always ready, so rt_schedule always finds a thread.
IdleIsReady(k) == k.stat[Idle] = "READY"

Consistent(k) ==
  /\ ReadyListsMatchStat(k)
  /\ GroupMatchesTable(k)
  /\ WaitListsHoldSuspended(k)
  /\ TimersBelongToSuspended(k)
  /\ DefunctIsClosed(k)
  /\ IdleIsReady(k)
=============================================================================
