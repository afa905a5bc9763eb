-------------------------------- MODULE Cpu --------------------------------
(***************************************************************************)
(* The single Cortex-M3 core: which code may take the next step.  Between  *)
(* two steps the interrupts are enabled (unless primask is set), so a      *)
(* pending handler may run there: SysTick_Handler, which preempts every    *)
(* other handler, and a device handler.  A thread runs only when no handler*)
(* is active, and only the thread rt_current_thread names.                 *)
(*                                                                         *)
(*   pc[t]    where thread t is: "run" in application code, "sched" about  *)
(*            to call rt_schedule, else a point inside a kernel call       *)
(*   cont[t]  where t goes on when rt_schedule returns to it               *)
(*   primask  interrupts stay disabled over the next step                  *)
(*   systick  SysTick_Handler is in rt_timer_check                         *)
(*   device   a device handler is about to call rt_schedule                *)
(***************************************************************************)
EXTENDS Kernel

CONSTANTS
  init_prio,   \* the priority each thread is created with
  start_order, \* the threads of a priority in the order they were started
  MaxNest      \* bound on rt_scheduler_lock_nest

ASSUME CpuAssumption ==
  /\ init_prio \in [Thread -> Priority]
  /\ start_order \in [Priority -> Seq(Thread)]
  /\ \A p \in Priority :
       /\ IsInjective(start_order[p])
       /\ ToSet(start_order[p]) = {t \in Thread : init_prio[t] = p}
  /\ MaxNest \in Nat

VARIABLES k, pc, cont, primask, systick, device
cpu == <<k, pc, cont, primask, systick, device>>

Worker == Thread \ {Idle}

InThread == ~systick /\ ~device
Running(t) == InThread /\ k.current = t

\* t calls rt_schedule next and goes on at c when it is back.
ThenSchedule(t, c) ==
  /\ pc'   = [pc EXCEPT ![t] = "sched"]
  /\ cont' = [cont EXCEPT ![t] = c]

Goto(t, c) == pc' = [pc EXCEPT ![t] = c] /\ UNCHANGED cont

-----------------------------------------------------------------------------
\* Every thread started, rt_system_scheduler_start has chosen the first one.
StartedKernel ==
  LET started ==
        [table |-> start_order, group |-> {init_prio[t] : t \in Thread},
         waitq |-> [o \in Object |-> << >>], defunct |-> << >>,
         stat |-> [t \in Thread |-> "READY"], prio |-> init_prio,
         mask |-> [t \in Thread |-> {init_prio[t]}],
         error |-> [t \in Thread |-> "EOK"], remaining |-> init_tick,
         current |-> Idle, lock |-> 0, tick |-> 0, timers |-> << >>,
         timeout |-> [t \in Thread |-> 0], active |-> {}]
  IN  rt_schedule(started)

CpuInit ==
  /\ k = StartedKernel
  /\ pc = [t \in Thread |-> "run"]
  /\ cont = [t \in Thread |-> "run"]
  /\ primask = FALSE /\ systick = FALSE /\ device = FALSE

-----------------------------------------------------------------------------
\* rt_schedule called by a thread; if it switches, it returns when the
\* thread is chosen again.
Schedule(t) ==
  /\ Running(t) /\ pc[t] = "sched"
  /\ k' = rt_schedule(k)
  /\ pc' = [pc EXCEPT ![t] = cont[t]]
  /\ cont' = [cont EXCEPT ![t] = "run"]
  /\ UNCHANGED <<primask, systick, device>>

rt_thread_yield(t) ==
  /\ Running(t) /\ pc[t] = "run" /\ may_yield(k)
  /\ k' = yield_rotate(k)
  /\ ThenSchedule(t, "run")
  /\ UNCHANGED <<primask, systick, device>>

\* rt_thread_sleep: suspend, start the timer, schedule; SleepReturn clears
\* the timeout error the timer left.
rt_thread_sleep(t, time) ==
  /\ Running(t) /\ pc[t] = "run" /\ t # Idle
  /\ k' = rt_timer_start(rt_thread_suspend(k, t), t, time)
  /\ ThenSchedule(t, "slept")
  /\ UNCHANGED <<primask, systick, device>>

SleepReturn(t) ==
  /\ Running(t) /\ pc[t] = "slept"
  /\ k' = IF k.error[t] = "ETIMEOUT" THEN [k EXCEPT !.error[t] = "EOK"] ELSE k
  /\ Goto(t, "run")
  /\ UNCHANGED <<primask, systick, device>>

rt_enter_critical(t) ==
  /\ Running(t) /\ pc[t] = "run" /\ t # Idle /\ k.lock < MaxNest
  /\ k' = [k EXCEPT !.lock = @ + 1]
  /\ UNCHANGED <<pc, cont, primask, systick, device>>

rt_exit_critical(t) ==
  /\ Running(t) /\ pc[t] = "run" /\ k.lock > 0
  /\ k' = [k EXCEPT !.lock = @ - 1]
  /\ IF k.lock = 1 THEN ThenSchedule(t, "run") ELSE UNCHANGED <<pc, cont>>
  /\ UNCHANGED <<primask, systick, device>>

-----------------------------------------------------------------------------
\* SysTick_Handler: priority 0, it preempts threads and device handlers.
SysTick_Handler ==
  /\ ~systick /\ ~primask
  /\ k' = tick_increase(k)
  /\ systick' = TRUE
  /\ UNCHANGED <<pc, cont, primask, device>>

rt_timer_check ==
  /\ systick
  /\ IF Due(k) THEN k' = timer_expire(k) /\ UNCHANGED systick
               ELSE systick' = FALSE /\ UNCHANGED k
  /\ UNCHANGED <<pc, cont, primask, device>>

\* The rt_schedule at the end of a device handler.
DeviceSchedule ==
  /\ device /\ ~systick
  /\ k' = rt_schedule(k)
  /\ device' = FALSE
  /\ UNCHANGED <<pc, cont, primask, systick>>

-----------------------------------------------------------------------------
(***************************************************************************)
(* What every component keeps true of the kernel's data.                   *)
(***************************************************************************)

CpuTypeOK ==
  /\ k \in KernelState
  /\ primask \in BOOLEAN /\ systick \in BOOLEAN /\ device \in BOOLEAN

\* The kernel's lists, bitmap, states and timers agree (scheduler.c,
\* thread.c, timer.c): see Consistent in Kernel for the parts.
KernelConsistent == Consistent(k)

\* Whenever a thread runs that is not on its way to rt_schedule, it is the
\* head of the ready list of the highest ready priority.
HighestPriorityRuns ==
  (InThread /\ ~primask /\ k.lock = 0 /\ pc[k.current] # "sched") =>
    k.current = Head(k.table[highest_ready_priority(k)])

\* When no handler is active no timer in the list has run out, however the
\* tick counter has wrapped, and the list is in the order of expiry.
NoTimerOverdue ==
  LET left(t) == TickDiff(k.timeout[t], k.tick)
  IN  ~systick =>
        /\ \A t \in k.active : left(t) < HalfTick
        /\ \A i, j \in DOMAIN k.timers :
             i < j => left(k.timers[i]) <= left(k.timers[j])
=============================================================================
