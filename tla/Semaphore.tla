----------------------------- MODULE Semaphore -----------------------------
(***************************************************************************)
(* Counting semaphores (ipc.c) under preemption: threads that take with    *)
(* and without a timeout, release, reset and detach, device handlers that  *)
(* release, and the tick that ends timed waits.                            *)
(*                                                                         *)
(*   value[s]   sem->value (rt_uint16_t; MaxValue stands for 65535)        *)
(*   alive[s]   the semaphore is initialised: rt_sem_detach has not begun  *)
(*   call[t]    the semaphore thread t is inside a call on                 *)
(*   reset[t]   the value rt_sem_control(RESET) will set                   *)
(*   wild       rt_ipc_list_resume_all has taken a thread from an empty    *)
(*              list; what the program does from there on is not modelled  *)
(*   credit[s]  history variable: the initial value, plus the releases,    *)
(*              minus the takes that returned RT_EOK; RESET restates it    *)
(***************************************************************************)
EXTENDS Cpu

CONSTANTS
  init_value,    \* the value each semaphore is initialised with
  flag,          \* its RT_IPC_FLAG: "FIFO" or "PRIO"
  MaxValue,      \* bound on value
  WaitTimes,     \* the positive timeouts, in ticks
  WaitForever,   \* whether takes with RT_WAITING_FOREVER occur
  Detachable,    \* the semaphores that may be detached
  BlockLocked    \* whether a take may block, or a thread sleep, inside
                 \* rt_enter_critical

Sem == Object

ASSUME SemaphoreAssumption ==
  /\ MaxValue \in Nat
  /\ init_value \in [Sem -> 0 .. MaxValue]
  /\ flag \in [Sem -> {"FIFO", "PRIO"}]
  /\ WaitTimes \subseteq 1 .. HalfTick - 1
  /\ Detachable \subseteq Sem
  /\ WaitForever \in BOOLEAN /\ BlockLocked \in BOOLEAN

VARIABLES value, alive, call, reset, wild, credit
sems == <<value, alive, call, reset, wild, credit>>
vars == <<k, pc, cont, primask, systick, device,
          value, alive, call, reset, wild, credit>>

Init ==
  /\ CpuInit
  /\ value = init_value
  /\ alive = [s \in Sem |-> TRUE]
  /\ call \in [Thread -> Sem] /\ \A t, u \in Thread : call[t] = call[u]
  /\ reset = [t \in Thread |-> 0]
  /\ wild = FALSE
  /\ credit = init_value

\* Application code of t calls a function on s.
Calls(t, s) == Running(t) /\ pc[t] = "run" /\ t # Idle /\ alive[s] /\ ~wild

-----------------------------------------------------------------------------
\* rt_sem_take(s, time), sem->value > 0
TakeAvailable(t, s) ==
  /\ Calls(t, s) /\ value[s] > 0
  /\ value'  = [value EXCEPT ![s] = @ - 1]
  /\ credit' = [credit EXCEPT ![s] = @ - 1]
  /\ UNCHANGED <<cpu, alive, call, reset, wild>>

\* rt_sem_take(s, time), sem->value = 0 and time # 0: up to rt_schedule.
Block(t, s, u) ==
  /\ Calls(t, s) /\ value[s] = 0
  /\ k.lock > 0 => BlockLocked
  /\ k' = u
  /\ ThenSchedule(t, "take")
  /\ call' = [call EXCEPT ![t] = s]
  /\ UNCHANGED <<primask, systick, device, value, alive, reset, wild, credit>>

Suspended(t, s) ==
  rt_ipc_list_suspend([k EXCEPT !.error[t] = "EOK"], s, t, flag[s])

TakeTimed(t, s, time) == Block(t, s, rt_timer_start(Suspended(t, s), t, time))
TakeForever(t, s)     == WaitForever /\ Block(t, s, Suspended(t, s))

\* rt_sem_take after rt_schedule: RT_EOK counts as a token taken.
TakeReturn(t) ==
  /\ Running(t) /\ pc[t] = "take"
  /\ credit' = IF k.error[t] = "EOK"
               THEN [credit EXCEPT ![call[t]] = @ - 1] ELSE credit
  /\ Goto(t, "run")
  /\ UNCHANGED <<k, primask, systick, device, value, alive, call, reset, wild>>

-----------------------------------------------------------------------------
\* Mutants: the value grows when a waiter is woken too; no waiter is woken.
GiveTwice(s) ==
  /\ k' = IF k.waitq[s] # << >> THEN rt_ipc_list_resume(k, s) ELSE k
  /\ value' = [value EXCEPT ![s] = @ + 1]

GiveWithoutWake(s) == k' = k /\ value' = [value EXCEPT ![s] = @ + 1]

\* The critical section of rt_sem_release.
Give(s) ==
  IF k.waitq[s] # << >>
  THEN k' = rt_ipc_list_resume(k, s) /\ UNCHANGED value
  ELSE k' = k /\ value' = [value EXCEPT ![s] = @ + 1]

CanGive(s) == value[s] < MaxValue /\ credit[s] < MaxValue

rt_sem_release(t, s) ==
  /\ Calls(t, s) /\ CanGive(s)
  /\ Give(s)
  /\ IF k.waitq[s] # << >> THEN ThenSchedule(t, "run") ELSE UNCHANGED <<pc, cont>>
  /\ credit' = [credit EXCEPT ![s] = @ + 1]
  /\ UNCHANGED <<primask, systick, device, alive, call, reset, wild>>

\* rt_sem_release called by a device handler.
DeviceRelease(s) ==
  /\ InThread /\ ~primask /\ alive[s] /\ ~wild /\ CanGive(s)
  /\ Give(s)
  /\ device' = (k.waitq[s] # << >>)
  /\ credit' = [credit EXCEPT ![s] = @ + 1]
  /\ UNCHANGED <<pc, cont, primask, systick, alive, call, reset, wild>>

-----------------------------------------------------------------------------
\* rt_ipc_list_resume_all: wake the first waiter with -RT_ERROR.
ResumeFirst(s) ==
  LET u == Head(k.waitq[s])
  IN  k' = rt_thread_resume([k EXCEPT !.error[u] = "ERROR"], u)

\* rt_sem_control(s, RT_IPC_CMD_RESET, v): interrupts stay disabled over
\* the whole loop of rt_ipc_list_resume_all and the assignment.
ResetCall(t, s, v) ==
  /\ Calls(t, s)
  /\ primask' = TRUE
  /\ Goto(t, "reset")
  /\ call' = [call EXCEPT ![t] = s] /\ reset' = [reset EXCEPT ![t] = v]
  /\ UNCHANGED <<k, systick, device, value, alive, wild, credit>>

ResetResume(t) ==
  /\ Running(t) /\ pc[t] = "reset" /\ k.waitq[call[t]] # << >>
  /\ ResumeFirst(call[t])
  /\ UNCHANGED <<pc, cont, primask, systick, device, sems>>

ResetValue(t) ==
  /\ Running(t) /\ pc[t] = "reset" /\ k.waitq[call[t]] = << >>
  /\ value'  = [value EXCEPT ![call[t]] = reset[t]]
  /\ credit' = [credit EXCEPT ![call[t]] = @ + reset[t] - value[call[t]]]
  /\ reset'  = [reset EXCEPT ![t] = 0]
  /\ primask' = FALSE
  /\ ThenSchedule(t, "run")
  /\ UNCHANGED <<k, systick, device, alive, call, wild>>

-----------------------------------------------------------------------------
\* rt_sem_detach: the loop of rt_ipc_list_resume_all tests the list with
\* interrupts enabled and takes its first member in a critical section.
DetachCall(t, s) ==
  /\ Calls(t, s) /\ s \in Detachable
  /\ alive' = [alive EXCEPT ![s] = FALSE]
  /\ Goto(t, "detach_test") /\ call' = [call EXCEPT ![t] = s]
  /\ UNCHANGED <<k, primask, systick, device, value, reset, wild, credit>>

DetachTest(t) ==
  /\ Running(t) /\ pc[t] = "detach_test"
  /\ Goto(t, IF k.waitq[call[t]] # << >> THEN "detach_resume" ELSE "run")
  /\ UNCHANGED <<k, primask, systick, device, sems>>

\* Mutant: only the first waiter is woken.
DetachResumeOne(t) ==
  /\ Running(t) /\ pc[t] = "detach_resume" /\ k.waitq[call[t]] # << >>
  /\ ResumeFirst(call[t]) /\ Goto(t, "run")
  /\ UNCHANGED <<primask, systick, device, sems>>

DetachResume(t) ==
  /\ Running(t) /\ pc[t] = "detach_resume" /\ ~wild
  /\ IF k.waitq[call[t]] # << >>
     THEN ResumeFirst(call[t]) /\ Goto(t, "detach_test") /\ UNCHANGED wild
     ELSE wild' = TRUE /\ UNCHANGED <<k, pc, cont>>
  /\ UNCHANGED <<primask, systick, device, value, alive, call, reset, credit>>

-----------------------------------------------------------------------------
\* rt_thread_sleep by application code.
Sleep(t, time) == rt_thread_sleep(t, time) /\ (k.lock > 0 => BlockLocked)

ThreadStep(t) ==
  \/ Schedule(t) /\ UNCHANGED sems
  \/ SleepReturn(t) /\ UNCHANGED sems
  \/ TakeReturn(t) \/ ResetResume(t) \/ ResetValue(t)
  \/ DetachTest(t) \/ DetachResume(t)

ThreadCall(t) ==
  \/ /\ \/ rt_thread_yield(t)
        \/ rt_enter_critical(t) \/ rt_exit_critical(t)
        \/ \E time \in WaitTimes : Sleep(t, time)
     /\ UNCHANGED sems
  \/ \E s \in Sem :
       \/ TakeAvailable(t, s) \/ TakeForever(t, s)
       \/ \E time \in WaitTimes : TakeTimed(t, s, time)
       \/ rt_sem_release(t, s)
       \/ \E v \in 0 .. MaxValue : ResetCall(t, s, v)
       \/ DetachCall(t, s)

Handler ==
  \/ (SysTick_Handler \/ rt_timer_check \/ DeviceSchedule) /\ UNCHANGED sems
  \/ \E s \in Sem : DeviceRelease(s)

Next == Handler \/ \E t \in Thread : ThreadStep(t) \/ ThreadCall(t)

Spec == Init /\ [][Next]_vars

\* A pending SysTick interrupt is taken as soon as interrupts are enabled,
\* however briefly, and kernel calls that have begun keep being executed.
Fairness ==
  /\ SF_vars(SysTick_Handler /\ UNCHANGED sems)
  /\ WF_vars(rt_timer_check /\ UNCHANGED sems)
  /\ WF_vars(DeviceSchedule /\ UNCHANGED sems)
  /\ WF_vars(\E t \in Thread : ThreadStep(t))

FairSpec == Spec /\ Fairness

-----------------------------------------------------------------------------
\* What a thread may go on with after rt_schedule, and where else it may be.
Continuation == {"run", "slept", "take"}
Point == Continuation \cup {"sched", "reset", "detach_test", "detach_resume"}

TypeOK ==
  /\ CpuTypeOK
  /\ pc \in [Thread -> Point] /\ cont \in [Thread -> Continuation]
  /\ value \in [Sem -> 0 .. MaxValue] /\ credit \in [Sem -> Int]
  /\ alive \in [Sem -> BOOLEAN] /\ wild \in BOOLEAN
  /\ call \in [Thread -> Sem] /\ reset \in [Thread -> 0 .. MaxValue]

\* Every variable keeps its type; the kernel's lists, bitmap, states and
\* timers agree, through every race of a take, a release, a timeout, a reset
\* and a detach.
StateConsistent == TypeOK /\ KernelConsistent

\* The threads a release of s woke that have not returned from rt_sem_take.
Handed(s) ==
  {t \in Thread : /\ pc[t] = "take" \/ (pc[t] = "sched" /\ cont[t] = "take")
                  /\ call[t] = s
                  /\ k.stat[t] = "READY" /\ k.error[t] = "EOK"}

\* No token is lost or made: what was released and not yet taken is in the
\* value or was handed to a waiter, through every race of a release, a
\* timeout and a reset (rt_sem_take, rt_sem_release, rt_thread_timeout).
TokensConserved ==
  \A s \in Sem : credit[s] = value[s] + Cardinality(Handed(s))

\* No thread waits beside a token it could have (no lost wakeup).
NoWaiterBesideToken == \A s \in Sem : k.waitq[s] # << >> => value[s] = 0

\* rt_sem_detach leaves no thread suspended on the semaphore it detached.
NoWaiterAfterDetach ==
  \A s \in Sem :
    (~alive[s] /\ \A t \in Thread : pc[t] \notin {"detach_test", "detach_resume"})
      => k.waitq[s] = << >>

\* The comment of rt_ipc_list_resume_all, "get next suspend thread": the
\* thread it resumes comes from the list.
ResumesOnlyWaiters == ~wild

\* The doc of rt_sem_take, "if the semaphore is unavailable, the thread
\* shall wait": a call that returns RT_EOK was given a token.
TakeMeansToken ==
  [][\A t \in Thread :
       (pc[t] = "take" /\ k.error[t] = "EOK" /\ pc'[t] = "run")
         => t \in Handed(call[t])]_vars

\* The threads a timeout, a reset or a detach woke that have not returned.
GivenUp ==
  {t \in Thread : /\ pc[t] = "take" \/ (pc[t] = "sched" /\ cont[t] = "take")
                  /\ k.stat[t] = "READY" /\ k.error[t] # "EOK"}

\* The semaphores implement TokenSemaphore: a token goes to the first of the
\* waiting queue, and a waiter that was given one returns with it.
Tokens ==
  INSTANCE TokenSemaphore WITH
    tokens <- value, waiting <- k.waitq, urgency <- init_prio,
    granted <- [s \in Sem |-> Handed(s)], failed <- GivenUp

ImplementsTokens == Tokens!Spec

\* A take with a timeout ends, by a token, an error or the timeout.
TimedWaitEnds == \A t \in Thread : t \in k.active ~> t \notin k.active
=============================================================================
