------------------------------- MODULE Mutex -------------------------------
(***************************************************************************)
(* Mutexes (ipc.c): ownership, recursive takes, the hand-over to the first *)
(* waiter and priority inheritance, with threads that sleep and waits that *)
(* time out.  Mutexes are not used from handlers.                          *)
(*                                                                         *)
(*   value[m], owner[m], original_priority[m], hold[m]                     *)
(*             the fields of m; RT_NULL, 0xFF (None) when it is free       *)
(*   call[t]   the mutex thread t waits for                                *)
(*   taken[t]  history variable: for each mutex, the takes that returned   *)
(*             RT_EOK to t and that t has not released                     *)
(***************************************************************************)
EXTENDS Cpu

CONSTANTS
  RT_NULL,      \* the owner of a free mutex
  None,         \* its original_priority, 0xFF
  flag,         \* the RT_IPC_FLAG of each mutex
  MaxHold,      \* bound on hold (rt_uint8_t)
  WaitTimes,    \* the positive timeouts of takes, in ticks
  WaitForever,  \* whether takes with RT_WAITING_FOREVER occur
  SleepTimes,   \* how long threads sleep
  Nested        \* whether a thread that owns a mutex takes another one

MutexObject == Object

ASSUME MutexAssumption ==
  /\ RT_NULL \notin Thread /\ None \notin Priority
  /\ flag \in [MutexObject -> {"FIFO", "PRIO"}]
  /\ MaxHold \in Nat \ {0}
  /\ WaitTimes \subseteq 1 .. HalfTick - 1 /\ SleepTimes \subseteq 1 .. HalfTick - 1
  /\ WaitForever \in BOOLEAN /\ Nested \in BOOLEAN

VARIABLES value, owner, original_priority, hold, call, taken
mutexes == <<value, owner, original_priority, hold, call, taken>>
vars == <<k, pc, cont, primask, systick, device,
          value, owner, original_priority, hold, call, taken>>

Init ==
  /\ CpuInit
  /\ value = [m \in MutexObject |-> 1]
  /\ owner = [m \in MutexObject |-> RT_NULL]
  /\ original_priority = [m \in MutexObject |-> None]
  /\ hold = [m \in MutexObject |-> 0]
  /\ call \in [Thread -> MutexObject] /\ \A t, u \in Thread : call[t] = call[u]
  /\ taken = [t \in Thread |-> [m \in MutexObject |-> 0]]

Calls(t) == Running(t) /\ pc[t] = "run" /\ t # Idle

\* Application code of t takes m.
Takes(t, m) == Calls(t) /\ (Nested \/ \A n \in MutexObject \ {m} : owner[n] # t)

-----------------------------------------------------------------------------
ClearError(t) == [k EXCEPT !.error[t] = "EOK"]

\* rt_mutex_take by the owner.
TakeAgain(t, m) ==
  /\ Takes(t, m) /\ owner[m] = t /\ hold[m] < MaxHold
  /\ k' = ClearError(t)
  /\ hold'  = [hold EXCEPT ![m] = @ + 1]
  /\ taken' = [taken EXCEPT ![t][m] = @ + 1]
  /\ UNCHANGED <<pc, cont, primask, systick, device, value, owner,
                 original_priority, call>>

\* Mutant: the value is not tested.
TakeUntested(t, m) ==
  /\ Takes(t, m) /\ owner[m] # t
  /\ k' = ClearError(t)
  /\ value' = [value EXCEPT ![m] = @ - 1]
  /\ owner' = [owner EXCEPT ![m] = t]
  /\ original_priority' = [original_priority EXCEPT ![m] = k.prio[t]]
  /\ hold'  = [hold EXCEPT ![m] = @ + 1]
  /\ taken' = [taken EXCEPT ![t][m] = @ + 1]
  /\ UNCHANGED <<pc, cont, primask, systick, device, call>>

\* rt_mutex_take on a free mutex.
TakeFree(t, m) ==
  /\ Takes(t, m) /\ owner[m] # t /\ value[m] > 0
  /\ k' = ClearError(t)
  /\ value' = [value EXCEPT ![m] = @ - 1]
  /\ owner' = [owner EXCEPT ![m] = t]
  /\ original_priority' = [original_priority EXCEPT ![m] = k.prio[t]]
  /\ hold'  = [hold EXCEPT ![m] = @ + 1]
  /\ taken' = [taken EXCEPT ![t][m] = @ + 1]
  /\ UNCHANGED <<pc, cont, primask, systick, device, call>>

\* rt_mutex_take(m, 0) on a mutex of another thread.
TakeNoWait(t, m) ==
  /\ Takes(t, m) /\ owner[m] # t /\ value[m] = 0
  /\ k' = [k EXCEPT !.error[t] = "ETIMEOUT"]
  /\ UNCHANGED <<pc, cont, primask, systick, device, mutexes>>

\* Mutant: the owner does not inherit the priority of the waiter.
NoInheritance(t, m) ==
  rt_ipc_list_suspend(ClearError(t), m, t, flag[m])

\* rt_mutex_take on a mutex of another thread: the owner inherits the
\* priority of t, and t is suspended.
Suspended(t, m) ==
  LET o == owner[m]
      u == IF k.prio[t] < k.prio[o] THEN change_priority(ClearError(t), o, k.prio[t])
                                    ELSE ClearError(t)
  IN  rt_ipc_list_suspend(u, m, t, flag[m])

\* ... up to rt_schedule.
Block(t, m, u) ==
  /\ Takes(t, m) /\ owner[m] # t /\ value[m] = 0
  /\ k' = u
  /\ ThenSchedule(t, "take")
  /\ call' = [call EXCEPT ![t] = m]
  /\ UNCHANGED <<primask, systick, device, value, owner, original_priority,
                 hold, taken>>

TakeTimed(t, m, time) == Block(t, m, rt_timer_start(Suspended(t, m), t, time))
TakeForever(t, m)     == WaitForever /\ Block(t, m, Suspended(t, m))

\* rt_mutex_take after rt_schedule.
TakeReturn(t) ==
  /\ Running(t) /\ pc[t] = "take"
  /\ taken' = IF k.error[t] = "EOK" THEN [taken EXCEPT ![t][call[t]] = @ + 1]
                                    ELSE taken
  /\ Goto(t, "run")
  /\ UNCHANGED <<k, primask, systick, device, value, owner, original_priority,
                 hold, call>>

-----------------------------------------------------------------------------
\* rt_mutex_release by a thread that is not the owner.
ReleaseOther(t, m) ==
  /\ Calls(t) /\ owner[m] # t
  /\ k' = [k EXCEPT !.error[t] = "ERROR"]
  /\ UNCHANGED <<pc, cont, primask, systick, device, mutexes>>

\* rt_mutex_release by the owner, with an inner take left.
ReleaseInner(t, m) ==
  /\ Calls(t) /\ owner[m] = t /\ hold[m] > 1
  /\ hold'  = [hold EXCEPT ![m] = @ - 1]
  /\ taken' = [taken EXCEPT ![t][m] = @ - 1]
  /\ UNCHANGED <<cpu, value, owner, original_priority, call>>

\* Mutant: the priority stays as it is.
KeepPriority(t, m) == k

\* The owner gets back the priority it took the mutex with.
Restored(t, m) ==
  IF original_priority[m] # k.prio[t]
  THEN change_priority(k, t, original_priority[m]) ELSE k

\* The outermost release with nobody waiting.
ReleaseFree(t, m) ==
  /\ Calls(t) /\ owner[m] = t /\ hold[m] = 1 /\ k.waitq[m] = << >>
  /\ k' = Restored(t, m)
  /\ value' = [value EXCEPT ![m] = @ + 1]
  /\ owner' = [owner EXCEPT ![m] = RT_NULL]
  /\ original_priority' = [original_priority EXCEPT ![m] = None]
  /\ hold'  = [hold EXCEPT ![m] = 0]
  /\ taken' = [taken EXCEPT ![t][m] = @ - 1]
  /\ UNCHANGED <<pc, cont, primask, systick, device, call>>

\* Mutants: the woken thread is not made the owner; the releaser does not
\* give way to it.
HandOverFree(t, m) ==
  /\ Calls(t) /\ owner[m] = t /\ hold[m] = 1 /\ k.waitq[m] # << >>
  /\ k' = rt_ipc_list_resume(Restored(t, m), m)
  /\ value' = [value EXCEPT ![m] = @ + 1]
  /\ owner' = [owner EXCEPT ![m] = RT_NULL]
  /\ original_priority' = [original_priority EXCEPT ![m] = None]
  /\ hold'  = [hold EXCEPT ![m] = 0]
  /\ taken' = [taken EXCEPT ![t][m] = @ - 1]
  /\ ThenSchedule(t, "run")
  /\ UNCHANGED <<primask, systick, device, call>>

\* The outermost release hands the mutex to the first waiter.
HandOver(t, m) ==
  LET u == Head(k.waitq[m])
  IN  /\ Calls(t) /\ owner[m] = t /\ hold[m] = 1 /\ k.waitq[m] # << >>
      /\ k' = rt_ipc_list_resume(Restored(t, m), m)
      /\ owner' = [owner EXCEPT ![m] = u]
      /\ original_priority' = [original_priority EXCEPT ![m] = k.prio[u]]
      /\ taken' = [taken EXCEPT ![t][m] = @ - 1]
      /\ ThenSchedule(t, "run")
      /\ UNCHANGED <<primask, systick, device, value, hold, call>>

-----------------------------------------------------------------------------
ThreadStep(t) ==
  \/ (Schedule(t) \/ SleepReturn(t)) /\ UNCHANGED mutexes
  \/ TakeReturn(t)

ThreadCall(t) ==
  \/ /\ rt_thread_yield(t) \/ \E time \in SleepTimes : rt_thread_sleep(t, time)
     /\ UNCHANGED mutexes
  \/ \E m \in MutexObject :
       \/ TakeAgain(t, m) \/ TakeFree(t, m) \/ TakeNoWait(t, m) \/ TakeForever(t, m)
       \/ \E time \in WaitTimes : TakeTimed(t, m, time)
       \/ ReleaseOther(t, m) \/ ReleaseInner(t, m) \/ ReleaseFree(t, m) \/ HandOver(t, m)

Handler == (SysTick_Handler \/ rt_timer_check) /\ UNCHANGED mutexes

Next == Handler \/ \E t \in Thread : ThreadStep(t) \/ ThreadCall(t)

Spec == Init /\ [][Next]_vars

-----------------------------------------------------------------------------
Continuation == {"run", "slept", "take"}
Point == Continuation \cup {"sched"}

TypeOK ==
  /\ CpuTypeOK
  /\ pc \in [Thread -> Point] /\ cont \in [Thread -> Continuation]
  /\ value \in [MutexObject -> 0 .. 1]
  /\ owner \in [MutexObject -> Thread \cup {RT_NULL}]
  /\ original_priority \in [MutexObject -> Priority \cup {None}]
  /\ hold \in [MutexObject -> 0 .. MaxHold]
  /\ call \in [Thread -> MutexObject]
  /\ taken \in [Thread -> [MutexObject -> 0 .. MaxHold]]

\* Every variable keeps its type; the kernel's lists, bitmap, states, timers
\* and priorities agree, through every change of a priority
\* (rt_thread_control) of a ready, a running or a waiting thread.
StateConsistent == TypeOK /\ KernelConsistent

\* No two threads are between a take of a mutex that returned RT_EOK and
\* its release, whatever waits time out (rt_mutex_take, rt_mutex_release).
MutualExclusion ==
  \A m \in MutexObject : \A t, u \in Thread :
    taken[t][m] > 0 /\ taken[u][m] > 0 => t = u

\* The threads a release handed m to that have not returned from the take.
Handed(m) ==
  {t \in Thread : /\ pc[t] = "take" \/ (pc[t] = "sched" /\ cont[t] = "take")
                  /\ call[t] = m
                  /\ k.stat[t] = "READY" /\ k.error[t] = "EOK"}

\* The fields of a mutex agree with what its users were told: hold counts
\* the takes of the owner, also of one that does not know yet that it is,
\* and a free mutex has no waiters.
OwnershipAgrees ==
  \A m \in MutexObject :
    /\ owner[m] = RT_NULL <=> value[m] = 1
    /\ owner[m] = RT_NULL => hold[m] = 0 /\ k.waitq[m] = << >>
    /\ \A t \in Thread :
         taken[t][m] + (IF t \in Handed(m) THEN 1 ELSE 0) =
           IF owner[m] = t THEN hold[m] ELSE 0

\* A thread that owns no mutex has the priority it was created with
\* (rt_mutex_release: "change the owner thread to original priority").
PriorityRestored ==
  \A t \in Thread : (\A m \in MutexObject : owner[m] # t) => k.prio[t] = init_prio[t]

\* Priority inheritance: while the owner of a mutex could run, no thread
\* runs that is less urgent than a waiter for the mutex.
NoPriorityInversion ==
  (InThread /\ pc[k.current] # "sched") =>
    \A m \in MutexObject : \A w \in ToSet(k.waitq[m]) :
      k.stat[owner[m]] = "READY" => k.prio[k.current] <= k.prio[w]
=============================================================================
