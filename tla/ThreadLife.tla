----------------------------- MODULE ThreadLife -----------------------------
(***************************************************************************)
(* The life of a thread (thread.c, idle.c): create or init, startup,       *)
(* suspend and resume by others, sleep, exit, delete or detach, and the    *)
(* idle thread, which reclaims what is left.  A thread that is created     *)
(* again starts a new life.                                                *)
(*                                                                         *)
(* The calls on another thread test its stat before they disable interrupts*)
(* and work in several critical sections, so they rely on their caller for *)
(* a protocol: nobody calls the kernel on a thread another one is inside a *)
(* call on, that thread itself stays out of the kernel meanwhile, and,     *)
(* unless TimedTargets, it is not in a sleep that ends by itself.          *)
(*                                                                         *)
(*   target[t]   the thread the call of t is about, t itself if none       *)
(*   registered  the threads in the kernel's list of thread objects        *)
(*   stack       the threads whose stack is allocated                      *)
(*   lives[t]    how often t was created                                   *)
(*   buried[t]   history variable: how often t was taken off the objects   *)
(***************************************************************************)
EXTENDS Cpu

CONSTANTS
  Static,       \* the threads set up by rt_thread_init, not rt_thread_create
  WithCleanup,  \* the threads with a cleanup function
  Manager,      \* the threads that call the kernel on other threads
  SleepTimes,   \* how long threads sleep
  MaxLives,     \* bound on the number of lives of each thread
  TimedTargets  \* whether sleeping threads are resumed and deleted

ASSUME ThreadLifeAssumption ==
  /\ Static \subseteq Thread /\ Idle \in Static
  /\ WithCleanup \subseteq Worker /\ Manager \subseteq Worker
  /\ Object = {}
  /\ SleepTimes \subseteq 1 .. HalfTick - 1
  /\ MaxLives \in [Thread -> Nat \ {0}] /\ TimedTargets \in BOOLEAN

VARIABLES target, registered, stack, lives, buried
life == <<target, registered, stack, lives, buried>>
vars == <<k, pc, cont, primask, systick, device,
          target, registered, stack, lives, buried>>

Init ==
  /\ CpuInit
  /\ target = [t \in Thread |-> t]
  /\ registered = Thread /\ stack = Thread
  /\ lives = [t \in Thread |-> 1] /\ buried = [t \in Thread |-> 0]

\* Nobody else is inside a call on u.
Undisturbed(u) == \A v \in Thread \ {u} : target[v] # u

Calls(t) == Running(t) /\ pc[t] = "run" /\ Undisturbed(t)

\* t may call the kernel on u.
MayCall(t, u) ==
  /\ Calls(t) /\ t \in Manager /\ u \in Worker \ {t}
  /\ u \in registered /\ k.stat[u] # "CLOSE"
  /\ target[u] = u /\ Undisturbed(u)
  /\ u \notin k.active \/ TimedTargets

\* t goes on inside its call on u, at c.
Enter(t, u, c) == target' = [target EXCEPT ![t] = u] /\ Goto(t, c)
Leave(t)       == target' = [target EXCEPT ![t] = t] /\ Goto(t, "run")

-----------------------------------------------------------------------------
\* _rt_thread_init: also of a thread that lived before.
_rt_thread_init(u) ==
  [k EXCEPT !.stat[u] = "INIT", !.prio[u] = init_prio[u], !.mask[u] = {},
            !.error[u] = "EOK", !.remaining[u] = init_tick[u],
            !.active = @ \ {u}, !.timeout[u] = 0]

\* rt_thread_create, or rt_thread_init for a static thread.
rt_thread_create(t, u) ==
  /\ Calls(t) /\ t \in Manager
  /\ u \notin registered /\ lives[u] < MaxLives[u]
  /\ k' = _rt_thread_init(u)
  /\ pc' = [pc EXCEPT ![u] = "run"] /\ cont' = [cont EXCEPT ![u] = "run"]
  /\ registered' = registered \cup {u} /\ stack' = stack \cup {u}
  /\ lives' = [lives EXCEPT ![u] = @ + 1]
  /\ UNCHANGED <<primask, systick, device, target, buried>>

\* rt_thread_startup: SUSPEND for a moment, then rt_thread_resume.
rt_thread_startup(t, u) ==
  /\ MayCall(t, u) /\ k.stat[u] = "INIT"
  /\ k' = [k EXCEPT !.stat[u] = "SUSPEND", !.prio[u] = init_prio[u],
                    !.mask[u] = {init_prio[u]}]
  /\ Enter(t, u, "startup")
  /\ UNCHANGED <<primask, systick, device, registered, stack, lives, buried>>

\* The test of stat in rt_thread_resume, with interrupts enabled.
ResumeTest(t, u) ==
  /\ MayCall(t, u) /\ k.stat[u] = "SUSPEND"
  /\ Enter(t, u, "resume")
  /\ UNCHANGED <<k, primask, systick, device, registered, stack, lives, buried>>

Unlink(t, here, next) ==
  /\ Running(t) /\ pc[t] = here
  /\ k' = resume_unlink(k, target[t])
  /\ Goto(t, next)
  /\ UNCHANGED <<primask, systick, device, life>>

\* Off its list, with the interrupts enabled again: then insert it.
ResumeUnlink(t) ==
  Unlink(t, "resume", "insert") \/ Unlink(t, "startup", "start")

\* rt_thread_startup goes on with rt_schedule, rt_thread_resume does not.
ResumeInsert(t) ==
  /\ Running(t) /\ pc[t] \in {"insert", "start"}
  /\ k' = rt_schedule_insert_thread(k, target[t])
  /\ target' = [target EXCEPT ![t] = t]
  /\ IF pc[t] = "start" THEN ThenSchedule(t, "run") ELSE Goto(t, "run")
  /\ UNCHANGED <<primask, systick, device, registered, stack, lives, buried>>

\* The test of stat in rt_thread_suspend, with interrupts enabled.
SuspendTest(t, u) ==
  /\ MayCall(t, u) /\ k.stat[u] = "READY"
  /\ Enter(t, u, "suspend")
  /\ UNCHANGED <<k, primask, systick, device, registered, stack, lives, buried>>

\* The critical section of rt_thread_suspend.
SuspendCut(t) ==
  LET u == target[t]
  IN  /\ Running(t) /\ pc[t] = "suspend"
      /\ k' = rt_timer_stop(
                rt_schedule_remove_thread([k EXCEPT !.stat[u] = "SUSPEND"], u), u)
      /\ Leave(t)
      /\ UNCHANGED <<primask, systick, device, registered, stack, lives, buried>>

\* A thread suspends itself and calls rt_schedule, as the note at
\* rt_thread_suspend asks; a device handler resumes it.
SuspendSelf(t) ==
  /\ Calls(t) /\ t \in Worker
  /\ k' = rt_thread_suspend(k, t)
  /\ ThenSchedule(t, "run")
  /\ UNCHANGED <<primask, systick, device, life>>

\* (Mutant: rt_thread_resume does not test stat.)
ResumeUntested(u) ==
  /\ InThread /\ ~primask /\ u \in Worker
  /\ Undisturbed(u) /\ u \notin k.active
  /\ k' = rt_schedule_insert_thread(resume_unlink(k, u), u)
  /\ device' = TRUE
  /\ UNCHANGED <<pc, cont, primask, systick, life>>

DeviceResume(u) ==
  /\ InThread /\ ~primask /\ u \in Worker
  /\ k.stat[u] = "SUSPEND" /\ Undisturbed(u) /\ u \notin k.active
  /\ k' = rt_thread_resume(k, u)
  /\ device' = TRUE
  /\ UNCHANGED <<pc, cont, primask, systick, life>>

-----------------------------------------------------------------------------
\* A static thread without cleanup leaves no work to the idle thread.
Vanishes(u) == u \in Static /\ u \notin WithCleanup

\* rt_object_detach or rt_object_delete of u.
Unregister(u) ==
  /\ registered' = registered \ {u}
  /\ buried' = [buried EXCEPT ![u] = @ + 1]

\* Mutant: the last reference to the object is dropped here already.
BuryAndUnregister(n, u) ==
  k' = [n EXCEPT !.defunct = <<u>> \o @] /\ Unregister(u)

\* rt_list_insert_after(&rt_thread_defunct, ...): the last to die is first.
Bury(n, u) ==
  IF Vanishes(u)
  THEN k' = n /\ Unregister(u)
  ELSE k' = [n EXCEPT !.defunct = <<u>> \o @] /\ UNCHANGED <<registered, buried>>

\* Mutant: the thread stays on its ready list.
ExitOnReadyList(t) ==
  /\ Calls(t) /\ t \in Worker
  /\ Bury(_rt_timer_remove([k EXCEPT !.stat[t] = "CLOSE"], t), t)
  /\ ThenSchedule(t, "dead")
  /\ UNCHANGED <<primask, systick, device, target, stack, lives>>

\* The entry function of t returned: it is not chosen again by rt_schedule.
rt_thread_exit(t) ==
  /\ Calls(t) /\ t \in Worker
  /\ Bury(_rt_timer_remove(
            [rt_schedule_remove_thread(k, t) EXCEPT !.stat[t] = "CLOSE"], t), t)
  /\ ThenSchedule(t, "dead")
  /\ UNCHANGED <<primask, systick, device, target, stack, lives>>

\* rt_thread_delete, rt_thread_detach for a static thread: four steps with
\* interrupts enabled in between.
rt_thread_delete(t, u) ==
  /\ MayCall(t, u)
  /\ k' = IF k.stat[u] = "INIT" THEN k ELSE rt_schedule_remove_thread(k, u)
  /\ Enter(t, u, "detach_timer")
  /\ UNCHANGED <<primask, systick, device, registered, stack, lives, buried>>

\* rt_timer_detach leaves the flag RT_TIMER_FLAG_ACTIVATED.
DeleteTimer(t) ==
  /\ Running(t) /\ pc[t] = "detach_timer"
  /\ k' = _rt_timer_remove(k, target[t])
  /\ Goto(t, "close")
  /\ UNCHANGED <<primask, systick, device, life>>

DeleteClose(t) ==
  /\ Running(t) /\ pc[t] = "close"
  /\ k' = [k EXCEPT !.stat[target[t]] = "CLOSE"]
  /\ Goto(t, "bury")
  /\ UNCHANGED <<primask, systick, device, life>>

DeleteBury(t) ==
  /\ Running(t) /\ pc[t] = "bury"
  /\ Bury(k, target[t])
  /\ Leave(t)
  /\ UNCHANGED <<primask, systick, device, stack, lives>>

-----------------------------------------------------------------------------
\* Mutant: the thread stays on the list of the defunct ones.
ReclaimLeavesNode ==
  LET u == Head(k.defunct)
  IN  /\ Running(Idle) /\ pc[Idle] = "run" /\ k.defunct # << >>
      /\ k' = rt_schedule(k)
      /\ IF u \in Static
         THEN Unregister(u) /\ UNCHANGED <<pc, cont, target>>
         ELSE Enter(Idle, u, "free") /\ UNCHANGED <<registered, buried>>
      /\ UNCHANGED <<primask, systick, device, stack, lives>>

\* rt_thread_idle_excute: take the first defunct thread off the list, clean
\* it up and, by rt_exit_critical, schedule.  A static thread is done with.
Reclaim ==
  LET u == Head(k.defunct)
  IN  /\ Running(Idle) /\ pc[Idle] = "run" /\ k.defunct # << >>
      /\ k' = rt_schedule(rt_list_remove(k, u))
      /\ IF u \in Static
         THEN Unregister(u) /\ UNCHANGED <<pc, cont, target>>
         ELSE Enter(Idle, u, "free") /\ UNCHANGED <<registered, buried>>
      /\ UNCHANGED <<primask, systick, device, stack, lives>>

\* RT_KERNEL_FREE(thread->stack_addr)
FreeStack ==
  /\ Running(Idle) /\ pc[Idle] = "free"
  /\ stack' = stack \ {target[Idle]}
  /\ Goto(Idle, "delete")
  /\ UNCHANGED <<k, primask, systick, device, target, registered, lives, buried>>

\* Mutant: the object is never deleted.
KeepObject ==
  /\ Running(Idle) /\ pc[Idle] = "delete"
  /\ Leave(Idle)
  /\ UNCHANGED <<k, primask, systick, device, stack, lives, registered, buried>>

\* rt_object_delete
DeleteObject ==
  /\ Running(Idle) /\ pc[Idle] = "delete"
  /\ Unregister(target[Idle])
  /\ Leave(Idle)
  /\ UNCHANGED <<k, primask, systick, device, stack, lives>>

-----------------------------------------------------------------------------
IdleStep == Reclaim \/ FreeStack \/ DeleteObject

ThreadStep(t) ==
  \/ (Schedule(t) \/ SleepReturn(t)) /\ UNCHANGED life
  \/ ResumeUnlink(t) \/ ResumeInsert(t) \/ SuspendCut(t)
  \/ DeleteTimer(t) \/ DeleteClose(t) \/ DeleteBury(t)

ThreadCall(t) ==
  \/ /\ Calls(t)
     /\ rt_thread_yield(t) \/ \E time \in SleepTimes : rt_thread_sleep(t, time)
     /\ UNCHANGED life
  \/ SuspendSelf(t) \/ rt_thread_exit(t)
  \/ \E u \in Thread :
       \/ rt_thread_create(t, u) \/ rt_thread_startup(t, u)
       \/ ResumeTest(t, u) \/ SuspendTest(t, u) \/ rt_thread_delete(t, u)

Handler ==
  \/ (SysTick_Handler \/ rt_timer_check \/ DeviceSchedule) /\ UNCHANGED life
  \/ \E u \in Thread : DeviceResume(u)

Next == IdleStep \/ Handler \/ \E t \in Thread : ThreadStep(t) \/ ThreadCall(t)

Spec == Init /\ [][Next]_vars

\* The idle thread goes on whenever it gets the processor again and again.
FairSpec == Spec /\ SF_vars(IdleStep)

-----------------------------------------------------------------------------
Points == {"run", "slept", "dead", "sched", "startup", "resume", "insert",
           "start", "suspend", "detach_timer", "close", "bury", "free", "delete"}

TypeOK ==
  /\ CpuTypeOK
  /\ pc \in [Thread -> Points] /\ cont \in [Thread -> {"run", "slept", "dead"}]
  /\ target \in [Thread -> Thread]
  /\ registered \subseteq Thread /\ stack \subseteq Thread
  /\ \A t \in Thread : lives[t] \in 1 .. MaxLives[t] /\ buried[t] \in 0 .. MaxLives[t]

\* The threads a delete has taken off their list and not closed yet.
Leaving == {target[t] : t \in {u \in Thread : pc[u] \in {"detach_timer", "close"}}}

\* A thread has one list node: it is on one ready list, and then ready, or
\* among the defunct, and then closed, or on no list, whatever other threads
\* and handlers did to it (thread.c, idle.c); the bitmap follows the lists,
\* only timers of suspended threads run, and the idle thread stays ready.
\* Every variable keeps its type.
ThreadsConsistent ==
  /\ TypeOK
  /\ \A p \in Priority :
       /\ IsInjective(k.table[p])
       /\ ToSet(k.table[p]) =
            {t \in Thread \ Leaving : k.stat[t] = "READY" /\ k.prio[t] = p}
  /\ k.group = {p \in Priority : k.table[p] # << >>}
  /\ TimersBelongToSuspended(k)
  /\ DefunctIsClosed(k)
  /\ IdleIsReady(k)

\* What was given back to the heap, or to the application, is out of reach
\* of the kernel: the running thread has a stack, and no list holds the node
\* of a thread that is no object any more (idle.c, after rt_thread_exit and
\* rt_thread_delete).
FreedIsUnreachable ==
  /\ InThread => k.current \in stack
  /\ \A u \in Thread \ registered :
       /\ u \notin ToSet(k.defunct) \cup k.active
       /\ \A p \in Priority : u \notin ToSet(k.table[p])

\* Each life of a thread ends at most once: exit, delete, detach and the
\* idle thread never take the same thread off the objects twice.
BuriedOnce ==
  \A t \in Thread :
    lives[t] - buried[t] = IF t \in registered THEN 1 ELSE 0

\* Whoever else still refers to it, a closed thread is not brought back by a
\* resume, a suspend or a timeout: only a create ends that.
DeadStayDead ==
  [][\A t \in Thread : k.stat[t] = "CLOSE" => k'.stat[t] \in {"CLOSE", "INIT"}]_vars

\* As long as the idle thread gets the processor again and again, it reclaims
\* every dead thread, however many die meanwhile (rt_thread_idle_excute).
DeadAreReclaimed ==
  ([]<>Running(Idle)) =>
     \A u \in Worker : u \in ToSet(k.defunct) ~> u \notin registered

\* rt_thread_delete: "the thread object will be removed from thread queue".
ClosedIsOffTheQueue ==
  \A t \in Thread, p \in Priority :
    k.stat[t] = "CLOSE" => t \notin ToSet(k.table[p])
=============================================================================
