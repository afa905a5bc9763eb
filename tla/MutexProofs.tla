----------------------------- MODULE MutexProofs -----------------------------
(***************************************************************************)
(* Mutual exclusion, for any threads and mutexes, nested or not: through   *)
(* recursive takes, hand-over to a waiter, timeouts and changes of         *)
(* priority, a mutex has one holder, and its fields agree with what its    *)
(* users were told.  Where no thread takes a mutex while it owns another,  *)
(* every priority lent is given back; with a single mutex that serves the  *)
(* most urgent waiter first, its owner is always as urgent as any waiter.  *)
(***************************************************************************)
EXTENDS Mutex, KernelProofs

InTake(t) == pc[t] = "take" \/ (pc[t] = "sched" /\ cont[t] = "take")

\* A thread queued on a mutex is inside the take of that mutex, and no
\* timeout has been reported to it.
WaitersTake ==
  \A m \in MutexObject : \A u \in ToSet(k.waitq[m]) :
    InTake(u) /\ call[u] = m /\ k.error[u] = "EOK"

\* The priority an owner gets back is one.
OwnerRestores ==
  \A m \in MutexObject : owner[m] # RT_NULL => original_priority[m] \in Priority

MutexInv ==
  /\ TypeOK /\ KernelConsistent /\ SuspendedInCall /\ RunningIsReady
  /\ k.lock = 0
  /\ WaitersTake /\ OwnerRestores /\ OwnershipAgrees

\* A step of the kernel that tells the mutexes nothing of thread u: either
\* nothing of it changes, or it has not been handed a mutex and waits for none.
Undisturbed(u) ==
  \/ /\ k'.error[u] = k.error[u] /\ k'.stat[u] = k.stat[u]
     /\ InTake(u)' <=> InTake(u)
  \/ \A m \in MutexObject :
       u \notin Handed(m) /\ u \notin Handed(m)' /\ u \notin ToSet(k'.waitq[m])

USE DEF MutexObject
-----------------------------------------------------------------------------
LEMMA CpuPart == MutexInv => CpuInv
  BY DEF MutexInv, TypeOK, CpuTypeOK, CpuInv

LEMMA Types ==
  ASSUME MutexInv
  PROVE  /\ pc \in [Thread -> Point] /\ cont \in [Thread -> Continuation]
         /\ pc = [u \in Thread |-> pc[u]] /\ cont = [u \in Thread |-> cont[u]]
         /\ value \in [MutexObject -> 0 .. 1]
         /\ owner \in [MutexObject -> Thread \cup {RT_NULL}]
         /\ original_priority \in [MutexObject -> Priority \cup {None}]
         /\ hold \in [MutexObject -> 0 .. MaxHold]
         /\ call \in [Thread -> MutexObject]
         /\ taken \in [Thread -> [MutexObject -> 0 .. MaxHold]]
         /\ k \in KernelState /\ k.stat \in [Thread -> Stat]
         /\ k.error \in [Thread -> Error]
         /\ \A m \in MutexObject : k.waitq[m] \in Seq(Thread)
         /\ MaxHold \in Nat \ {0}
BY MutexAssumption, Fields DEF MutexInv, TypeOK, CpuTypeOK

\* The mutexes' part of what a queued thread is.
LEMMA Queued ==
  ASSUME MutexInv, NEW m \in MutexObject, NEW u \in ToSet(k.waitq[m])
  PROVE  u \in Thread /\ k.stat[u] = "SUSPEND"
<1>1. u \in Thread
  BY Types, MembersOf
<1>2. QED BY <1>1 DEF MutexInv, KernelConsistent, Consistent, WaitListsHoldSuspended

\* What the invariant says of a thread that runs inside a call.
LEMMA Runner ==
  ASSUME MutexInv, NEW t \in Thread, Running(t), pc[t] # "sched"
  PROVE  /\ KernelOK(k) /\ k.current = t /\ k.stat[t] = "READY"
         /\ \A m \in MutexObject : t \notin ToSet(k.waitq[m])
<1>1. KernelOK(k) /\ k.current = t /\ k.stat[t] = "READY"
  BY RunningThread, CpuPart
<1>2. QED BY <1>1, Queued

\* ... and of one that runs application code.
LEMMA Caller ==
  ASSUME MutexInv, NEW t \in Thread, Calls(t)
  PROVE  /\ KernelOK(k) /\ k.current = t /\ k.stat[t] = "READY"
         /\ t # Idle /\ Running(t) /\ pc[t] = "run" /\ ~ InTake(t)
         /\ \A m \in MutexObject :
              /\ t \notin ToSet(k.waitq[m]) /\ t \notin Handed(m)
              /\ taken[t][m] = IF owner[m] = t THEN hold[m] ELSE 0
<1>1. t # Idle /\ Running(t) /\ pc[t] = "run" /\ ~ InTake(t)
  BY DEF Calls, InTake
<1>2. /\ KernelOK(k) /\ k.current = t /\ k.stat[t] = "READY"
      /\ \A m \in MutexObject : t \notin ToSet(k.waitq[m])
  BY <1>1, Runner
<1>3. \A m \in MutexObject : t \notin Handed(m)
  BY <1>1 DEF Handed
<1>4. ASSUME NEW m \in MutexObject
      PROVE  taken[t][m] = IF owner[m] = t THEN hold[m] ELSE 0
  <2>1. taken[t][m] + 0 = IF owner[m] = t THEN hold[m] ELSE 0
    BY <1>3 DEF MutexInv, OwnershipAgrees
  <2>2. taken[t][m] \in Nat
    BY Types
  <2>3. QED BY <2>1, <2>2
<1>5. QED BY <1>1, <1>2, <1>3, <1>4

\* An update of taken.
LEMMA TakenUpdate ==
  ASSUME MutexInv, NEW t \in Thread, NEW m \in MutexObject, NEW n \in 0 .. MaxHold,
         taken' = [taken EXCEPT ![t][m] = n]
  PROVE  /\ taken' \in [Thread -> [MutexObject -> 0 .. MaxHold]]
         /\ \A u \in Thread, x \in MutexObject :
              taken'[u][x] = IF u = t /\ x = m THEN n ELSE taken[u][x]
BY Types

\* Undisturbed threads stay handed what they were, and queued threads stay
\* as they were.
LEMMA HandedKept ==
  ASSUME MutexInv, call' = call, \A u \in Thread : Undisturbed(u),
         \A m \in MutexObject : ToSet(k'.waitq[m]) \subseteq ToSet(k.waitq[m])
  PROVE  WaitersTake' /\ \A m \in MutexObject : Handed(m)' = Handed(m)
<1>1. ASSUME NEW m \in MutexObject, NEW u \in ToSet(k'.waitq[m])
      PROVE  InTake(u)' /\ call'[u] = m /\ k'.error[u] = "EOK"
  <2>1. u \in ToSet(k.waitq[m])
    BY <1>1
  <2>2. u \in Thread /\ InTake(u) /\ call[u] = m /\ k.error[u] = "EOK"
    BY <2>1, Queued DEF MutexInv, WaitersTake
  <2>3. k'.error[u] = k.error[u] /\ (InTake(u)' <=> InTake(u))
    BY <1>1, <2>2 DEF Undisturbed
  <2>4. QED BY <2>2, <2>3
<1>2. ASSUME NEW m \in MutexObject, NEW u \in Thread
      PROVE  u \in Handed(m)' <=> u \in Handed(m)
  <2>1. CASE /\ k'.error[u] = k.error[u] /\ k'.stat[u] = k.stat[u]
             /\ InTake(u)' <=> InTake(u)
    BY <2>1 DEF Handed, InTake
  <2>2. CASE u \notin Handed(m) /\ u \notin Handed(m)'
    BY <2>2
  <2>3. QED BY <2>1, <2>2 DEF Undisturbed
<1>3. \A m \in MutexObject : Handed(m) \subseteq Thread /\ Handed(m)' \subseteq Thread
  BY DEF Handed
<1>4. WaitersTake'
  BY <1>1 DEF WaitersTake
<1>5. QED BY <1>2, <1>3, <1>4

-----------------------------------------------------------------------------
\* The steps that leave the mutexes alone.
LEMMA KernelStep ==
  ASSUME MutexInv, UNCHANGED mutexes,
         KernelConsistent', SuspendedInCall', RunningIsReady', k' \in KernelState,
         k'.lock = 0, pc' \in [Thread -> Point], cont' \in [Thread -> Continuation],
         primask' \in BOOLEAN, systick' \in BOOLEAN, device' \in BOOLEAN,
         \A u \in Thread : Undisturbed(u),
         \A m \in MutexObject : ToSet(k'.waitq[m]) \subseteq ToSet(k.waitq[m])
  PROVE  MutexInv'
<1>1. UNCHANGED <<value, owner, original_priority, hold, call, taken>>
  BY DEF mutexes
<1>2. TypeOK'
  BY <1>1 DEF MutexInv, TypeOK, CpuTypeOK
<1>3. OwnerRestores'
  BY <1>1 DEF MutexInv, OwnerRestores
<1>4. WaitersTake' /\ \A m \in MutexObject : Handed(m)' = Handed(m)
  BY <1>1, HandedKept
<1>5. OwnershipAgrees'
  <2>1. \A m \in MutexObject : k.waitq[m] = << >> => k'.waitq[m] = << >>
    <3>1. \A m \in MutexObject : k'.waitq[m] \in Seq(Thread)
      BY Fields
    <3>2. QED BY <3>1, Types, EmptyThreadList
  <2>2. QED BY <1>1, <1>4, <2>1 DEF MutexInv, OwnershipAgrees
<1>6. QED BY <1>2, <1>3, <1>4, <1>5 DEF MutexInv

LEMMA ScheduleStep ==
  ASSUME MutexInv, NEW t \in Thread, Schedule(t), UNCHANGED mutexes
  PROVE  MutexInv'
<1>1. KernelOK(k) /\ k.current = t /\ pc[t] = "sched" /\ k' = rt_schedule(k) /\ k.lock = 0
  BY DEF Schedule, Running, MutexInv, TypeOK, CpuTypeOK, KernelConsistent, KernelOK
<1>2. /\ KernelOK(k') /\ k'.stat = k.stat /\ k'.waitq = k.waitq /\ k'.lock = 0
      /\ k'.error = k.error /\ k'.stat[k'.current] = "READY"
  BY <1>1, SchedulePreserves
<1>3. /\ pc' = [pc EXCEPT ![t] = cont[t]] /\ cont' = [cont EXCEPT ![t] = "run"]
      /\ UNCHANGED <<primask, systick, device>>
      /\ pc \in [Thread -> Point] /\ cont \in [Thread -> Continuation]
  BY Types DEF Schedule
<1>4. pc' \in [Thread -> Point] /\ cont' \in [Thread -> Continuation]
  BY <1>3 DEF Point, Continuation
<1>5. SuspendedInCall'
  BY <1>1, <1>2, <1>3 DEF MutexInv, SuspendedInCall, InCall
<1>6. RunningIsReady' /\ KernelConsistent' /\ k' \in KernelState
  BY <1>2 DEF RunningIsReady, KernelConsistent, KernelOK
<1>7. \A u \in Thread : InTake(u)' <=> InTake(u)
  BY <1>1, <1>3 DEF InTake, Continuation
<1>8. \A u \in Thread : Undisturbed(u)
  BY <1>2, <1>7 DEF Undisturbed
<1>9. primask' \in BOOLEAN /\ systick' \in BOOLEAN /\ device' \in BOOLEAN
  BY <1>3 DEF MutexInv, TypeOK, CpuTypeOK
<1>10. QED BY <1>2, <1>4, <1>5, <1>6, <1>8, <1>9, KernelStep

\* A step of the running thread that leaves the mutexes and the handlers alone.
LEMMA PlainStep ==
  ASSUME MutexInv, NEW t \in Thread, k.current = t, k.stat[t] = "READY",
         UNCHANGED mutexes, UNCHANGED <<primask, systick, device>>,
         NEW c \in Point, NEW d \in Continuation,
         pc' = [pc EXCEPT ![t] = c], cont' = cont \/ cont' = [cont EXCEPT ![t] = d],
         KernelOK(k'), k'.current = t, k'.stat = k.stat, k'.lock = k.lock,
         \A u \in Thread \ {t} : k'.error[u] = k.error[u],
         ~ InTake(t), ~ InTake(t)',
         \A m \in MutexObject : ToSet(k'.waitq[m]) = ToSet(k.waitq[m])
  PROVE  MutexInv'
<1>1. /\ pc' \in [Thread -> Point] /\ cont' \in [Thread -> Continuation]
      /\ \A u \in Thread \ {t} : pc'[u] = pc[u] /\ cont'[u] = cont[u]
  <2>1. pc \in [Thread -> Point] /\ cont \in [Thread -> Continuation]
    BY Types
  <2>2. cont' \in [Thread -> Continuation] /\ \A u \in Thread \ {t} : cont'[u] = cont[u]
    BY <2>1
  <2>3. QED BY <2>1, <2>2
<1>2. KernelConsistent' /\ SuspendedInCall' /\ RunningIsReady'
  BY <1>1, ThreadMoves, CpuPart
<1>3. primask' \in BOOLEAN /\ systick' \in BOOLEAN /\ device' \in BOOLEAN
  BY DEF MutexInv, TypeOK, CpuTypeOK
<1>4. ASSUME NEW u \in Thread PROVE Undisturbed(u)
  <2>1. CASE u = t
    <3>1. \A m \in MutexObject : t \notin ToSet(k'.waitq[m])
      BY Queued
    <3>2. \A m \in MutexObject : t \notin Handed(m) /\ t \notin Handed(m)'
      BY DEF Handed, InTake
    <3>3. QED BY <2>1, <3>1, <3>2 DEF Undisturbed
  <2>2. CASE u # t
    <3>1. InTake(u)' <=> InTake(u)
      BY <1>1, <2>2 DEF InTake
    <3>2. QED BY <2>2, <3>1 DEF Undisturbed
  <2>3. QED BY <2>1, <2>2
<1>5. k'.lock = 0 /\ k' \in KernelState
  BY DEF KernelOK, MutexInv
<1>6. QED BY <1>1, <1>2, <1>3, <1>4, <1>5, KernelStep

LEMMA YieldStep ==
  ASSUME MutexInv, NEW t \in Thread, rt_thread_yield(t), UNCHANGED mutexes
  PROVE  MutexInv'
<1>1. KernelOK(k) /\ k.current = t /\ k.stat[t] = "READY"
  BY Runner DEF rt_thread_yield
<1>2. /\ KernelOK(k') /\ k'.stat = k.stat /\ k'.current = t /\ k'.lock = k.lock
      /\ k'.error = k.error
      /\ \A o \in Object : ToSet(k'.waitq[o]) = ToSet(k.waitq[o])
  BY <1>1, YieldPreserves DEF rt_thread_yield
<1>3. "sched" \in Point /\ "run" \in Continuation
  BY DEF Point, Continuation
<1>4. /\ pc' = [pc EXCEPT ![t] = "sched"] /\ cont' = [cont EXCEPT ![t] = "run"]
      /\ UNCHANGED <<primask, systick, device>> /\ pc[t] = "run"
  BY DEF rt_thread_yield, ThenSchedule
<1>5. ~ InTake(t) /\ ~ InTake(t)'
  BY <1>4, Types DEF InTake
<1>6. QED BY <1>1, <1>2, <1>3, <1>4, <1>5, PlainStep

LEMMA SleepReturnStep ==
  ASSUME MutexInv, NEW t \in Thread, SleepReturn(t), UNCHANGED mutexes
  PROVE  MutexInv'
<1>1. KernelOK(k) /\ k.current = t /\ k.stat[t] = "READY"
  BY Runner DEF SleepReturn
<1>2. /\ KernelOK(k') /\ k'.stat = k.stat /\ k'.current = t /\ k'.lock = k.lock
      /\ k'.waitq = k.waitq /\ \A u \in Thread \ {t} : k'.error[u] = k.error[u]
  <2> DEFINE v == [k EXCEPT !.error[t] = "EOK"]
  <2>1. /\ KernelOK(v) /\ v.stat = k.stat /\ v.waitq = k.waitq
        /\ v.current = k.current /\ v.lock = k.lock
        /\ v.error = [k.error EXCEPT ![t] = "EOK"]
    BY <1>1, SetError DEF Error
  <2>2. k' = v \/ k' = k
    BY DEF SleepReturn
  <2> HIDE DEF v
  <2>3. QED BY <1>1, <2>1, <2>2, Types
<1>3. "run" \in Point /\ "run" \in Continuation
  BY DEF Point, Continuation
<1>4. /\ pc' = [pc EXCEPT ![t] = "run"] /\ cont' = cont
      /\ UNCHANGED <<primask, systick, device>> /\ pc[t] = "slept"
  BY DEF SleepReturn, Goto
<1>5. ~ InTake(t) /\ ~ InTake(t)'
  BY <1>4, Types DEF InTake
<1>6. QED BY <1>1, <1>2, <1>3, <1>4, <1>5, PlainStep

\* A take that does not wait, and a release by another thread, only write error.
LEMMA ErrorStep ==
  ASSUME MutexInv, NEW t \in Thread, Calls(t), NEW e \in Error,
         k' = [k EXCEPT !.error[t] = e], UNCHANGED <<pc, cont, primask, systick, device>>
  PROVE  /\ CpuTypeOK' /\ KernelConsistent' /\ SuspendedInCall' /\ RunningIsReady'
         /\ k'.lock = 0 /\ k'.waitq = k.waitq
         /\ call' = call => WaitersTake' /\ \A m \in MutexObject : Handed(m)' = Handed(m)
<1>1. KernelOK(k) /\ k.current = t /\ k.stat[t] = "READY"
      /\ pc[t] = "run" /\ \A m \in MutexObject : t \notin ToSet(k.waitq[m])
  BY Caller
<1>2. /\ KernelOK(k') /\ k'.stat = k.stat /\ k'.waitq = k.waitq
      /\ k'.current = t /\ k'.lock = 0 /\ k'.error = [k.error EXCEPT ![t] = e]
  BY <1>1, SetError DEF MutexInv
<1>3. KernelConsistent' /\ SuspendedInCall' /\ RunningIsReady'
  BY <1>1, <1>2, ThreadMoves, CpuPart
<1>4. CpuTypeOK'
  BY <1>2 DEF KernelOK, MutexInv, TypeOK, CpuTypeOK
<1>5. ASSUME NEW u \in Thread PROVE Undisturbed(u)
  <2>1. CASE u = t
    <3>1. \A m \in MutexObject : t \notin Handed(m) /\ t \notin Handed(m)'
      BY <1>1 DEF Handed
    <3>2. QED BY <1>1, <1>2, <2>1, <3>1 DEF Undisturbed
  <2>2. CASE u # t
    <3>1. InTake(u)' <=> InTake(u)
      BY DEF InTake
    <3>2. QED BY <1>2, <2>2, <3>1, Types DEF Undisturbed
  <2>3. QED BY <2>1, <2>2
<1>6. QED BY <1>2, <1>3, <1>4, <1>5, HandedKept

LEMMA RefusedStep ==
  ASSUME MutexInv, NEW t \in Thread, NEW m \in MutexObject,
         TakeNoWait(t, m) \/ ReleaseOther(t, m)
  PROVE  MutexInv'
<1>1. /\ Calls(t) /\ UNCHANGED <<pc, cont, primask, systick, device>>
      /\ UNCHANGED <<value, owner, original_priority, hold, call, taken>>
      /\ \E e \in Error : k' = [k EXCEPT !.error[t] = e]
  BY DEF TakeNoWait, ReleaseOther, Takes, Error, mutexes
<1>2. PICK e \in Error : k' = [k EXCEPT !.error[t] = e]
  BY <1>1
<1>3. /\ CpuTypeOK' /\ KernelConsistent' /\ SuspendedInCall' /\ RunningIsReady'
      /\ k'.lock = 0 /\ k'.waitq = k.waitq
      /\ WaitersTake' /\ \A x \in MutexObject : Handed(x)' = Handed(x)
  BY <1>1, <1>2, ErrorStep
<1>4. TypeOK'
  BY <1>1, <1>3 DEF MutexInv, TypeOK
<1>5. OwnerRestores' /\ OwnershipAgrees'
  BY <1>1, <1>3 DEF MutexInv, OwnerRestores, OwnershipAgrees
<1>6. QED BY <1>3, <1>4, <1>5 DEF MutexInv

LEMMA SleepStep ==
  ASSUME MutexInv, NEW t \in Thread, NEW time \in SleepTimes, rt_thread_sleep(t, time),
         UNCHANGED mutexes
  PROVE  MutexInv'
<1> DEFINE u == rt_thread_suspend(k, t)
           v == rt_timer_start(u, t, time)
<1>1. KernelOK(k) /\ k.current = t /\ k.stat[t] = "READY"
  BY Runner DEF rt_thread_sleep
<1>2. /\ t # Idle /\ k.lock = 0 /\ k' = v /\ ThenSchedule(t, "slept")
      /\ pc[t] = "run" /\ UNCHANGED <<primask, systick, device>>
  BY DEF rt_thread_sleep, MutexInv
<1>3. /\ KernelOK(u) /\ u.stat = [k.stat EXCEPT ![t] = "SUSPEND"]
      /\ \A o \in Object : ToSet(u.waitq[o]) = ToSet(k.waitq[o])
      /\ \A o \in Object : t \notin ToSet(u.waitq[o])
      /\ u.current = k.current /\ u.lock = k.lock /\ u.error = k.error
  BY <1>1, <1>2, SuspendPreserves
<1> HIDE DEF u
<1>4. u.stat[t] = "SUSPEND" /\ time \in Nat
  BY <1>1, <1>3, Types, MutexAssumption
<1>5. /\ KernelOK(v) /\ v.stat = u.stat /\ v.waitq = u.waitq
      /\ v.current = u.current /\ v.lock = u.lock /\ v.error = u.error
  BY <1>3, <1>4, TimerStartPreserves, ZenonT(60)
<1> HIDE DEF v
<1>6. KernelConsistent' /\ SuspendedInCall' /\ RunningIsReady'
  BY <1>1, <1>2, <1>3, <1>5, Types, BlockMoves, CpuPart
<1>7. /\ pc' \in [Thread -> Point] /\ cont' \in [Thread -> Continuation]
      /\ pc'[t] = "sched" /\ cont'[t] = "slept"
      /\ \A x \in Thread \ {t} : pc'[x] = pc[x] /\ cont'[x] = cont[x]
  BY <1>2, Types DEF ThenSchedule, Point, Continuation
<1>8. primask' \in BOOLEAN /\ systick' \in BOOLEAN /\ device' \in BOOLEAN
  BY <1>2 DEF MutexInv, TypeOK, CpuTypeOK
<1>9. ASSUME NEW x \in Thread PROVE Undisturbed(x)
  <2>1. CASE x = t
    <3>1. \A m \in MutexObject : t \notin Handed(m) /\ t \notin Handed(m)'
      BY <1>2, <1>7 DEF Handed
    <3>2. QED BY <1>2, <1>3, <1>5, <2>1, <3>1 DEF Undisturbed
  <2>2. CASE x # t
    <3>1. InTake(x)' <=> InTake(x)
      BY <1>7, <2>2 DEF InTake
    <3>2. k'.stat[x] = k.stat[x]
      BY <1>2, <1>3, <1>5, <2>2, Types
    <3>3. QED BY <1>2, <1>3, <1>5, <3>1, <3>2 DEF Undisturbed
  <2>3. QED BY <2>1, <2>2
<1>10. k'.lock = 0 /\ k' \in KernelState
       /\ \A m \in MutexObject : ToSet(k'.waitq[m]) \subseteq ToSet(k.waitq[m])
  BY <1>2, <1>3, <1>5 DEF KernelOK
<1>11. QED BY <1>6, <1>7, <1>8, <1>9, <1>10, KernelStep

\* The thread whose wait times out is told so, and leaves the waiting list.
LEMMA ExpireStep ==
  ASSUME MutexInv, rt_timer_check, Due(k)
  PROVE  /\ KernelOK(k') /\ k'.lock = 0 /\ k'.stat[k'.current] = "READY"
         /\ \A u \in Thread : k'.stat[u] = k.stat[u] \/ k'.stat[u] = "READY"
         /\ \A m \in MutexObject : ToSet(k'.waitq[m]) \subseteq ToSet(k.waitq[m])
         /\ \A u \in Thread : Undisturbed(u)
<1> DEFINE h == Head(k.timers)
<1>1. KernelOK(k) /\ k' = timer_expire(k) /\ k.timers # << >> /\ k.lock = 0
      /\ pc' = pc /\ cont' = cont
  BY DEF rt_timer_check, Due, MutexInv, TypeOK, CpuTypeOK, KernelConsistent, KernelOK
<1>2. /\ KernelOK(k') /\ k.stat[h] = "SUSPEND"
      /\ k'.stat = [k.stat EXCEPT ![h] = "READY"]
      /\ \A o \in Object : ToSet(k'.waitq[o]) = ToSet(k.waitq[o]) \ {h}
      /\ k'.error = [k.error EXCEPT ![h] = "ETIMEOUT"]
      /\ k'.lock = k.lock /\ k'.stat[k'.current] = "READY"
  BY <1>1, ExpirePreserves
<1> HIDE DEF h
<1>3. ASSUME NEW u \in Thread PROVE Undisturbed(u)
  <2>1. CASE u = h
    <3>1. \A m \in MutexObject : u \notin Handed(m) /\ u \notin Handed(m)'
      BY <1>2, <2>1, Types DEF Handed
    <3>2. QED BY <1>2, <2>1, <3>1 DEF Undisturbed
  <2>2. CASE u # h
    <3>1. InTake(u)' <=> InTake(u)
      BY <1>1 DEF InTake
    <3>2. QED BY <1>2, <2>2, <3>1, Types DEF Undisturbed
  <2>3. QED BY <2>1, <2>2
<1>4. \A u \in Thread : k'.stat[u] = k.stat[u] \/ k'.stat[u] = "READY"
  BY <1>2, Types
<1>5. \A m \in MutexObject : ToSet(k'.waitq[m]) \subseteq ToSet(k.waitq[m])
  BY <1>2
<1>6. QED BY <1>1, <1>2, <1>3, <1>4, <1>5

LEMMA HandlerStep ==
  ASSUME MutexInv, SysTick_Handler \/ rt_timer_check, UNCHANGED mutexes
  PROVE  MutexInv'
<1>1. KernelOK(k) /\ k \in KernelState /\ k.lock = 0
  BY DEF MutexInv, TypeOK, CpuTypeOK, KernelConsistent, KernelOK
<1>2. pc' = pc /\ cont' = cont
  BY DEF SysTick_Handler, rt_timer_check
<1>3. \A u \in Thread : InTake(u)' <=> InTake(u)
  BY <1>2 DEF InTake
<1>4. /\ KernelOK(k') /\ k'.lock = 0
      /\ k'.current = k.current \/ k'.stat[k'.current] = "READY"
      /\ \A u \in Thread : k'.stat[u] = k.stat[u] \/ k'.stat[u] = "READY"
      /\ \A m \in MutexObject : ToSet(k'.waitq[m]) \subseteq ToSet(k.waitq[m])
      /\ \A u \in Thread : Undisturbed(u)
  <2>1. CASE SysTick_Handler
    <3>1. k' = tick_increase(k)
      BY <2>1 DEF SysTick_Handler
    <3>2. /\ KernelOK(k') /\ k'.stat = k.stat /\ k'.lock = k.lock /\ k'.error = k.error
          /\ \A o \in Object : ToSet(k'.waitq[o]) = ToSet(k.waitq[o])
          /\ k'.current # k.current => k'.stat[k'.current] = "READY"
      BY <1>1, <3>1, TickPreserves
    <3>3. QED BY <1>1, <1>3, <3>2 DEF Undisturbed
  <2>2. CASE rt_timer_check /\ Due(k)
    BY <2>2, ExpireStep
  <2>3. CASE rt_timer_check /\ ~ Due(k)
    <3>1. k' = k
      BY <2>3 DEF rt_timer_check
    <3>2. QED BY <1>1, <1>3, <3>1 DEF Undisturbed
  <2>4. QED BY <2>1, <2>2, <2>3
<1>5. KernelConsistent' /\ SuspendedInCall' /\ RunningIsReady'
  BY <1>1, <1>2, <1>4, HandlerMoves, CpuPart
<1>6. primask' \in BOOLEAN /\ systick' \in BOOLEAN /\ device' \in BOOLEAN
  <2>1. primask \in BOOLEAN /\ systick \in BOOLEAN /\ device \in BOOLEAN
    BY DEF MutexInv, TypeOK, CpuTypeOK
  <2>2. CASE SysTick_Handler
    BY <2>1, <2>2, Zenon DEF SysTick_Handler
  <2>3. CASE rt_timer_check
    BY <2>1, <2>3, Zenon DEF rt_timer_check
  <2>4. QED BY <2>2, <2>3
<1>7. pc' \in [Thread -> Point] /\ cont' \in [Thread -> Continuation]
  BY <1>2, Types
<1>8. QED BY <1>4, <1>5, <1>6, <1>7, KernelStep DEF KernelOK

-----------------------------------------------------------------------------
\* The steps that change a mutex.
LEMMA TakeAgainStep ==
  ASSUME MutexInv, NEW t \in Thread, NEW m \in MutexObject, TakeAgain(t, m)
  PROVE  MutexInv'
<1>1. /\ Calls(t) /\ owner[m] = t /\ hold[m] < MaxHold
      /\ hold' = [hold EXCEPT ![m] = @ + 1] /\ taken' = [taken EXCEPT ![t][m] = @ + 1]
      /\ UNCHANGED <<pc, cont, primask, systick, device>>
      /\ UNCHANGED <<value, owner, original_priority, call>>
      /\ k' = [k EXCEPT !.error[t] = "EOK"]
  BY DEF TakeAgain, Takes, ClearError
<1>2. taken[t][m] = hold[m] /\ hold[m] + 1 \in 0 .. MaxHold /\ owner[m] # RT_NULL
  <2>1. taken[t][m] = hold[m]
    BY <1>1, Caller
  <2>2. QED BY <1>1, <2>1, Types, MutexAssumption
<1>3. /\ CpuTypeOK' /\ KernelConsistent' /\ SuspendedInCall' /\ RunningIsReady'
      /\ k'.lock = 0 /\ k'.waitq = k.waitq
      /\ WaitersTake' /\ \A x \in MutexObject : Handed(x)' = Handed(x)
  BY <1>1, ErrorStep DEF Error
<1>4. taken' = [taken EXCEPT ![t][m] = hold[m] + 1]
  BY <1>1, <1>2, Types
<1>5. /\ taken' \in [Thread -> [MutexObject -> 0 .. MaxHold]]
      /\ \A u \in Thread, x \in MutexObject :
           taken'[u][x] = IF u = t /\ x = m THEN hold[m] + 1 ELSE taken[u][x]
  BY <1>2, <1>4, TakenUpdate
<1>6. /\ hold' \in [MutexObject -> 0 .. MaxHold]
      /\ \A x \in MutexObject : hold'[x] = IF x = m THEN hold[m] + 1 ELSE hold[x]
  BY <1>1, <1>2, Types
<1>7. TypeOK'
  BY <1>1, <1>3, <1>5, <1>6, Types DEF TypeOK
<1>8. OwnershipAgrees'
  <2> SUFFICES ASSUME NEW x \in MutexObject
               PROVE  /\ owner[x] = RT_NULL <=> value[x] = 1
                      /\ owner[x] = RT_NULL => hold'[x] = 0 /\ k.waitq[x] = << >>
                      /\ \A u \in Thread :
                           taken'[u][x] + (IF u \in Handed(x) THEN 1 ELSE 0) =
                             IF owner[x] = u THEN hold'[x] ELSE 0
    BY <1>1, <1>3 DEF OwnershipAgrees
  <2>1. /\ owner[x] = RT_NULL <=> value[x] = 1
        /\ owner[x] = RT_NULL => hold[x] = 0 /\ k.waitq[x] = << >>
        /\ \A u \in Thread : taken[u][x] + (IF u \in Handed(x) THEN 1 ELSE 0) =
                               IF owner[x] = u THEN hold[x] ELSE 0
    BY DEF MutexInv, OwnershipAgrees
  <2>2. t \notin Handed(m)
    BY <1>1, Caller
  <2>3. CASE x = m
    <3>1. owner[x] = t /\ hold'[x] = hold[x] + 1 /\ t # RT_NULL
      BY <1>1, <1>2, <1>6, <2>3
    <3>2. ASSUME NEW u \in Thread
          PROVE  taken'[u][x] + (IF u \in Handed(x) THEN 1 ELSE 0) =
                   IF owner[x] = u THEN hold'[x] ELSE 0
      <4>1. CASE u = t
        <5>1. taken'[u][x] = hold[x] + 1 /\ u \notin Handed(x)
          BY <1>5, <2>2, <2>3, <4>1
        <5>2. QED BY <3>1, <4>1, <5>1, Types
      <4>2. CASE u # t
        BY <1>5, <2>1, <3>1, <4>2
      <4>3. QED BY <4>1, <4>2
    <3>3. QED BY <2>1, <3>1, <3>2
  <2>4. CASE x # m
    BY <1>5, <1>6, <2>1, <2>4
  <2>5. QED BY <2>3, <2>4
<1>9. OwnerRestores'
  BY <1>1 DEF MutexInv, OwnerRestores
<1>10. QED BY <1>3, <1>7, <1>8, <1>9 DEF MutexInv

LEMMA TakeFreeStep ==
  ASSUME MutexInv, NEW t \in Thread, NEW m \in MutexObject, TakeFree(t, m)
  PROVE  MutexInv'
<1>1. /\ Calls(t) /\ owner[m] # t /\ value[m] > 0
      /\ value' = [value EXCEPT ![m] = @ - 1] /\ owner' = [owner EXCEPT ![m] = t]
      /\ original_priority' = [original_priority EXCEPT ![m] = k.prio[t]]
      /\ hold' = [hold EXCEPT ![m] = @ + 1] /\ taken' = [taken EXCEPT ![t][m] = @ + 1]
      /\ UNCHANGED <<pc, cont, primask, systick, device>>
      /\ call' = call
      /\ k' = [k EXCEPT !.error[t] = "EOK"]
  BY DEF TakeFree, Takes, ClearError
<1>2. /\ value[m] = 1 /\ owner[m] = RT_NULL /\ hold[m] = 0 /\ taken[t][m] = 0
      /\ t # RT_NULL /\ k.prio[t] \in Priority /\ 1 \in 0 .. MaxHold
  <2>1. value[m] \in 0 .. 1 /\ k.prio \in [Thread -> Priority]
    BY Types, Fields
  <2>2. value[m] = 1
    BY <1>1, <2>1
  <2>3. owner[m] = RT_NULL /\ hold[m] = 0
    BY <2>2 DEF MutexInv, OwnershipAgrees
  <2>4. taken[t][m] = 0
    BY <1>1, Caller
  <2>5. QED BY <2>1, <2>2, <2>3, <2>4, Types, MutexAssumption
<1>3. /\ CpuTypeOK' /\ KernelConsistent' /\ SuspendedInCall' /\ RunningIsReady'
      /\ k'.lock = 0 /\ k'.waitq = k.waitq
      /\ WaitersTake' /\ \A x \in MutexObject : Handed(x)' = Handed(x)
  BY <1>1, ErrorStep DEF Error
<1>4. taken' = [taken EXCEPT ![t][m] = 1]
  BY <1>1, <1>2, Types
<1>5. /\ taken' \in [Thread -> [MutexObject -> 0 .. MaxHold]]
      /\ \A u \in Thread, x \in MutexObject :
           taken'[u][x] = IF u = t /\ x = m THEN 1 ELSE taken[u][x]
  BY <1>2, <1>4, TakenUpdate
<1>6. /\ hold' \in [MutexObject -> 0 .. MaxHold] /\ value' \in [MutexObject -> 0 .. 1]
      /\ owner' \in [MutexObject -> Thread \cup {RT_NULL}]
      /\ original_priority' \in [MutexObject -> Priority \cup {None}]
      /\ \A x \in MutexObject :
           /\ hold'[x] = IF x = m THEN 1 ELSE hold[x]
           /\ value'[x] = IF x = m THEN 0 ELSE value[x]
           /\ owner'[x] = IF x = m THEN t ELSE owner[x]
           /\ original_priority'[x] = IF x = m THEN k.prio[t] ELSE original_priority[x]
  BY <1>1, <1>2, Types
<1>7. TypeOK'
  BY <1>1, <1>3, <1>5, <1>6, Types DEF TypeOK
<1>8. OwnershipAgrees'
  <2> SUFFICES ASSUME NEW x \in MutexObject
               PROVE  /\ owner'[x] = RT_NULL <=> value'[x] = 1
                      /\ owner'[x] = RT_NULL => hold'[x] = 0 /\ k.waitq[x] = << >>
                      /\ \A u \in Thread :
                           taken'[u][x] + (IF u \in Handed(x) THEN 1 ELSE 0) =
                             IF owner'[x] = u THEN hold'[x] ELSE 0
    BY <1>3 DEF OwnershipAgrees
  <2>1. /\ owner[x] = RT_NULL <=> value[x] = 1
        /\ owner[x] = RT_NULL => hold[x] = 0 /\ k.waitq[x] = << >>
        /\ \A u \in Thread : taken[u][x] + (IF u \in Handed(x) THEN 1 ELSE 0) =
                               IF owner[x] = u THEN hold[x] ELSE 0
    BY DEF MutexInv, OwnershipAgrees
  <2>2. t \notin Handed(m) /\ RT_NULL \notin Thread
    BY <1>1, Caller, MutexAssumption
  <2>3. CASE x = m
    <3>1. owner'[x] = t /\ hold'[x] = 1 /\ value'[x] = 0 /\ owner[x] = RT_NULL
      BY <1>2, <1>6, <2>3
    <3>2. ASSUME NEW u \in Thread
          PROVE  taken'[u][x] + (IF u \in Handed(x) THEN 1 ELSE 0) =
                   IF owner'[x] = u THEN hold'[x] ELSE 0
      <4>1. CASE u = t
        <5>1. taken'[u][x] = 1 /\ u \notin Handed(x)
          BY <1>5, <2>2, <2>3, <4>1
        <5>2. QED BY <3>1, <4>1, <5>1
      <4>2. CASE u # t
        BY <1>5, <2>1, <2>2, <3>1, <4>2
      <4>3. QED BY <4>1, <4>2
    <3>3. QED BY <1>2, <3>1, <3>2
  <2>4. CASE x # m
    BY <1>5, <1>6, <2>1, <2>4
  <2>5. QED BY <2>3, <2>4
<1>9. OwnerRestores'
  BY <1>2, <1>6 DEF MutexInv, OwnerRestores
<1>10. QED BY <1>3, <1>7, <1>8, <1>9 DEF MutexInv

\* rt_mutex_take of a mutex that another thread owns, up to the timer.
LEMMA SuspendedFacts ==
  ASSUME MutexInv, NEW t \in Thread, NEW m \in MutexObject, Calls(t),
         owner[m] # t, value[m] = 0
  PROVE  LET w == Suspended(t, m)
         IN  /\ KernelOK(w) /\ w.stat = [k.stat EXCEPT ![t] = "SUSPEND"]
             /\ \A x \in Thread \ {owner[m]} : w.prio[x] = k.prio[x]
             /\ \A x \in Object : ToSet(w.waitq[x]) =
                  IF x = m THEN ToSet(k.waitq[x]) \cup {t} ELSE ToSet(k.waitq[x])
             /\ w.current = k.current /\ w.lock = k.lock
             /\ w.error = [k.error EXCEPT ![t] = "EOK"]
<1> DEFINE o == owner[m]
           r == ClearError(t)
           b == change_priority(r, o, k.prio[t])
           u == IF k.prio[t] < k.prio[o] THEN b ELSE r
           w == rt_ipc_list_suspend(u, m, t, flag[m])
<1>1. KernelOK(k) /\ k.stat[t] = "READY" /\ t # Idle
  BY Caller
<1>2. o \in Thread /\ k.prio[t] \in Priority
  <2>1. value[m] # 1
    OBVIOUS
  <2>2. o # RT_NULL
    BY <2>1 DEF MutexInv, OwnershipAgrees
  <2>3. k.prio \in [Thread -> Priority]
    BY Types, Fields
  <2>4. QED BY <2>2, <2>3, Types
<1>3. /\ KernelOK(r) /\ r.stat = k.stat /\ r.waitq = k.waitq
      /\ r.prio = k.prio /\ r.current = k.current /\ r.lock = k.lock
      /\ r.error = [k.error EXCEPT ![t] = "EOK"]
  BY <1>1, SetError DEF Error, ClearError
<1>4. Suspended(t, m) = w
  BY DEF Suspended
<1> HIDE DEF r, o
<1>5. /\ KernelOK(b) /\ b.stat = r.stat /\ b.waitq = r.waitq
      /\ b.prio = [r.prio EXCEPT ![o] = k.prio[t]]
      /\ b.current = r.current /\ b.lock = r.lock /\ b.error = r.error
  BY <1>2, <1>3, ChangePriorityPreserves
<1> HIDE DEF b
<1>6. /\ KernelOK(u) /\ u.stat = k.stat /\ u.waitq = k.waitq
      /\ \A x \in Thread \ {o} : u.prio[x] = k.prio[x]
      /\ u.current = k.current /\ u.lock = k.lock
      /\ u.error = [k.error EXCEPT ![t] = "EOK"]
  <2>1. k.prio \in [Thread -> Priority]
    BY Types, Fields
  <2>2. \A x \in Thread \ {o} : b.prio[x] = k.prio[x]
    BY <1>2, <1>3, <1>5, <2>1
  <2>3. QED BY <1>3, <1>5, <2>2
<1> HIDE DEF u
<1>7. QueuedOn(u, m, t, w)
  <2>1. u.stat[t] = "READY"
    BY <1>1, <1>6
  <2>2. QED BY <1>1, <1>6, <2>1, IpcSuspendPreserves
<1> HIDE DEF w
<1>8. QED BY <1>4, <1>6, <1>7 DEF QueuedOn, o

\* ... and its rest up to rt_schedule.
LEMMA BlockStep ==
  ASSUME MutexInv, NEW t \in Thread, NEW m \in MutexObject, NEW u, Block(t, m, u),
         KernelOK(u), u.stat = [k.stat EXCEPT ![t] = "SUSPEND"],
         \A x \in Object : ToSet(u.waitq[x]) =
           IF x = m THEN ToSet(k.waitq[x]) \cup {t} ELSE ToSet(k.waitq[x]),
         u.current = k.current, u.lock = k.lock,
         u.error = [k.error EXCEPT ![t] = "EOK"]
  PROVE  MutexInv'
<1>1. /\ Calls(t) /\ value[m] = 0 /\ k' = u /\ ThenSchedule(t, "take")
      /\ call' = [call EXCEPT ![t] = m]
      /\ UNCHANGED <<primask, systick, device>>
      /\ UNCHANGED <<value, owner, original_priority, hold, taken>>
  BY DEF Block, Takes
<1>2. /\ k.current = t /\ k.lock = 0 /\ pc[t] = "run"
      /\ \A x \in MutexObject : t \notin ToSet(k.waitq[x])
  BY <1>1, Caller DEF MutexInv
<1>3. KernelConsistent' /\ SuspendedInCall' /\ RunningIsReady'
  BY <1>1, <1>2, Types, BlockMoves, CpuPart
<1>4. /\ pc' \in [Thread -> Point] /\ cont' \in [Thread -> Continuation]
      /\ pc'[t] = "sched" /\ cont'[t] = "take"
      /\ \A x \in Thread \ {t} : pc'[x] = pc[x] /\ cont'[x] = cont[x]
      /\ call' \in [Thread -> MutexObject] /\ call'[t] = m
      /\ \A x \in Thread \ {t} : call'[x] = call[x]
  BY <1>1, Types DEF ThenSchedule, Point, Continuation
<1>5. /\ k'.stat[t] = "SUSPEND" /\ k'.error[t] = "EOK"
      /\ \A x \in Thread \ {t} : k'.stat[x] = k.stat[x] /\ k'.error[x] = k.error[x]
  BY <1>1, Types
<1>6. \A x \in Thread \ {t} : InTake(x)' <=> InTake(x)
  BY <1>4 DEF InTake
<1>7. WaitersTake'
  <2> SUFFICES ASSUME NEW n \in MutexObject, NEW x \in ToSet(k'.waitq[n])
               PROVE  InTake(x)' /\ call'[x] = n /\ k'.error[x] = "EOK"
    BY DEF WaitersTake
  <2>1. CASE x = t
    <3>1. n = m
      BY <1>1, <1>2, <2>1
    <3>2. QED BY <1>4, <1>5, <2>1, <3>1 DEF InTake
  <2>2. CASE x # t
    <3>1. x \in ToSet(k.waitq[n])
      BY <1>1, <2>2
    <3>2. x \in Thread /\ InTake(x) /\ call[x] = n /\ k.error[x] = "EOK"
      BY <3>1, Queued DEF MutexInv, WaitersTake
    <3>3. QED BY <1>4, <1>5, <1>6, <2>2, <3>2
  <2>3. QED BY <2>1, <2>2
<1>8. \A n \in MutexObject, x \in Thread : x \in Handed(n)' <=> x \in Handed(n)
  <2> TAKE n \in MutexObject, x \in Thread
  <2>1. CASE x = t
    BY <1>2, <1>5, <2>1 DEF Handed
  <2>2. CASE x # t
    BY <1>4, <1>5, <2>2 DEF Handed
  <2>3. QED BY <2>1, <2>2
<1>9. OwnershipAgrees'
  <2>1. \A n \in MutexObject : owner[n] = RT_NULL => k'.waitq[n] = << >>
    <3> SUFFICES ASSUME NEW n \in MutexObject, owner[n] = RT_NULL
                 PROVE  k'.waitq[n] = << >>
      OBVIOUS
    <3>1. value[n] = 1 /\ k.waitq[n] = << >>
      BY DEF MutexInv, OwnershipAgrees
    <3>2. n # m
      BY <1>1, <3>1
    <3>3. ToSet(k'.waitq[n]) = ToSet(k.waitq[n])
      BY <1>1, <3>2
    <3>4. k'.waitq[n] \in Seq(Thread)
      BY <1>1, Fields DEF KernelOK
    <3>5. QED BY <3>1, <3>3, <3>4, Types, EmptyThreadList
  <2>2. QED BY <1>1, <1>8, <2>1 DEF MutexInv, OwnershipAgrees
<1>10. CpuTypeOK' /\ k'.lock = 0
  BY <1>1, <1>2 DEF KernelOK, MutexInv, TypeOK, CpuTypeOK
<1>11. TypeOK'
  BY <1>1, <1>4, <1>10, Types DEF TypeOK
<1>12. OwnerRestores'
  BY <1>1 DEF MutexInv, OwnerRestores
<1>13. QED BY <1>3, <1>7, <1>9, <1>10, <1>11, <1>12 DEF MutexInv

LEMMA TakeBlockedStep ==
  ASSUME MutexInv, NEW t \in Thread, NEW m \in MutexObject,
         \/ TakeForever(t, m)
         \/ \E time \in WaitTimes : TakeTimed(t, m, time)
  PROVE  MutexInv'
<1> DEFINE w == Suspended(t, m)
<1>1. Calls(t) /\ owner[m] # t /\ value[m] = 0
  BY DEF TakeForever, TakeTimed, Block, Takes
<1>2. /\ KernelOK(w) /\ w.stat = [k.stat EXCEPT ![t] = "SUSPEND"]
      /\ \A x \in Object : ToSet(w.waitq[x]) =
           IF x = m THEN ToSet(k.waitq[x]) \cup {t} ELSE ToSet(k.waitq[x])
      /\ w.current = k.current /\ w.lock = k.lock
      /\ w.error = [k.error EXCEPT ![t] = "EOK"]
  BY <1>1, SuspendedFacts
<1>3. CASE TakeForever(t, m)
  <2>1. Block(t, m, w)
    BY <1>3 DEF TakeForever
  <2> HIDE DEF w
  <2>2. QED BY <1>2, <2>1, BlockStep
<1>4. ASSUME NEW time \in WaitTimes, TakeTimed(t, m, time)
      PROVE  MutexInv'
  <2> DEFINE u == rt_timer_start(w, t, time)
  <2>1. Block(t, m, u)
    BY <1>4 DEF TakeTimed
  <2> HIDE DEF w
  <2>2. w.stat[t] = "SUSPEND" /\ time \in Nat
    BY <1>2, Types, MutexAssumption
  <2>3. /\ KernelOK(u) /\ u.stat = w.stat /\ u.waitq = w.waitq
        /\ u.current = w.current /\ u.lock = w.lock /\ u.error = w.error
    BY <1>2, <2>2, TimerStartPreserves, ZenonT(60)
  <2> HIDE DEF u
  <2>4. /\ u.stat = [k.stat EXCEPT ![t] = "SUSPEND"]
        /\ \A x \in Object : ToSet(u.waitq[x]) =
             IF x = m THEN ToSet(k.waitq[x]) \cup {t} ELSE ToSet(k.waitq[x])
        /\ u.current = k.current /\ u.lock = k.lock
        /\ u.error = [k.error EXCEPT ![t] = "EOK"]
    BY <1>2, <2>3
  <2>5. KernelOK(u)
    BY <2>3
  <2>6. QED BY <2>1, <2>4, <2>5, BlockStep
<1>5. QED BY <1>3, <1>4

\* A thread learns that it was handed the mutex, or why it was not.
LEMMA TakeReturnStep ==
  ASSUME MutexInv, NEW t \in Thread, TakeReturn(t)
  PROVE  MutexInv'
<1> DEFINE m == call[t]
<1>1. /\ Running(t) /\ pc[t] = "take" /\ pc' = [pc EXCEPT ![t] = "run"] /\ cont' = cont
      /\ UNCHANGED <<k, primask, systick, device>>
      /\ UNCHANGED <<value, owner, original_priority, hold, call>>
      /\ taken' = IF k.error[t] = "EOK" THEN [taken EXCEPT ![t][m] = @ + 1] ELSE taken
  BY DEF TakeReturn, Goto
<1>2. /\ KernelOK(k) /\ k.current = t /\ k.stat[t] = "READY"
      /\ \A x \in MutexObject : t \notin ToSet(k.waitq[x])
  BY <1>1, Runner
<1>3. /\ pc' \in [Thread -> Point] /\ cont' \in [Thread -> Continuation] /\ pc'[t] = "run"
      /\ \A u \in Thread \ {t} : pc'[u] = pc[u] /\ cont'[u] = cont[u]
  BY <1>1, Types DEF Point, Continuation
<1>4. KernelConsistent' /\ SuspendedInCall' /\ RunningIsReady'
  BY <1>1, <1>2, <1>3, ThreadMoves, CpuPart
<1>5. /\ m \in MutexObject
      /\ \A x \in MutexObject, u \in Thread :
           u \in Handed(x)' <=> u \in Handed(x) /\ u # t
      /\ \A x \in MutexObject : t \in Handed(x) <=> x = m /\ k.error[t] = "EOK"
  BY <1>1, <1>2, <1>3, Types DEF Handed
<1>6. WaitersTake'
  <2> SUFFICES ASSUME NEW x \in MutexObject, NEW u \in ToSet(k.waitq[x])
               PROVE  InTake(u)' /\ call[u] = x /\ k.error[u] = "EOK"
    BY <1>1 DEF WaitersTake
  <2>1. u \in Thread \ {t} /\ InTake(u) /\ call[u] = x /\ k.error[u] = "EOK"
    BY <1>2, Queued DEF MutexInv, WaitersTake
  <2>2. QED BY <1>3, <2>1 DEF InTake
<1>7. \A x \in MutexObject, u \in Thread :
        taken[u][x] + (IF u \in Handed(x) THEN 1 ELSE 0) =
          IF owner[x] = u THEN hold[x] ELSE 0
  BY DEF MutexInv, OwnershipAgrees
<1> HIDE DEF m
<1>8. /\ taken' \in [Thread -> [MutexObject -> 0 .. MaxHold]]
      /\ \A u \in Thread, x \in MutexObject :
           taken'[u][x] = IF u = t /\ t \in Handed(x) THEN taken[u][x] + 1
                                                      ELSE taken[u][x]
  <2>1. CASE k.error[t] = "EOK"
    <3>1. taken[t][m] + 1 = IF owner[m] = t THEN hold[m] ELSE 0
      BY <1>5, <1>7, <2>1
    <3>2. taken[t][m] + 1 \in 0 .. MaxHold
      BY <1>5, <3>1, Types
    <3>3. taken' = [taken EXCEPT ![t][m] = taken[t][m] + 1]
      BY <1>1, <1>5, <2>1, Types
    <3>4. /\ taken' \in [Thread -> [MutexObject -> 0 .. MaxHold]]
          /\ \A u \in Thread, x \in MutexObject :
               taken'[u][x] = IF u = t /\ x = m THEN taken[t][m] + 1 ELSE taken[u][x]
      BY <1>5, <3>2, <3>3, TakenUpdate, ZenonT(60)
    <3>5. QED BY <1>5, <2>1, <3>4
  <2>2. CASE k.error[t] # "EOK"
    BY <1>1, <1>5, <2>2, Types
  <2>3. QED BY <2>1, <2>2
<1>9. OwnershipAgrees'
  <2>1. \A x \in MutexObject, u \in Thread :
          taken'[u][x] + (IF u \in Handed(x)' THEN 1 ELSE 0) =
            IF owner'[x] = u THEN hold'[x] ELSE 0
    <3> TAKE x \in MutexObject, u \in Thread
    <3>1. taken[u][x] \in Nat
      BY Types
    <3>2. taken'[u][x] + (IF u \in Handed(x)' THEN 1 ELSE 0) =
            taken[u][x] + (IF u \in Handed(x) THEN 1 ELSE 0)
      BY <1>5, <1>8, <3>1
    <3>3. QED BY <1>1, <1>7, <3>2
  <2>2. QED BY <1>1, <2>1 DEF MutexInv, OwnershipAgrees
<1>10. TypeOK'
  BY <1>1, <1>3, <1>8, Types DEF MutexInv, TypeOK, CpuTypeOK
<1>11. OwnerRestores' /\ k'.lock = 0
  BY <1>1 DEF MutexInv, OwnerRestores
<1>12. QED BY <1>4, <1>6, <1>9, <1>10, <1>11 DEF MutexInv

\* The owner gets its priority back; only lists of ready threads change.
LEMMA RestoredFacts ==
  ASSUME MutexInv, NEW t \in Thread, NEW m \in MutexObject, Calls(t), owner[m] = t
  PROVE  LET w == Restored(t, m)
         IN  /\ KernelOK(w) /\ w.stat = k.stat /\ w.waitq = k.waitq
             /\ \A u \in Thread : w.prio[u] = IF u = t THEN original_priority[m]
                                                       ELSE k.prio[u]
             /\ w.current = k.current /\ w.lock = k.lock /\ w.error = k.error
<1> DEFINE b == change_priority(k, t, original_priority[m])
<1>1. KernelOK(k) /\ original_priority[m] \in Priority
  <2>1. t # RT_NULL
    BY MutexAssumption
  <2>2. QED BY <2>1, Caller DEF MutexInv, OwnerRestores
<1>2. /\ KernelOK(b) /\ b.stat = k.stat /\ b.waitq = k.waitq
      /\ b.prio = [k.prio EXCEPT ![t] = original_priority[m]]
      /\ b.current = k.current /\ b.lock = k.lock /\ b.error = k.error
  BY <1>1, ChangePriorityPreserves
<1>3. \/ Restored(t, m) = b
      \/ Restored(t, m) = k /\ k.prio[t] = original_priority[m]
  BY DEF Restored
<1>4. k.prio \in [Thread -> Priority]
  BY Types, Fields
<1> HIDE DEF b
<1>5. CASE Restored(t, m) = b
  BY <1>2, <1>4, <1>5
<1>6. CASE Restored(t, m) = k /\ k.prio[t] = original_priority[m]
  BY <1>1, <1>6
<1>7. QED BY <1>3, <1>5, <1>6

LEMMA ReleaseInnerStep ==
  ASSUME MutexInv, NEW t \in Thread, NEW m \in MutexObject, ReleaseInner(t, m)
  PROVE  MutexInv'
<1>1. /\ Calls(t) /\ owner[m] = t /\ hold[m] > 1
      /\ hold' = [hold EXCEPT ![m] = @ - 1] /\ taken' = [taken EXCEPT ![t][m] = @ - 1]
      /\ UNCHANGED <<k, pc, cont, primask, systick, device>>
      /\ UNCHANGED <<value, owner, original_priority, call>>
  BY DEF ReleaseInner, cpu
<1>2. taken[t][m] = hold[m] /\ hold[m] - 1 \in 0 .. MaxHold /\ t # RT_NULL
  <2>1. taken[t][m] = hold[m]
    BY <1>1, Caller
  <2>2. QED BY <1>1, <2>1, Types, MutexAssumption
<1>3. taken' = [taken EXCEPT ![t][m] = hold[m] - 1]
  BY <1>1, <1>2, Types
<1>4. /\ taken' \in [Thread -> [MutexObject -> 0 .. MaxHold]]
      /\ \A u \in Thread, x \in MutexObject :
           taken'[u][x] = IF u = t /\ x = m THEN hold[m] - 1 ELSE taken[u][x]
  BY <1>2, <1>3, TakenUpdate, ZenonT(60)
<1>5. /\ hold' \in [MutexObject -> 0 .. MaxHold]
      /\ \A x \in MutexObject : hold'[x] = IF x = m THEN hold[m] - 1 ELSE hold[x]
  BY <1>1, <1>2, Types
<1>6. TypeOK'
  BY <1>1, <1>4, <1>5, Types DEF MutexInv, TypeOK, CpuTypeOK
<1>7. \A x \in MutexObject : Handed(x)' = Handed(x)
  BY <1>1 DEF Handed
<1>8. OwnershipAgrees'
  <2> SUFFICES ASSUME NEW x \in MutexObject
               PROVE  /\ owner[x] = RT_NULL <=> value[x] = 1
                      /\ owner[x] = RT_NULL => hold'[x] = 0 /\ k.waitq[x] = << >>
                      /\ \A u \in Thread :
                           taken'[u][x] + (IF u \in Handed(x) THEN 1 ELSE 0) =
                             IF owner[x] = u THEN hold'[x] ELSE 0
    BY <1>1, <1>7 DEF OwnershipAgrees
  <2>1. /\ owner[x] = RT_NULL <=> value[x] = 1
        /\ owner[x] = RT_NULL => hold[x] = 0 /\ k.waitq[x] = << >>
        /\ \A u \in Thread : taken[u][x] + (IF u \in Handed(x) THEN 1 ELSE 0) =
                               IF owner[x] = u THEN hold[x] ELSE 0
    BY DEF MutexInv, OwnershipAgrees
  <2>2. t \notin Handed(m)
    BY <1>1, Caller
  <2>3. CASE x = m
    <3>1. owner[x] = t /\ hold'[x] = hold[x] - 1 /\ t # RT_NULL
      BY <1>1, <1>2, <1>5, <2>3
    <3>2. ASSUME NEW u \in Thread
          PROVE  taken'[u][x] + (IF u \in Handed(x) THEN 1 ELSE 0) =
                   IF owner[x] = u THEN hold'[x] ELSE 0
      <4>1. CASE u = t
        <5>1. taken'[u][x] = hold[x] - 1 /\ u \notin Handed(x)
          BY <1>4, <2>2, <2>3, <4>1
        <5>2. QED BY <3>1, <4>1, <5>1, Types
      <4>2. CASE u # t
        BY <1>4, <2>1, <3>1, <4>2
      <4>3. QED BY <4>1, <4>2
    <3>3. QED BY <2>1, <3>1, <3>2
  <2>4. CASE x # m
    BY <1>4, <1>5, <2>1, <2>4
  <2>5. QED BY <2>3, <2>4
<1>9. /\ OwnerRestores' /\ WaitersTake' /\ KernelConsistent'
      /\ SuspendedInCall' /\ RunningIsReady' /\ k'.lock = 0
  BY <1>1 DEF MutexInv, OwnerRestores, WaitersTake, InTake, KernelConsistent,
              SuspendedInCall, InCall, RunningIsReady
<1>10. QED BY <1>6, <1>8, <1>9 DEF MutexInv

LEMMA ReleaseFreeStep ==
  ASSUME MutexInv, NEW t \in Thread, NEW m \in MutexObject, ReleaseFree(t, m)
  PROVE  MutexInv'
<1>1. /\ Calls(t) /\ owner[m] = t /\ hold[m] = 1 /\ k.waitq[m] = << >>
      /\ k' = Restored(t, m)
      /\ value' = [value EXCEPT ![m] = @ + 1] /\ owner' = [owner EXCEPT ![m] = RT_NULL]
      /\ original_priority' = [original_priority EXCEPT ![m] = None]
      /\ hold' = [hold EXCEPT ![m] = 0] /\ taken' = [taken EXCEPT ![t][m] = @ - 1]
      /\ UNCHANGED <<pc, cont, primask, systick, device>> /\ call' = call
  BY DEF ReleaseFree
<1>2. /\ KernelOK(k') /\ k'.stat = k.stat /\ k'.waitq = k.waitq
      /\ k'.current = t /\ k'.lock = 0 /\ k'.error = k.error
      /\ k.current = t /\ k.stat[t] = "READY"
  <2>1. k.lock = 0 /\ k.current = t /\ k.stat[t] = "READY"
    BY <1>1, Caller DEF MutexInv
  <2>2. QED BY <1>1, <2>1, RestoredFacts
<1>3. KernelConsistent' /\ SuspendedInCall' /\ RunningIsReady'
  BY <1>1, <1>2, ThreadMoves, CpuPart
<1>4. \A u \in Thread : Undisturbed(u)
  BY <1>1, <1>2 DEF Undisturbed, InTake
<1>5. WaitersTake' /\ \A x \in MutexObject : Handed(x)' = Handed(x)
  BY <1>1, <1>2, <1>4, HandedKept
<1>6. value[m] = 0 /\ taken[t][m] = 1 /\ t # RT_NULL
  <2>1. t # RT_NULL
    BY MutexAssumption
  <2>2. value[m] # 1
    BY <1>1, <2>1 DEF MutexInv, OwnershipAgrees
  <2>3. taken[t][m] = 1
    BY <1>1, Caller
  <2>4. QED BY <2>1, <2>2, <2>3, Types
<1>7. taken' = [taken EXCEPT ![t][m] = 0]
  BY <1>1, <1>6, Types
<1>8. /\ taken' \in [Thread -> [MutexObject -> 0 .. MaxHold]]
      /\ \A u \in Thread, x \in MutexObject :
           taken'[u][x] = IF u = t /\ x = m THEN 0 ELSE taken[u][x]
  <2>1. 0 \in 0 .. MaxHold
    BY Types
  <2>2. QED BY <1>7, <2>1, TakenUpdate, ZenonT(60)
<1>9. /\ hold' \in [MutexObject -> 0 .. MaxHold] /\ value' \in [MutexObject -> 0 .. 1]
      /\ owner' \in [MutexObject -> Thread \cup {RT_NULL}]
      /\ original_priority' \in [MutexObject -> Priority \cup {None}]
      /\ \A x \in MutexObject :
           /\ hold'[x] = IF x = m THEN 0 ELSE hold[x]
           /\ value'[x] = IF x = m THEN 1 ELSE value[x]
           /\ owner'[x] = IF x = m THEN RT_NULL ELSE owner[x]
           /\ original_priority'[x] = IF x = m THEN None ELSE original_priority[x]
  BY <1>1, <1>6, Types
<1>10. CpuTypeOK'
  BY <1>1, <1>2 DEF KernelOK, MutexInv, TypeOK, CpuTypeOK
<1>11. TypeOK'
  BY <1>1, <1>8, <1>9, <1>10, Types DEF TypeOK
<1>12. OwnershipAgrees'
  <2> SUFFICES ASSUME NEW x \in MutexObject
               PROVE  /\ owner'[x] = RT_NULL <=> value'[x] = 1
                      /\ owner'[x] = RT_NULL => hold'[x] = 0 /\ k.waitq[x] = << >>
                      /\ \A u \in Thread :
                           taken'[u][x] + (IF u \in Handed(x) THEN 1 ELSE 0) =
                             IF owner'[x] = u THEN hold'[x] ELSE 0
    BY <1>2, <1>5 DEF OwnershipAgrees
  <2>1. /\ owner[x] = RT_NULL <=> value[x] = 1
        /\ owner[x] = RT_NULL => hold[x] = 0 /\ k.waitq[x] = << >>
        /\ \A u \in Thread : taken[u][x] + (IF u \in Handed(x) THEN 1 ELSE 0) =
                               IF owner[x] = u THEN hold[x] ELSE 0
    BY DEF MutexInv, OwnershipAgrees
  <2>2. t \notin Handed(m) /\ RT_NULL \notin Thread
    BY <1>1, Caller, MutexAssumption
  <2>3. CASE x = m
    <3>1. owner'[x] = RT_NULL /\ hold'[x] = 0 /\ value'[x] = 1 /\ owner[x] = t
      BY <1>1, <1>9, <2>3
    <3>2. ASSUME NEW u \in Thread
          PROVE  taken'[u][x] + (IF u \in Handed(x) THEN 1 ELSE 0) =
                   IF owner'[x] = u THEN hold'[x] ELSE 0
      <4>1. CASE u = t
        <5>1. taken'[u][x] = 0 /\ u \notin Handed(x)
          BY <1>8, <2>2, <2>3, <4>1
        <5>2. QED BY <3>1, <5>1
      <4>2. CASE u # t
        BY <1>8, <2>1, <3>1, <4>2
      <4>3. QED BY <4>1, <4>2
    <3>3. QED BY <1>1, <2>3, <3>1, <3>2
  <2>4. CASE x # m
    BY <1>8, <1>9, <2>1, <2>4
  <2>5. QED BY <2>3, <2>4
<1>13. OwnerRestores'
  BY <1>9 DEF MutexInv, OwnerRestores
<1>14. QED BY <1>2, <1>3, <1>5, <1>11, <1>12, <1>13 DEF MutexInv

\* What the kernel does in a hand-over: the first waiter, which has not been
\* told anything yet, becomes ready.
LEMMA HandOverFacts ==
  ASSUME MutexInv, NEW t \in Thread, NEW m \in MutexObject, HandOver(t, m)
  PROVE  LET u == Head(k.waitq[m])
         IN  /\ u \in Thread /\ u \in ToSet(k.waitq[m]) /\ u # t
             /\ KernelOK(k') /\ k'.stat = [k.stat EXCEPT ![u] = "READY"]
             /\ \A x \in Thread : k'.prio[x] = IF x = t THEN original_priority[m]
                                                        ELSE k.prio[x]
             /\ \A x \in MutexObject : ToSet(k'.waitq[x]) = ToSet(k.waitq[x]) \ {u}
             /\ k'.current = t /\ k'.lock = 0 /\ k'.error = k.error
<1> DEFINE u == Head(k.waitq[m])
           w == Restored(t, m)
           v == rt_thread_resume(w, u)
<1>1. /\ Calls(t) /\ owner[m] = t /\ k.waitq[m] # << >>
      /\ k' = rt_ipc_list_resume(w, m)
  BY DEF HandOver
<1>2. /\ KernelOK(w) /\ w.stat = k.stat /\ w.waitq = k.waitq
      /\ \A x \in Thread : w.prio[x] = IF x = t THEN original_priority[m] ELSE k.prio[x]
      /\ w.current = k.current /\ w.lock = k.lock /\ w.error = k.error
  BY <1>1, RestoredFacts
<1> HIDE DEF w
<1>3. k' = v
  BY <1>1, <1>2 DEF rt_ipc_list_resume
<1>4. k.waitq[m] \in Seq(Thread) /\ IsInjective(k.waitq[m])
  BY Types, ConsistentLists DEF MutexInv, KernelConsistent, ListsInjective
<1>5. u \in ToSet(k.waitq[m]) /\ u \in Thread
  BY <1>1, <1>4, HeadOfList
<1> HIDE DEF u
<1>6. k.stat[u] = "SUSPEND" /\ t \notin ToSet(k.waitq[m]) /\ k.current = t /\ k.lock = 0
  BY <1>1, <1>5, Queued, Caller DEF MutexInv
<1>7. /\ KernelOK(v)
      /\ v.stat = IF w.stat[u] = "SUSPEND" THEN [w.stat EXCEPT ![u] = "READY"]
                                           ELSE w.stat
      /\ \A o \in Object : ToSet(v.waitq[o]) = IF w.stat[u] = "SUSPEND"
                                               THEN ToSet(w.waitq[o]) \ {u}
                                               ELSE ToSet(w.waitq[o])
      /\ v.prio = w.prio
      /\ v.current = w.current /\ v.lock = w.lock /\ v.error = w.error
  BY <1>2, <1>5, ResumePreserves
<1> HIDE DEF v
<1>8. QED BY <1>2, <1>3, <1>5, <1>6, <1>7 DEF u

LEMMA HandOverStep ==
  ASSUME MutexInv, NEW t \in Thread, NEW m \in MutexObject, HandOver(t, m)
  PROVE  MutexInv'
<1> DEFINE u == Head(k.waitq[m])
<1>1. /\ Calls(t) /\ owner[m] = t /\ hold[m] = 1
      /\ owner' = [owner EXCEPT ![m] = u]
      /\ original_priority' = [original_priority EXCEPT ![m] = k.prio[u]]
      /\ taken' = [taken EXCEPT ![t][m] = @ - 1]
      /\ ThenSchedule(t, "run")
      /\ UNCHANGED <<primask, systick, device>>
      /\ value' = value /\ hold' = hold /\ call' = call
  BY DEF HandOver
<1>2. /\ u \in Thread /\ u \in ToSet(k.waitq[m]) /\ u # t
      /\ KernelOK(k') /\ k'.stat = [k.stat EXCEPT ![u] = "READY"]
      /\ \A x \in MutexObject : ToSet(k'.waitq[x]) = ToSet(k.waitq[x]) \ {u}
      /\ k'.current = t /\ k'.lock = 0 /\ k'.error = k.error
  BY HandOverFacts
<1> HIDE DEF u
<1>3. /\ k.current = t /\ k.stat[t] = "READY" /\ taken[t][m] = 1 /\ ~ InTake(t)
      /\ \A x \in MutexObject : t \notin Handed(x)
  BY <1>1, Caller
<1>4. InTake(u) /\ call[u] = m /\ k.error[u] = "EOK" /\ k.stat[u] = "SUSPEND"
  BY <1>2, Queued DEF MutexInv, WaitersTake
<1>5. /\ pc' \in [Thread -> Point] /\ cont' \in [Thread -> Continuation]
      /\ pc'[t] = "sched" /\ cont'[t] = "run"
      /\ \A x \in Thread \ {t} : pc'[x] = pc[x] /\ cont'[x] = cont[x]
  BY <1>1, Types DEF ThenSchedule, Point, Continuation
<1>6. /\ k'.stat[u] = "READY" /\ k'.stat[t] = "READY"
      /\ \A x \in Thread \ {u} : k'.stat[x] = k.stat[x]
  BY <1>2, <1>3, Types
<1>7. KernelConsistent' /\ SuspendedInCall' /\ RunningIsReady'
  BY <1>2, <1>3, <1>5, <1>6, ThreadMoves, CpuPart
<1>8. ~ InTake(t)' /\ \A x \in Thread \ {t} : InTake(x)' <=> InTake(x)
  BY <1>5 DEF InTake
<1>9. WaitersTake'
  <2> SUFFICES ASSUME NEW x \in MutexObject, NEW y \in ToSet(k'.waitq[x])
               PROVE  InTake(y)' /\ call'[y] = x /\ k'.error[y] = "EOK"
    BY DEF WaitersTake
  <2>1. y \in ToSet(k.waitq[x])
    BY <1>2
  <2>2. y \in Thread /\ InTake(y) /\ call[y] = x /\ k.error[y] = "EOK"
    BY <2>1, Queued DEF MutexInv, WaitersTake
  <2>3. y # t
    BY <1>3, <2>2
  <2>4. QED BY <1>1, <1>2, <1>8, <2>2, <2>3
<1>10. \A x \in MutexObject, y \in Thread :
         y \in Handed(x)' <=> y \in Handed(x) \/ (y = u /\ x = m)
  <2> TAKE x \in MutexObject, y \in Thread
  <2>1. CASE y = t
    <3>1. y \notin Handed(x)'
      BY <1>8, <2>1 DEF Handed, InTake
    <3>2. QED BY <1>2, <1>3, <2>1, <3>1
  <2>2. CASE y = u
    <3>1. y \in Handed(x)' <=> x = m
      BY <1>1, <1>2, <1>4, <1>6, <1>8, <2>2 DEF Handed, InTake
    <3>2. y \notin Handed(x)
      BY <1>4, <2>2 DEF Handed
    <3>3. QED BY <2>2, <3>1, <3>2
  <2>3. CASE y # t /\ y # u
    BY <1>1, <1>2, <1>5, <1>6, <2>3 DEF Handed
  <2>4. QED BY <2>1, <2>2, <2>3
<1>11. taken' = [taken EXCEPT ![t][m] = 0]
  BY <1>1, <1>3, Types
<1>12. /\ taken' \in [Thread -> [MutexObject -> 0 .. MaxHold]]
       /\ \A y \in Thread, x \in MutexObject :
            taken'[y][x] = IF y = t /\ x = m THEN 0 ELSE taken[y][x]
  <2>1. 0 \in 0 .. MaxHold
    BY Types
  <2>2. QED BY <1>11, <2>1, TakenUpdate, ZenonT(60)
<1>13. k.prio[u] \in Priority /\ t # RT_NULL /\ u # RT_NULL
  <2>1. k.prio \in [Thread -> Priority]
    BY Types, Fields
  <2>2. QED BY <1>2, <2>1, MutexAssumption
<1>14. /\ owner' \in [MutexObject -> Thread \cup {RT_NULL}]
       /\ original_priority' \in [MutexObject -> Priority \cup {None}]
       /\ \A x \in MutexObject :
            /\ owner'[x] = IF x = m THEN u ELSE owner[x]
            /\ original_priority'[x] = IF x = m THEN k.prio[u] ELSE original_priority[x]
  BY <1>1, <1>2, <1>13, Types
<1>15. CpuTypeOK'
  BY <1>1, <1>2 DEF KernelOK, MutexInv, TypeOK, CpuTypeOK
<1>16. TypeOK'
  BY <1>1, <1>5, <1>12, <1>14, <1>15, Types DEF TypeOK
<1>17. OwnershipAgrees'
  <2> SUFFICES ASSUME NEW x \in MutexObject
               PROVE  /\ owner'[x] = RT_NULL <=> value[x] = 1
                      /\ owner'[x] = RT_NULL => hold[x] = 0 /\ k'.waitq[x] = << >>
                      /\ \A y \in Thread :
                           taken'[y][x] + (IF y \in Handed(x)' THEN 1 ELSE 0) =
                             IF owner'[x] = y THEN hold[x] ELSE 0
    BY <1>1 DEF OwnershipAgrees
  <2>1. /\ owner[x] = RT_NULL <=> value[x] = 1
        /\ owner[x] = RT_NULL => hold[x] = 0 /\ k.waitq[x] = << >>
        /\ \A y \in Thread : taken[y][x] + (IF y \in Handed(x) THEN 1 ELSE 0) =
                               IF owner[x] = y THEN hold[x] ELSE 0
    BY DEF MutexInv, OwnershipAgrees
  <2>2. CASE x = m
    <3>1. owner'[x] = u /\ hold[x] = 1 /\ owner[x] = t /\ value[x] # 1
      BY <1>1, <1>13, <1>14, <2>1, <2>2
    <3>2. ASSUME NEW y \in Thread
          PROVE  taken'[y][x] + (IF y \in Handed(x)' THEN 1 ELSE 0) =
                   IF owner'[x] = y THEN hold[x] ELSE 0
      <4>1. CASE y = t
        <5>1. taken'[y][x] = 0 /\ y \notin Handed(x)'
          BY <1>2, <1>3, <1>10, <1>12, <2>2, <4>1
        <5>2. QED BY <1>2, <3>1, <4>1, <5>1
      <4>2. CASE y = u
        <5>1. taken'[y][x] = taken[y][x] /\ y \in Handed(x)' /\ y \notin Handed(x)
          BY <1>2, <1>4, <1>10, <1>12, <2>2, <4>2 DEF Handed
        <5>2. taken[y][x] + 0 = 0
          BY <1>2, <2>1, <3>1, <4>2, <5>1
        <5>3. taken[y][x] \in Nat
          BY Types
        <5>4. QED BY <3>1, <4>2, <5>1, <5>2, <5>3
      <4>3. CASE y # t /\ y # u
        BY <1>10, <1>12, <2>1, <3>1, <4>3
      <4>4. QED BY <4>1, <4>2, <4>3
    <3>3. QED BY <1>13, <3>1, <3>2
  <2>3. CASE x # m
    <3>1. owner'[x] = RT_NULL => k'.waitq[x] = << >>
      <4>1. ToSet(k'.waitq[x]) \subseteq ToSet(k.waitq[x])
        BY <1>2
      <4>2. k'.waitq[x] \in Seq(Thread)
        BY <1>2, Fields DEF KernelOK
      <4>3. QED BY <1>14, <2>1, <2>3, <4>1, <4>2, Types, EmptyThreadList
    <3>2. ASSUME NEW y \in Thread
          PROVE  taken'[y][x] + (IF y \in Handed(x)' THEN 1 ELSE 0) =
                   IF owner'[x] = y THEN hold[x] ELSE 0
      BY <1>10, <1>12, <1>14, <2>1, <2>3
    <3>3. QED BY <1>14, <2>1, <2>3, <3>1, <3>2
  <2>4. QED BY <2>2, <2>3
<1>18. OwnerRestores'
  BY <1>13, <1>14 DEF MutexInv, OwnerRestores
<1>19. QED BY <1>2, <1>7, <1>9, <1>16, <1>17, <1>18 DEF MutexInv

-----------------------------------------------------------------------------
LEMMA InitInvariant == Init => MutexInv
<1> SUFFICES ASSUME Init PROVE MutexInv
  OBVIOUS
<1>1. /\ KernelOK(k) /\ k.stat = [t \in Thread |-> "READY"]
      /\ k.waitq = [o \in Object |-> << >>] /\ k.current \in Thread /\ k.lock = 0
  <2>1. KernelOK(k)
    BY InitKernel DEF Init, CpuInit
  <2>2. QED BY <2>1, StartedFields, Fields DEF Init, CpuInit, KernelOK
<1>2. /\ pc = [t \in Thread |-> "run"] /\ cont = [t \in Thread |-> "run"]
      /\ value = [m \in MutexObject |-> 1] /\ owner = [m \in MutexObject |-> RT_NULL]
      /\ original_priority = [m \in MutexObject |-> None]
      /\ hold = [m \in MutexObject |-> 0] /\ call \in [Thread -> MutexObject]
      /\ taken = [t \in Thread |-> [m \in MutexObject |-> 0]]
  BY DEF Init, CpuInit
<1>3. CpuTypeOK
  <2>1. primask \in BOOLEAN /\ systick \in BOOLEAN /\ device \in BOOLEAN
    BY Zenon DEF Init, CpuInit
  <2>2. QED BY <1>1, <2>1 DEF CpuTypeOK, KernelOK
<1>4. TypeOK
  <2>1. MaxHold \in Nat
    BY MutexAssumption
  <2>2. QED BY <1>2, <1>3, <2>1 DEF TypeOK, Point, Continuation
<1>5. KernelConsistent /\ SuspendedInCall /\ RunningIsReady
  BY <1>1 DEF KernelOK, KernelConsistent, SuspendedInCall, RunningIsReady
<1>6. WaitersTake
  <2>1. << >> \in Seq(Thread)
    OBVIOUS
  <2>2. ToSet(<< >>) = {}
    BY <2>1, EmptyThreadList
  <2>3. QED BY <1>1, <2>2 DEF WaitersTake
<1>7. OwnerRestores
  BY <1>2 DEF OwnerRestores
<1>8. OwnershipAgrees
  <2>1. \A m \in MutexObject : Handed(m) = {} /\ k.waitq[m] = << >>
    BY <1>1, <1>2 DEF Handed
  <2>2. RT_NULL \notin Thread
    BY MutexAssumption
  <2>3. QED BY <1>2, <2>1, <2>2 DEF OwnershipAgrees
<1>9. QED BY <1>1, <1>4, <1>5, <1>6, <1>7, <1>8 DEF MutexInv

LEMMA StepInvariant == MutexInv /\ [Next]_vars => MutexInv'
<1> SUFFICES ASSUME MutexInv, [Next]_vars PROVE MutexInv'
  OBVIOUS
<1>1. CASE Handler
  BY <1>1, HandlerStep DEF Handler
<1>2. ASSUME NEW t \in Thread, ThreadStep(t)
      PROVE  MutexInv'
  <2>1. CASE Schedule(t) /\ UNCHANGED mutexes
    BY <2>1, ScheduleStep
  <2>2. CASE SleepReturn(t) /\ UNCHANGED mutexes
    BY <2>2, SleepReturnStep
  <2>3. CASE TakeReturn(t)
    BY <2>3, TakeReturnStep
  <2>4. QED BY <1>2, <2>1, <2>2, <2>3 DEF ThreadStep
<1>3. ASSUME NEW t \in Thread, ThreadCall(t)
      PROVE  MutexInv'
  <2>1. CASE rt_thread_yield(t) /\ UNCHANGED mutexes
    BY <2>1, YieldStep
  <2>2. CASE (\E time \in SleepTimes : rt_thread_sleep(t, time)) /\ UNCHANGED mutexes
    BY <2>2, SleepStep
  <2>3. ASSUME NEW m \in MutexObject,
               \/ TakeAgain(t, m) \/ TakeFree(t, m) \/ TakeNoWait(t, m) \/ TakeForever(t, m)
               \/ \E time \in WaitTimes : TakeTimed(t, m, time)
               \/ ReleaseOther(t, m) \/ ReleaseInner(t, m) \/ ReleaseFree(t, m)
               \/ HandOver(t, m)
        PROVE  MutexInv'
    BY <2>3, TakeAgainStep, TakeFreeStep, RefusedStep, TakeBlockedStep,
       ReleaseInnerStep, ReleaseFreeStep, HandOverStep
  <2>4. QED BY <1>3, <2>1, <2>2, <2>3 DEF ThreadCall
<1>4. CASE UNCHANGED vars
  BY <1>4 DEF vars, MutexInv, TypeOK, CpuTypeOK, KernelConsistent, SuspendedInCall,
              InCall, RunningIsReady, WaitersTake, InTake, OwnerRestores,
              OwnershipAgrees, Handed
<1>5. QED BY <1>1, <1>2, <1>3, <1>4 DEF Next

LEMMA Invariance == Spec => []MutexInv
<1>1. Init => MutexInv
  BY InitInvariant
<1>2. MutexInv /\ [Next]_vars => MutexInv'
  BY StepInvariant
<1>3. QED BY <1>1, <1>2, PTL DEF Spec

\* Every variable keeps its type, and the kernel's lists, bitmap, states,
\* timers and priorities agree, through every inheritance, restoration and
\* timeout (rt_mutex_take, rt_mutex_release, rt_thread_control).
THEOREM MutexStateConsistent == Spec => []StateConsistent
<1>1. MutexInv => StateConsistent
  BY DEF MutexInv, StateConsistent
<1>2. QED BY <1>1, Invariance, PTL

\* The fields of a mutex agree with what its users were told, also while a
\* thread that was handed the mutex has not run yet (rt_mutex_release).
THEOREM OwnershipIsKept == Spec => []OwnershipAgrees
<1>1. MutexInv => OwnershipAgrees
  BY DEF MutexInv
<1>2. QED BY <1>1, Invariance, PTL

\* No two threads hold a mutex, whatever waits time out, however takes nest
\* and mutexes are combined (rt_mutex_take, rt_mutex_release).
THEOREM MutexesExclude == Spec => []MutualExclusion
<1>1. MutexInv => MutualExclusion
  <2> SUFFICES ASSUME MutexInv, NEW m \in MutexObject, NEW t \in Thread, taken[t][m] > 0
               PROVE  owner[m] = t
    BY DEF MutualExclusion
  <2>1. /\ taken[t][m] + (IF t \in Handed(m) THEN 1 ELSE 0) =
             IF owner[m] = t THEN hold[m] ELSE 0
        /\ taken[t][m] \in Nat
    BY Types DEF MutexInv, OwnershipAgrees
  <2>2. QED BY <2>1
<1>2. QED BY <1>1, Invariance, PTL

-----------------------------------------------------------------------------
\* Threads that hold one mutex at a time get their own priority back.  That
\* takes three facts: such a thread owns one mutex, it owns none while it
\* waits, and the priority kept for it is the one it was created with.
OneAtATime ==
  \A m, n \in MutexObject : owner[m] = owner[n] /\ owner[m] # RT_NULL => m = n

WaitersOwnNone ==
  \A m, n \in MutexObject : \A u \in ToSet(k.waitq[m]) : owner[n] # u

OriginalIsOwn ==
  \A m \in MutexObject :
    owner[m] # RT_NULL => original_priority[m] = init_prio[owner[m]]

LendingInv ==
  ~ Nested /\ OneAtATime /\ WaitersOwnNone /\ OriginalIsOwn /\ PriorityRestored

\* A step that changes no priority and no owner, and makes nobody wait.
LEMMA LendingKept ==
  ASSUME LendingInv, k'.prio = k.prio, owner' = owner,
         original_priority' = original_priority,
         \A m \in MutexObject : ToSet(k'.waitq[m]) \subseteq ToSet(k.waitq[m])
  PROVE  LendingInv'
BY DEF LendingInv, OneAtATime, WaitersOwnNone, OriginalIsOwn, PriorityRestored

LEMMA HandlerLends ==
  ASSUME MutexInv, LendingInv, Handler
  PROVE  LendingInv'
<1>1. KernelOK(k) /\ owner' = owner /\ original_priority' = original_priority
  BY DEF Handler, mutexes, MutexInv, TypeOK, CpuTypeOK, KernelConsistent, KernelOK
<1>2. /\ k'.prio = k.prio
      /\ \A m \in MutexObject : ToSet(k'.waitq[m]) \subseteq ToSet(k.waitq[m])
  <2>1. CASE SysTick_Handler
    <3> DEFINE v == tick_increase(k)
    <3>1. k' = v
      BY <2>1 DEF SysTick_Handler
    <3>2. v.prio = k.prio /\ \A o \in Object : ToSet(v.waitq[o]) = ToSet(k.waitq[o])
      BY <1>1, TickPreserves
    <3> HIDE DEF v
    <3>3. QED BY <3>1, <3>2
  <2>2. CASE rt_timer_check /\ Due(k)
    <3> DEFINE v == timer_expire(k)
               h == Head(k.timers)
    <3>1. k' = v /\ k.timers # << >>
      BY <2>2 DEF rt_timer_check, Due
    <3>2. /\ v.prio = k.prio
          /\ \A o \in Object : ToSet(v.waitq[o]) = ToSet(k.waitq[o]) \ {h}
      BY <1>1, <3>1, ExpirePreserves
    <3> HIDE DEF v, h
    <3>3. QED BY <3>1, <3>2
  <2>3. CASE rt_timer_check /\ ~ Due(k)
    BY <2>3 DEF rt_timer_check
  <2>4. QED BY <2>1, <2>2, <2>3 DEF Handler
<1>3. QED BY <1>1, <1>2, LendingKept

LEMMA KernelCallLends ==
  ASSUME MutexInv, LendingInv, NEW t \in Thread, UNCHANGED mutexes,
         \/ Schedule(t) \/ SleepReturn(t) \/ rt_thread_yield(t)
         \/ \E time \in SleepTimes : rt_thread_sleep(t, time)
  PROVE  LendingInv'
<1>1. owner' = owner /\ original_priority' = original_priority
  BY DEF mutexes
<1>2. KernelOK(k)
  BY DEF MutexInv, TypeOK, CpuTypeOK, KernelConsistent, KernelOK
<1>3. /\ k'.prio = k.prio
      /\ \A m \in MutexObject : ToSet(k'.waitq[m]) \subseteq ToSet(k.waitq[m])
  <2>1. CASE Schedule(t)
    <3> DEFINE v == rt_schedule(k)
    <3>1. k' = v
      BY <2>1 DEF Schedule
    <3>2. v.prio = k.prio /\ v.waitq = k.waitq
      BY <1>2, SchedulePreserves
    <3> HIDE DEF v
    <3>3. QED BY <3>1, <3>2
  <2>2. CASE SleepReturn(t)
    <3> DEFINE v == [k EXCEPT !.error[t] = "EOK"]
    <3>1. k' = v \/ k' = k
      BY <2>2 DEF SleepReturn
    <3>2. v.prio = k.prio /\ v.waitq = k.waitq
      BY <1>2, SetError DEF Error
    <3> HIDE DEF v
    <3>3. QED BY <3>1, <3>2
  <2>3. CASE rt_thread_yield(t)
    <3> DEFINE v == yield_rotate(k)
    <3>1. k' = v /\ may_yield(k)
      BY <2>3 DEF rt_thread_yield
    <3>2. v.prio = k.prio /\ \A o \in Object : ToSet(v.waitq[o]) = ToSet(k.waitq[o])
      BY <1>2, <3>1, YieldPreserves
    <3> HIDE DEF v
    <3>3. QED BY <3>1, <3>2
  <2>4. ASSUME NEW time \in SleepTimes, rt_thread_sleep(t, time)
        PROVE  /\ k'.prio = k.prio
               /\ \A m \in MutexObject : ToSet(k'.waitq[m]) \subseteq ToSet(k.waitq[m])
    <3> DEFINE u == rt_thread_suspend(k, t)
               v == rt_timer_start(u, t, time)
    <3>1. k' = v /\ t # Idle /\ k.stat[t] = "READY"
      BY <2>4, Runner DEF rt_thread_sleep
    <3>2. /\ KernelOK(u) /\ u.stat = [k.stat EXCEPT ![t] = "SUSPEND"] /\ u.prio = k.prio
          /\ \A o \in Object : ToSet(u.waitq[o]) = ToSet(k.waitq[o])
      BY <1>2, <3>1, SuspendPreserves
    <3> HIDE DEF u
    <3>3. u.stat[t] = "SUSPEND" /\ time \in Nat
      BY <3>2, Types, MutexAssumption
    <3>4. v.prio = u.prio /\ v.waitq = u.waitq
      BY <3>2, <3>3, TimerStartPreserves
    <3> HIDE DEF v
    <3>5. QED BY <3>1, <3>2, <3>4
  <2>5. QED BY <2>1, <2>2, <2>3, <2>4
<1>4. QED BY <1>1, <1>3, LendingKept

\* The calls that change no owner and lend nothing.
LEMMA QuietCallLends ==
  ASSUME MutexInv, LendingInv, NEW t \in Thread, NEW m \in MutexObject,
         \/ TakeReturn(t) \/ TakeAgain(t, m) \/ TakeNoWait(t, m)
         \/ ReleaseOther(t, m) \/ ReleaseInner(t, m)
  PROVE  LendingInv'
<1>1. owner' = owner /\ original_priority' = original_priority
  BY DEF TakeReturn, TakeAgain, TakeNoWait, ReleaseOther, ReleaseInner, mutexes
<1>2. k' = k \/ \E e \in Error : k' = [k EXCEPT !.error[t] = e]
  BY DEF TakeReturn, TakeAgain, TakeNoWait, ReleaseOther, ReleaseInner, ClearError,
         cpu, Error
<1>3. CASE k' = k
  BY <1>1, <1>3, LendingKept
<1>4. ASSUME NEW e \in Error, k' = [k EXCEPT !.error[t] = e]
      PROVE  LendingInv'
  <2> DEFINE v == [k EXCEPT !.error[t] = e]
  <2>1. KernelOK(k)
    BY DEF MutexInv, TypeOK, CpuTypeOK, KernelConsistent, KernelOK
  <2>2. v.prio = k.prio /\ v.waitq = k.waitq
    BY <2>1, SetError
  <2>3. k' = v
    BY <1>4
  <2> HIDE DEF v
  <2>4. QED BY <1>1, <2>2, <2>3, LendingKept
<1>5. QED BY <1>2, <1>3, <1>4

\* A thread that takes a mutex owns none, if takes do not nest.
LEMMA TakerOwnsNone ==
  ASSUME ~ Nested, NEW t \in Thread, NEW m \in MutexObject, Takes(t, m), owner[m] # t
  PROVE  \A n \in MutexObject : owner[n] # t
BY DEF Takes

LEMMA TakeFreeLends ==
  ASSUME MutexInv, LendingInv, NEW t \in Thread, NEW m \in MutexObject,
         TakeFree(t, m)
  PROVE  LendingInv'
<1>1. /\ Calls(t) /\ Takes(t, m) /\ owner[m] # t
      /\ owner' = [owner EXCEPT ![m] = t]
      /\ original_priority' = [original_priority EXCEPT ![m] = k.prio[t]]
      /\ k' = [k EXCEPT !.error[t] = "EOK"]
  BY DEF TakeFree, Takes, ClearError
<1>2. /\ \A n \in MutexObject : owner[n] # t
      /\ k.prio[t] = init_prio[t] /\ t # RT_NULL
  <2>1. \A n \in MutexObject : owner[n] # t
    BY <1>1, TakerOwnsNone DEF LendingInv
  <2>2. QED BY <2>1, MutexAssumption DEF LendingInv, PriorityRestored
<1>3. /\ \A x \in MutexObject :
           /\ owner'[x] = IF x = m THEN t ELSE owner[x]
           /\ original_priority'[x] = IF x = m THEN k.prio[t] ELSE original_priority[x]
      /\ \A x \in MutexObject : t \notin ToSet(k.waitq[x])
  BY <1>1, Types, Caller
<1>4. k'.prio = k.prio /\ k'.waitq = k.waitq
  <2> DEFINE v == [k EXCEPT !.error[t] = "EOK"]
  <2>1. v.prio = k.prio /\ v.waitq = k.waitq
    BY <1>1, Caller, SetError DEF Error
  <2>2. k' = v
    BY <1>1
  <2> HIDE DEF v
  <2>3. QED BY <2>1, <2>2
<1>5. OneAtATime'
  BY <1>2, <1>3 DEF LendingInv, OneAtATime
<1>6. WaitersOwnNone'
  BY <1>3, <1>4 DEF LendingInv, WaitersOwnNone
<1>7. OriginalIsOwn'
  BY <1>2, <1>3 DEF LendingInv, OriginalIsOwn
<1>8. PriorityRestored'
  <2>1. value[m] = 1
    BY Types DEF TakeFree
  <2>2. owner[m] = RT_NULL /\ RT_NULL \notin Thread
    BY <2>1, MutexAssumption DEF MutexInv, OwnershipAgrees
  <2>3. QED BY <1>3, <1>4, <2>2 DEF LendingInv, PriorityRestored
<1>9. QED BY <1>5, <1>6, <1>7, <1>8 DEF LendingInv

\* The priority that a waiter lends goes to an owner.
LEMMA BlockedLends ==
  ASSUME MutexInv, LendingInv, NEW t \in Thread, NEW m \in MutexObject,
         \/ TakeForever(t, m)
         \/ \E time \in WaitTimes : TakeTimed(t, m, time)
  PROVE  LendingInv'
<1> DEFINE w == Suspended(t, m)
<1>1. /\ Calls(t) /\ Takes(t, m) /\ owner[m] # t /\ value[m] = 0
      /\ owner' = owner /\ original_priority' = original_priority
  BY DEF TakeForever, TakeTimed, Block, Takes
<1>2. /\ KernelOK(w) /\ w.stat = [k.stat EXCEPT ![t] = "SUSPEND"]
      /\ \A x \in Thread \ {owner[m]} : w.prio[x] = k.prio[x]
      /\ \A x \in Object : ToSet(w.waitq[x]) =
           IF x = m THEN ToSet(k.waitq[x]) \cup {t} ELSE ToSet(k.waitq[x])
  BY <1>1, SuspendedFacts
<1>3. k'.prio = w.prio /\ k'.waitq = w.waitq
  <2>1. CASE TakeForever(t, m)
    BY <2>1 DEF TakeForever, Block
  <2>2. ASSUME NEW time \in WaitTimes, TakeTimed(t, m, time)
        PROVE  k'.prio = w.prio /\ k'.waitq = w.waitq
    <3> DEFINE u == rt_timer_start(w, t, time)
    <3>1. k' = u
      BY <2>2 DEF TakeTimed, Block
    <3> HIDE DEF w
    <3>2. w.stat[t] = "SUSPEND" /\ time \in Nat
      BY <1>2, Types, MutexAssumption
    <3>3. u.prio = w.prio /\ u.waitq = w.waitq
      BY <1>2, <3>2, TimerStartPreserves
    <3> HIDE DEF u
    <3>4. QED BY <3>1, <3>3
  <2>3. QED BY <2>1, <2>2
<1> HIDE DEF w
<1>4. \A n \in MutexObject : owner[n] # t
  BY <1>1, TakerOwnsNone DEF LendingInv
<1>5. OneAtATime' /\ OriginalIsOwn'
  BY <1>1 DEF LendingInv, OneAtATime, OriginalIsOwn
<1>6. WaitersOwnNone'
  <2> SUFFICES ASSUME NEW x \in MutexObject, NEW n \in MutexObject,
                      NEW u \in ToSet(k'.waitq[x])
               PROVE  owner[n] # u
    BY <1>1 DEF WaitersOwnNone
  <2>1. u \in ToSet(k.waitq[x]) \/ u = t
    BY <1>2, <1>3
  <2>2. QED BY <1>4, <2>1 DEF LendingInv, WaitersOwnNone
<1>7. PriorityRestored'
  BY <1>1, <1>2, <1>3 DEF LendingInv, PriorityRestored
<1>8. QED BY <1>5, <1>6, <1>7 DEF LendingInv

LEMMA ReleaseFreeLends ==
  ASSUME MutexInv, LendingInv, NEW t \in Thread, NEW m \in MutexObject,
         ReleaseFree(t, m)
  PROVE  LendingInv'
<1>1. /\ Calls(t) /\ owner[m] = t /\ k' = Restored(t, m) /\ t # RT_NULL
      /\ owner' = [owner EXCEPT ![m] = RT_NULL]
      /\ original_priority' = [original_priority EXCEPT ![m] = None]
  BY MutexAssumption DEF ReleaseFree
<1>2. /\ k'.waitq = k.waitq
      /\ \A u \in Thread : k'.prio[u] = IF u = t THEN original_priority[m] ELSE k.prio[u]
  <2> DEFINE w == Restored(t, m)
  <2>1. /\ w.waitq = k.waitq
        /\ \A u \in Thread : w.prio[u] = IF u = t THEN original_priority[m] ELSE k.prio[u]
    BY <1>1, RestoredFacts
  <2>2. k' = w
    BY <1>1
  <2> HIDE DEF w
  <2>3. QED BY <2>1, <2>2
<1>3. \A x \in MutexObject :
        /\ owner'[x] = IF x = m THEN RT_NULL ELSE owner[x]
        /\ original_priority'[x] = IF x = m THEN None ELSE original_priority[x]
  BY <1>1, Types
<1>4. original_priority[m] = init_prio[t]
  BY <1>1 DEF LendingInv, OriginalIsOwn
<1>5. OneAtATime' /\ OriginalIsOwn'
  BY <1>3 DEF LendingInv, OneAtATime, OriginalIsOwn
<1>6. WaitersOwnNone'
  <2>1. \A x \in MutexObject : RT_NULL \notin ToSet(k.waitq[x])
    BY Queued, MutexAssumption
  <2>2. QED BY <1>2, <1>3, <2>1 DEF LendingInv, WaitersOwnNone
<1>7. PriorityRestored'
  BY <1>1, <1>2, <1>3, <1>4 DEF LendingInv, PriorityRestored
<1>8. QED BY <1>5, <1>6, <1>7 DEF LendingInv

\* The new owner owned nothing while it waited, so that its priority is its own.
LEMMA HandOverLends ==
  ASSUME MutexInv, LendingInv, NEW t \in Thread, NEW m \in MutexObject,
         HandOver(t, m)
  PROVE  LendingInv'
<1> DEFINE u == Head(k.waitq[m])
<1>1. /\ Calls(t) /\ owner[m] = t
      /\ owner' = [owner EXCEPT ![m] = u]
      /\ original_priority' = [original_priority EXCEPT ![m] = k.prio[u]]
  BY DEF HandOver
<1>2. /\ u \in Thread /\ u \in ToSet(k.waitq[m]) /\ u # t
      /\ KernelOK(k') /\ k'.stat = [k.stat EXCEPT ![u] = "READY"]
      /\ \A x \in Thread : k'.prio[x] = IF x = t THEN original_priority[m] ELSE k.prio[x]
      /\ \A x \in MutexObject : ToSet(k'.waitq[x]) = ToSet(k.waitq[x]) \ {u}
  BY HandOverFacts
<1> HIDE DEF u
<1>3. /\ \A n \in MutexObject : owner[n] # u
      /\ k.prio[u] = init_prio[u] /\ original_priority[m] = init_prio[t]
      /\ u # RT_NULL /\ t # RT_NULL
  <2>1. \A n \in MutexObject : owner[n] # u
    BY <1>2 DEF LendingInv, WaitersOwnNone
  <2>2. k.prio[u] = init_prio[u]
    BY <1>2, <2>1 DEF LendingInv, PriorityRestored
  <2>3. u # RT_NULL /\ t # RT_NULL
    BY <1>2, MutexAssumption
  <2>4. original_priority[m] = init_prio[t]
    BY <1>1, <2>3 DEF LendingInv, OriginalIsOwn
  <2>5. QED BY <2>1, <2>2, <2>3, <2>4
<1>4. \A x \in MutexObject :
        /\ owner'[x] = IF x = m THEN u ELSE owner[x]
        /\ original_priority'[x] = IF x = m THEN k.prio[u] ELSE original_priority[x]
  BY <1>1, Types
<1>5. OneAtATime' /\ OriginalIsOwn'
  BY <1>3, <1>4 DEF LendingInv, OneAtATime, OriginalIsOwn
<1>6. WaitersOwnNone'
  BY <1>2, <1>4 DEF LendingInv, WaitersOwnNone
<1>7. PriorityRestored'
  BY <1>1, <1>2, <1>3, <1>4 DEF LendingInv, PriorityRestored
<1>8. QED BY <1>5, <1>6, <1>7 DEF LendingInv

LEMMA LendingStep == MutexInv /\ LendingInv /\ [Next]_vars => LendingInv'
<1> SUFFICES ASSUME MutexInv, LendingInv, [Next]_vars PROVE LendingInv'
  OBVIOUS
<1>1. CASE Handler
  BY <1>1, HandlerLends
<1>2. ASSUME NEW t \in Thread, ThreadStep(t)
      PROVE  LendingInv'
  <2>1. CASE (Schedule(t) \/ SleepReturn(t)) /\ UNCHANGED mutexes
    BY <2>1, KernelCallLends
  <2>2. CASE TakeReturn(t)
    <3>1. call[t] \in MutexObject
      BY Types
    <3>2. QED BY <2>2, <3>1, QuietCallLends
  <2>3. QED BY <1>2, <2>1, <2>2 DEF ThreadStep
<1>3. ASSUME NEW t \in Thread, ThreadCall(t)
      PROVE  LendingInv'
  <2>1. CASE /\ rt_thread_yield(t) \/ \E time \in SleepTimes : rt_thread_sleep(t, time)
             /\ UNCHANGED mutexes
    BY <2>1, KernelCallLends
  <2>2. ASSUME NEW m \in MutexObject,
               \/ TakeAgain(t, m) \/ TakeFree(t, m) \/ TakeNoWait(t, m) \/ TakeForever(t, m)
               \/ \E time \in WaitTimes : TakeTimed(t, m, time)
               \/ ReleaseOther(t, m) \/ ReleaseInner(t, m) \/ ReleaseFree(t, m)
               \/ HandOver(t, m)
        PROVE  LendingInv'
    BY <2>2, QuietCallLends, TakeFreeLends, BlockedLends, ReleaseFreeLends, HandOverLends
  <2>3. QED BY <1>3, <2>1, <2>2 DEF ThreadCall
<1>4. CASE UNCHANGED vars
  BY <1>4, LendingKept DEF vars
<1>5. QED BY <1>1, <1>2, <1>3, <1>4 DEF Next

LEMMA LendingInit == Init /\ ~ Nested => LendingInv
<1> SUFFICES ASSUME Init, ~ Nested PROVE LendingInv
  OBVIOUS
<1>1. /\ k.prio = init_prio /\ k.waitq = [o \in Object |-> << >>]
      /\ owner = [m \in MutexObject |-> RT_NULL]
  BY StartedFields DEF Init, CpuInit
<1>2. \A m \in MutexObject : ToSet(k.waitq[m]) = {}
  <2>1. << >> \in Seq(Thread)
    OBVIOUS
  <2>2. QED BY <1>1, <2>1, EmptyThreadList
<1>3. QED BY <1>1, <1>2 DEF LendingInv, OneAtATime, WaitersOwnNone, OriginalIsOwn,
                            PriorityRestored

\* A thread that owns no mutex has the priority it was created with, if no
\* thread takes a mutex while it owns another one; MutexNested shows that it
\* does not hold for threads that do (rt_mutex_release).
THEOREM PriorityIsRestored == Spec /\ ~ Nested => []PriorityRestored
<1>1. Init /\ ~ Nested => LendingInv
  BY LendingInit
<1>2. MutexInv /\ LendingInv /\ [Next]_vars => LendingInv'
  BY LendingStep
<1>3. LendingInv => PriorityRestored
  BY DEF LendingInv
<1>4. QED BY <1>1, <1>2, <1>3, Invariance, PTL DEF Spec
-----------------------------------------------------------------------------
(***************************************************************************)
(* Priority inheritance.  The owner of a mutex is as urgent as every       *)
(* waiter, since a waiter lends it its priority and a PRIO queue hands the *)
(* mutex to the most urgent waiter; and while somebody waits the most      *)
(* urgent ready thread runs.  The second part takes a single mutex: a      *)
(* release restores the priority of the releaser without calling           *)
(* rt_schedule when nobody waits for the mutex released.                   *)
(***************************************************************************)
Lent ==
  \A m \in MutexObject :
    /\ \A w \in ToSet(k.waitq[m]) :
         owner[m] \in Thread /\ k.prio[owner[m]] <= init_prio[w]
    /\ Sorted(k.waitq[m], init_prio)

HeadWhenAwaited ==
  (\E m \in MutexObject : k.waitq[m] # << >>) /\ pc[k.current] # "sched" => AtHead(k)

SingleUrgencyMutex ==
  /\ \A m, n \in MutexObject : m = n
  /\ \A m \in MutexObject : flag[m] = "PRIO"

InheritInv == MutexInv /\ LendingInv /\ Lent /\ HeadWhenAwaited

LEMMA InheritTyped ==
  ASSUME MutexInv
  PROVE  /\ KernelOK(k) /\ k \in KernelState /\ Consistent(k)
         /\ k.prio \in [Thread -> Priority] /\ k.prio \in [Thread -> Int]
         /\ init_prio \in [Thread -> Priority] /\ init_prio \in [Thread -> Int]
         /\ k.waitq \in [MutexObject -> Seq(Thread)]
         /\ \A m \in MutexObject : IsInjective(k.waitq[m])
<1>1. KernelOK(k) /\ k \in KernelState /\ Consistent(k)
  BY DEF MutexInv, TypeOK, CpuTypeOK, KernelConsistent, KernelOK
<1>2. k.prio \in [Thread -> Priority] /\ k.waitq \in [MutexObject -> Seq(Thread)]
  BY <1>1, Fields
<1>3. init_prio \in [Thread -> Priority]
  BY CpuAssumption
<1>4. \A p \in Priority : p \in Int
  BY KernelAssumption DEF Priority
<1>5. k.prio \in [Thread -> Int] /\ init_prio \in [Thread -> Int]
  BY <1>2, <1>3, <1>4
<1>6. \A m \in MutexObject : IsInjective(k.waitq[m])
  BY <1>1 DEF Consistent, WaitListsHoldSuspended
<1>7. QED BY <1>1, <1>2, <1>3, <1>5, <1>6

\* The current thread is as urgent as every ready one.
LEMMA HeadIsUrgent ==
  ASSUME NEW r, KernelOK(r), AtHead(r), NEW u \in Thread, r.stat[u] = "READY"
  PROVE  r.prio[r.current] <= r.prio[u]
<1> DEFINE q == highest_ready_priority(r)
<1>0. r \in KernelState /\ Consistent(r)
  BY DEF KernelOK
<1>1. /\ r.table \in [Priority -> Seq(Thread)] /\ r.group \in SUBSET Priority
      /\ r.prio \in [Thread -> Priority] /\ r.group \in SUBSET Nat
      /\ r.group = {p \in Priority : r.table[p] # << >>}
  <2>1. \A p \in Priority : p \in Nat
    BY KernelAssumption DEF Priority
  <2>2. QED BY <1>0, <2>1, Fields DEF Consistent, GroupMatchesTable
<1>2. u \in ToSet(r.table[r.prio[u]])
  BY <1>0, <1>1, ConsistentLists
<1>3. r.prio[u] \in r.group
  <2>1. r.table[r.prio[u]] # << >>
    BY <1>1, <1>2, EmptyThreadList
  <2>2. QED BY <1>1, <2>1
<1>4. q \in r.group /\ q <= r.prio[u]
  BY <1>1, <1>3, MinProperties DEF highest_ready_priority
<1>5. r.current = Head(r.table[q])
  BY DEF AtHead
<1> HIDE DEF q
<1>6. r.current \in ToSet(r.table[q]) /\ r.current \in Thread
  <2>1. IsInjective(r.table[q]) /\ r.table[q] # << >> /\ r.table[q] \in Seq(Thread)
    BY <1>0, <1>1, <1>4 DEF Consistent, ReadyListsMatchStat
  <2>2. QED BY <1>5, <2>1, HeadOfList
<1>7. r.prio[r.current] = q
  BY <1>0, <1>1, <1>4, <1>6, ConsistentLists
<1>8. QED BY <1>4, <1>7

\* What unlinking a waiter leaves of a waiting list.
LEMMA ListLeft ==
  ASSUME MutexInv, NEW m \in MutexObject, NEW u
  PROVE  /\ RemoveFirst(k.waitq[m], u) \in Seq(Thread)
         /\ ToSet(RemoveFirst(k.waitq[m], u)) = ToSet(k.waitq[m]) \ {u}
         /\ k.waitq[m] = << >> => RemoveFirst(k.waitq[m], u) = << >>
         /\ Sorted(k.waitq[m], init_prio) => Sorted(RemoveFirst(k.waitq[m], u), init_prio)
<1>1. k.waitq[m] \in Seq(Thread) /\ IsInjective(k.waitq[m])
  BY InheritTyped
<1>2. /\ RemoveFirst(k.waitq[m], u) \in Seq(Thread)
      /\ ToSet(RemoveFirst(k.waitq[m], u)) = ToSet(k.waitq[m]) \ {u}
      /\ Sorted(k.waitq[m], init_prio) => Sorted(RemoveFirst(k.waitq[m], u), init_prio)
  BY <1>1, RemoveFirstProperties, SortedRemove
<1>3. ASSUME k.waitq[m] = << >> PROVE RemoveFirst(k.waitq[m], u) = << >>
  <2>1. ToSet(k.waitq[m]) = {}
    BY <1>1, <1>3, EmptyThreadList
  <2>2. QED BY <1>2, <2>1, EmptyThreadList
<1>4. QED BY <1>2, <1>3

\* A step that lends nothing and takes at most one thread off the lists.
UnlinksOne == \E u : \A m \in MutexObject : k'.waitq[m] = RemoveFirst(k.waitq[m], u)

LEMMA LentKept ==
  ASSUME InheritInv, k'.prio = k.prio, owner' = owner,
         k'.waitq = k.waitq \/ UnlinksOne
  PROVE  Lent'
<1> SUFFICES ASSUME NEW m \in MutexObject
             PROVE  /\ \A w \in ToSet(k'.waitq[m]) :
                         owner[m] \in Thread /\ k.prio[owner[m]] <= init_prio[w]
                    /\ Sorted(k'.waitq[m], init_prio)
  BY DEF Lent
<1>1. /\ \A w \in ToSet(k.waitq[m]) :
           owner[m] \in Thread /\ k.prio[owner[m]] <= init_prio[w]
      /\ Sorted(k.waitq[m], init_prio)
  BY DEF InheritInv, Lent
<1>2. CASE k'.waitq = k.waitq
  BY <1>1, <1>2
<1>3. CASE UnlinksOne
  <2>1. PICK u : k'.waitq[m] = RemoveFirst(k.waitq[m], u)
    BY <1>3 DEF UnlinksOne
  <2>2. /\ ToSet(k'.waitq[m]) = ToSet(k.waitq[m]) \ {u}
        /\ Sorted(k.waitq[m], init_prio) => Sorted(k'.waitq[m], init_prio)
    BY <2>1, ListLeft DEF InheritInv
  <2>3. QED BY <1>1, <2>2
<1>4. QED BY <1>2, <1>3

\* A step of the running thread after which it is about to call rt_schedule.
LEMMA HeadBeforeSchedule ==
  ASSUME MutexInv, NEW t \in Thread, k'.current = t, ThenSchedule(t, "run")
           \/ ThenSchedule(t, "take") \/ ThenSchedule(t, "slept")
  PROVE  HeadWhenAwaited'
<1>1. pc'[t] = "sched"
  BY Types DEF ThenSchedule
<1>2. QED BY <1>1 DEF HeadWhenAwaited

\* A step of the running thread that leaves the ready lists alone.
LEMMA HeadKept ==
  ASSUME InheritInv, pc[k.current] # "sched", k'.waitq = k.waitq,
         k'.table = k.table, k'.group = k.group, k'.current = k.current
  PROVE  HeadWhenAwaited'
<1>1. AtHead(k) => AtHead(k')
  BY DEF AtHead, highest_ready_priority
<1>2. QED BY <1>1 DEF InheritInv, HeadWhenAwaited

LEMMA HandlerInherits ==
  ASSUME InheritInv, Handler
  PROVE  Lent' /\ HeadWhenAwaited'
<1>1. /\ KernelOK(k) /\ owner' = owner /\ pc' = pc /\ k.lock = 0
  BY InheritTyped DEF InheritInv, MutexInv, Handler, mutexes, SysTick_Handler, rt_timer_check
<1>2. CASE SysTick_Handler
  <2>1. PICK v : v = tick_increase(k)
    OBVIOUS
  <2>2. k' = v
    BY <1>2, <2>1 DEF SysTick_Handler
  <2>3. /\ v.prio = k.prio /\ v.waitq = k.waitq
        /\ v.current # k.current => AtHead(v)
        /\ AtHead(k) => AtHead(v)
    BY <1>1, <2>1, TickPreserves, TickFrame
  <2>4. Lent'
    BY <1>1, <2>2, <2>3, LentKept
  <2>5. HeadWhenAwaited'
    BY <1>1, <2>2, <2>3 DEF InheritInv, HeadWhenAwaited
  <2>6. QED BY <2>4, <2>5
<1>3. CASE rt_timer_check /\ Due(k)
  <2>1. PICK v : v = timer_expire(k)
    OBVIOUS
  <2>2. k' = v /\ k.timers # << >>
    BY <1>3, <2>1 DEF rt_timer_check, Due
  <2>3. v.prio = k.prio /\ AtHead(v)
    BY <1>1, <2>1, <2>2, ExpirePreserves
  <2>4. Unlinked(k, Head(k.timers), v)
    BY <1>1, <2>1, <2>2, ExpireFrame
  <2>5. UnlinksOne
    BY <2>2, <2>4 DEF UnlinksOne, Unlinked
  <2>6. Lent'
    BY <1>1, <2>2, <2>3, <2>5, LentKept
  <2>7. QED BY <2>2, <2>3, <2>6 DEF HeadWhenAwaited
<1>4. CASE rt_timer_check /\ ~ Due(k)
  <2>1. k' = k
    BY <1>4 DEF rt_timer_check
  <2>2. QED BY <1>1, <2>1, LentKept DEF InheritInv, HeadWhenAwaited
<1>5. QED BY <1>2, <1>3, <1>4 DEF Handler

LEMMA KernelCallInherits ==
  ASSUME InheritInv, NEW t \in Thread, UNCHANGED mutexes,
         \/ Schedule(t) \/ SleepReturn(t) \/ rt_thread_yield(t)
         \/ \E time \in SleepTimes : rt_thread_sleep(t, time)
  PROVE  Lent' /\ HeadWhenAwaited'
<1>1. owner' = owner /\ KernelOK(k) /\ k \in KernelState /\ k.lock = 0 /\ MutexInv
  BY InheritTyped DEF mutexes, InheritInv, MutexInv
<1>2. CASE Schedule(t)
  <2>1. k' = rt_schedule(k)
    BY <1>2 DEF Schedule
  <2>2. k'.prio = k.prio /\ k'.waitq = k.waitq /\ AtHead(k')
    BY <1>1, <2>1, SchedulePreserves
  <2>3. QED BY <1>1, <2>2, LentKept DEF HeadWhenAwaited
<1>3. CASE SleepReturn(t)
  <2>1. pc[k.current] # "sched"
    BY <1>3 DEF SleepReturn, Running
  <2>2. /\ k'.prio = k.prio /\ k'.waitq = k.waitq /\ k'.table = k.table
        /\ k'.group = k.group /\ k'.current = k.current
    BY <1>1, <1>3 DEF SleepReturn, KernelState
  <2>3. QED BY <1>1, <2>1, <2>2, LentKept, HeadKept
<1>4. CASE rt_thread_yield(t)
  <2>1. k' = yield_rotate(k) /\ may_yield(k) /\ ThenSchedule(t, "run") /\ k.current = t
    BY <1>4 DEF rt_thread_yield, Running
  <2>2. k'.prio = k.prio /\ k'.waitq = k.waitq /\ k'.current = k.current
    BY <1>1, <2>1, YieldPreserves, YieldFrame
  <2>3. QED BY <1>1, <2>1, <2>2, LentKept, HeadBeforeSchedule
<1>5. ASSUME NEW time \in SleepTimes, rt_thread_sleep(t, time)
      PROVE  Lent' /\ HeadWhenAwaited'
  <2>1. PICK u : u = rt_thread_suspend(k, t)
    OBVIOUS
  <2>2. /\ k' = rt_timer_start(u, t, time) /\ t # Idle /\ k.stat[t] = "READY"
        /\ k.current = t /\ ThenSchedule(t, "slept")
    BY <1>1, <1>5, <2>1, Runner DEF rt_thread_sleep
  <2>3. /\ KernelOK(u) /\ u.stat = [k.stat EXCEPT ![t] = "SUSPEND"]
        /\ u.prio = k.prio /\ u.current = k.current
    BY <1>1, <2>1, <2>2, SuspendPreserves
  <2>4. u.waitq = k.waitq
    BY <1>1, <2>1, <2>2, SuspendFrame
  <2>5. u.stat[t] = "SUSPEND" /\ time \in Nat
    BY <1>1, <2>3, Types, MutexAssumption
  <2>6. k'.prio = u.prio /\ k'.waitq = u.waitq /\ k'.current = u.current
    BY <2>2, <2>3, <2>5, TimerStartPreserves
  <2>7. k'.prio = k.prio /\ k'.waitq = k.waitq /\ k'.current = t
    BY <2>2, <2>3, <2>4, <2>6
  <2>8. QED BY <1>1, <2>2, <2>7, LentKept, HeadBeforeSchedule
<1>6. QED BY <1>2, <1>3, <1>4, <1>5

\* The calls that change no owner and lend nothing.
LEMMA QuietCallInherits ==
  ASSUME InheritInv, NEW t \in Thread, NEW m \in MutexObject,
         \/ TakeReturn(t) \/ TakeAgain(t, m) \/ TakeNoWait(t, m)
         \/ ReleaseOther(t, m) \/ ReleaseInner(t, m)
  PROVE  Lent' /\ HeadWhenAwaited'
<1>1. owner' = owner /\ k \in KernelState
  BY InheritTyped
     DEF InheritInv, TakeReturn, TakeAgain, TakeNoWait, ReleaseOther, ReleaseInner, mutexes
<1>2. k' = k \/ \E e \in Error : k' = [k EXCEPT !.error[t] = e]
  BY DEF TakeReturn, TakeAgain, TakeNoWait, ReleaseOther, ReleaseInner, ClearError,
         cpu, Error
<1>3. pc[k.current] # "sched"
  BY DEF TakeReturn, TakeAgain, TakeNoWait, ReleaseOther, ReleaseInner, Takes, Calls, Running
<1>4. /\ k'.prio = k.prio /\ k'.waitq = k.waitq /\ k'.table = k.table
      /\ k'.group = k.group /\ k'.current = k.current
  BY <1>1, <1>2 DEF KernelState
<1>5. QED BY <1>1, <1>3, <1>4, LentKept, HeadKept

LEMMA TakeFreeInherits ==
  ASSUME InheritInv, NEW t \in Thread, NEW m \in MutexObject, TakeFree(t, m)
  PROVE  Lent' /\ HeadWhenAwaited'
<1>1. /\ owner' = [owner EXCEPT ![m] = t] /\ pc' = pc /\ pc[k.current] # "sched"
      /\ k' = [k EXCEPT !.error[t] = "EOK"] /\ value[m] > 0
  BY DEF TakeFree, Takes, Calls, Running, ClearError
<1>2. /\ k'.prio = k.prio /\ k'.waitq = k.waitq /\ k'.table = k.table
      /\ k'.group = k.group /\ k'.current = k.current /\ MutexInv
  BY <1>1, InheritTyped DEF KernelState, InheritInv
<1>3. k.waitq[m] = << >>
  <2>1. value[m] = 1
    BY <1>1, <1>2, Types
  <2>2. QED BY <1>2, <2>1 DEF MutexInv, OwnershipAgrees
<1>4. Lent'
  <2> SUFFICES ASSUME NEW n \in MutexObject
               PROVE  /\ \A w \in ToSet(k.waitq[n]) :
                           owner'[n] \in Thread /\ k.prio[owner'[n]] <= init_prio[w]
                      /\ Sorted(k.waitq[n], init_prio)
    BY <1>2 DEF Lent
  <2>1. CASE n = m
    <3>1. ToSet(k.waitq[n]) = {}
      BY <1>2, <1>3, <2>1, InheritTyped, EmptyThreadList
    <3>2. QED BY <3>1 DEF InheritInv, Lent
  <2>2. CASE n # m
    <3>1. owner'[n] = owner[n]
      BY <1>1, <1>2, <2>2, Types
    <3>2. QED BY <3>1 DEF InheritInv, Lent
  <2>3. QED BY <2>1, <2>2
<1>5. HeadWhenAwaited'
  BY <1>1, <1>2, HeadKept
<1>6. QED BY <1>4, <1>5

\* The owner is as urgent as the thread that is queued, and as it was.
LEMMA SuspendedLends ==
  ASSUME MutexInv, NEW t \in Thread, NEW m \in MutexObject, Calls(t),
         owner[m] # t, value[m] = 0
  PROVE  LET w == Suspended(t, m)
         IN  /\ owner[m] \in Thread
             /\ w.prio[owner[m]] <= k.prio[owner[m]] /\ w.prio[owner[m]] <= k.prio[t]
             /\ w.waitq = [k.waitq EXCEPT ![m] = QueueWith(w.prio, k.waitq[m], flag[m], t)]
<1>0. PICK o : o = owner[m]
  OBVIOUS
<1> DEFINE r == ClearError(t)
           b == change_priority(r, o, k.prio[t])
           u == IF k.prio[t] < k.prio[o] THEN b ELSE r
           w == rt_ipc_list_suspend(u, m, t, flag[m])
<1>1. KernelOK(k) /\ k.stat[t] = "READY" /\ t # Idle
  BY Caller
<1>2. o \in Thread /\ k.prio[t] \in Priority /\ k.prio \in [Thread -> Int]
  <2>1. value[m] # 1
    OBVIOUS
  <2>2. o # RT_NULL
    BY <1>0, <2>1 DEF MutexInv, OwnershipAgrees
  <2>3. QED BY <1>0, <2>2, Types, InheritTyped
<1>3. KernelOK(r) /\ r.stat = k.stat /\ r.waitq = k.waitq /\ r.prio = k.prio
  BY <1>1, SetError DEF Error, ClearError
<1>4. Suspended(t, m) = w
  BY <1>0 DEF Suspended
<1> HIDE DEF r
<1>5. /\ KernelOK(b) /\ b.stat = r.stat /\ b.waitq = r.waitq
      /\ b.prio = [r.prio EXCEPT ![o] = k.prio[t]]
  BY <1>2, <1>3, ChangePriorityPreserves
<1> HIDE DEF b
<1>6. KernelOK(u) /\ u.stat = k.stat /\ u.waitq = k.waitq
  BY <1>3, <1>5
<1>7. u.prio[o] <= k.prio[o] /\ u.prio[o] <= k.prio[t]
  <2>1. CASE k.prio[t] < k.prio[o]
    <3>1. u = b /\ b.prio[o] = k.prio[t] /\ k.prio[t] \in Int /\ k.prio[o] \in Int
      BY <1>2, <1>3, <1>5, <2>1
    <3>2. QED BY <2>1, <3>1
  <2>2. CASE ~ (k.prio[t] < k.prio[o])
    <3>1. u = r /\ k.prio[t] \in Int /\ k.prio[o] \in Int
      BY <1>2, <2>2
    <3>2. QED BY <1>3, <2>2, <3>1
  <2>3. QED BY <2>1, <2>2
<1> HIDE DEF u
<1>8. u.stat[t] = "READY"
  BY <1>1, <1>6
<1>9. w.prio = u.prio
  <2>1. QueuedOn(u, m, t, w)
    BY <1>1, <1>6, <1>8, IpcSuspendPreserves
  <2>2. QED BY <2>1 DEF QueuedOn
<1>10. w.waitq = [u.waitq EXCEPT ![m] = QueueWith(u.prio, u.waitq[m], flag[m], t)]
  BY <1>1, <1>6, <1>8, IpcSuspendFrame
<1> HIDE DEF w
<1>11. /\ w.prio[o] <= k.prio[o] /\ w.prio[o] <= k.prio[t]
       /\ w.waitq = [k.waitq EXCEPT ![m] = QueueWith(w.prio, k.waitq[m], flag[m], t)]
  BY <1>6, <1>7, <1>9, <1>10
<1>12. QED BY <1>0, <1>2, <1>4, <1>11

\* A PRIO list in the order of the priorities stays in it.
LEMMA QueuedInOrder ==
  ASSUME NEW q \in Seq(Thread), Sorted(q, init_prio), init_prio \in [Thread -> Int],
         NEW t \in Thread, NEW p, p[t] = init_prio[t],
         \A u \in ToSet(q) : p[u] = init_prio[u]
  PROVE  Sorted(QueueWith(p, q, "PRIO", t), init_prio)
<1> DEFINE n == PlaceByPriority(p, q, t)
<1>1. Above(q, p, p[t]) = Above(q, init_prio, init_prio[t])
  <2>1. \A i \in 1 .. Len(q) : p[q[i]] = init_prio[q[i]]
    BY MembersOf
  <2>2. QED BY <2>1 DEF Above
<1>2. n = FirstOf(q, Above(q, init_prio, init_prio[t]))
  BY <1>1 DEF PlaceByPriority
<1>3. init_prio[t] \in Int
  OBVIOUS
<1> HIDE DEF n
<1>4. PartsAt(n, q, init_prio, init_prio[t])
  BY <1>2, <1>3, SortedPlace
<1>5. Sorted(InsertAt(q, n, t), init_prio)
  BY <1>4, SortedInsert
<1>6. QED BY <1>5 DEF QueueWith, n

LEMMA BlockedInherits ==
  ASSUME InheritInv, \A n \in MutexObject : flag[n] = "PRIO",
         NEW t \in Thread, NEW m \in MutexObject,
         \/ TakeForever(t, m)
         \/ \E time \in WaitTimes : TakeTimed(t, m, time)
  PROVE  Lent' /\ HeadWhenAwaited'
<1>0. MutexInv
  BY DEF InheritInv
<1>1. PICK w : w = Suspended(t, m)
  OBVIOUS
<1>2. /\ Calls(t) /\ Takes(t, m) /\ owner[m] # t /\ value[m] = 0 /\ owner' = owner
      /\ ThenSchedule(t, "take") /\ k.current = t
  BY DEF TakeForever, TakeTimed, Block, Takes, Calls, Running
<1>a. k' = w \/ \E time \in WaitTimes : k' = rt_timer_start(w, t, time)
  BY <1>1 DEF TakeForever, TakeTimed, Block
<1>3. /\ KernelOK(w) /\ w.stat = [k.stat EXCEPT ![t] = "SUSPEND"]
      /\ \A x \in Thread \ {owner[m]} : w.prio[x] = k.prio[x]
      /\ \A x \in Object : ToSet(w.waitq[x]) =
           IF x = m THEN ToSet(k.waitq[x]) \cup {t} ELSE ToSet(k.waitq[x])
      /\ w.current = k.current
  <2>1. LET v == Suspended(t, m)
        IN  /\ KernelOK(v) /\ v.stat = [k.stat EXCEPT ![t] = "SUSPEND"]
            /\ \A x \in Thread \ {owner[m]} : v.prio[x] = k.prio[x]
            /\ \A x \in Object : ToSet(v.waitq[x]) =
                 IF x = m THEN ToSet(k.waitq[x]) \cup {t} ELSE ToSet(k.waitq[x])
            /\ v.current = k.current
    BY <1>0, <1>2, SuspendedFacts
  <2>2. QED BY <1>1, <2>1
<1>4. /\ owner[m] \in Thread
      /\ w.prio[owner[m]] <= k.prio[owner[m]] /\ w.prio[owner[m]] <= k.prio[t]
      /\ w.waitq = [k.waitq EXCEPT ![m] = QueueWith(w.prio, k.waitq[m], flag[m], t)]
  BY <1>0, <1>1, <1>2, SuspendedLends
<1>5. k'.prio = w.prio /\ k'.waitq = w.waitq /\ k'.current = t
  <2>1. w.stat[t] = "SUSPEND" /\ \A time \in WaitTimes : time \in Nat
    BY <1>0, <1>3, Types, MutexAssumption
  <2>2. ASSUME NEW time \in WaitTimes, k' = rt_timer_start(w, t, time)
        PROVE  k'.prio = w.prio /\ k'.waitq = w.waitq /\ k'.current = t
    <3>1. KernelOK(w) /\ time \in Nat
      BY <1>3, <2>1
    <3>2. LET v == rt_timer_start(w, t, time)
          IN  v.prio = w.prio /\ v.waitq = w.waitq /\ v.current = w.current
      BY <2>1, <3>1, TimerStartPreserves
    <3>3. QED BY <1>2, <1>3, <2>2, <3>2
  <2>3. QED BY <1>2, <1>3, <1>a, <2>2
<1>6. /\ \A n \in MutexObject : owner[n] # t
      /\ k.prio[t] = init_prio[t]
  <2>1. \A n \in MutexObject : owner[n] # t
    BY <1>2, TakerOwnsNone DEF InheritInv, LendingInv
  <2>2. QED BY <2>1 DEF InheritInv, LendingInv, PriorityRestored
<1>7. \A n \in MutexObject : \A u \in ToSet(k.waitq[n]) :
        u \in Thread /\ u # owner[m] /\ k.prio[u] = init_prio[u] /\ w.prio[u] = init_prio[u]
  <2> SUFFICES ASSUME NEW n \in MutexObject, NEW u \in ToSet(k.waitq[n])
               PROVE  /\ u \in Thread /\ u # owner[m]
                      /\ k.prio[u] = init_prio[u] /\ w.prio[u] = init_prio[u]
    OBVIOUS
  <2>1. u \in Thread
    BY <1>0, Queued
  <2>2. \A x \in MutexObject : owner[x] # u
    BY DEF InheritInv, LendingInv, WaitersOwnNone
  <2>3. k.prio[u] = init_prio[u]
    BY <2>1, <2>2 DEF InheritInv, LendingInv, PriorityRestored
  <2>4. QED BY <1>3, <2>1, <2>2, <2>3
<1>8. /\ init_prio \in [Thread -> Int] /\ k.prio \in [Thread -> Int] /\ w.prio \in [Thread -> Int]
      /\ k.waitq \in [MutexObject -> Seq(Thread)]
  <2>1. w.prio \in [Thread -> Priority]
    BY <1>3, Fields DEF KernelOK
  <2>2. \A p \in Priority : p \in Int
    BY KernelAssumption DEF Priority
  <2>3. QED BY <1>0, <2>1, <2>2, InheritTyped
<1>9. \A n \in MutexObject : Sorted(k'.waitq[n], init_prio)
  <2> SUFFICES ASSUME NEW n \in MutexObject PROVE Sorted(k'.waitq[n], init_prio)
    OBVIOUS
  <2>1. Sorted(k.waitq[n], init_prio)
    BY DEF InheritInv, Lent
  <2>2. CASE n # m
    BY <1>4, <1>5, <1>8, <2>1, <2>2
  <2>3. CASE n = m
    <3>1. k'.waitq[n] = QueueWith(w.prio, k.waitq[n], "PRIO", t)
      BY <1>4, <1>5, <1>8, <2>3
    <3>2. w.prio[t] = init_prio[t]
      BY <1>2, <1>3, <1>6
    <3>3. \A u \in ToSet(k.waitq[n]) : w.prio[u] = init_prio[u]
      BY <1>7
    <3>4. k.waitq[n] \in Seq(Thread)
      BY <1>8
    <3>5. QED BY <1>8, <2>1, <3>1, <3>2, <3>3, <3>4, QueuedInOrder
  <2>4. QED BY <2>2, <2>3
<1>10. ASSUME NEW n \in MutexObject, NEW x \in ToSet(k'.waitq[n])
       PROVE  owner[n] \in Thread /\ w.prio[owner[n]] <= init_prio[x]
  <2>1. \/ x \in ToSet(k.waitq[n])
        \/ x = t /\ n = m
    BY <1>3, <1>5, <1>10
  <2>2. CASE x \in ToSet(k.waitq[n])
    <3>1. owner[n] \in Thread /\ k.prio[owner[n]] <= init_prio[x]
      BY <2>2 DEF InheritInv, Lent
    <3>2. w.prio[owner[n]] <= k.prio[owner[n]]
      <4>1. CASE owner[n] = owner[m]
        BY <1>4, <4>1
      <4>2. CASE owner[n] # owner[m]
        <5>1. w.prio[owner[n]] = k.prio[owner[n]] /\ k.prio[owner[n]] \in Int
          BY <1>3, <1>8, <3>1, <4>2
        <5>2. QED BY <5>1
      <4>3. QED BY <4>1, <4>2
    <3>3. x \in Thread
      BY <1>7, <2>2
    <3>4. /\ w.prio[owner[n]] \in Int /\ k.prio[owner[n]] \in Int /\ init_prio[x] \in Int
      BY <1>8, <3>1, <3>3
    <3>5. QED BY <3>1, <3>2, <3>4
  <2>3. CASE x = t /\ n = m
    BY <1>4, <1>6, <2>3
  <2>4. QED BY <2>1, <2>2, <2>3
<1>11. Lent'
  BY <1>2, <1>5, <1>9, <1>10 DEF Lent
<1>12. HeadWhenAwaited'
  BY <1>0, <1>2, <1>5, HeadBeforeSchedule
<1>13. QED BY <1>11, <1>12

LEMMA ReleaseFreeInherits ==
  ASSUME InheritInv, \A n, x \in MutexObject : n = x,
         NEW t \in Thread, NEW m \in MutexObject, ReleaseFree(t, m)
  PROVE  Lent' /\ HeadWhenAwaited'
<1>1. k' = Restored(t, m) /\ k.waitq[m] = << >> /\ Calls(t) /\ owner[m] = t
  BY DEF ReleaseFree
<1>2. k'.waitq = k.waitq
  BY <1>1, RestoredFacts DEF InheritInv
<1>3. \A n \in MutexObject : k'.waitq[n] = << >> /\ ToSet(k'.waitq[n]) = {}
  <2>1. \A n \in MutexObject : k'.waitq[n] = << >>
    BY <1>1, <1>2
  <2>2. << >> \in Seq(Thread)
    OBVIOUS
  <2>3. QED BY <2>1, <2>2, EmptyThreadList
<1>4. Lent'
  BY <1>3 DEF Lent, Sorted
<1>5. HeadWhenAwaited'
  BY <1>3 DEF HeadWhenAwaited
<1>6. QED BY <1>4, <1>5

\* The first of a PRIO list is as urgent as the others.
LEMMA HandOverInherits ==
  ASSUME InheritInv, NEW t \in Thread, NEW m \in MutexObject, HandOver(t, m)
  PROVE  Lent' /\ HeadWhenAwaited'
<1>0. MutexInv
  BY DEF InheritInv
<1>1. PICK u : u = Head(k.waitq[m])
  OBVIOUS
<1>2. /\ Calls(t) /\ owner[m] = t /\ k.waitq[m] # << >> /\ ThenSchedule(t, "run")
      /\ owner' = [owner EXCEPT ![m] = u]
      /\ k' = rt_ipc_list_resume(Restored(t, m), m)
  BY <1>1 DEF HandOver
<1>3. /\ u \in Thread /\ u \in ToSet(k.waitq[m]) /\ u # t
      /\ \A x \in Thread : k'.prio[x] = IF x = t THEN original_priority[m] ELSE k.prio[x]
      /\ k'.current = t
  BY <1>0, <1>1, HandOverFacts, ZenonT(60)
<1>4. \A n \in MutexObject : k'.waitq[n] = RemoveFirst(k.waitq[n], u)
  <2>1. PICK w : w = Restored(t, m)
    OBVIOUS
  <2>2. KernelOK(w) /\ w.stat = k.stat /\ w.waitq = k.waitq
    BY <1>0, <1>2, <2>1, RestoredFacts
  <2>3. k' = rt_thread_resume(w, u)
    BY <1>1, <1>2, <2>1, <2>2 DEF rt_ipc_list_resume
  <2>4. w.stat[u] = "SUSPEND"
    BY <1>0, <1>3, <2>2, Queued
  <2>5. Unlinked(w, u, k')
    BY <1>3, <2>2, <2>3, <2>4, ResumeFrame
  <2>6. QED BY <2>2, <2>5 DEF Unlinked
<1>5. /\ init_prio \in [Thread -> Int] /\ k.prio \in [Thread -> Int]
      /\ k.waitq \in [MutexObject -> Seq(Thread)] /\ owner \in [MutexObject -> Thread \cup {RT_NULL}]
  BY <1>0, InheritTyped, Types
<1>6. k.prio[u] = init_prio[u]
  <2>1. \A n \in MutexObject : owner[n] # u
    BY <1>3 DEF InheritInv, LendingInv, WaitersOwnNone
  <2>2. QED BY <1>3, <2>1 DEF InheritInv, LendingInv, PriorityRestored
<1>7. \A x \in ToSet(k.waitq[m]) : init_prio[u] <= init_prio[x]
  <2> SUFFICES ASSUME NEW x \in ToSet(k.waitq[m]) PROVE init_prio[u] <= init_prio[x]
    OBVIOUS
  <2>1. PICK q : q = k.waitq[m]
    OBVIOUS
  <2>2. /\ q \in Seq(Thread) /\ Sorted(q, init_prio) /\ u = q[1] /\ Len(q) \in Nat
        /\ DOMAIN q = 1 .. Len(q) /\ 1 \in 1 .. Len(q)
    BY <1>1, <1>2, <1>5, <2>1 DEF InheritInv, Lent
  <2>3. PICK i \in 1 .. Len(q) : q[i] = x
    BY <2>1, <2>2, MembersOf
  <2>4. CASE i = 1
    BY <1>3, <1>5, <2>2, <2>3, <2>4
  <2>5. CASE 1 < i
    BY <2>2, <2>3, <2>5 DEF Sorted
  <2>6. QED BY <2>2, <2>4, <2>5
<1>8. \A n \in MutexObject :
        /\ k'.waitq[n] \in Seq(Thread)
        /\ ToSet(k'.waitq[n]) = ToSet(k.waitq[n]) \ {u}
        /\ Sorted(k'.waitq[n], init_prio)
  BY <1>0, <1>4, ListLeft DEF InheritInv, Lent
<1>9. ASSUME NEW n \in MutexObject, NEW x \in ToSet(k'.waitq[n])
      PROVE  owner'[n] \in Thread /\ k'.prio[owner'[n]] <= init_prio[x]
  <2>1. x \in ToSet(k.waitq[n])
    BY <1>8, <1>9
  <2>2. CASE n = m
    <3>1. owner'[n] = u /\ k'.prio[u] = init_prio[u]
      BY <1>2, <1>3, <1>5, <1>6, <2>2
    <3>2. QED BY <1>3, <1>7, <2>1, <2>2, <3>1
  <2>3. CASE n # m
    <3>1. owner'[n] = owner[n]
      BY <1>2, <1>5, <2>3
    <3>2. owner[n] \in Thread /\ k.prio[owner[n]] <= init_prio[x]
      BY <2>1 DEF InheritInv, Lent
    <3>3. owner[n] # t
      <4>1. t # RT_NULL
        BY MutexAssumption
      <4>2. QED BY <1>2, <2>3, <4>1 DEF InheritInv, LendingInv, OneAtATime
    <3>4. QED BY <1>3, <3>1, <3>2, <3>3
  <2>4. QED BY <2>2, <2>3
<1>10. Lent'
  BY <1>8, <1>9 DEF Lent
<1>11. HeadWhenAwaited'
  BY <1>0, <1>2, <1>3, HeadBeforeSchedule
<1>12. QED BY <1>10, <1>11

LEMMA InheritStep ==
  InheritInv /\ SingleUrgencyMutex /\ [Next]_vars => Lent' /\ HeadWhenAwaited'
<1> SUFFICES ASSUME InheritInv, SingleUrgencyMutex, [Next]_vars
             PROVE  Lent' /\ HeadWhenAwaited'
  OBVIOUS
<1>0. /\ \A m, n \in MutexObject : m = n
      /\ \A m \in MutexObject : flag[m] = "PRIO"
  BY DEF SingleUrgencyMutex
<1>1. CASE Handler
  BY <1>1, HandlerInherits
<1>2. ASSUME NEW t \in Thread, ThreadStep(t)
      PROVE  Lent' /\ HeadWhenAwaited'
  <2>1. CASE (Schedule(t) \/ SleepReturn(t)) /\ UNCHANGED mutexes
    BY <2>1, KernelCallInherits
  <2>2. CASE TakeReturn(t)
    <3>1. call[t] \in MutexObject
      BY Types DEF InheritInv
    <3>2. QED BY <2>2, <3>1, QuietCallInherits
  <2>3. QED BY <1>2, <2>1, <2>2 DEF ThreadStep
<1>3. ASSUME NEW t \in Thread, ThreadCall(t)
      PROVE  Lent' /\ HeadWhenAwaited'
  <2>1. CASE /\ rt_thread_yield(t) \/ \E time \in SleepTimes : rt_thread_sleep(t, time)
             /\ UNCHANGED mutexes
    BY <2>1, KernelCallInherits
  <2>2. ASSUME NEW m \in MutexObject,
               \/ TakeAgain(t, m) \/ TakeFree(t, m) \/ TakeNoWait(t, m) \/ TakeForever(t, m)
               \/ \E time \in WaitTimes : TakeTimed(t, m, time)
               \/ ReleaseOther(t, m) \/ ReleaseInner(t, m) \/ ReleaseFree(t, m)
               \/ HandOver(t, m)
        PROVE  Lent' /\ HeadWhenAwaited'
    <3>1. CASE \/ TakeAgain(t, m) \/ TakeNoWait(t, m)
               \/ ReleaseOther(t, m) \/ ReleaseInner(t, m)
      BY <3>1, QuietCallInherits
    <3>2. CASE TakeFree(t, m)
      BY <3>2, TakeFreeInherits
    <3>3. CASE TakeForever(t, m) \/ \E time \in WaitTimes : TakeTimed(t, m, time)
      BY <1>0, <3>3, BlockedInherits
    <3>4. CASE ReleaseFree(t, m)
      BY <1>0, <3>4, ReleaseFreeInherits
    <3>5. CASE HandOver(t, m)
      BY <3>5, HandOverInherits
    <3>6. QED BY <2>2, <3>1, <3>2, <3>3, <3>4, <3>5
  <2>3. QED BY <1>3, <2>1, <2>2 DEF ThreadCall
<1>4. CASE UNCHANGED vars
  BY <1>4 DEF vars, InheritInv, Lent, HeadWhenAwaited
<1>5. QED BY <1>1, <1>2, <1>3, <1>4 DEF Next

LEMMA InheritedPriority == InheritInv => NoPriorityInversion
<1> SUFFICES ASSUME InheritInv, InThread, pc[k.current] # "sched",
                    NEW m \in MutexObject, NEW w \in ToSet(k.waitq[m]),
                    k.stat[owner[m]] = "READY"
             PROVE  k.prio[k.current] <= k.prio[w]
  BY DEF NoPriorityInversion
<1>1. /\ KernelOK(k) /\ k.prio \in [Thread -> Int] /\ init_prio \in [Thread -> Int]
      /\ k.waitq[m] \in Seq(Thread) /\ k.current \in Thread
  BY InheritTyped, Fields DEF InheritInv
<1>2. w \in Thread /\ k.waitq[m] # << >>
  <2>1. w \in Thread
    BY <1>1, MembersOf
  <2>2. QED BY <1>1, <2>1, EmptyThreadList
<1>3. k.prio[w] = init_prio[w]
  <2>1. \A n \in MutexObject : owner[n] # w
    BY DEF InheritInv, LendingInv, WaitersOwnNone
  <2>2. QED BY <1>2, <2>1 DEF InheritInv, LendingInv, PriorityRestored
<1>4. owner[m] \in Thread /\ k.prio[owner[m]] <= init_prio[w]
  BY DEF InheritInv, Lent
<1>5. AtHead(k)
  BY <1>2 DEF InheritInv, HeadWhenAwaited
<1>6. k.prio[k.current] <= k.prio[owner[m]]
  BY <1>1, <1>4, <1>5, HeadIsUrgent
<1>7. k.prio[k.current] \in Int /\ k.prio[owner[m]] \in Int /\ init_prio[w] \in Int
  BY <1>1, <1>2, <1>4
<1>8. QED BY <1>3, <1>4, <1>6, <1>7

\* While the owner of a mutex could run, no thread runs that is less urgent
\* than a waiter for it, for one PRIO mutex and threads that do not nest takes
\* (rt_mutex_take: "change the owner thread priority").
THEOREM InversionIsBounded ==
  Spec /\ ~ Nested /\ SingleUrgencyMutex => []NoPriorityInversion
<1> SUFFICES ASSUME SingleUrgencyMutex PROVE Spec /\ ~ Nested => []NoPriorityInversion
  OBVIOUS
<1>1. Init => Lent /\ HeadWhenAwaited
  <2> SUFFICES ASSUME Init PROVE Lent /\ HeadWhenAwaited
    OBVIOUS
  <2>1. k.waitq = [o \in Object |-> << >>]
    BY StartedFields DEF Init, CpuInit
  <2>2. \A m \in MutexObject : k.waitq[m] = << >> /\ ToSet(k.waitq[m]) = {}
    <3>1. << >> \in Seq(Thread)
      OBVIOUS
    <3>2. QED BY <2>1, <3>1, EmptyThreadList
  <2>3. QED BY <2>2 DEF Lent, HeadWhenAwaited, Sorted
<1>2. Init /\ ~ Nested => LendingInv
  BY LendingInit
<1>3. MutexInv /\ LendingInv /\ [Next]_vars => LendingInv'
  BY LendingStep
<1>4. MutexInv /\ LendingInv /\ Lent /\ HeadWhenAwaited /\ [Next]_vars
        => Lent' /\ HeadWhenAwaited'
  BY InheritStep DEF InheritInv
<1>5. MutexInv /\ LendingInv /\ Lent /\ HeadWhenAwaited => NoPriorityInversion
  BY InheritedPriority DEF InheritInv
<1>6. QED BY <1>1, <1>2, <1>3, <1>4, <1>5, Invariance, PTL DEF Spec
=============================================================================
