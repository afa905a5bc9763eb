--------------------------- MODULE SemaphoreProofs ---------------------------
(***************************************************************************)
(* The semaphores, in every run in which no thread blocks while it holds   *)
(* the scheduler lock: the kernel's data stay consistent, no thread waits  *)
(* beside a token, the most urgent ready thread runs, a detach leaves no   *)
(* thread behind, tokens are neither lost nor made, the semaphores         *)
(* implement TokenSemaphore, and no timer is overdue.                      *)
(***************************************************************************)
EXTENDS Semaphore, KernelProofs

IInv ==
  /\ ~ BlockLocked
  /\ TypeOK
  /\ KernelConsistent
  /\ SuspendedInCall
  /\ RunningIsReady
  /\ NoWaiterBesideToken

-----------------------------------------------------------------------------
LEMMA CpuPart == IInv => CpuInv
  BY DEF IInv, TypeOK, CpuTypeOK, CpuInv

LEMMA InitInvariant == Init /\ ~ BlockLocked => IInv
<1> SUFFICES ASSUME Init, ~ BlockLocked PROVE IInv
  OBVIOUS
<1>1. KernelOK(k) /\ k.stat = [t \in Thread |-> "READY"]
      /\ k.waitq = [o \in Object |-> << >>] /\ k.current \in Thread
  <2>1. KernelOK(k)
    BY InitKernel DEF Init, CpuInit
  <2>2. QED BY <2>1, StartedFields, Fields DEF Init, CpuInit, KernelOK
<1>2. TypeOK
  <2>1. k \in KernelState
    BY <1>1 DEF KernelOK
  <2>2. CpuTypeOK
    <3>1. primask \in BOOLEAN /\ systick \in BOOLEAN /\ device \in BOOLEAN
      BY Zenon DEF Init, CpuInit
    <3>2. QED BY <2>1, <3>1 DEF CpuTypeOK
  <2>3. value \in [Sem -> 0 .. MaxValue] /\ credit \in [Sem -> 0 .. MaxValue]
    BY SemaphoreAssumption DEF Init
  <2>4. credit \in [Sem -> Int]
    BY <2>3, SemaphoreAssumption
  <2>5. /\ alive \in [Sem -> BOOLEAN] /\ wild \in BOOLEAN
        /\ call \in [Thread -> Sem]
    BY DEF Init
  <2>6. reset \in [Thread -> 0 .. MaxValue]
    BY SemaphoreAssumption DEF Init
  <2>7. pc \in [Thread -> Point] /\ cont \in [Thread -> Continuation]
    BY DEF Init, CpuInit, Point, Continuation
  <2>8. QED BY <2>2, <2>3, <2>4, <2>5, <2>6, <2>7 DEF TypeOK
<1>3. KernelConsistent
  BY <1>1 DEF KernelOK, KernelConsistent
<1>4. SuspendedInCall /\ RunningIsReady
  BY <1>1 DEF SuspendedInCall, RunningIsReady
<1>5. NoWaiterBesideToken
  BY <1>1 DEF NoWaiterBesideToken, Sem
<1>6. QED BY <1>2, <1>3, <1>4, <1>5 DEF IInv

-----------------------------------------------------------------------------
\* The actions, one lemma each.
LEMMA TakeAvailableStep ==
  ASSUME IInv, NEW t \in Thread, NEW s \in Sem, TakeAvailable(t, s)
  PROVE  IInv'
<1> USE DEF IInv
<1>1. TypeOK'
  <2>1. value' \in [Sem -> 0 .. MaxValue]
    <3>1. value[s] - 1 \in 0 .. MaxValue
      BY SemaphoreAssumption DEF TakeAvailable, TypeOK
    <3>2. QED BY <3>1 DEF TakeAvailable, TypeOK
  <2>2. credit' \in [Sem -> Int]
    BY DEF TakeAvailable, TypeOK
  <2>3. QED BY <2>1, <2>2 DEF TakeAvailable, TypeOK, CpuTypeOK, cpu
<1>2. KernelConsistent' /\ SuspendedInCall' /\ RunningIsReady'
  BY DEF TakeAvailable, cpu, KernelConsistent, SuspendedInCall, InCall, RunningIsReady
<1>3. NoWaiterBesideToken'
  BY DEF TakeAvailable, cpu, TypeOK, NoWaiterBesideToken
<1>4. QED BY <1>1, <1>2, <1>3

LEMMA BlockStep ==
  ASSUME IInv, NEW t \in Thread, NEW s \in Sem, NEW u, Block(t, s, u), t # Idle,
         KernelOK(u), u.stat = [k.stat EXCEPT ![t] = "SUSPEND"],
         u.current = k.current, u.lock = k.lock,
         \A x \in Sem : x # s /\ k.waitq[x] = << >> => u.waitq[x] = << >>
  PROVE  IInv' /\ k'.current = k.current /\ pc'[t] = "sched"
<1>1. /\ k.current = t /\ k.lock = 0 /\ k' = u /\ ThenSchedule(t, "take")
      /\ value[s] = 0 /\ value' = value
  BY Fields DEF Block, Calls, Running, IInv, TypeOK, CpuTypeOK
<1>2. KernelConsistent' /\ SuspendedInCall' /\ RunningIsReady'
  <2>1. pc = [v \in Thread |-> pc[v]] /\ cont = [v \in Thread |-> cont[v]]
    BY DEF IInv, TypeOK
  <2>2. QED BY <1>1, <2>1, BlockMoves, CpuPart
<1>3. TypeOK'
  <2>1. CpuTypeOK'
    BY <1>1 DEF Block, KernelOK, IInv, TypeOK, CpuTypeOK
  <2>2. pc' \in [Thread -> Point] /\ cont' \in [Thread -> Continuation]
    BY <1>1 DEF ThenSchedule, IInv, TypeOK, Point, Continuation
  <2>3. QED BY <2>1, <2>2 DEF Block, IInv, TypeOK
<1>4. NoWaiterBesideToken'
  BY <1>1 DEF IInv, NoWaiterBesideToken
<1>5. pc'[t] = "sched"
  BY <1>1 DEF ThenSchedule, IInv, TypeOK
<1>6. QED BY <1>1, <1>2, <1>3, <1>4, <1>5 DEF IInv

LEMMA TakeBlockedStep ==
  ASSUME IInv, NEW t \in Thread, NEW s \in Sem,
         \/ TakeForever(t, s)
         \/ \E time \in WaitTimes : TakeTimed(t, s, time)
  PROVE  IInv' /\ k'.current = k.current /\ pc'[t] = "sched"
<1> DEFINE r == [k EXCEPT !.error[t] = "EOK"]
           w == Suspended(t, s)
<1>1. t # Idle /\ KernelOK(k) /\ k.current = t /\ k.stat[t] = "READY"
  <2>1. Running(t) /\ pc[t] = "run" /\ t # Idle
    BY DEF TakeForever, TakeTimed, Block, Calls
  <2>2. QED BY <2>1, RunningThread, CpuPart
<1>2. /\ KernelOK(r) /\ r.stat = k.stat /\ r.waitq = k.waitq
      /\ r.current = k.current /\ r.lock = k.lock
  BY <1>1, SetError DEF Error
<1>3. w = rt_ipc_list_suspend(r, s, t, flag[s])
  BY DEF Suspended
<1> HIDE DEF r, w
<1>4. /\ KernelOK(w) /\ w.stat = [k.stat EXCEPT ![t] = "SUSPEND"]
      /\ \A x \in Sem : x # s /\ k.waitq[x] = << >> => w.waitq[x] = << >>
      /\ w.current = k.current /\ w.lock = k.lock
  <2>1. r.stat[t] = "READY"
    BY <1>1, <1>2
  <2>2. /\ KernelOK(w) /\ w.stat = [r.stat EXCEPT ![t] = "SUSPEND"]
        /\ \A x \in Object : x # s /\ r.waitq[x] = << >> => w.waitq[x] = << >>
        /\ w.current = r.current /\ w.lock = r.lock
    <3>1. s \in Object
      BY DEF Sem
    <3>2. QueuedOn(r, s, t, w)
      BY <1>1, <1>2, <1>3, <2>1, <3>1, IpcSuspendPreserves
    <3>3. QED BY <3>2 DEF QueuedOn
  <2>3. QED BY <1>2, <2>2 DEF Sem
<1>5. CASE TakeForever(t, s)
  <2>1. Block(t, s, w)
    BY <1>5 DEF TakeForever, w
  <2>2. QED BY <1>1, <1>4, <2>1, BlockStep
<1>6. ASSUME NEW time \in WaitTimes, TakeTimed(t, s, time)
      PROVE  IInv' /\ k'.current = k.current /\ pc'[t] = "sched"
  <2>1. w.stat[t] = "SUSPEND"
    BY <1>1, <1>4, Fields DEF KernelOK
  <2>2. time \in Nat
    BY SemaphoreAssumption
  <2> DEFINE u == rt_timer_start(w, t, time)
  <2>3. /\ KernelOK(u) /\ u.stat = w.stat /\ u.waitq = w.waitq
        /\ u.current = w.current /\ u.lock = w.lock
    BY <1>4, <2>1, <2>2, TimerStartPreserves, ZenonT(60)
  <2>4. Block(t, s, u)
    BY <1>6 DEF TakeTimed, w
  <2> HIDE DEF u
  <2>5. /\ u.stat = [k.stat EXCEPT ![t] = "SUSPEND"]
        /\ u.current = k.current /\ u.lock = k.lock
        /\ \A x \in Sem : x # s /\ k.waitq[x] = << >> => u.waitq[x] = << >>
    BY <1>4, <2>3
  <2>6. KernelOK(u) /\ t # Idle
    BY <1>1, <2>3
  <2>7. QED BY <2>4, <2>5, <2>6, BlockStep
<1>7. QED BY <1>5, <1>6

LEMMA TakeReturnStep ==
  ASSUME IInv, NEW t \in Thread, TakeReturn(t)
  PROVE  IInv'
<1>1. KernelOK(k) /\ k.current = t /\ k.stat[t] = "READY"
  BY RunningThread, CpuPart DEF TakeReturn
<1>2. TypeOK'
  BY DEF TakeReturn, Goto, IInv, TypeOK, CpuTypeOK, Point, Continuation
<1>3. KernelConsistent' /\ SuspendedInCall' /\ RunningIsReady'
  <2>1. \A u \in Thread \ {t} : pc'[u] = pc[u] /\ cont'[u] = cont[u]
    BY DEF TakeReturn, Goto, IInv, TypeOK
  <2>2. k' = k
    BY DEF TakeReturn
  <2>3. QED BY <1>1, <2>1, <2>2, ThreadMoves, CpuPart
<1>4. NoWaiterBesideToken'
  BY DEF TakeReturn, IInv, NoWaiterBesideToken
<1>5. QED BY <1>2, <1>3, <1>4 DEF IInv

\* The critical section of rt_sem_release.
LEMMA GiveStep ==
  ASSUME IInv, NEW s \in Sem, Give(s), CanGive(s)
  PROVE  /\ KernelOK(k')
         /\ \A u \in Thread : k'.stat[u] = k.stat[u] \/ k'.stat[u] = "READY"
         /\ k'.current = k.current /\ k'.lock = k.lock
         /\ value' \in [Sem -> 0 .. MaxValue]
         /\ NoWaiterBesideToken'
<1>1. KernelOK(k) /\ k \in KernelState
  BY DEF IInv, TypeOK, CpuTypeOK, KernelConsistent, KernelOK
<1>2. CASE k.waitq[s] # << >>
  <2> DEFINE t == Head(k.waitq[s])
             v == rt_thread_resume(k, t)
  <2>1. t \in Thread
    BY <1>1, <1>2, Fields DEF Sem
  <2>2. k' = v /\ value' = value
    BY <1>2 DEF Give, rt_ipc_list_resume
  <2> HIDE DEF t
  <2>3. /\ KernelOK(v)
        /\ v.stat = IF k.stat[t] = "SUSPEND" THEN [k.stat EXCEPT ![t] = "READY"]
                                             ELSE k.stat
        /\ \A o \in Object : k.waitq[o] = << >> => v.waitq[o] = << >>
        /\ v.current = k.current /\ v.lock = k.lock
    BY <1>1, <2>1, ResumePreserves
  <2> HIDE DEF v
  <2>4. k.stat \in [Thread -> Stat]
    BY <1>1, Fields
  <2>5. NoWaiterBesideToken'
    BY <2>2, <2>3 DEF IInv, NoWaiterBesideToken, Sem
  <2>6. QED BY <2>1, <2>2, <2>3, <2>4, <2>5 DEF IInv, TypeOK
<1>3. CASE k.waitq[s] = << >>
  <2>1. k' = k /\ value' = [value EXCEPT ![s] = @ + 1]
    BY <1>3 DEF Give
  <2>2. value' \in [Sem -> 0 .. MaxValue]
    BY <2>1, SemaphoreAssumption DEF CanGive, IInv, TypeOK
  <2>3. NoWaiterBesideToken'
    BY <1>3, <2>1 DEF IInv, TypeOK, NoWaiterBesideToken
  <2>4. QED BY <1>1, <2>1, <2>2, <2>3
<1>4. QED BY <1>2, <1>3

LEMMA ReleaseStep ==
  ASSUME IInv, NEW t \in Thread, NEW s \in Sem, rt_sem_release(t, s)
  PROVE  IInv'
<1>1. KernelOK(k) /\ k.current = t /\ k.stat[t] = "READY"
  BY RunningThread, CpuPart DEF rt_sem_release, Calls
<1>2. /\ KernelOK(k')
      /\ \A u \in Thread : k'.stat[u] = k.stat[u] \/ k'.stat[u] = "READY"
      /\ k'.current = k.current
      /\ value' \in [Sem -> 0 .. MaxValue]
      /\ NoWaiterBesideToken'
  BY GiveStep DEF rt_sem_release
<1>3. /\ pc' \in [Thread -> Point] /\ cont' \in [Thread -> Continuation]
      /\ \A u \in Thread \ {t} : pc'[u] = pc[u] /\ cont'[u] = cont[u]
  BY DEF rt_sem_release, ThenSchedule, IInv, TypeOK, Point, Continuation
<1>4. KernelConsistent' /\ SuspendedInCall' /\ RunningIsReady'
  BY <1>1, <1>2, <1>3, ThreadMoves, CpuPart
<1>5. CpuTypeOK'
  BY <1>2 DEF rt_sem_release, KernelOK, IInv, TypeOK, CpuTypeOK
<1>6. credit' \in [Sem -> Int]
  BY DEF rt_sem_release, IInv, TypeOK
<1>7. TypeOK'
  BY <1>2, <1>3, <1>5, <1>6 DEF rt_sem_release, IInv, TypeOK
<1>8. QED BY <1>2, <1>4, <1>7 DEF IInv

LEMMA DeviceReleaseStep ==
  ASSUME IInv, NEW s \in Sem, DeviceRelease(s)
  PROVE  IInv'
<1>1. /\ KernelOK(k')
      /\ \A u \in Thread : k'.stat[u] = k.stat[u] \/ k'.stat[u] = "READY"
      /\ k'.current = k.current /\ k'.lock = k.lock
      /\ value' \in [Sem -> 0 .. MaxValue]
      /\ NoWaiterBesideToken'
  BY GiveStep DEF DeviceRelease
<1>2. KernelConsistent' /\ SuspendedInCall' /\ RunningIsReady'
  BY <1>1, HandlerMoves, CpuPart DEF DeviceRelease
<1>3. device' \in BOOLEAN
  BY Zenon DEF DeviceRelease
<1>4. CpuTypeOK'
  BY <1>1, <1>3 DEF DeviceRelease, KernelOK, IInv, TypeOK, CpuTypeOK
<1>5. credit' \in [Sem -> Int]
  BY DEF DeviceRelease, IInv, TypeOK
<1>6. TypeOK'
  BY <1>1, <1>4, <1>5 DEF DeviceRelease, IInv, TypeOK
<1>7. QED BY <1>1, <1>2, <1>6 DEF IInv

\* A step of the running thread that leaves the kernel's data and the
\* values alone.
LEMMA QuietStep ==
  ASSUME IInv, NEW t \in Thread, Running(t), pc[t] # "sched",
         k' = k, value' = value, NEW c \in Point, Goto(t, c),
         primask' \in BOOLEAN, UNCHANGED <<systick, device, wild, credit>>,
         alive' \in [Sem -> BOOLEAN], call' \in [Thread -> Sem],
         reset' \in [Thread -> 0 .. MaxValue]
  PROVE  IInv'
<1>1. KernelOK(k) /\ k.current = t /\ k.stat[t] = "READY"
  BY RunningThread, CpuPart
<1>2. /\ pc' \in [Thread -> Point] /\ cont' \in [Thread -> Continuation]
      /\ \A u \in Thread \ {t} : pc'[u] = pc[u] /\ cont'[u] = cont[u]
  BY DEF Goto, IInv, TypeOK
<1>3. KernelConsistent' /\ SuspendedInCall' /\ RunningIsReady'
  BY <1>1, <1>2, ThreadMoves, CpuPart
<1>4. CpuTypeOK'
  BY DEF IInv, TypeOK, CpuTypeOK
<1>5. TypeOK'
  BY <1>2, <1>4 DEF IInv, TypeOK
<1>6. NoWaiterBesideToken'
  BY DEF IInv, NoWaiterBesideToken
<1>7. QED BY <1>3, <1>5, <1>6 DEF IInv

LEMMA ResetCallStep ==
  ASSUME IInv, NEW t \in Thread, NEW s \in Sem, NEW v \in 0 .. MaxValue,
         ResetCall(t, s, v)
  PROVE  IInv'
<1>1. primask' \in BOOLEAN
  BY Zenon DEF ResetCall
<1>2. /\ alive' \in [Sem -> BOOLEAN] /\ call' \in [Thread -> Sem]
      /\ reset' \in [Thread -> 0 .. MaxValue]
  BY DEF ResetCall, IInv, TypeOK
<1>3. Running(t) /\ pc[t] # "sched" /\ Goto(t, "reset") /\ k' = k /\ value' = value
      /\ UNCHANGED <<systick, device, wild, credit>>
  BY DEF ResetCall, Calls
<1>4. "reset" \in Point
  BY DEF Point
<1>5. QED BY <1>1, <1>2, <1>3, <1>4, QuietStep

\* rt_ipc_list_resume_all wakes one thread.
LEMMA ResumeFirstStep ==
  ASSUME IInv, NEW s \in Sem, k.waitq[s] # << >>, ResumeFirst(s)
  PROVE  /\ KernelOK(k')
         /\ \A u \in Thread : k'.stat[u] = k.stat[u] \/ k'.stat[u] = "READY"
         /\ \A x \in Sem : k.waitq[x] = << >> => k'.waitq[x] = << >>
         /\ k'.current = k.current
<1> DEFINE t == Head(k.waitq[s])
           r == [k EXCEPT !.error[t] = "ERROR"]
           v == rt_thread_resume(r, t)
<1>1. KernelOK(k) /\ k \in KernelState
  BY DEF IInv, TypeOK, CpuTypeOK, KernelConsistent, KernelOK
<1>2. t \in Thread
  BY <1>1, Fields DEF Sem
<1>3. k' = v
  BY DEF ResumeFirst
<1> HIDE DEF t
<1>4. KernelOK(r) /\ r.stat = k.stat /\ r.waitq = k.waitq /\ r.current = k.current
  BY <1>1, <1>2, SetError DEF Error
<1> HIDE DEF r
<1>5. /\ KernelOK(v)
      /\ v.stat = IF r.stat[t] = "SUSPEND" THEN [r.stat EXCEPT ![t] = "READY"]
                                           ELSE r.stat
      /\ \A o \in Object : r.waitq[o] = << >> => v.waitq[o] = << >>
      /\ v.current = r.current
  BY <1>2, <1>4, ResumePreserves
<1> HIDE DEF v
<1>6. k.stat \in [Thread -> Stat]
  BY <1>1, Fields
<1>7. QED BY <1>2, <1>3, <1>4, <1>5, <1>6 DEF Sem

\* ResetResume and DetachResume, and the end of the loop that finds no list.
LEMMA ResumeAllStep ==
  ASSUME IInv, NEW t \in Thread, ResetResume(t) \/ DetachResume(t)
  PROVE  IInv'
<1>1. Running(t) /\ pc[t] # "sched" /\ call[t] \in Sem
  BY DEF ResetResume, DetachResume, IInv, TypeOK
<1>2. KernelOK(k) /\ k.current = t /\ k.stat[t] = "READY"
  BY <1>1, RunningThread, CpuPart
<1>3. /\ pc' \in [Thread -> Point] /\ cont' \in [Thread -> Continuation]
      /\ \A u \in Thread \ {t} : pc'[u] = pc[u] /\ cont'[u] = cont[u]
  BY DEF ResetResume, DetachResume, Goto, IInv, TypeOK, Point, Continuation
<1>4. /\ KernelOK(k')
      /\ \A u \in Thread : k'.stat[u] = k.stat[u] \/ k'.stat[u] = "READY"
      /\ \A x \in Sem : k.waitq[x] = << >> => k'.waitq[x] = << >>
      /\ k'.current = k.current
  <2>1. CASE k.waitq[call[t]] # << >>
    <3>1. ResumeFirst(call[t])
      BY <2>1 DEF ResetResume, DetachResume
    <3>2. QED BY <1>1, <2>1, <3>1, ResumeFirstStep
  <2>2. CASE k.waitq[call[t]] = << >>
    <3>1. k' = k
      BY <2>2 DEF ResetResume, DetachResume
    <3>2. QED BY <1>2, <3>1
  <2>3. QED BY <2>1, <2>2
<1>5. KernelConsistent' /\ SuspendedInCall' /\ RunningIsReady'
  BY <1>2, <1>3, <1>4, ThreadMoves, CpuPart
<1>6. /\ value' = value /\ UNCHANGED <<primask, systick, device, alive, call, reset, credit>>
  BY DEF ResetResume, DetachResume, sems
<1>7. wild' \in BOOLEAN
  <2>1. wild \in BOOLEAN
    BY DEF IInv, TypeOK
  <2>2. CASE ResetResume(t)
    BY <2>1, <2>2 DEF ResetResume, sems
  <2>3. CASE DetachResume(t) /\ k.waitq[call[t]] # << >>
    <3>1. wild' = wild
      BY <2>3 DEF DetachResume
    <3>2. QED BY <2>1, <3>1
  <2>4. CASE DetachResume(t) /\ k.waitq[call[t]] = << >>
    BY <2>4, Zenon DEF DetachResume
  <2>5. QED BY <2>2, <2>3, <2>4
<1>8. CpuTypeOK'
  BY <1>4, <1>6 DEF KernelOK, IInv, TypeOK, CpuTypeOK
<1>9. TypeOK'
  BY <1>3, <1>6, <1>7, <1>8 DEF IInv, TypeOK
<1>10. NoWaiterBesideToken'
  BY <1>4, <1>6 DEF IInv, NoWaiterBesideToken
<1>11. QED BY <1>5, <1>9, <1>10 DEF IInv

LEMMA ResetValueStep ==
  ASSUME IInv, NEW t \in Thread, ResetValue(t)
  PROVE  IInv'
<1>1. KernelOK(k) /\ k.current = t /\ k.stat[t] = "READY"
  BY RunningThread, CpuPart DEF ResetValue
<1>2. k' = k /\ UNCHANGED <<systick, device, alive, call, wild>>
      /\ k.waitq[call[t]] = << >> /\ call[t] \in Sem
  BY DEF ResetValue, IInv, TypeOK
<1>3. /\ pc' \in [Thread -> Point] /\ cont' \in [Thread -> Continuation]
      /\ \A u \in Thread \ {t} : pc'[u] = pc[u] /\ cont'[u] = cont[u]
  BY DEF ResetValue, ThenSchedule, IInv, TypeOK, Point, Continuation
<1>4. KernelConsistent' /\ SuspendedInCall' /\ RunningIsReady'
  BY <1>1, <1>2, <1>3, ThreadMoves, CpuPart
<1>5. primask' \in BOOLEAN
  BY Zenon DEF ResetValue
<1>6. CpuTypeOK'
  BY <1>2, <1>5 DEF IInv, TypeOK, CpuTypeOK
<1>7. reset[t] \in 0 .. MaxValue /\ value[call[t]] \in 0 .. MaxValue
  BY <1>2 DEF IInv, TypeOK
<1>8. value' \in [Sem -> 0 .. MaxValue] /\ reset' \in [Thread -> 0 .. MaxValue]
  BY <1>7, SemaphoreAssumption DEF ResetValue, IInv, TypeOK
<1>9. credit' \in [Sem -> Int]
  <2>1. credit[call[t]] + reset[t] - value[call[t]] \in Int
    BY <1>2, <1>7, SemaphoreAssumption DEF IInv, TypeOK
  <2>2. QED BY <2>1 DEF ResetValue, IInv, TypeOK
<1>10. TypeOK'
  BY <1>2, <1>3, <1>6, <1>8, <1>9 DEF IInv, TypeOK
<1>11. NoWaiterBesideToken'
  BY <1>2 DEF ResetValue, IInv, TypeOK, NoWaiterBesideToken
<1>12. QED BY <1>4, <1>10, <1>11 DEF IInv

LEMMA DetachCallStep ==
  ASSUME IInv, NEW t \in Thread, NEW s \in Sem, DetachCall(t, s)
  PROVE  IInv'
<1>1. /\ alive' \in [Sem -> BOOLEAN] /\ call' \in [Thread -> Sem]
      /\ reset' \in [Thread -> 0 .. MaxValue] /\ primask' \in BOOLEAN
  BY DEF DetachCall, IInv, TypeOK, CpuTypeOK
<1>2. Running(t) /\ pc[t] # "sched" /\ Goto(t, "detach_test") /\ k' = k
      /\ value' = value /\ UNCHANGED <<systick, device, wild, credit>>
  BY DEF DetachCall, Calls
<1>3. "detach_test" \in Point
  BY DEF Point
<1>4. QED BY <1>1, <1>2, <1>3, QuietStep

LEMMA DetachTestStep ==
  ASSUME IInv, NEW t \in Thread, DetachTest(t)
  PROVE  IInv'
<1> DEFINE c == IF k.waitq[call[t]] # << >> THEN "detach_resume" ELSE "run"
<1>1. /\ alive' \in [Sem -> BOOLEAN] /\ call' \in [Thread -> Sem]
      /\ reset' \in [Thread -> 0 .. MaxValue] /\ primask' \in BOOLEAN
  BY DEF DetachTest, sems, IInv, TypeOK, CpuTypeOK
<1>2. Running(t) /\ pc[t] # "sched" /\ Goto(t, c) /\ k' = k
      /\ value' = value /\ UNCHANGED <<systick, device, wild, credit>>
  BY DEF DetachTest, sems
<1>3. c \in Point
  BY DEF Point, Continuation
<1> HIDE DEF c
<1>4. QED BY <1>1, <1>2, <1>3, QuietStep
-----------------------------------------------------------------------------
\* The steps that leave the semaphores alone.
LEMMA KernelStepInv ==
  ASSUME IInv, UNCHANGED sems,
         KernelConsistent', SuspendedInCall', RunningIsReady', k' \in KernelState,
         pc' \in [Thread -> Point], cont' \in [Thread -> Continuation],
         primask' \in BOOLEAN, systick' \in BOOLEAN, device' \in BOOLEAN,
         \A o \in Object : k.waitq[o] = << >> => k'.waitq[o] = << >>
  PROVE  IInv'
<1>1. TypeOK'
  BY DEF sems, IInv, TypeOK, CpuTypeOK
<1>2. NoWaiterBesideToken'
  BY DEF sems, IInv, NoWaiterBesideToken, Sem
<1>3. QED BY <1>1, <1>2 DEF IInv

LEMMA ScheduleStep ==
  ASSUME IInv, NEW t \in Thread, Schedule(t), UNCHANGED sems
  PROVE  IInv'
<1>1. KernelOK(k) /\ k.current = t /\ pc[t] = "sched" /\ k' = rt_schedule(k)
  BY DEF Schedule, Running, IInv, TypeOK, CpuTypeOK, KernelConsistent, KernelOK
<1>2. /\ KernelOK(k') /\ k'.stat = k.stat /\ k'.waitq = k.waitq /\ k'.lock = k.lock
      /\ k.lock = 0 => k'.stat[k'.current] = "READY"
      /\ k.lock # 0 => k'.current = k.current
  BY <1>1, SchedulePreserves
<1>3. /\ pc' = [pc EXCEPT ![t] = cont[t]] /\ cont' = [cont EXCEPT ![t] = "run"]
      /\ UNCHANGED <<primask, systick, device>>
      /\ pc \in [Thread -> Point] /\ cont \in [Thread -> Continuation]
  BY DEF Schedule, IInv, TypeOK
<1>4. pc' \in [Thread -> Point] /\ cont' \in [Thread -> Continuation]
  BY <1>3 DEF Point, Continuation
<1>5. SuspendedInCall'
  BY <1>1, <1>2, <1>3 DEF IInv, SuspendedInCall, InCall
<1>6. RunningIsReady'
  BY <1>1, <1>2 DEF IInv, RunningIsReady
<1>7. KernelConsistent' /\ k' \in KernelState
  BY <1>2 DEF KernelConsistent, KernelOK
<1>8. primask' \in BOOLEAN /\ systick' \in BOOLEAN /\ device' \in BOOLEAN
  BY <1>3 DEF IInv, TypeOK, CpuTypeOK
<1>9. QED BY <1>2, <1>4, <1>5, <1>6, <1>7, <1>8, KernelStepInv

\* A thread's step that leaves the semaphores and the handlers alone.
LEMMA PlainStep ==
  ASSUME IInv, NEW t \in Thread, k.current = t, k.stat[t] = "READY",
         UNCHANGED sems, UNCHANGED <<primask, systick, device>>,
         NEW c \in Point, NEW d \in Continuation,
         pc' = [pc EXCEPT ![t] = c], cont' = cont \/ cont' = [cont EXCEPT ![t] = d],
         KernelOK(k'), k'.current = t, k'.stat = k.stat,
         \A o \in Object : k.waitq[o] = << >> => k'.waitq[o] = << >>
  PROVE  IInv'
<1>1. /\ pc' \in [Thread -> Point] /\ cont' \in [Thread -> Continuation]
      /\ \A u \in Thread \ {t} : pc'[u] = pc[u] /\ cont'[u] = cont[u]
  BY DEF IInv, TypeOK
<1>2. KernelConsistent' /\ SuspendedInCall' /\ RunningIsReady'
  BY <1>1, ThreadMoves, CpuPart
<1>3. primask' \in BOOLEAN /\ systick' \in BOOLEAN /\ device' \in BOOLEAN
  BY DEF IInv, TypeOK, CpuTypeOK
<1>4. QED BY <1>1, <1>2, <1>3, KernelStepInv DEF KernelOK

LEMMA YieldStep ==
  ASSUME IInv, NEW t \in Thread, rt_thread_yield(t), UNCHANGED sems
  PROVE  IInv'
<1>1. KernelOK(k) /\ k.current = t /\ k.stat[t] = "READY"
  BY RunningThread, CpuPart DEF rt_thread_yield
<1>2. /\ KernelOK(k') /\ k'.stat = k.stat /\ k'.current = t
      /\ \A o \in Object : k.waitq[o] = << >> => k'.waitq[o] = << >>
  BY <1>1, YieldPreserves DEF rt_thread_yield
<1>3. "sched" \in Point /\ "run" \in Continuation
  BY DEF Point, Continuation
<1>4. /\ pc' = [pc EXCEPT ![t] = "sched"] /\ cont' = [cont EXCEPT ![t] = "run"]
      /\ UNCHANGED <<primask, systick, device>>
  BY DEF rt_thread_yield, ThenSchedule
<1>5. QED BY <1>1, <1>2, <1>3, <1>4, PlainStep

LEMMA SleepReturnStep ==
  ASSUME IInv, NEW t \in Thread, SleepReturn(t), UNCHANGED sems
  PROVE  IInv'
<1>1. KernelOK(k) /\ k.current = t /\ k.stat[t] = "READY"
  BY RunningThread, CpuPart DEF SleepReturn
<1>2. /\ KernelOK(k') /\ k'.stat = k.stat /\ k'.current = t
      /\ k'.waitq = k.waitq
  <2>1. "EOK" \in Error
    BY DEF Error
  <2>2. LET v == [k EXCEPT !.error[t] = "EOK"]
        IN  /\ KernelOK(v) /\ v.stat = k.stat /\ v.waitq = k.waitq
            /\ v.current = k.current /\ v.lock = k.lock
    BY <1>1, <2>1, SetError
  <2>3. k' = [k EXCEPT !.error[t] = "EOK"] \/ k' = k
    BY DEF SleepReturn
  <2>4. QED BY <1>1, <2>2, <2>3
<1>3. "run" \in Point /\ "run" \in Continuation
  BY DEF Point, Continuation
<1>4. /\ pc' = [pc EXCEPT ![t] = "run"] /\ cont' = cont
      /\ UNCHANGED <<primask, systick, device>>
  BY DEF SleepReturn, Goto
<1>5. QED BY <1>1, <1>2, <1>3, <1>4, PlainStep

LEMMA CriticalStep ==
  ASSUME IInv, NEW t \in Thread, rt_enter_critical(t) \/ rt_exit_critical(t),
         UNCHANGED sems
  PROVE  IInv'
<1>1. KernelOK(k) /\ k.current = t /\ k.stat[t] = "READY"
  BY RunningThread, CpuPart DEF rt_enter_critical, rt_exit_critical
<1>2. k.lock \in Nat /\ pc[t] = "run"
  BY <1>1, Fields DEF KernelOK, rt_enter_critical, rt_exit_critical
<1>3. \E n \in Nat : k' = [k EXCEPT !.lock = n]
  <2>1. CASE rt_enter_critical(t)
    <3>1. k' = [k EXCEPT !.lock = k.lock + 1] /\ k.lock + 1 \in Nat
      BY <1>2, <2>1 DEF rt_enter_critical
    <3>2. QED BY <3>1
  <2>2. CASE rt_exit_critical(t)
    <3>1. k' = [k EXCEPT !.lock = k.lock - 1] /\ k.lock - 1 \in Nat
      BY <1>2, <2>2 DEF rt_exit_critical
    <3>2. QED BY <3>1
  <2>3. QED BY <2>1, <2>2
<1>4. KernelOK(k') /\ k'.stat = k.stat /\ k'.waitq = k.waitq /\ k'.current = t
  BY <1>1, <1>3, SetLock
<1>5. /\ {"run", "sched"} \subseteq Point /\ "run" \in Continuation
      /\ pc \in [Thread -> Point] /\ cont \in [Thread -> Continuation]
  BY DEF Point, Continuation, IInv, TypeOK
<1>6. UNCHANGED <<primask, systick, device>>
  BY DEF rt_enter_critical, rt_exit_critical
<1>7. CASE pc' = pc /\ cont' = cont
  <2>1. pc' = [pc EXCEPT ![t] = "run"]
    BY <1>2, <1>5, <1>7
  <2>2. QED BY <1>1, <1>4, <1>5, <1>6, <1>7, <2>1, PlainStep
<1>8. CASE ThenSchedule(t, "run")
  <2>1. pc' = [pc EXCEPT ![t] = "sched"] /\ cont' = [cont EXCEPT ![t] = "run"]
    BY <1>8 DEF ThenSchedule
  <2>2. QED BY <1>1, <1>4, <1>5, <1>6, <2>1, PlainStep
<1>9. (pc' = pc /\ cont' = cont) \/ ThenSchedule(t, "run")
  BY DEF rt_enter_critical, rt_exit_critical
<1>10. QED BY <1>7, <1>8, <1>9

LEMMA SleepStep ==
  ASSUME IInv, NEW t \in Thread, NEW time \in WaitTimes, Sleep(t, time),
         UNCHANGED sems
  PROVE  IInv' /\ k'.current = k.current /\ pc'[t] = "sched"
<1> DEFINE u == rt_thread_suspend(k, t)
           v == rt_timer_start(u, t, time)
<1>1. KernelOK(k) /\ k.current = t /\ k.stat[t] = "READY"
  BY RunningThread, CpuPart DEF Sleep, rt_thread_sleep
<1>2. /\ t # Idle /\ k.lock = 0 /\ k' = v /\ ThenSchedule(t, "slept")
      /\ UNCHANGED <<primask, systick, device>>
  <2>1. k.lock \in Nat
    BY <1>1, Fields DEF KernelOK
  <2>2. k.lock = 0
    BY <2>1 DEF IInv, Sleep
  <2>3. QED BY <2>2 DEF Sleep, rt_thread_sleep
<1>3. /\ KernelOK(u) /\ u.stat = [k.stat EXCEPT ![t] = "SUSPEND"]
      /\ \A o \in Object : ToSet(u.waitq[o]) = ToSet(k.waitq[o])
      /\ u.current = k.current /\ u.lock = k.lock
  BY <1>1, <1>2, SuspendPreserves
<1> HIDE DEF u
<1>4. u.stat[t] = "SUSPEND" /\ time \in Nat
  BY <1>1, <1>3, Fields, SemaphoreAssumption DEF KernelOK
<1>5. /\ KernelOK(v) /\ v.stat = u.stat /\ v.waitq = u.waitq
      /\ v.current = u.current /\ v.lock = u.lock
  BY <1>3, <1>4, TimerStartPreserves
<1> HIDE DEF v
<1>6. KernelConsistent' /\ SuspendedInCall' /\ RunningIsReady'
  <2>1. pc = [x \in Thread |-> pc[x]] /\ cont = [x \in Thread |-> cont[x]]
    BY DEF IInv, TypeOK
  <2>2. QED BY <1>1, <1>2, <1>3, <1>5, <2>1, BlockMoves, CpuPart
<1>7. pc' \in [Thread -> Point] /\ cont' \in [Thread -> Continuation]
  BY <1>2 DEF ThenSchedule, IInv, TypeOK, Point, Continuation
<1>8. primask' \in BOOLEAN /\ systick' \in BOOLEAN /\ device' \in BOOLEAN
  BY <1>2 DEF IInv, TypeOK, CpuTypeOK
<1>9. \A o \in Object : k.waitq[o] = << >> => k'.waitq[o] = << >>
  <2>1. \A o \in Object : k.waitq[o] \in Seq(Thread) /\ u.waitq[o] \in Seq(Thread)
    BY <1>1, <1>3, Fields DEF KernelOK
  <2>2. \A o \in Object : k.waitq[o] = << >> => u.waitq[o] = << >>
    BY <1>3, <2>1, EmptyThreadList
  <2>3. QED BY <1>2, <1>5, <2>2
<1>10. k'.current = k.current /\ pc'[t] = "sched"
  BY <1>2, <1>3, <1>5 DEF ThenSchedule, IInv, TypeOK
<1>11. QED BY <1>2, <1>5, <1>6, <1>7, <1>8, <1>9, <1>10, KernelStepInv DEF KernelOK

LEMMA HandlerStep ==
  ASSUME IInv, SysTick_Handler \/ rt_timer_check \/ DeviceSchedule, UNCHANGED sems
  PROVE  IInv'
<1>1. KernelOK(k) /\ k \in KernelState
  BY DEF IInv, TypeOK, CpuTypeOK, KernelConsistent, KernelOK
<1>2. k.stat \in [Thread -> Stat]
  BY <1>1, Fields
<1>3. /\ KernelOK(k') /\ k'.lock = k.lock
      /\ k'.current = k.current \/ k'.stat[k'.current] = "READY"
      /\ \A u \in Thread : k'.stat[u] = k.stat[u] \/ k'.stat[u] = "READY"
      /\ \A o \in Object : k.waitq[o] = << >> => k'.waitq[o] = << >>
  <2>1. CASE SysTick_Handler
    <3>1. k' = tick_increase(k)
      BY <2>1 DEF SysTick_Handler
    <3>2. QED BY <1>1, <3>1, TickPreserves
  <2>2. CASE rt_timer_check /\ Due(k)
    <3> DEFINE v == timer_expire(k)
               h == Head(k.timers)
    <3>1. k' = v /\ k.timers # << >>
      BY <2>2 DEF rt_timer_check, Due
    <3>2. /\ KernelOK(v) /\ v.stat = [k.stat EXCEPT ![h] = "READY"]
          /\ \A o \in Object : k.waitq[o] = << >> => v.waitq[o] = << >>
          /\ v.lock = k.lock
          /\ k.lock = 0 => v.stat[v.current] = "READY"
          /\ k.lock # 0 => v.current = k.current
      BY <1>1, <3>1, ExpirePreserves
    <3> HIDE DEF v, h
    <3>3. QED BY <1>2, <3>1, <3>2
  <2>3. CASE rt_timer_check /\ ~ Due(k)
    <3>1. k' = k
      BY <2>3 DEF rt_timer_check
    <3>2. QED BY <1>1, <3>1
  <2>4. CASE DeviceSchedule
    <3>1. k' = rt_schedule(k)
      BY <2>4 DEF DeviceSchedule
    <3>2. /\ KernelOK(k') /\ k'.stat = k.stat /\ k'.waitq = k.waitq /\ k'.lock = k.lock
          /\ k.lock = 0 => k'.stat[k'.current] = "READY"
          /\ k.lock # 0 => k'.current = k.current
      BY <1>1, <3>1, SchedulePreserves
    <3>3. QED BY <3>2
  <2>5. QED BY <2>1, <2>2, <2>3, <2>4
<1>4. pc' = pc /\ cont' = cont
  BY DEF SysTick_Handler, rt_timer_check, DeviceSchedule
<1>5. KernelConsistent' /\ SuspendedInCall' /\ RunningIsReady'
  BY <1>3, <1>4, HandlerMoves, CpuPart
<1>6. primask \in BOOLEAN /\ systick \in BOOLEAN /\ device \in BOOLEAN
  BY DEF IInv, TypeOK, CpuTypeOK
<1>7. primask' \in BOOLEAN /\ systick' \in BOOLEAN /\ device' \in BOOLEAN
  <2>1. CASE SysTick_Handler
    BY <1>6, <2>1, Zenon DEF SysTick_Handler
  <2>2. CASE rt_timer_check
    BY <1>6, <2>2, Zenon DEF rt_timer_check
  <2>3. CASE DeviceSchedule
    BY <1>6, <2>3, Zenon DEF DeviceSchedule
  <2>4. QED BY <2>1, <2>2, <2>3
<1>8. pc' \in [Thread -> Point] /\ cont' \in [Thread -> Continuation]
  BY <1>4 DEF IInv, TypeOK
<1>9. QED BY <1>3, <1>5, <1>7, <1>8, KernelStepInv DEF KernelOK

-----------------------------------------------------------------------------
LEMMA StepInvariant == IInv /\ [Next]_vars => IInv'
<1> SUFFICES ASSUME IInv, [Next]_vars PROVE IInv'
  OBVIOUS
<1>1. CASE Handler
  <2>1. CASE (SysTick_Handler \/ rt_timer_check \/ DeviceSchedule) /\ UNCHANGED sems
    BY <2>1, HandlerStep
  <2>2. CASE \E s \in Sem : DeviceRelease(s)
    BY <2>2, DeviceReleaseStep
  <2>3. QED BY <1>1, <2>1, <2>2 DEF Handler
<1>2. ASSUME NEW t \in Thread, ThreadStep(t)
      PROVE  IInv'
  <2>1. CASE Schedule(t) /\ UNCHANGED sems
    BY <2>1, ScheduleStep
  <2>2. CASE SleepReturn(t) /\ UNCHANGED sems
    BY <2>2, SleepReturnStep
  <2>3. CASE TakeReturn(t)
    BY <2>3, TakeReturnStep
  <2>4. CASE ResetResume(t) \/ DetachResume(t)
    BY <2>4, ResumeAllStep
  <2>5. CASE ResetValue(t)
    BY <2>5, ResetValueStep
  <2>6. CASE DetachTest(t)
    BY <2>6, DetachTestStep
  <2>7. QED BY <1>2, <2>1, <2>2, <2>3, <2>4, <2>5, <2>6 DEF ThreadStep
<1>3. ASSUME NEW t \in Thread, ThreadCall(t)
      PROVE  IInv'
  <2>1. CASE rt_thread_yield(t) /\ UNCHANGED sems
    BY <2>1, YieldStep
  <2>2. CASE (rt_enter_critical(t) \/ rt_exit_critical(t)) /\ UNCHANGED sems
    BY <2>2, CriticalStep
  <2>3. CASE (\E time \in WaitTimes : Sleep(t, time)) /\ UNCHANGED sems
    BY <2>3, SleepStep
  <2>4. ASSUME NEW s \in Sem,
               \/ TakeAvailable(t, s) \/ TakeForever(t, s)
               \/ \E time \in WaitTimes : TakeTimed(t, s, time)
               \/ rt_sem_release(t, s)
               \/ \E v \in 0 .. MaxValue : ResetCall(t, s, v)
               \/ DetachCall(t, s)
        PROVE  IInv'
    BY <2>4, TakeAvailableStep, TakeBlockedStep, ReleaseStep, ResetCallStep,
       DetachCallStep
  <2>5. QED BY <1>3, <2>1, <2>2, <2>3, <2>4 DEF ThreadCall
<1>4. CASE UNCHANGED vars
  BY <1>4 DEF vars, IInv, TypeOK, CpuTypeOK, KernelConsistent, SuspendedInCall,
              InCall, RunningIsReady, NoWaiterBesideToken
<1>5. QED BY <1>1, <1>2, <1>3, <1>4 DEF Next

LEMMA Invariance == Spec /\ ~ BlockLocked => []IInv
<1>1. Init /\ ~ BlockLocked => IInv
  BY InitInvariant
<1>2. IInv /\ [Next]_vars => IInv'
  BY StepInvariant
<1>3. QED BY <1>1, <1>2, PTL DEF Spec

\* Every variable keeps its type, the kernel record and the bounded values
\* included, and the ready lists, the bitmap, the waiting lists, the timer
\* list and the threads' states agree in every reachable state (scheduler.c,
\* thread.c, timer.c, ipc.c).
THEOREM StateStaysConsistent == Spec /\ ~ BlockLocked => []StateConsistent
<1>1. IInv => StateConsistent
  BY DEF IInv, StateConsistent
<1>2. QED BY <1>1, Invariance, PTL

\* No thread waits on a semaphore whose value is positive (rt_sem_take,
\* rt_sem_release, rt_sem_control).
THEOREM NoLostWakeup == Spec /\ ~ BlockLocked => []NoWaiterBesideToken
<1>1. IInv => NoWaiterBesideToken
  BY DEF IInv
<1>2. QED BY <1>1, Invariance, PTL

-----------------------------------------------------------------------------
(***************************************************************************)
(* The most urgent ready thread runs, when no semaphore is detached (a     *)
(* detach wakes its waiters and does not call rt_schedule).                *)
(***************************************************************************)

\* A thread that is about to call rt_schedule, a device handler that is, and
\* a reset that will are the only ones that may find another thread chosen.
Urgent ==
  ~ device /\ ~ primask /\ k.lock = 0 /\ pc[k.current] # "sched" => AtHead(k)

\* Interrupts are disabled while a thread is in a reset, so it runs.
ResetMasked == \A u \in Thread : pc[u] = "reset" => primask /\ Running(u)

NoDetach == \A u \in Thread : pc[u] \notin {"detach_test", "detach_resume"}

UrgentInv ==
  /\ Detachable = {}
  /\ IInv
  /\ Urgent
  /\ ResetMasked
  /\ NoDetach

\* A step of the running thread to a point that is no reset.
LEMMA NoReset ==
  ASSUME UrgentInv, NEW t \in Thread, Running(t),
         NEW c \in Continuation \cup {"sched"}, pc' = [pc EXCEPT ![t] = c]
  PROVE  ResetMasked' /\ NoDetach'
<1>1. pc \in [Thread -> Point]
  BY DEF UrgentInv, IInv, TypeOK
<1>2. \A u \in Thread : pc'[u] = IF u = t THEN c ELSE pc[u]
  BY <1>1
<1>3. c \notin {"reset", "detach_test", "detach_resume"}
  BY DEF Continuation
<1>4. \A u \in Thread \ {t} : pc[u] # "reset"
  BY DEF UrgentInv, ResetMasked, Running
<1>5. QED BY <1>2, <1>3, <1>4 DEF UrgentInv, ResetMasked, NoDetach

\* A step after which the running thread is about to call rt_schedule.
LEMMA BeforeSchedule ==
  ASSUME UrgentInv, IInv', NEW t \in Thread, Running(t), k'.current = k.current,
         pc' = [pc EXCEPT ![t] = "sched"]
  PROVE  UrgentInv'
<1>1. pc \in [Thread -> Point] /\ k.current = t
  BY DEF UrgentInv, IInv, TypeOK, Running
<1>2. ResetMasked' /\ NoDetach'
  BY <1>1, NoReset
<1>3. Urgent'
  BY <1>1 DEF Urgent
<1>4. QED BY <1>2, <1>3 DEF UrgentInv

\* A step of the running thread that leaves the ready lists alone.
LEMMA SameHead ==
  ASSUME UrgentInv, IInv', NEW t \in Thread, Running(t), pc[t] # "sched",
         NEW c \in Continuation, pc' = [pc EXCEPT ![t] = c],
         k'.table = k.table, k'.group = k.group, k'.current = k.current,
         k'.lock = k.lock \/ k'.lock > 0, UNCHANGED <<primask, device>>
  PROVE  UrgentInv'
<1>1. pc \in [Thread -> Point] /\ k.current = t /\ k'.lock \in Nat
  BY Fields DEF UrgentInv, IInv, TypeOK, CpuTypeOK, Running
<1>2. ResetMasked' /\ NoDetach'
  BY NoReset
<1>3. AtHead(k)' <=> AtHead(k)
  BY DEF AtHead, highest_ready_priority
<1>4. Urgent'
  BY <1>1, <1>3 DEF UrgentInv, Urgent
<1>5. QED BY <1>2, <1>4 DEF UrgentInv

LEMMA ThreadStepUrgent ==
  ASSUME UrgentInv, IInv', NEW t \in Thread, ThreadStep(t)
  PROVE  UrgentInv'
<1>1. IInv /\ pc \in [Thread -> Point] /\ cont \in [Thread -> Continuation]
      /\ k \in KernelState /\ KernelOK(k)
  BY DEF UrgentInv, IInv, TypeOK, CpuTypeOK, KernelConsistent, KernelOK
<1>2. CASE Schedule(t) /\ UNCHANGED sems
  <2>1. k' = rt_schedule(k) /\ pc' = [pc EXCEPT ![t] = cont[t]] /\ Running(t)
        /\ pc[t] = "sched"
    BY <1>2 DEF Schedule
  <2>2. k'.lock = k.lock /\ k.lock = 0 => AtHead(k')
    BY <1>1, <2>1, SchedulePreserves
  <2>3. k'.lock = k.lock
    BY <1>1, <2>1, SchedulePreserves
  <2>4. Urgent'
    BY <2>2, <2>3 DEF Urgent
  <2>5. ResetMasked' /\ NoDetach'
    BY <1>1, <2>1, NoReset
  <2>6. QED BY <2>4, <2>5 DEF UrgentInv
<1>3. CASE SleepReturn(t) /\ UNCHANGED sems
  <2>1. k'.table = k.table /\ k'.group = k.group /\ k'.current = k.current
        /\ k'.lock = k.lock
    BY <1>1, <1>3 DEF SleepReturn, KernelState
  <2>2. Running(t) /\ pc[t] # "sched" /\ pc' = [pc EXCEPT ![t] = "run"]
        /\ UNCHANGED <<primask, device>> /\ "run" \in Continuation
    BY <1>3 DEF SleepReturn, Goto, Continuation
  <2>3. QED BY <2>1, <2>2, SameHead
<1>4. CASE TakeReturn(t)
  <2>1. Running(t) /\ pc[t] # "sched" /\ pc' = [pc EXCEPT ![t] = "run"]
        /\ k' = k /\ UNCHANGED <<primask, device>> /\ "run" \in Continuation
    BY <1>4 DEF TakeReturn, Goto, Continuation
  <2>2. QED BY <2>1, SameHead
<1>5. CASE ResetResume(t)
  <2>1. pc' = pc /\ UNCHANGED <<primask, systick, device>> /\ pc[t] = "reset"
        /\ Running(t) /\ ResumeFirst(call[t]) /\ k.waitq[call[t]] # << >>
        /\ call[t] \in Sem
    BY <1>1, <1>5 DEF ResetResume, IInv, TypeOK
  <2>2. k'.current = k.current
    BY <1>1, <2>1, ResumeFirstStep
  <2>3. primask'
    BY <2>1 DEF UrgentInv, ResetMasked
  <2>4. QED BY <2>1, <2>2, <2>3 DEF UrgentInv, Urgent, ResetMasked, NoDetach,
               Running, InThread
<1>6. CASE ResetValue(t)
  <2>1. Running(t) /\ k' = k /\ pc' = [pc EXCEPT ![t] = "sched"]
    BY <1>6 DEF ResetValue, ThenSchedule
  <2>2. QED BY <2>1, BeforeSchedule
<1>7. CASE DetachTest(t) \/ DetachResume(t)
  BY <1>7 DEF DetachTest, DetachResume, UrgentInv, NoDetach
<1>8. QED BY <1>2, <1>3, <1>4, <1>5, <1>6, <1>7 DEF ThreadStep

LEMMA ThreadCallUrgent ==
  ASSUME UrgentInv, IInv', NEW t \in Thread, ThreadCall(t)
  PROVE  UrgentInv'
<1>1. IInv /\ pc \in [Thread -> Point] /\ k \in KernelState /\ KernelOK(k)
      /\ k.lock \in Nat
  BY Fields DEF UrgentInv, IInv, TypeOK, CpuTypeOK, KernelConsistent, KernelOK
<1>2. Running(t) /\ pc[t] = "run" /\ "run" \in Continuation
  BY DEF ThreadCall, rt_thread_yield, rt_enter_critical, rt_exit_critical,
         Sleep, rt_thread_sleep, TakeAvailable, TakeForever, TakeTimed, Block,
         rt_sem_release, ResetCall, DetachCall, Calls, Continuation
<1>3. pc = [pc EXCEPT ![t] = "run"]
  BY <1>1, <1>2
<1>4. CASE rt_thread_yield(t) /\ UNCHANGED sems
  <2>1. k'.current = k.current
    BY <1>1, <1>4, YieldPreserves DEF rt_thread_yield
  <2>2. pc' = [pc EXCEPT ![t] = "sched"]
    BY <1>4 DEF rt_thread_yield, ThenSchedule
  <2>3. QED BY <1>2, <2>1, <2>2, BeforeSchedule
<1>5. CASE rt_enter_critical(t) /\ UNCHANGED sems
  <2>1. k'.table = k.table /\ k'.group = k.group /\ k'.current = k.current
        /\ k'.lock > 0 /\ pc' = pc /\ UNCHANGED <<primask, device>>
    BY <1>1, <1>5 DEF rt_enter_critical, KernelState
  <2>2. QED BY <1>2, <1>3, <2>1, SameHead
<1>6. CASE rt_exit_critical(t) /\ UNCHANGED sems
  <2>1. k'.table = k.table /\ k'.group = k.group /\ k'.current = k.current
        /\ k'.lock = k.lock - 1 /\ k.lock > 0 /\ UNCHANGED <<primask, device>>
    BY <1>1, <1>6 DEF rt_exit_critical, KernelState
  <2>2. CASE k.lock = 1
    <3>1. pc' = [pc EXCEPT ![t] = "sched"]
      BY <1>6, <2>2 DEF rt_exit_critical, ThenSchedule
    <3>2. QED BY <1>2, <2>1, <3>1, BeforeSchedule
  <2>3. CASE k.lock # 1
    <3>1. pc' = pc /\ k'.lock > 0
      BY <1>1, <1>6, <2>1, <2>3 DEF rt_exit_critical
    <3>2. QED BY <1>2, <1>3, <2>1, <3>1, SameHead
  <2>4. QED BY <2>2, <2>3
<1>7. ASSUME NEW time \in WaitTimes, Sleep(t, time), UNCHANGED sems
      PROVE  UrgentInv'
  <2>1. k'.current = k.current
    BY <1>1, <1>7, SleepStep
  <2>2. pc' = [pc EXCEPT ![t] = "sched"]
    BY <1>7 DEF Sleep, rt_thread_sleep, ThenSchedule
  <2>3. QED BY <1>2, <2>1, <2>2, BeforeSchedule
<1>8. ASSUME NEW s \in Sem,
             TakeForever(t, s) \/ \E time \in WaitTimes : TakeTimed(t, s, time)
      PROVE  UrgentInv'
  <2>1. k'.current = k.current
    BY <1>1, <1>8, TakeBlockedStep
  <2>2. pc' = [pc EXCEPT ![t] = "sched"]
    BY <1>8 DEF TakeForever, TakeTimed, Block, ThenSchedule
  <2>3. QED BY <1>2, <2>1, <2>2, BeforeSchedule
<1>9. ASSUME NEW s \in Sem, TakeAvailable(t, s)
      PROVE  UrgentInv'
  <2>1. k' = k /\ pc' = pc /\ UNCHANGED <<primask, device>>
    BY <1>9 DEF TakeAvailable, cpu
  <2>2. QED BY <1>2, <1>3, <2>1, SameHead
<1>10. ASSUME NEW s \in Sem, rt_sem_release(t, s)
       PROVE  UrgentInv'
  <2>1. CASE k.waitq[s] # << >>
    <3>1. k'.current = k.current
      BY <1>1, <1>10, GiveStep DEF rt_sem_release
    <3>2. pc' = [pc EXCEPT ![t] = "sched"]
      BY <1>10, <2>1 DEF rt_sem_release, ThenSchedule
    <3>3. QED BY <1>2, <3>1, <3>2, BeforeSchedule
  <2>2. CASE k.waitq[s] = << >>
    <3>1. k' = k /\ pc' = pc /\ UNCHANGED <<primask, device>>
      BY <1>10, <2>2 DEF rt_sem_release, Give
    <3>2. QED BY <1>2, <1>3, <3>1, SameHead
  <2>3. QED BY <2>1, <2>2
<1>11. ASSUME NEW s \in Sem, NEW v \in 0 .. MaxValue, ResetCall(t, s, v)
       PROVE  UrgentInv'
  <2>1. primask' /\ k' = k /\ pc' = [pc EXCEPT ![t] = "reset"]
        /\ UNCHANGED <<systick, device>>
    BY <1>11 DEF ResetCall, Goto
  <2>2. Urgent'
    BY <2>1 DEF Urgent
  <2>3. \A u \in Thread \ {t} : pc[u] # "reset"
    BY <1>2 DEF UrgentInv, ResetMasked, Running
  <2>4. ResetMasked' /\ NoDetach'
    BY <1>1, <1>2, <2>1, <2>3 DEF UrgentInv, ResetMasked, NoDetach, Running, InThread
  <2>5. QED BY <2>2, <2>4 DEF UrgentInv
<1>12. ASSUME NEW s \in Sem, DetachCall(t, s)
       PROVE  UrgentInv'
  BY <1>12 DEF DetachCall, UrgentInv
<1>13. QED BY <1>4, <1>5, <1>6, <1>7, <1>8, <1>9, <1>10, <1>11, <1>12 DEF ThreadCall

LEMMA HandlerUrgent ==
  ASSUME UrgentInv, IInv', Handler
  PROVE  UrgentInv'
<1>1. IInv /\ k \in KernelState /\ KernelOK(k)
  BY DEF UrgentInv, IInv, TypeOK, CpuTypeOK, KernelConsistent, KernelOK
<1>2. pc' = pc /\ \A u \in Thread : pc[u] # "reset"
  <2>1. pc' = pc /\ (~ primask \/ systick \/ device)
    BY DEF Handler, SysTick_Handler, rt_timer_check, DeviceSchedule, DeviceRelease
  <2>2. QED BY <2>1 DEF UrgentInv, ResetMasked, Running, InThread
<1>3. ResetMasked' /\ NoDetach'
  BY <1>2 DEF UrgentInv, ResetMasked, NoDetach
<1>4. CASE SysTick_Handler
  <2>1. k' = tick_increase(k) /\ UNCHANGED <<primask, device>>
    BY <1>4 DEF SysTick_Handler
  <2>2. /\ k'.lock = k.lock
        /\ k.lock = 0 /\ k'.current # k.current => AtHead(k')
        /\ k.lock = 0 /\ AtHead(k) => AtHead(k')
    BY <1>1, <2>1, TickPreserves
  <2>3. Urgent'
    BY <1>2, <2>1, <2>2 DEF UrgentInv, Urgent
  <2>4. QED BY <1>3, <2>3 DEF UrgentInv
<1>5. CASE rt_timer_check /\ Due(k)
  <2>1. k' = timer_expire(k) /\ k.timers # << >>
    BY <1>5 DEF rt_timer_check, Due
  <2>2. k'.lock = k.lock /\ (k.lock = 0 => AtHead(k'))
    BY <1>1, <2>1, ExpirePreserves
  <2>3. Urgent'
    BY <2>2 DEF Urgent
  <2>4. QED BY <1>3, <2>3 DEF UrgentInv
<1>6. CASE rt_timer_check /\ ~ Due(k)
  <2>1. k' = k /\ UNCHANGED <<primask, device>>
    BY <1>6 DEF rt_timer_check
  <2>2. Urgent'
    BY <1>2, <2>1 DEF UrgentInv, Urgent
  <2>3. QED BY <1>3, <2>2 DEF UrgentInv
<1>7. CASE DeviceSchedule
  <2>1. k' = rt_schedule(k)
    BY <1>7 DEF DeviceSchedule
  <2>2. k'.lock = k.lock /\ (k.lock = 0 => AtHead(k'))
    BY <1>1, <2>1, SchedulePreserves
  <2>3. Urgent'
    BY <2>2 DEF Urgent
  <2>4. QED BY <1>3, <2>3 DEF UrgentInv
<1>8. ASSUME NEW s \in Sem, DeviceRelease(s)
      PROVE  UrgentInv'
  <2>1. CASE k.waitq[s] # << >>
    <3>1. device'
      BY <1>8, <2>1 DEF DeviceRelease
    <3>2. QED BY <1>3, <3>1 DEF UrgentInv, Urgent
  <2>2. CASE k.waitq[s] = << >>
    <3>1. k' = k /\ primask' = primask /\ ~ device
      BY <1>8, <2>2 DEF DeviceRelease, Give, InThread
    <3>2. Urgent'
      BY <1>2, <3>1 DEF UrgentInv, Urgent
    <3>3. QED BY <1>3, <3>2 DEF UrgentInv
  <2>3. QED BY <2>1, <2>2
<1>9. QED BY <1>4, <1>5, <1>6, <1>7, <1>8 DEF Handler

\* Whenever a thread runs with the scheduler unlocked, and is not on its way
\* to rt_schedule, it heads the ready list of the highest ready priority
\* (rt_schedule and every caller of it), if no semaphore is detached.
THEOREM UrgentRuns ==
  Spec /\ ~ BlockLocked /\ Detachable = {} => []HighestPriorityRuns
<1>1. Init /\ ~ BlockLocked /\ Detachable = {} => UrgentInv
  <2> SUFFICES ASSUME Init, ~ BlockLocked, Detachable = {} PROVE UrgentInv
    OBVIOUS
  <2>1. IInv
    BY InitInvariant
  <2>2. AtHead(k)
    BY InitKernel DEF Init, CpuInit
  <2>3. ResetMasked /\ NoDetach
    BY DEF Init, CpuInit, ResetMasked, NoDetach
  <2>4. QED BY <2>1, <2>2, <2>3 DEF UrgentInv, Urgent
<1>2. UrgentInv /\ [Next]_vars => UrgentInv'
  <2> SUFFICES ASSUME UrgentInv, [Next]_vars PROVE UrgentInv'
    OBVIOUS
  <2>1. IInv'
    BY StepInvariant DEF UrgentInv
  <2>2. CASE UNCHANGED vars
    BY <2>1, <2>2 DEF vars, UrgentInv, Urgent, AtHead, highest_ready_priority,
                      ResetMasked, Running, InThread, NoDetach
  <2>3. QED BY <2>1, <2>2, ThreadStepUrgent, ThreadCallUrgent, HandlerUrgent DEF Next
<1>3. UrgentInv => HighestPriorityRuns
  BY DEF UrgentInv, Urgent, AtHead, HighestPriorityRuns, InThread
<1>4. QED BY <1>1, <1>2, <1>3, PTL DEF Spec
-----------------------------------------------------------------------------
(***************************************************************************)
(* What a step does to the waiting threads and the tokens.  Every action   *)
(* of the semaphores, of the scheduler and of the handlers is one of seven *)
(* effects; what holds of the waiting queues and the tokens is proved of   *)
(* the effects.                                                            *)
(***************************************************************************)

\* Thread t is in the part of rt_sem_take behind the suspension.
Waits(t) == pc[t] = "take" \/ (pc[t] = "sched" /\ cont[t] = "take")

\* Who is on a waiting queue is in a take of that semaphore, with no error
\* yet; who is suspended in a take is on the queue of its semaphore.
QueueHoldsWaiters ==
  /\ \A s \in Sem : \A t \in ToSet(k.waitq[s]) :
       Waits(t) /\ call[t] = s /\ k.error[t] = "EOK"
  /\ \A t \in Thread :
       Waits(t) /\ k.stat[t] = "SUSPEND" => t \in ToSet(k.waitq[call[t]])

\* The queue of a PRIO semaphore is in the order of the priorities, which
\* nothing changes.
QueueInOrder ==
  /\ k.prio = init_prio
  /\ \A s \in Sem : flag[s] = "PRIO" => Sorted(k.waitq[s], init_prio)

WaitInv == IInv /\ QueueHoldsWaiters /\ QueueInOrder

\* The step leaves what the semaphores know of thread u alone.
SameWaiter(u) ==
  /\ Waits(u)' <=> Waits(u)
  /\ Waits(u) => /\ call'[u] = call[u]
                 /\ k'.stat[u] = k.stat[u] /\ k'.error[u] = k.error[u]

\* No thread enters, leaves or changes its take.
SameCalls == \A u \in Thread : (Waits(u)' <=> Waits(u)) /\ (Waits(u) => call'[u] = call[u])

SameButFor(t) ==
  /\ \A u \in Thread \ {t} : SameWaiter(u)
  /\ k'.prio = k.prio

SameQueues == k'.waitq = k.waitq /\ k'.prio = k.prio /\ \A u \in Thread : SameWaiter(u)

\* The seven effects.
Rests == SameQueues /\ UNCHANGED <<value, credit>>

Takes(s) ==
  /\ SameQueues /\ value[s] > 0
  /\ value'  = [value EXCEPT ![s] = @ - 1]
  /\ credit' = [credit EXCEPT ![s] = @ - 1]

Adds(s) ==
  /\ SameQueues /\ k.waitq[s] = << >>
  /\ value'  = [value EXCEPT ![s] = @ + 1]
  /\ credit' = [credit EXCEPT ![s] = @ + 1]

Resets(s, v) ==
  /\ SameQueues /\ k.waitq[s] = << >>
  /\ value'  = [value EXCEPT ![s] = v]
  /\ credit' = [credit EXCEPT ![s] = @ + v - value[s]]

Joins(t, s) ==
  /\ SameButFor(t) /\ alive[s] /\ value[s] = 0
  /\ ~ Waits(t) /\ Waits(t)' /\ call'[t] = s
  /\ k.stat[t] = "READY" /\ k'.stat[t] = "SUSPEND" /\ k'.error[t] = "EOK"
  /\ k'.waitq = [k.waitq EXCEPT ![s] = QueueWith(k.prio, k.waitq[s], flag[s], t)]
  /\ UNCHANGED <<value, credit>>

Wakes(t, s, e) ==
  /\ SameButFor(t) /\ t \in ToSet(k.waitq[s])
  /\ Waits(t)' /\ call'[t] = s
  /\ k'.stat[t] = "READY" /\ k'.error[t] = e
  /\ k'.waitq = [k.waitq EXCEPT ![s] = RemoveFirst(@, t)]
  /\ value' = value
  /\ \/ e = "EOK" /\ t = Head(k.waitq[s]) /\ credit' = [credit EXCEPT ![s] = @ + 1]
     \/ e \in {"ETIMEOUT", "ERROR"} /\ credit' = credit

Returns(t) ==
  /\ SameButFor(t) /\ k'.waitq = k.waitq /\ value' = value
  /\ Waits(t) /\ ~ Waits(t)' /\ k.stat[t] = "READY"
  /\ credit' = IF k.error[t] = "EOK" THEN [credit EXCEPT ![call[t]] = @ - 1] ELSE credit

Effect ==
  \/ Rests
  \/ \E s \in Sem : Takes(s) \/ Adds(s) \/ \E v \in 0 .. MaxValue : Resets(s, v)
  \/ \E t \in Thread :
       \/ Returns(t)
       \/ \E s \in Sem : Joins(t, s) \/ \E e \in Error : Wakes(t, s, e)

-----------------------------------------------------------------------------
LEMMA WaitTyped ==
  ASSUME WaitInv
  PROVE  /\ IInv /\ CpuInv /\ KernelOK(k) /\ k \in KernelState /\ Consistent(k)
         /\ pc \in [Thread -> Point] /\ cont \in [Thread -> Continuation]
         /\ call \in [Thread -> Sem] /\ value \in [Sem -> 0 .. MaxValue]
         /\ credit \in [Sem -> Int] /\ reset \in [Thread -> 0 .. MaxValue]
         /\ k.stat \in [Thread -> Stat] /\ k.error \in [Thread -> Error]
         /\ k.waitq \in [Sem -> Seq(Thread)] /\ k.current \in Thread
         /\ k.prio \in [Thread -> Priority]
<1>1. IInv /\ CpuInv /\ k \in KernelState /\ Consistent(k)
  BY CpuPart DEF WaitInv, IInv, TypeOK, CpuTypeOK, KernelConsistent
<1>2. QED BY <1>1, Fields DEF KernelOK, IInv, TypeOK, Sem

\* A step of t, in no take before it or after it, that leaves the rest alone.
LEMMA NotInTake ==
  ASSUME WaitInv, NEW t \in Thread, ~ Waits(t), ~ Waits(t)',
         \A u \in Thread \ {t} : /\ pc'[u] = pc[u] /\ cont'[u] = cont[u]
                                 /\ call'[u] = call[u] /\ k'.stat[u] = k.stat[u]
                                 /\ k'.error[u] = k.error[u],
         k'.waitq = k.waitq, k'.prio = k.prio
  PROVE  SameQueues
BY DEF SameQueues, SameWaiter, Waits

\* The steps of the scheduler's interface.
LEMMA SchedulerRests ==
  ASSUME WaitInv, NEW t \in Thread, UNCHANGED sems,
         \/ Schedule(t) \/ SleepReturn(t) \/ rt_thread_yield(t)
         \/ rt_enter_critical(t) \/ rt_exit_critical(t)
         \/ \E time \in WaitTimes : Sleep(t, time)
  PROVE  Rests
<1>0. /\ IInv /\ CpuInv /\ KernelOK(k) /\ k \in KernelState
      /\ pc \in [Thread -> Point] /\ cont \in [Thread -> Continuation]
      /\ call' = call /\ value' = value /\ credit' = credit
      /\ k.stat \in [Thread -> Stat] /\ k.error \in [Thread -> Error]
  BY WaitTyped DEF sems
<1>1. CASE Schedule(t)
  <2>1. /\ k' = rt_schedule(k) /\ pc[t] = "sched"
        /\ pc' = [pc EXCEPT ![t] = cont[t]] /\ cont' = [cont EXCEPT ![t] = "run"]
    BY <1>1 DEF Schedule
  <2>2. /\ k'.stat = k.stat /\ k'.waitq = k.waitq /\ k'.prio = k.prio
        /\ k'.error = k.error
    BY <1>0, <2>1, SchedulePreserves
  <2>3. \A u \in Thread : Waits(u)' <=> Waits(u)
    BY <1>0, <2>1 DEF Waits, Continuation
  <2>4. QED BY <1>0, <2>2, <2>3 DEF Rests, SameQueues, SameWaiter
<1>2. CASE SleepReturn(t)
  <2>1. k' = [k EXCEPT !.error[t] = "EOK"] \/ k' = k
    BY <1>2 DEF SleepReturn
  <2>2. /\ k'.stat = k.stat /\ k'.waitq = k.waitq /\ k'.prio = k.prio
        /\ \A u \in Thread \ {t} : k'.error[u] = k.error[u]
    <3>1. CASE k' = k
      BY <3>1
    <3>2. CASE k' = [k EXCEPT !.error[t] = "EOK"]
      <4>1. "EOK" \in Error
        BY DEF Error
      <4>2. /\ k'.stat = k.stat /\ k'.waitq = k.waitq /\ k'.prio = k.prio
            /\ k'.error = [k.error EXCEPT ![t] = "EOK"]
        BY <1>0, <3>2, <4>1, SetError
      <4>3. QED BY <1>0, <4>2
    <3>3. QED BY <2>1, <3>1, <3>2
  <2>3. pc[t] = "slept" /\ pc' = [pc EXCEPT ![t] = "run"] /\ cont' = cont
    BY <1>2 DEF SleepReturn, Goto
  <2>4. ~ Waits(t) /\ ~ Waits(t)'
    BY <1>0, <2>3 DEF Waits
  <2>5. SameQueues
    BY <1>0, <2>2, <2>3, <2>4, NotInTake
  <2>6. QED BY <1>0, <2>5 DEF Rests
<1>3. CASE rt_thread_yield(t)
  <2>1. k' = yield_rotate(k) /\ may_yield(k) /\ pc[t] = "run"
        /\ pc' = [pc EXCEPT ![t] = "sched"] /\ cont' = [cont EXCEPT ![t] = "run"]
    BY <1>3 DEF rt_thread_yield, ThenSchedule
  <2>2. /\ k'.stat = k.stat /\ k'.waitq = k.waitq /\ k'.prio = k.prio
        /\ k'.error = k.error
    BY <1>0, <2>1, YieldPreserves, YieldFrame
  <2>3. ~ Waits(t) /\ ~ Waits(t)'
    BY <1>0, <2>1 DEF Waits
  <2>4. SameQueues
    BY <1>0, <2>1, <2>2, <2>3, NotInTake
  <2>5. QED BY <1>0, <2>4 DEF Rests
<1>4. CASE rt_enter_critical(t) \/ rt_exit_critical(t)
  <2>1. /\ pc[t] = "run"
        /\ k' = [k EXCEPT !.lock = k.lock + 1] \/ k' = [k EXCEPT !.lock = k.lock - 1]
        /\ \/ pc' = pc /\ cont' = cont
           \/ pc' = [pc EXCEPT ![t] = "sched"] /\ cont' = [cont EXCEPT ![t] = "run"]
    BY <1>4 DEF rt_enter_critical, rt_exit_critical, ThenSchedule
  <2>2. /\ k'.stat = k.stat /\ k'.waitq = k.waitq /\ k'.prio = k.prio
        /\ k'.error = k.error
    BY <1>0, <2>1 DEF KernelState
  <2>3. ~ Waits(t) /\ ~ Waits(t)'
    BY <1>0, <2>1 DEF Waits
  <2>4. \A u \in Thread \ {t} : pc'[u] = pc[u] /\ cont'[u] = cont[u]
    BY <1>0, <2>1
  <2>5. SameQueues
    BY <1>0, <2>2, <2>3, <2>4, NotInTake
  <2>6. QED BY <1>0, <2>5 DEF Rests
<1>5. ASSUME NEW time \in WaitTimes, Sleep(t, time)
      PROVE  Rests
  <2> DEFINE u == rt_thread_suspend(k, t)
  <2>1. /\ k' = rt_timer_start(u, t, time) /\ pc[t] = "run" /\ t # Idle /\ Running(t)
        /\ pc' = [pc EXCEPT ![t] = "sched"] /\ cont' = [cont EXCEPT ![t] = "slept"]
    BY <1>5 DEF Sleep, rt_thread_sleep, ThenSchedule
  <2>2. k.stat[t] = "READY"
    BY <1>0, <2>1, RunningThread
  <2>3. /\ KernelOK(u) /\ u.stat = [k.stat EXCEPT ![t] = "SUSPEND"]
        /\ u.waitq = k.waitq /\ u.prio = k.prio /\ u.error = k.error
    BY <1>0, <2>1, <2>2, SuspendPreserves, SuspendFrame
  <2> HIDE DEF u
  <2>4. u.stat[t] = "SUSPEND" /\ time \in Nat
    BY <1>0, <2>3, SemaphoreAssumption
  <2>5. /\ k'.stat = u.stat /\ k'.waitq = u.waitq /\ k'.prio = u.prio
        /\ k'.error = u.error
    BY <2>1, <2>3, <2>4, TimerStartPreserves, ZenonT(60)
  <2>6. ~ Waits(t) /\ ~ Waits(t)'
    BY <1>0, <2>1 DEF Waits
  <2>7. \A x \in Thread \ {t} : /\ pc'[x] = pc[x] /\ cont'[x] = cont[x]
                                /\ k'.stat[x] = k.stat[x] /\ k'.error[x] = k.error[x]
    BY <1>0, <2>1, <2>3, <2>5
  <2>8. SameQueues
    BY <1>0, <2>3, <2>5, <2>6, <2>7, NotInTake
  <2>9. QED BY <1>0, <2>8 DEF Rests
<1>6. QED BY <1>1, <1>2, <1>3, <1>4, <1>5

\* A thread is on one queue, so unlinking it changes that queue only.
LEMMA OffOthers ==
  ASSUME WaitInv, NEW s \in Sem, NEW t \in ToSet(k.waitq[s])
  PROVE  [o \in Object |-> RemoveFirst(k.waitq[o], t)]
           = [k.waitq EXCEPT ![s] = RemoveFirst(@, t)]
<1>0. k.waitq \in [Sem -> Seq(Thread)] /\ Consistent(k)
  BY WaitTyped
<1>1. \A o \in Sem \ {s} : t \notin ToSet(k.waitq[o])
  BY <1>0 DEF Consistent, WaitListsHoldSuspended, Sem
<1>2. \A o \in Sem \ {s} : RemoveFirst(k.waitq[o], t) = k.waitq[o]
  BY <1>0, <1>1, RemoveAbsent
<1>3. QED BY <1>0, <1>2 DEF Sem

\* A take that finds no token.
LEMMA BlockJoins ==
  ASSUME WaitInv, NEW t \in Thread, NEW s \in Sem,
         \/ TakeForever(t, s)
         \/ \E time \in WaitTimes : TakeTimed(t, s, time)
  PROVE  Joins(t, s)
<1> DEFINE r == [k EXCEPT !.error[t] = "EOK"]
           w == Suspended(t, s)
<1>0. /\ IInv /\ CpuInv /\ KernelOK(k) /\ k \in KernelState
      /\ pc \in [Thread -> Point] /\ cont \in [Thread -> Continuation]
      /\ call \in [Thread -> Sem]
      /\ k.stat \in [Thread -> Stat] /\ k.error \in [Thread -> Error]
      /\ k.waitq \in [Sem -> Seq(Thread)]
  BY WaitTyped
<1>1. PICK u : Block(t, s, u) /\ (u = w \/ \E time \in WaitTimes : u = rt_timer_start(w, t, time))
  BY DEF TakeForever, TakeTimed
<1>2. /\ Running(t) /\ pc[t] = "run" /\ t # Idle /\ alive[s] /\ value[s] = 0 /\ k' = u
      /\ pc' = [pc EXCEPT ![t] = "sched"] /\ cont' = [cont EXCEPT ![t] = "take"]
      /\ call' = [call EXCEPT ![t] = s] /\ UNCHANGED <<value, credit>>
  BY <1>1 DEF Block, Calls, ThenSchedule
<1>3. k.stat[t] = "READY"
  BY <1>0, <1>2, RunningThread
<1>4. /\ KernelOK(r) /\ r.stat = k.stat /\ r.waitq = k.waitq /\ r.prio = k.prio
      /\ r.error = [k.error EXCEPT ![t] = "EOK"]
  <2>1. "EOK" \in Error /\ KernelOK(k)
    BY <1>0 DEF Error
  <2>2. LET v == [k EXCEPT !.error[t] = "EOK"]
        IN  /\ KernelOK(v) /\ v.stat = k.stat /\ v.waitq = k.waitq /\ v.prio = k.prio
            /\ v.error = [k.error EXCEPT ![t] = "EOK"]
    BY <2>1, SetError
  <2>3. QED BY <2>2
<1>5. w = rt_ipc_list_suspend(r, s, t, flag[s])
  BY DEF Suspended
<1> HIDE DEF r, w
<1>6. /\ KernelOK(w) /\ w.stat = [k.stat EXCEPT ![t] = "SUSPEND"]
      /\ w.prio = k.prio /\ w.error = r.error
  <2>1. s \in Object /\ r.stat[t] = "READY"
    BY <1>3, <1>4 DEF Sem
  <2>2. QueuedOn(r, s, t, w)
    BY <1>2, <1>4, <1>5, <2>1, IpcSuspendPreserves
  <2>3. QED BY <1>4, <2>2 DEF QueuedOn
<1>7. w.waitq = [k.waitq EXCEPT ![s] = QueueWith(k.prio, k.waitq[s], flag[s], t)]
  <2>1. s \in Object /\ r.stat[t] = "READY" /\ KernelOK(r) /\ t # Idle
    BY <1>2, <1>3, <1>4 DEF Sem
  <2>2. LET v == rt_ipc_list_suspend(r, s, t, flag[s])
        IN  v.waitq = [r.waitq EXCEPT ![s] = QueueWith(r.prio, r.waitq[s], flag[s], t)]
    BY <2>1, IpcSuspendFrame
  <2>3. QED BY <1>4, <1>5, <2>2
<1>8. /\ u.stat = w.stat /\ u.waitq = w.waitq /\ u.prio = w.prio /\ u.error = w.error
  <2>1. w.stat[t] = "SUSPEND"
    BY <1>0, <1>6
  <2>2. ASSUME NEW time \in WaitTimes, u = rt_timer_start(w, t, time)
        PROVE  u.stat = w.stat /\ u.waitq = w.waitq /\ u.prio = w.prio /\ u.error = w.error
    <3>1. time \in Nat
      BY SemaphoreAssumption
    <3>2. QED BY <1>6, <2>1, <2>2, <3>1, TimerStartPreserves, ZenonT(60)
  <2>3. QED BY <1>1, <2>2
<1>9. /\ k'.waitq = [k.waitq EXCEPT ![s] = QueueWith(k.prio, k.waitq[s], flag[s], t)] /\ k'.prio = k.prio
      /\ k'.stat = [k.stat EXCEPT ![t] = "SUSPEND"]
      /\ k'.error = [k.error EXCEPT ![t] = "EOK"]
  BY <1>2, <1>4, <1>6, <1>7, <1>8
<1>10. SameButFor(t) /\ ~ Waits(t) /\ Waits(t)'
  BY <1>0, <1>2, <1>9 DEF SameButFor, SameWaiter, Waits
<1>11. call'[t] = s /\ k'.stat[t] = "SUSPEND" /\ k'.error[t] = "EOK"
  BY <1>0, <1>2, <1>9
<1>12. QED BY <1>2, <1>3, <1>9, <1>10, <1>11 DEF Joins

\* A waiting thread is woken with an error code by the running thread or by a
\* handler, which may set the thread's error first.
LEMMA WakeFrame ==
  ASSUME WaitInv, NEW s \in Sem, NEW t \in ToSet(k.waitq[s]), NEW r, KernelOK(r),
         r.stat = k.stat, r.waitq = k.waitq, r.prio = k.prio,
         k' = rt_thread_resume(r, t),
         \A u \in Thread \ {t} : r.error[u] = k.error[u],
         SameCalls
  PROVE  /\ t \in Thread /\ SameButFor(t) /\ Waits(t)' /\ call'[t] = s
         /\ k'.stat[t] = "READY" /\ k'.error[t] = r.error[t]
         /\ k'.waitq = [k.waitq EXCEPT ![s] = RemoveFirst(@, t)]
<1>0. /\ KernelOK(k) /\ Consistent(k) /\ k \in KernelState
      /\ k.stat \in [Thread -> Stat] /\ k.waitq \in [Sem -> Seq(Thread)]
  BY WaitTyped
<1>1. t \in Thread /\ k.stat[t] = "SUSPEND" /\ Waits(t) /\ call[t] = s
  <2>1. t \in Thread
    BY <1>0, MembersOf
  <2>2. QED BY <1>0, <2>1, ConsistentLists DEF WaitInv, QueueHoldsWaiters, Sem
<1>2. /\ k'.stat = [k.stat EXCEPT ![t] = "READY"] /\ k'.prio = k.prio
      /\ k'.error = r.error
  BY <1>1, ResumePreserves
<1>3. k'.waitq = [o \in Object |-> RemoveFirst(k.waitq[o], t)]
  BY <1>1, ResumeFrame DEF Unlinked
<1>4. k'.waitq = [k.waitq EXCEPT ![s] = RemoveFirst(@, t)]
  BY <1>0, <1>1, <1>3, OffOthers DEF Sem
<1>5. SameButFor(t)
  BY <1>0, <1>2 DEF SameCalls, SameButFor, SameWaiter
<1>6. Waits(t)' /\ call'[t] = s
  BY <1>1 DEF SameCalls
<1>7. QED BY <1>0, <1>1, <1>2, <1>4, <1>5, <1>6

\* The handlers: a timer that expires wakes the thread whose take it limits.
LEMMA HandlerWakes ==
  ASSUME WaitInv, SysTick_Handler \/ rt_timer_check \/ DeviceSchedule, UNCHANGED sems
  PROVE  Rests \/ \E t \in Thread, s \in Sem : Wakes(t, s, "ETIMEOUT")
<1>0. /\ KernelOK(k) /\ Consistent(k) /\ k \in KernelState
      /\ call' = call /\ value' = value /\ credit' = credit
      /\ k.stat \in [Thread -> Stat] /\ k.waitq \in [Sem -> Seq(Thread)]
      /\ k.error \in [Thread -> Error] /\ call \in [Thread -> Sem]
  BY WaitTyped DEF sems
<1>1. pc' = pc /\ cont' = cont
  BY DEF SysTick_Handler, rt_timer_check, DeviceSchedule
<1>2. \A u \in Thread : (Waits(u)' <=> Waits(u)) /\ call'[u] = call[u]
  BY <1>0, <1>1 DEF Waits
<1>3. ASSUME k'.stat = k.stat, k'.waitq = k.waitq, k'.prio = k.prio, k'.error = k.error
      PROVE  Rests
  BY <1>0, <1>2, <1>3 DEF Rests, SameQueues, SameWaiter
<1>4. CASE SysTick_Handler
  <2>1. k' = tick_increase(k)
    BY <1>4 DEF SysTick_Handler
  <2>2. k'.stat = k.stat /\ k'.prio = k.prio /\ k'.error = k.error
    BY <1>0, <2>1, TickPreserves
  <2>3. k'.waitq = k.waitq
    BY <1>0, <2>1, TickFrame
  <2>4. QED BY <1>3, <2>2, <2>3
<1>5. CASE DeviceSchedule
  <2>1. k' = rt_schedule(k)
    BY <1>5 DEF DeviceSchedule
  <2>2. QED BY <1>0, <1>3, <2>1, SchedulePreserves
<1>6. CASE rt_timer_check /\ ~ Due(k)
  <2>1. k' = k
    BY <1>6 DEF rt_timer_check
  <2>2. QED BY <1>3, <2>1
<1>7. CASE rt_timer_check /\ Due(k)
  <2>0. PICK t : t = Head(k.timers)
    OBVIOUS
  <2>1. k' = timer_expire(k) /\ k.timers # << >>
    BY <1>7 DEF rt_timer_check, Due
  <2>2. /\ k.stat[t] = "SUSPEND" /\ k'.stat = [k.stat EXCEPT ![t] = "READY"]
        /\ k'.error = [k.error EXCEPT ![t] = "ETIMEOUT"] /\ k'.prio = k.prio
    BY <1>0, <2>0, <2>1, ExpirePreserves
  <2>3. t \in Thread /\ k'.waitq = [o \in Object |-> RemoveFirst(k.waitq[o], t)]
    BY <1>0, <2>0, <2>1, ExpireFrame DEF Unlinked
  <2>4. SameButFor(t)
    BY <1>0, <1>2, <2>2, <2>3 DEF SameButFor, SameWaiter
  <2>5. CASE Waits(t)
    <3>0. PICK s : s = call[t]
      OBVIOUS
    <3>1. s \in Sem /\ t \in ToSet(k.waitq[s])
      BY <1>0, <2>2, <2>3, <2>5, <3>0 DEF WaitInv, QueueHoldsWaiters
    <3>2. k'.waitq = [k.waitq EXCEPT ![s] = RemoveFirst(@, t)]
      BY <2>3, <3>1, OffOthers
    <3>3. Waits(t)' /\ call'[t] = s
      BY <1>2, <2>3, <2>5, <3>0
    <3>4. k'.stat[t] = "READY" /\ k'.error[t] = "ETIMEOUT"
      BY <1>0, <2>2, <2>3
    <3>5. Wakes(t, s, "ETIMEOUT")
      BY <1>0, <2>4, <3>1, <3>2, <3>3, <3>4 DEF Wakes
    <3>6. QED BY <2>3, <3>1, <3>5
  <2>6. CASE ~ Waits(t)
    <3>1. \A o \in Sem : t \notin ToSet(k.waitq[o])
      BY <2>6 DEF WaitInv, QueueHoldsWaiters
    <3>2. \A o \in Sem : RemoveFirst(k.waitq[o], t) = k.waitq[o]
      BY <1>0, <3>1, RemoveAbsent
    <3>3. k'.waitq = k.waitq
      BY <1>0, <2>3, <3>2 DEF Sem
    <3>4. SameWaiter(t)
      BY <1>2, <2>3, <2>6 DEF SameWaiter
    <3>5. QED BY <1>0, <2>4, <3>3, <3>4 DEF Rests, SameQueues, SameButFor
  <2>7. QED BY <2>5, <2>6
<1>8. QED BY <1>4, <1>5, <1>6, <1>7

\* rt_sem_release, by a thread or by a handler: the token goes to the first
\* waiter, or is added to the value.
LEMMA GiveEffect ==
  ASSUME WaitInv, NEW s \in Sem, Give(s),
         credit' = [credit EXCEPT ![s] = @ + 1],
         SameCalls
  PROVE  Adds(s) \/ \E t \in Thread : Wakes(t, s, "EOK")
<1>0. /\ KernelOK(k) /\ Consistent(k) /\ k \in KernelState
      /\ k.waitq \in [Sem -> Seq(Thread)]
  BY WaitTyped
<1>1. CASE k.waitq[s] = << >>
  <2>1. k' = k /\ value' = [value EXCEPT ![s] = @ + 1]
    BY <1>1 DEF Give
  <2>2. QED BY <1>1, <2>1 DEF Adds, SameQueues, SameCalls, SameWaiter
<1>2. CASE k.waitq[s] # << >>
  <2>0. PICK t : t = Head(k.waitq[s])
    OBVIOUS
  <2>1. t \in ToSet(k.waitq[s]) /\ t \in Thread
    BY <1>0, <1>2, <2>0, ConsistentLists, HeadOfList DEF ListsInjective, Sem
  <2>2. k' = rt_thread_resume(k, t) /\ value' = value
    BY <1>2, <2>0 DEF Give, rt_ipc_list_resume
  <2>4. /\ SameButFor(t) /\ Waits(t)' /\ call'[t] = s
        /\ k'.stat[t] = "READY" /\ k'.error[t] = k.error[t]
        /\ k'.waitq = [k.waitq EXCEPT ![s] = RemoveFirst(@, t)]
    <3>1. KernelOK(k)
      BY <1>0
    <3>2. QED BY <2>1, <2>2, <3>1, WakeFrame
  <2>5. k.error[t] = "EOK"
    BY <2>1 DEF WaitInv, QueueHoldsWaiters
  <2>6. Wakes(t, s, "EOK")
    BY <2>0, <2>1, <2>2, <2>4, <2>5 DEF Wakes
  <2>7. QED BY <2>1, <2>6
<1>3. QED BY <1>1, <1>2

\* One round of rt_ipc_list_resume_all.
LEMMA ResumeFirstWakes ==
  ASSUME WaitInv, NEW s \in Sem, k.waitq[s] # << >>, ResumeFirst(s),
         UNCHANGED <<value, credit>>,
         SameCalls
  PROVE  \E t \in Thread : Wakes(t, s, "ERROR")
<1>0. /\ KernelOK(k) /\ Consistent(k) /\ k \in KernelState
      /\ k.waitq \in [Sem -> Seq(Thread)] /\ k.error \in [Thread -> Error]
  BY WaitTyped
<1>a. PICK t : t = Head(k.waitq[s])
  OBVIOUS
<1> DEFINE r == [k EXCEPT !.error[t] = "ERROR"]
<1>1. t \in ToSet(k.waitq[s]) /\ t \in Thread
  BY <1>0, <1>a, ConsistentLists, HeadOfList DEF ListsInjective, Sem
<1>2. k' = rt_thread_resume(r, t)
  BY <1>a DEF ResumeFirst
<1>3. /\ KernelOK(r)
      /\ r.stat = k.stat /\ r.waitq = k.waitq /\ r.prio = k.prio
      /\ r.error = [k.error EXCEPT ![t] = "ERROR"]
  <2>1. "ERROR" \in Error /\ KernelOK(k)
    BY <1>0 DEF Error
  <2>2. LET v == [k EXCEPT !.error[t] = "ERROR"]
        IN  /\ KernelOK(v) /\ v.stat = k.stat /\ v.waitq = k.waitq /\ v.prio = k.prio
            /\ v.error = [k.error EXCEPT ![t] = "ERROR"]
    BY <1>1, <2>1, SetError
  <2>3. QED BY <2>2
<1> HIDE DEF r
<1>4. r.error[t] = "ERROR" /\ \A u \in Thread \ {t} : r.error[u] = k.error[u]
  BY <1>0, <1>1, <1>3
<1>5. /\ SameButFor(t) /\ Waits(t)' /\ call'[t] = s
      /\ k'.stat[t] = "READY" /\ k'.error[t] = r.error[t]
      /\ k'.waitq = [k.waitq EXCEPT ![s] = RemoveFirst(@, t)]
  <2>1. KernelOK(r) /\ r.stat = k.stat /\ r.waitq = k.waitq /\ r.prio = k.prio
    BY <1>3
  <2>2. QED BY <1>1, <1>2, <1>4, <2>1, WakeFrame
<1>6. Wakes(t, s, "ERROR")
  BY <1>1, <1>4, <1>5 DEF Wakes
<1>7. QED BY <1>1, <1>6

\* The calls that touch a semaphore and no waiter, and what resets and
\* detaches do before and behind the loop that wakes the waiters.
LEMMA PlainRests ==
  ASSUME WaitInv, NEW t \in Thread,
         \/ DetachTest(t)
         \/ DetachResume(t) /\ k.waitq[call[t]] = << >>
         \/ \E s \in Sem : DetachCall(t, s) \/ \E v \in 0 .. MaxValue : ResetCall(t, s, v)
  PROVE  Rests
<1>0. /\ pc \in [Thread -> Point] /\ cont \in [Thread -> Continuation]
      /\ call \in [Thread -> Sem]
  BY WaitTyped
<1>1. /\ k' = k /\ cont' = cont /\ value' = value /\ credit' = credit
      /\ pc[t] \in {"run", "detach_test", "detach_resume"}
      /\ pc' = pc \/ pc' = [pc EXCEPT ![t] = "run"]
          \/ pc' = [pc EXCEPT ![t] = "detach_resume"]
          \/ pc' = [pc EXCEPT ![t] = "detach_test"] \/ pc' = [pc EXCEPT ![t] = "reset"]
      /\ call' = call \/ \E s \in Sem : call' = [call EXCEPT ![t] = s]
  BY DEF DetachTest, DetachResume, DetachCall, ResetCall, Calls, Goto, sems
<1>2. ~ Waits(t) /\ ~ Waits(t)'
  BY <1>0, <1>1 DEF Waits
<1>3. \A u \in Thread \ {t} : pc'[u] = pc[u] /\ cont'[u] = cont[u] /\ call'[u] = call[u]
  BY <1>0, <1>1
<1>4. SameQueues
  BY <1>1, <1>2, <1>3, NotInTake
<1>5. QED BY <1>1, <1>4 DEF Rests

LEMMA ThreadEffect ==
  ASSUME WaitInv, NEW t \in Thread, ThreadStep(t) \/ ThreadCall(t)
  PROVE  Effect
<1>0. /\ IInv /\ CpuInv /\ pc \in [Thread -> Point] /\ cont \in [Thread -> Continuation]
      /\ call \in [Thread -> Sem] /\ reset \in [Thread -> 0 .. MaxValue]
  BY WaitTyped
<1>1. CASE \/ Schedule(t) /\ UNCHANGED sems
           \/ SleepReturn(t) /\ UNCHANGED sems
           \/ rt_thread_yield(t) /\ UNCHANGED sems
           \/ rt_enter_critical(t) /\ UNCHANGED sems
           \/ rt_exit_critical(t) /\ UNCHANGED sems
           \/ (\E time \in WaitTimes : Sleep(t, time)) /\ UNCHANGED sems
  BY <1>1, SchedulerRests DEF Effect
<1>2. CASE TakeReturn(t)
  <2>1. /\ Running(t) /\ pc[t] = "take" /\ k' = k /\ value' = value /\ call' = call
        /\ pc' = [pc EXCEPT ![t] = "run"] /\ cont' = cont
        /\ credit' = IF k.error[t] = "EOK" THEN [credit EXCEPT ![call[t]] = @ - 1]
                                           ELSE credit
    BY <1>2 DEF TakeReturn, Goto
  <2>2. k.stat[t] = "READY"
    BY <1>0, <2>1, RunningThread
  <2>3. SameButFor(t) /\ Waits(t) /\ ~ Waits(t)'
    BY <1>0, <2>1 DEF SameButFor, SameWaiter, Waits
  <2>4. Returns(t)
    BY <2>1, <2>2, <2>3 DEF Returns
  <2>5. QED BY <2>4 DEF Effect
<1>3. CASE \/ ResetResume(t)
           \/ DetachResume(t) /\ k.waitq[call[t]] # << >>
  <2>1. /\ ResumeFirst(call[t]) /\ k.waitq[call[t]] # << >> /\ UNCHANGED <<value, credit>>
        /\ call' = call /\ cont' = cont /\ pc[t] \in {"reset", "detach_resume"}
        /\ pc' = pc \/ pc' = [pc EXCEPT ![t] = "detach_test"]
    BY <1>3 DEF ResetResume, DetachResume, Goto, sems
  <2>2. SameCalls
    BY <1>0, <2>1 DEF SameCalls, Waits
  <2>3. PICK s \in Sem : s = call[t]
    BY <1>0
  <2>4. \E u \in Thread : Wakes(u, s, "ERROR")
    BY <2>1, <2>2, <2>3, ResumeFirstWakes
  <2>5. QED BY <2>4 DEF Effect, Error
<1>4. CASE ResetValue(t)
  <2>1. PICK s \in Sem, v \in 0 .. MaxValue : s = call[t] /\ v = reset[t]
    BY <1>0
  <2>2. /\ k' = k /\ k.waitq[s] = << >> /\ pc[t] = "reset" /\ call' = call
        /\ value' = [value EXCEPT ![s] = v]
        /\ credit' = [credit EXCEPT ![s] = @ + v - value[s]]
        /\ pc' = [pc EXCEPT ![t] = "sched"] /\ cont' = [cont EXCEPT ![t] = "run"]
    BY <1>4, <2>1 DEF ResetValue, ThenSchedule
  <2>3. ~ Waits(t) /\ ~ Waits(t)'
    BY <1>0, <2>2 DEF Waits
  <2>4. SameQueues
    BY <1>0, <2>2, <2>3, NotInTake
  <2>5. Resets(s, v)
    BY <2>2, <2>4 DEF Resets
  <2>6. QED BY <2>5 DEF Effect
<1>5. CASE \/ DetachTest(t)
           \/ DetachResume(t) /\ k.waitq[call[t]] = << >>
           \/ \E s \in Sem : DetachCall(t, s) \/ \E v \in 0 .. MaxValue : ResetCall(t, s, v)
  BY <1>5, PlainRests DEF Effect
<1>6. ASSUME NEW s \in Sem, TakeAvailable(t, s)
      PROVE  Effect
  <2>1. SameQueues
    BY <1>6 DEF TakeAvailable, cpu, SameQueues, SameWaiter, Waits
  <2>2. Takes(s)
    BY <1>6, <2>1 DEF TakeAvailable, Takes
  <2>3. QED BY <2>2 DEF Effect
<1>7. ASSUME NEW s \in Sem,
             TakeForever(t, s) \/ \E time \in WaitTimes : TakeTimed(t, s, time)
      PROVE  Effect
  BY <1>7, BlockJoins DEF Effect
<1>8. ASSUME NEW s \in Sem, rt_sem_release(t, s)
      PROVE  Effect
  <2>1. /\ Give(s) /\ credit' = [credit EXCEPT ![s] = @ + 1] /\ call' = call
        /\ pc[t] = "run"
        /\ \/ pc' = pc /\ cont' = cont
           \/ pc' = [pc EXCEPT ![t] = "sched"] /\ cont' = [cont EXCEPT ![t] = "run"]
    BY <1>8 DEF rt_sem_release, Calls, ThenSchedule
  <2>2. SameCalls
    BY <1>0, <2>1 DEF SameCalls, Waits
  <2>3. Adds(s) \/ \E u \in Thread : Wakes(u, s, "EOK")
    BY <2>1, <2>2, GiveEffect
  <2>4. QED BY <2>3 DEF Effect, Error
<1>9. QED
  BY <1>1, <1>2, <1>3, <1>4, <1>5, <1>6, <1>7, <1>8 DEF ThreadStep, ThreadCall

\* Every step of the semaphores is one of the seven effects.
LEMMA StepEffect == WaitInv /\ [Next]_vars => Effect
<1> SUFFICES ASSUME WaitInv, [Next]_vars PROVE Effect
  OBVIOUS
<1>1. CASE UNCHANGED vars
  BY <1>1 DEF vars, Effect, Rests, SameQueues, SameWaiter, Waits
<1>2. CASE (SysTick_Handler \/ rt_timer_check \/ DeviceSchedule) /\ UNCHANGED sems
  BY <1>2, HandlerWakes DEF Effect, Error
<1>3. ASSUME NEW s \in Sem, DeviceRelease(s)
      PROVE  Effect
  <2>1. /\ Give(s) /\ credit' = [credit EXCEPT ![s] = @ + 1]
        /\ call' = call /\ pc' = pc /\ cont' = cont
    BY <1>3 DEF DeviceRelease
  <2>2. SameCalls
    BY <2>1 DEF SameCalls, Waits
  <2>3. Adds(s) \/ \E u \in Thread : Wakes(u, s, "EOK")
    BY <2>1, <2>2, GiveEffect
  <2>4. QED BY <2>3 DEF Effect, Error
<1>4. ASSUME NEW t \in Thread, ThreadStep(t) \/ ThreadCall(t)
      PROVE  Effect
  BY <1>4, ThreadEffect
<1>5. QED BY <1>1, <1>2, <1>3, <1>4 DEF Next, Handler

-----------------------------------------------------------------------------
\* Where rt_ipc_list_suspend links a thread: behind all of a FIFO queue, behind
\* the ones as urgent and before the less urgent ones of a PRIO queue.
Placed(n, q, t, f) ==
  /\ f = "FIFO" => n = Len(q) + 1
  /\ f = "PRIO" => PartsAt(n, q, init_prio, init_prio[t])

LEMMA QueuePlace ==
  ASSUME WaitInv, NEW t \in Thread, NEW s \in Sem, k.stat[t] = "READY"
  PROVE  LET q == k.waitq[s]
             w == QueueWith(k.prio, q, flag[s], t)
         IN  /\ w \in Seq(Thread) /\ ToSet(w) = ToSet(q) \cup {t}
             /\ \E n \in 1 .. Len(q) + 1 : w = InsertAt(q, n, t) /\ Placed(n, q, t, flag[s])
<1> DEFINE q == k.waitq[s]
           w == QueueWith(k.prio, q, flag[s], t)
           p == FirstOf(q, Above(q, init_prio, init_prio[t]))
<1>0. /\ Consistent(k) /\ q \in Seq(Thread) /\ Len(q) \in Nat /\ k.prio = init_prio
      /\ init_prio \in [Thread -> Int] /\ init_prio[t] \in Int
      /\ flag[s] \in {"FIFO", "PRIO"}
  <2>1. /\ Consistent(k) /\ q \in Seq(Thread) /\ Len(q) \in Nat /\ k.prio = init_prio
    BY WaitTyped DEF WaitInv, QueueInOrder
  <2>2. init_prio \in [Thread -> Int]
    BY CpuAssumption, KernelAssumption DEF Priority
  <2>3. flag[s] \in {"FIFO", "PRIO"}
    BY SemaphoreAssumption
  <2>4. QED BY <2>1, <2>2, <2>3
<1>1. t \notin ToSet(q) /\ IsInjective(q)
  BY <1>0 DEF Consistent, WaitListsHoldSuspended, Sem
<1>2. CASE flag[s] = "PRIO"
  <2>1. w = InsertAt(q, p, t)
    BY <1>0, <1>2 DEF QueueWith, PlaceByPriority
  <2>2. Sorted(q, init_prio)
    BY <1>2 DEF WaitInv, QueueInOrder
  <2> HIDE DEF q
  <2>3. PartsAt(p, q, init_prio, init_prio[t])
    <3>1. q \in Seq(Thread) /\ init_prio \in [Thread -> Int] /\ init_prio[t] \in Int
      BY <1>0
    <3>2. QED BY <2>2, <3>1, SortedPlace
  <2>p. p \in 1 .. Len(q) + 1
    BY <2>3 DEF PartsAt
  <2> HIDE DEF p
  <2>4. w \in Seq(Thread) /\ ToSet(w) = ToSet(q) \cup {t}
    BY <1>0, <1>1, <2>1, <2>p, InsertNew
  <2> HIDE DEF w
  <2>5. flag[s] # "FIFO"
    BY <1>2
  <2>6. Placed(p, q, t, flag[s])
    BY <2>3, <2>5 DEF Placed
  <2>7. QED BY <2>1, <2>4, <2>6, <2>p DEF q, w
<1>3. CASE flag[s] = "FIFO"
  <2>1. w = Append(q, t)
    BY <1>3 DEF QueueWith
  <2> HIDE DEF q
  <2>2. Append(q, t) = InsertAt(q, Len(q) + 1, t)
    BY <1>0, AppendIsInsert
  <2>3. w \in Seq(Thread) /\ ToSet(w) = ToSet(q) \cup {t}
    BY <1>0, <1>1, <2>1, AppendNew
  <2> HIDE DEF w
  <2>4. Len(q) + 1 \in 1 .. Len(q) + 1 /\ flag[s] # "PRIO" /\ w = InsertAt(q, Len(q) + 1, t)
    BY <1>0, <1>3, <2>1, <2>2
  <2>5. Placed(Len(q) + 1, q, t, flag[s])
    BY <2>4 DEF Placed
  <2>6. QED BY <2>3, <2>4, <2>5 DEF q, w
<1>4. QED BY <1>0, <1>2, <1>3

\* What unlinking a waiter leaves.
LEMMA QueueLeft ==
  ASSUME WaitInv, NEW s \in Sem, NEW t
  PROVE  /\ RemoveFirst(k.waitq[s], t) \in Seq(Thread)
         /\ ToSet(RemoveFirst(k.waitq[s], t)) = ToSet(k.waitq[s]) \ {t}
         /\ Sorted(k.waitq[s], init_prio) => Sorted(RemoveFirst(k.waitq[s], t), init_prio)
<1>1. k.waitq[s] \in Seq(Thread) /\ IsInjective(k.waitq[s])
  BY WaitTyped DEF Consistent, WaitListsHoldSuspended, Sem
<1>2. QED BY <1>1, RemoveFirstProperties, SortedRemove

LEMMA EffectHoldsWaiters ==
  ASSUME WaitInv, IInv', Effect
  PROVE  QueueHoldsWaiters'
<1>0. /\ QueueHoldsWaiters /\ call \in [Thread -> Sem]
      /\ k.waitq \in [Sem -> Seq(Thread)] /\ Consistent(k)
      /\ k.stat \in [Thread -> Stat]
      /\ \A s \in Sem : ToSet(k.waitq[s]) \subseteq Thread
  BY WaitTyped, MembersOf DEF WaitInv
<1>1. \A s \in Sem : \A t \in ToSet(k.waitq[s]) : k.stat[t] = "SUSPEND"
  BY <1>0 DEF Consistent, WaitListsHoldSuspended, Sem
<1>2. CASE SameQueues
  BY <1>0, <1>2 DEF SameQueues, SameWaiter, QueueHoldsWaiters
<1>3. ASSUME NEW t \in Thread, NEW s \in Sem, Joins(t, s)
      PROVE  QueueHoldsWaiters'
  <2>1. \A u \in Thread \ {t} : SameWaiter(u)
    BY <1>3 DEF Joins, SameButFor
  <2>2. /\ Waits(t)' /\ call'[t] = s /\ k'.error[t] = "EOK" /\ k.stat[t] = "READY"
        /\ k'.waitq = [k.waitq EXCEPT ![s] = QueueWith(k.prio, k.waitq[s], flag[s], t)]
    BY <1>3 DEF Joins
  <2>3. ToSet(QueueWith(k.prio, k.waitq[s], flag[s], t)) = ToSet(k.waitq[s]) \cup {t}
    BY <2>2, QueuePlace
  <2>4. \A o \in Sem : ToSet(k'.waitq[o]) =
          IF o = s THEN ToSet(k.waitq[o]) \cup {t} ELSE ToSet(k.waitq[o])
    BY <1>0, <2>2, <2>3
  <2>5. \A o \in Sem : t \notin ToSet(k.waitq[o])
    BY <1>1, <2>2
  <2>6. ASSUME NEW o \in Sem, NEW u \in ToSet(k'.waitq[o])
        PROVE  Waits(u)' /\ call'[u] = o /\ k'.error[u] = "EOK"
    <3>1. CASE u = t
      <4>1. o = s
        BY <2>4, <2>5, <3>1
      <4>2. QED BY <2>2, <3>1, <4>1
    <3>2. CASE u # t
      <4>1. u \in ToSet(k.waitq[o]) /\ u \in Thread \ {t}
        BY <1>0, <2>4, <3>2
      <4>2. Waits(u) /\ call[u] = o /\ k.error[u] = "EOK"
        BY <1>0, <4>1 DEF QueueHoldsWaiters
      <4>3. QED BY <2>1, <4>1, <4>2 DEF SameWaiter
    <3>3. QED BY <3>1, <3>2
  <2>7. ASSUME NEW u \in Thread, Waits(u)', k'.stat[u] = "SUSPEND"
        PROVE  u \in ToSet(k'.waitq[call'[u]])
    <3>1. CASE u = t
      BY <2>2, <2>4, <3>1
    <3>2. CASE u # t
      <4>1. Waits(u) /\ call'[u] = call[u] /\ k.stat[u] = "SUSPEND"
        BY <2>1, <2>7, <3>2 DEF SameWaiter
      <4>2. u \in ToSet(k.waitq[call[u]]) /\ call[u] \in Sem
        BY <1>0, <4>1 DEF QueueHoldsWaiters
      <4>3. QED BY <2>4, <4>1, <4>2
    <3>3. QED BY <3>1, <3>2
  <2>8. QED BY <2>6, <2>7 DEF QueueHoldsWaiters
<1>4. ASSUME NEW t \in Thread, NEW s \in Sem, NEW e \in Error, Wakes(t, s, e)
      PROVE  QueueHoldsWaiters'
  <2>1. \A u \in Thread \ {t} : SameWaiter(u)
    BY <1>4 DEF Wakes, SameButFor
  <2>2. /\ k'.stat[t] = "READY" /\ t \in ToSet(k.waitq[s])
        /\ k'.waitq = [k.waitq EXCEPT ![s] = RemoveFirst(@, t)]
    BY <1>4 DEF Wakes
  <2>3. \A o \in Sem : ToSet(k'.waitq[o]) =
          IF o = s THEN ToSet(k.waitq[o]) \ {t} ELSE ToSet(k.waitq[o])
    BY <1>0, <2>2, QueueLeft
  <2>4. \A o \in Sem : o # s => t \notin ToSet(k.waitq[o])
    BY <1>0, <2>2 DEF QueueHoldsWaiters
  <2>5. ASSUME NEW o \in Sem, NEW u \in ToSet(k'.waitq[o])
        PROVE  Waits(u)' /\ call'[u] = o /\ k'.error[u] = "EOK"
    <3>1. u \in ToSet(k.waitq[o]) /\ u \in Thread \ {t}
      BY <1>0, <2>3, <2>4
    <3>2. Waits(u) /\ call[u] = o /\ k.error[u] = "EOK"
      BY <1>0, <3>1 DEF QueueHoldsWaiters
    <3>3. QED BY <2>1, <3>1, <3>2 DEF SameWaiter
  <2>6. ASSUME NEW u \in Thread, Waits(u)', k'.stat[u] = "SUSPEND"
        PROVE  u \in ToSet(k'.waitq[call'[u]])
    <3>1. u # t
      BY <2>2, <2>6
    <3>2. Waits(u) /\ call'[u] = call[u] /\ k.stat[u] = "SUSPEND"
      BY <2>1, <2>6, <3>1 DEF SameWaiter
    <3>3. u \in ToSet(k.waitq[call[u]]) /\ call[u] \in Sem
      BY <1>0, <3>2 DEF QueueHoldsWaiters
    <3>4. QED BY <2>3, <3>1, <3>2, <3>3
  <2>7. QED BY <2>5, <2>6 DEF QueueHoldsWaiters
<1>5. ASSUME NEW t \in Thread, Returns(t)
      PROVE  QueueHoldsWaiters'
  <2>1. \A u \in Thread \ {t} : SameWaiter(u)
    BY <1>5 DEF Returns, SameButFor
  <2>2. ~ Waits(t)' /\ k'.waitq = k.waitq /\ k.stat[t] = "READY"
    BY <1>5 DEF Returns
  <2>3. QED BY <1>0, <1>1, <2>1, <2>2, ZenonT(60) DEF SameWaiter, QueueHoldsWaiters
<1>6. QED BY <1>2, <1>3, <1>4, <1>5 DEF Effect, Rests, Takes, Adds, Resets

LEMMA EffectKeepsOrder ==
  ASSUME WaitInv, Effect
  PROVE  QueueInOrder'
<1>0. QueueInOrder /\ k.waitq \in [Sem -> Seq(Thread)]
  BY WaitTyped DEF WaitInv
<1>1. CASE k'.prio = k.prio /\ k'.waitq = k.waitq
  BY <1>0, <1>1 DEF QueueInOrder
<1>2. ASSUME NEW t \in Thread, NEW s \in Sem, Joins(t, s)
      PROVE  QueueInOrder'
  <2>1. /\ k'.prio = k.prio /\ k.stat[t] = "READY"
        /\ k'.waitq = [k.waitq EXCEPT ![s] = QueueWith(k.prio, k.waitq[s], flag[s], t)]
    BY <1>2 DEF Joins, SameButFor
  <2>2. flag[s] = "PRIO" =>
          Sorted(QueueWith(k.prio, k.waitq[s], flag[s], t), init_prio)
    <3> SUFFICES ASSUME flag[s] = "PRIO"
                 PROVE  Sorted(QueueWith(k.prio, k.waitq[s], flag[s], t), init_prio)
      OBVIOUS
    <3>1. /\ k.waitq[s] \in Seq(Thread) /\ init_prio \in [Thread -> Int]
          /\ Sorted(k.waitq[s], init_prio)
      BY <1>0, CpuAssumption, KernelAssumption DEF QueueInOrder, Priority
    <3>2. PICK n \in 1 .. Len(k.waitq[s]) + 1 :
            /\ QueueWith(k.prio, k.waitq[s], flag[s], t) = InsertAt(k.waitq[s], n, t)
            /\ PartsAt(n, k.waitq[s], init_prio, init_prio[t])
      BY <2>1, QueuePlace DEF Placed
    <3>3. Sorted(InsertAt(k.waitq[s], n, t), init_prio)
      BY <3>1, <3>2, SortedInsert
    <3>4. QED BY <3>2, <3>3
  <2>3. QED BY <1>0, <2>1, <2>2 DEF QueueInOrder
<1>3. ASSUME NEW t \in Thread, NEW s \in Sem, NEW e \in Error, Wakes(t, s, e)
      PROVE  QueueInOrder'
  <2>1. /\ k'.prio = k.prio
        /\ k'.waitq = [k.waitq EXCEPT ![s] = RemoveFirst(@, t)]
    BY <1>3 DEF Wakes, SameButFor
  <2>2. \A o \in Sem : k'.waitq[o] = IF o = s THEN RemoveFirst(k.waitq[s], t)
                                               ELSE k.waitq[o]
    BY <1>0, <2>1
  <2>3. flag[s] = "PRIO" => Sorted(RemoveFirst(k.waitq[s], t), init_prio)
    BY <1>0, QueueLeft DEF QueueInOrder
  <2>4. QED BY <1>0, <2>1, <2>2, <2>3 DEF QueueInOrder
<1>4. ASSUME NEW t \in Thread, Returns(t)
      PROVE  QueueInOrder'
  BY <1>1, <1>4 DEF Returns, SameButFor
<1>5. QED
  BY <1>1, <1>2, <1>3, <1>4 DEF Effect, Rests, Takes, Adds, Resets, SameQueues

LEMMA WaitInvInit == Init /\ ~ BlockLocked => WaitInv
<1> SUFFICES ASSUME Init, ~ BlockLocked PROVE WaitInv
  OBVIOUS
<1>1. IInv
  BY InitInvariant
<1>2. k.waitq = [o \in Object |-> << >>] /\ k.prio = init_prio
  BY InitKernel, StartedFields DEF Init, CpuInit
<1>3. \A s \in Sem : k.waitq[s] = << >> /\ ToSet(k.waitq[s]) = {}
  BY <1>2 DEF Sem, ToSet
<1>4. \A t \in Thread : ~ Waits(t)
  BY DEF Waits, Init, CpuInit
<1>5. QueueHoldsWaiters
  BY <1>3, <1>4 DEF QueueHoldsWaiters
<1>6. QueueInOrder
  BY <1>2, <1>3 DEF QueueInOrder, Sorted
<1>7. QED BY <1>1, <1>5, <1>6 DEF WaitInv

LEMMA WaitInvStep == WaitInv /\ [Next]_vars => WaitInv' /\ Effect
<1> SUFFICES ASSUME WaitInv, [Next]_vars PROVE WaitInv' /\ Effect
  OBVIOUS
<1>1. IInv' /\ Effect
  BY StepInvariant, StepEffect DEF WaitInv
<1>2. QED BY <1>1, EffectHoldsWaiters, EffectKeepsOrder DEF WaitInv

LEMMA WaitInvariance == Spec /\ ~ BlockLocked => []WaitInv
<1>1. Init /\ ~ BlockLocked => WaitInv
  BY WaitInvInit
<1>2. WaitInv /\ [Next]_vars => WaitInv'
  BY WaitInvStep
<1>3. QED BY <1>1, <1>2, PTL DEF Spec

-----------------------------------------------------------------------------
(***************************************************************************)
(* A semaphore that is detached and not empty has a thread in the loop of  *)
(* its rt_sem_detach.                                                      *)
(***************************************************************************)
Detaching(t) == pc[t] \in {"detach_test", "detach_resume"}

DetachEmpties ==
  \A s \in Sem :
    alive[s] \/ k.waitq[s] = << >> \/ \E t \in Thread : call[t] = s /\ Detaching(t)

\* A thread changes its own place only.
LEMMA OwnPlace ==
  ASSUME WaitInv, NEW u \in Thread, ThreadStep(u) \/ ThreadCall(u), NEW t \in Thread, t # u
  PROVE  pc'[t] = pc[t] /\ call'[t] = call[t]
<1>0. /\ pc \in [Thread -> Point] /\ cont \in [Thread -> Continuation]
      /\ call \in [Thread -> Sem]
  BY WaitTyped
<1>1. CASE ThreadStep(u)
  BY <1>0, <1>1 DEF ThreadStep, Schedule, SleepReturn, TakeReturn, ResetResume, ResetValue,
       DetachTest, DetachResume, Goto, ThenSchedule, sems
<1>2. CASE ThreadCall(u)
  <2>1. CASE \/ rt_thread_yield(u) /\ UNCHANGED sems
             \/ rt_enter_critical(u) /\ UNCHANGED sems
             \/ rt_exit_critical(u) /\ UNCHANGED sems
             \/ (\E time \in WaitTimes : Sleep(u, time)) /\ UNCHANGED sems
    BY <1>0, <2>1 DEF rt_thread_yield, rt_enter_critical, rt_exit_critical,
         Sleep, rt_thread_sleep, ThenSchedule, sems
  <2>2. ASSUME NEW s \in Sem,
               \/ TakeAvailable(u, s) \/ TakeForever(u, s)
               \/ \E time \in WaitTimes : TakeTimed(u, s, time)
        PROVE  pc'[t] = pc[t] /\ call'[t] = call[t]
    BY <1>0, <2>2 DEF TakeAvailable, TakeForever, TakeTimed, Block, ThenSchedule, cpu
  <2>3. ASSUME NEW s \in Sem,
               \/ rt_sem_release(u, s) \/ DetachCall(u, s)
               \/ \E v \in 0 .. MaxValue : ResetCall(u, s, v)
        PROVE  pc'[t] = pc[t] /\ call'[t] = call[t]
    BY <1>0, <2>3 DEF rt_sem_release, DetachCall, ResetCall, Goto, ThenSchedule
  <2>4. QED BY <1>2, <2>1, <2>2, <2>3 DEF ThreadCall
<1>3. QED BY <1>1, <1>2

\* The loop ends when the list is empty.
LEMMA DetachGoesOn ==
  ASSUME WaitInv, [Next]_vars, NEW t \in Thread, Detaching(t)
  PROVE  call'[t] = call[t] /\ (Detaching(t)' \/ k'.waitq[call[t]] = << >>)
<1>0. /\ pc \in [Thread -> Point] /\ cont \in [Thread -> Continuation]
      /\ call \in [Thread -> Sem]
  BY WaitTyped
<1>1. CASE UNCHANGED vars \/ Handler
  BY <1>1 DEF vars, Handler, SysTick_Handler, rt_timer_check, DeviceSchedule,
       DeviceRelease, sems, Detaching
<1>2. ASSUME NEW u \in Thread, u # t, ThreadStep(u) \/ ThreadCall(u)
      PROVE  call'[t] = call[t] /\ Detaching(t)'
  BY <1>2, OwnPlace DEF Detaching
<1>3. CASE ThreadStep(t)
  <2>1. DetachTest(t) \/ DetachResume(t)
    BY <1>3 DEF Detaching, ThreadStep, Schedule, SleepReturn, TakeReturn, ResetResume, ResetValue
  <2>2. CASE DetachTest(t)
    BY <1>0, <2>2 DEF DetachTest, Goto, sems, Detaching
  <2>3. CASE DetachResume(t)
    BY <1>0, <2>3 DEF DetachResume, Goto, Detaching
  <2>4. QED BY <2>1, <2>2, <2>3
<1>4. CASE ThreadCall(t)
  <2>1. pc[t] = "run"
    BY <1>4 DEF ThreadCall, rt_thread_yield, rt_enter_critical, rt_exit_critical,
         Sleep, rt_thread_sleep, TakeAvailable, TakeForever, TakeTimed, Block, rt_sem_release,
         ResetCall, DetachCall, Calls
  <2>2. QED BY <2>1 DEF Detaching
<1>5. QED BY <1>1, <1>2, <1>3, <1>4 DEF Next

\* A semaphore dies with the thread that detaches it in the loop.
LEMMA DetachBegins ==
  ASSUME WaitInv, [Next]_vars, NEW s \in Sem, alive'[s] # alive[s]
  PROVE  \E t \in Thread : call'[t] = s /\ Detaching(t)'
<1>0. /\ pc \in [Thread -> Point] /\ call \in [Thread -> Sem] /\ alive \in [Sem -> BOOLEAN]
  BY WaitTyped DEF WaitInv, IInv, TypeOK
<1>1. ~ UNCHANGED vars /\ ~ Handler
  BY DEF vars, Handler, DeviceRelease, sems
<1>2. PICK t \in Thread : ThreadStep(t) \/ ThreadCall(t)
  BY <1>1 DEF Next
<1>3. ~ ThreadStep(t)
  BY DEF ThreadStep, TakeReturn, ResetResume, ResetValue, DetachTest, DetachResume, sems
<1>4. \E o \in Sem : DetachCall(t, o)
  BY <1>2, <1>3 DEF ThreadCall, TakeAvailable, TakeForever, TakeTimed, Block,
       rt_sem_release, ResetCall, sems
<1>5. PICK o \in Sem : DetachCall(t, o)
  BY <1>4
<1>6. /\ alive' = [alive EXCEPT ![o] = FALSE] /\ call' = [call EXCEPT ![t] = o]
      /\ pc' = [pc EXCEPT ![t] = "detach_test"]
  BY <1>5 DEF DetachCall, Goto
<1>7. o = s
  BY <1>0, <1>6
<1>8. QED BY <1>0, <1>6, <1>7 DEF Detaching

LEMMA DetachEmptiesStep ==
  ASSUME WaitInv, [Next]_vars, DetachEmpties
  PROVE  DetachEmpties'
<1> SUFFICES ASSUME NEW s \in Sem, ~ alive'[s], k'.waitq[s] # << >>
             PROVE  \E t \in Thread : call'[t] = s /\ Detaching(t)'
  BY DEF DetachEmpties
<1>0. k.waitq \in [Sem -> Seq(Thread)]
  BY WaitTyped
<1>1. CASE alive'[s] # alive[s]
  BY <1>1, DetachBegins
<1>2. CASE alive'[s] = alive[s]
  <2>1. k.waitq[s] # << >>
    <3> SUFFICES ASSUME k.waitq[s] = << >> PROVE FALSE
      OBVIOUS
    <3>1. Effect
      BY WaitInvStep
    <3>2. PICK t \in Thread, o \in Sem : Joins(t, o) \/ \E e \in Error : Wakes(t, o, e)
      BY <3>1 DEF Effect, Rests, Takes, Adds, Resets, SameQueues, Returns
    <3>3. o # s
      BY <1>2, <3>2 DEF Joins, Wakes, ToSet
    <3>4. k'.waitq[s] = k.waitq[s]
      BY <1>0, <3>2, <3>3 DEF Joins, Wakes
    <3>5. QED BY <3>4
  <2>2. PICK t \in Thread : call[t] = s /\ Detaching(t)
    BY <1>2, <2>1 DEF DetachEmpties
  <2>3. QED BY <2>2, DetachGoesOn
<1>3. QED BY <1>1, <1>2

\* When rt_sem_detach is done no thread is left suspended on the semaphore:
\* none may have been queued behind the loop of rt_ipc_list_resume_all, which
\* runs with interrupts enabled (ipc.c:376).
THEOREM DetachLeavesNobody == Spec /\ ~ BlockLocked => []NoWaiterAfterDetach
<1>1. Init => DetachEmpties
  BY DEF Init, DetachEmpties
<1>2. WaitInv /\ DetachEmpties /\ [Next]_vars => DetachEmpties'
  BY DetachEmptiesStep
<1>3. DetachEmpties => NoWaiterAfterDetach
  BY DEF DetachEmpties, Detaching, NoWaiterAfterDetach
<1>4. QED BY <1>1, <1>2, <1>3, WaitInvariance, PTL DEF Spec

-----------------------------------------------------------------------------
(***************************************************************************)
(* The tokens handed to waiters, and the waits that were given up, after   *)
(* each effect.                                                            *)
(***************************************************************************)
Granted == [s \in Sem |-> Handed(s)]

\* Who is suspended was given nothing yet and has not given up.
LEMMA WaiterIsWaiting ==
  ASSUME NEW t \in Thread, k.stat[t] # "READY" \/ ~ Waits(t)
  PROVE  t \notin GivenUp /\ \A s \in Sem : t \notin Handed(s)
BY DEF GivenUp, Handed, Waits

LEMMA HandedToSame ==
  ASSUME NEW u \in Thread, SameWaiter(u)
  PROVE  /\ u \in GivenUp' <=> u \in GivenUp
         /\ \A s \in Sem : u \in Handed(s)' <=> u \in Handed(s)
BY DEF SameWaiter, GivenUp, Handed, Waits

LEMMA SameQueuesGranted ==
  ASSUME SameQueues
  PROVE  Granted' = Granted /\ GivenUp' = GivenUp
<1>1. \A u \in Thread : /\ u \in GivenUp' <=> u \in GivenUp
                        /\ \A s \in Sem : u \in Handed(s)' <=> u \in Handed(s)
  BY HandedToSame DEF SameQueues
<1>2. \A s \in Sem : Handed(s) \subseteq Thread /\ Handed(s)' \subseteq Thread
  BY DEF Handed
<1>3. GivenUp \subseteq Thread /\ GivenUp' \subseteq Thread
  BY DEF GivenUp
<1>4. \A s \in Sem : Handed(s)' = Handed(s)
  BY <1>1, <1>2
<1>5. GivenUp' = GivenUp
  BY <1>1, <1>3
<1>6. QED BY <1>4, <1>5 DEF Granted

LEMMA JoinsGranted ==
  ASSUME NEW t \in Thread, NEW s \in Sem, Joins(t, s)
  PROVE  Granted' = Granted /\ GivenUp' = GivenUp
<1>1. \A u \in Thread \ {t} : /\ u \in GivenUp' <=> u \in GivenUp
                              /\ \A o \in Sem : u \in Handed(o)' <=> u \in Handed(o)
  BY HandedToSame DEF Joins, SameButFor
<1>2. t \notin GivenUp /\ \A o \in Sem : t \notin Handed(o)
  BY WaiterIsWaiting DEF Joins
<1>3. t \notin GivenUp' /\ \A o \in Sem : t \notin Handed(o)'
  BY DEF Joins, GivenUp, Handed
<1>4. \A o \in Sem : Handed(o) \subseteq Thread /\ Handed(o)' \subseteq Thread
  BY DEF Handed
<1>5. GivenUp \subseteq Thread /\ GivenUp' \subseteq Thread
  BY DEF GivenUp
<1>6. \A o \in Sem : Handed(o)' = Handed(o)
  BY <1>1, <1>2, <1>3, <1>4
<1>7. GivenUp' = GivenUp
  BY <1>1, <1>2, <1>3, <1>5
<1>8. QED BY <1>6, <1>7 DEF Granted

LEMMA WakesGranted ==
  ASSUME WaitInv, NEW t \in Thread, NEW s \in Sem, NEW e \in Error, Wakes(t, s, e)
  PROVE  /\ t \notin GivenUp /\ \A o \in Sem : t \notin Handed(o)
         /\ e = "EOK" => /\ Granted' = [Granted EXCEPT ![s] = @ \cup {t}]
                         /\ GivenUp' = GivenUp
         /\ e # "EOK" => Granted' = Granted /\ GivenUp' = GivenUp \cup {t}
<1>1. \A u \in Thread \ {t} : /\ u \in GivenUp' <=> u \in GivenUp
                              /\ \A o \in Sem : u \in Handed(o)' <=> u \in Handed(o)
  BY HandedToSame DEF Wakes, SameButFor
<1>2. t \notin GivenUp /\ \A o \in Sem : t \notin Handed(o)
  <2>1. k.stat[t] = "SUSPEND"
    BY WaitTyped DEF Wakes, Consistent, WaitListsHoldSuspended, Sem
  <2>2. QED BY <2>1, WaiterIsWaiting
<1>3. /\ t \in GivenUp' <=> e # "EOK"
      /\ \A o \in Sem : t \in Handed(o)' <=> o = s /\ e = "EOK"
  BY DEF Wakes, GivenUp, Handed, Waits
<1>4. \A o \in Sem : Handed(o) \subseteq Thread /\ Handed(o)' \subseteq Thread
  BY DEF Handed
<1>5. GivenUp \subseteq Thread /\ GivenUp' \subseteq Thread
  BY DEF GivenUp
<1>6. \A o \in Sem : Handed(o)' = IF o = s /\ e = "EOK" THEN Handed(o) \cup {t} ELSE Handed(o)
  BY <1>1, <1>2, <1>3, <1>4
<1>7. GivenUp' = IF e = "EOK" THEN GivenUp ELSE GivenUp \cup {t}
  BY <1>1, <1>2, <1>3, <1>5
<1>8. e = "EOK" => Granted' = [Granted EXCEPT ![s] = @ \cup {t}]
  BY <1>6 DEF Granted
<1>9. e # "EOK" => Granted' = Granted
  BY <1>6 DEF Granted
<1>10. QED BY <1>2, <1>7, <1>8, <1>9

LEMMA ReturnsGranted ==
  ASSUME WaitInv, NEW t \in Thread, Returns(t)
  PROVE  /\ Granted' = [o \in Sem |-> Handed(o) \ {t}] /\ GivenUp' = GivenUp \ {t}
         /\ \A o \in Sem : t \in Handed(o) <=> o = call[t] /\ k.error[t] = "EOK"
         /\ t \in GivenUp <=> k.error[t] # "EOK"
<1>1. \A u \in Thread \ {t} : /\ u \in GivenUp' <=> u \in GivenUp
                              /\ \A o \in Sem : u \in Handed(o)' <=> u \in Handed(o)
  BY HandedToSame DEF Returns, SameButFor
<1>2. /\ \A o \in Sem : t \in Handed(o) <=> o = call[t] /\ k.error[t] = "EOK"
      /\ t \in GivenUp <=> k.error[t] # "EOK"
  BY DEF Returns, GivenUp, Handed, Waits
<1>3. t \notin GivenUp' /\ \A o \in Sem : t \notin Handed(o)'
  BY DEF Returns, GivenUp, Handed, Waits
<1>4. \A o \in Sem : Handed(o) \subseteq Thread /\ Handed(o)' \subseteq Thread
  BY DEF Handed
<1>5. GivenUp \subseteq Thread /\ GivenUp' \subseteq Thread
  BY DEF GivenUp
<1>6. \A o \in Sem : Handed(o)' = Handed(o) \ {t}
  BY <1>1, <1>3, <1>4
<1>7. GivenUp' = GivenUp \ {t}
  BY <1>1, <1>3, <1>5
<1>8. QED BY <1>2, <1>6, <1>7 DEF Granted

-----------------------------------------------------------------------------
\* No effect loses or makes a token.
LEMMA EffectConserves ==
  ASSUME WaitInv, IsFiniteSet(Thread), TokensConserved, Effect
  PROVE  TokensConserved'
<1> SUFFICES ASSUME NEW o \in Sem
             PROVE  credit'[o] = value'[o] + Cardinality(Handed(o)')
  BY DEF TokensConserved
<1>0. /\ value \in [Sem -> 0 .. MaxValue] /\ credit \in [Sem -> Int] /\ call \in [Thread -> Sem]
      /\ credit[o] = value[o] + Cardinality(Handed(o)) /\ value[o] \in Int
  BY WaitTyped, SemaphoreAssumption DEF TokensConserved
<1>1. IsFiniteSet(Handed(o)) /\ Cardinality(Handed(o)) \in Nat
  <2>1. Handed(o) \subseteq Thread
    BY DEF Handed
  <2>2. QED BY <2>1, FS_Subset, FS_CardinalityType
<1>2. \A t : /\ Cardinality(Handed(o) \cup {t}) =
                  IF t \in Handed(o) THEN Cardinality(Handed(o)) ELSE Cardinality(Handed(o)) + 1
             /\ Cardinality(Handed(o) \ {t}) =
                  IF t \in Handed(o) THEN Cardinality(Handed(o)) - 1 ELSE Cardinality(Handed(o))
  BY <1>1, FS_AddElement, FS_RemoveElement
<1>3. CASE SameQueues
  <2>1. Handed(o)' = Handed(o)
    BY <1>3, SameQueuesGranted DEF Granted
  <2>2. CASE Rests
    BY <1>0, <2>1, <2>2 DEF Rests
  <2>3. ASSUME NEW s \in Sem, Takes(s) \/ Adds(s) \/ \E v \in 0 .. MaxValue : Resets(s, v)
        PROVE  credit'[o] = value'[o] + Cardinality(Handed(o)')
    <3>1. CASE o # s
      BY <1>0, <2>1, <2>3, <3>1 DEF Takes, Adds, Resets
    <3>2. CASE o = s
      BY <1>0, <1>1, <2>1, <2>3, <3>2 DEF Takes, Adds, Resets
    <3>3. QED BY <3>1, <3>2
  <2>4. ASSUME NEW t \in Thread,
               Returns(t) \/ \E s \in Sem : Joins(t, s) \/ \E e \in Error : Wakes(t, s, e)
        PROVE  FALSE
    <3>1. CASE Returns(t)
      BY <1>3, <3>1 DEF Returns, SameQueues, SameWaiter
    <3>2. ASSUME NEW s \in Sem, Joins(t, s) PROVE FALSE
      BY <1>3, <3>2 DEF Joins, SameQueues, SameWaiter
    <3>3. ASSUME NEW s \in Sem, NEW e \in Error, Wakes(t, s, e) PROVE FALSE
      <4>1. t \in ToSet(k.waitq[s]) /\ k.stat[t] = "SUSPEND" /\ Waits(t)
        BY <3>3, WaitTyped DEF Wakes, Consistent, WaitListsHoldSuspended, Sem,
             WaitInv, QueueHoldsWaiters
      <4>2. QED BY <1>3, <3>3, <4>1 DEF Wakes, SameQueues, SameWaiter
    <3>4. QED BY <2>4, <3>1, <3>2, <3>3
  <2>5. QED BY <2>2, <2>3, <2>4 DEF Effect
<1>4. ASSUME NEW t \in Thread, NEW s \in Sem, Joins(t, s)
      PROVE  credit'[o] = value'[o] + Cardinality(Handed(o)')
  <2>1. Handed(o)' = Handed(o)
    BY <1>4, JoinsGranted DEF Granted
  <2>2. QED BY <1>0, <1>4, <2>1 DEF Joins
<1>5. ASSUME NEW t \in Thread, NEW s \in Sem, NEW e \in Error, Wakes(t, s, e)
      PROVE  credit'[o] = value'[o] + Cardinality(Handed(o)')
  <2>1. CASE e = "EOK" /\ o = s
    <3>0. t \notin Handed(o) /\ Granted' = [Granted EXCEPT ![s] = @ \cup {t}]
      BY <1>5, <2>1, WakesGranted
    <3>1. Handed(o)' = Handed(o) \cup {t} /\ t \notin Handed(o)
      BY <2>1, <3>0 DEF Granted
    <3>2. credit'[o] = credit[o] + 1 /\ value' = value
      BY <1>0, <1>5, <2>1 DEF Wakes
    <3>3. QED BY <1>0, <1>1, <1>2, <3>1, <3>2
  <2>2. CASE e # "EOK" \/ o # s
    <3>1. Handed(o)' = Handed(o)
      BY <1>5, <2>2, WakesGranted, ZenonT(60) DEF Granted
    <3>2. credit'[o] = credit[o] /\ value' = value
      BY <1>0, <1>5, <2>2 DEF Wakes
    <3>3. QED BY <1>0, <3>1, <3>2
  <2>3. QED BY <2>1, <2>2
<1>6. ASSUME NEW t \in Thread, Returns(t)
      PROVE  credit'[o] = value'[o] + Cardinality(Handed(o)')
  <2>1. /\ Handed(o)' = Handed(o) \ {t}
        /\ t \in Handed(o) <=> o = call[t] /\ k.error[t] = "EOK"
    BY <1>6, ReturnsGranted DEF Granted
  <2>2. /\ value' = value /\ call[t] \in Sem
        /\ credit' = IF k.error[t] = "EOK" THEN [credit EXCEPT ![call[t]] = @ - 1] ELSE credit
    BY <1>0, <1>6 DEF Returns
  <2>3. CASE t \in Handed(o)
    BY <1>0, <1>1, <1>2, <2>1, <2>2, <2>3
  <2>4. CASE t \notin Handed(o)
    <3>1. credit'[o] = credit[o]
      BY <1>0, <2>1, <2>2, <2>4
    <3>2. QED BY <1>0, <1>1, <1>2, <2>1, <2>2, <2>4, <3>1
  <2>5. QED BY <2>3, <2>4
<1>7. QED
  BY <1>3, <1>4, <1>5, <1>6 DEF Effect, Rests, Takes, Adds, Resets

\* No token is lost or made, whatever the order of takes, releases from threads
\* and handlers, timeouts, resets and detaches: what was released and not yet
\* returned from rt_sem_take is in the value or was handed to a waiter.
THEOREM TokensStayConserved == Spec /\ ~ BlockLocked => []TokensConserved
<1>1. Init => TokensConserved
  <2> SUFFICES ASSUME Init, NEW s \in Sem
               PROVE  credit[s] = value[s] + Cardinality(Handed(s))
    BY DEF TokensConserved
  <2>1. Handed(s) = {}
    BY DEF Handed, Init, CpuInit
  <2>2. Cardinality(Handed(s)) = 0
    BY <2>1, FS_EmptySet
  <2>3. credit[s] \in Int /\ value[s] = credit[s]
    BY SemaphoreAssumption DEF Init
  <2>4. QED BY <2>2, <2>3
<1>2. WaitInv /\ TokensConserved /\ [Next]_vars => TokensConserved'
  BY ThreadFinite, WaitInvStep, EffectConserves
<1>3. QED BY <1>1, <1>2, WaitInvariance, PTL DEF Spec

-----------------------------------------------------------------------------
\* The list operators of the instance are those of this module.
LEMMA TokensLists ==
  /\ \A s : Tokens!ToSet(s) = ToSet(s)
  /\ \A s, t : Tokens!RemoveFirst(s, t) = RemoveFirst(s, t)
  /\ \A s, i, t : Tokens!InsertAt(s, i, t) = InsertAt(s, i, t)
<1>1. \A s : Tokens!ToSet(s) = ToSet(s)
  BY DEF Tokens!ToSet, ToSet
<1>2. \A s, t : Tokens!RemoveFirst(s, t) = RemoveFirst(s, t)
  BY DEF Tokens!RemoveFirst, RemoveFirst, Tokens!SelectInSeq, SelectInSeq,
         Tokens!RemoveAt, RemoveAt, Tokens!Min, Min
<1>3. \A s, i, t : Tokens!InsertAt(s, i, t) = InsertAt(s, i, t)
  BY DEF Tokens!InsertAt, InsertAt
<1>4. QED BY <1>1, <1>2, <1>3

-----------------------------------------------------------------------------
(***************************************************************************)
(* Each effect is a step of TokenSemaphore, or none.                       *)
(***************************************************************************)
LEMMA EngagedIs ==
  ASSUME NEW t
  PROVE  t \in Tokens!Engaged <=>
           t \in GivenUp \/ \E s \in Sem : t \in Handed(s) \/ t \in ToSet(k.waitq[s])
<1> DEFINE G(s) == [o \in Sem |-> Handed(o)][s] \cup ToSet(k.waitq[s])
<1>1. Tokens!Engaged = GivenUp \cup UNION {G(s) : s \in Sem}
  BY TokensLists DEF Tokens!Engaged
<1>2. \A s \in Sem : t \in G(s) <=> t \in Handed(s) \/ t \in ToSet(k.waitq[s])
  OBVIOUS
<1> HIDE DEF G
<1>3. t \in UNION {G(s) : s \in Sem} <=> \E s \in Sem : t \in G(s)
  OBVIOUS
<1>4. QED BY <1>1, <1>2, <1>3

LEMMA JoinedIs ==
  ASSUME NEW q \in Seq(Thread), NEW t \in Thread, NEW n \in 1 .. Len(q) + 1, NEW f
  PROVE  Placed(n, q, t, f) => InsertAt(q, n, t) \in Tokens!Joined(q, t, f)
<1> DEFINE w == InsertAt(q, n, t)
<1>1. /\ w \in Seq(Thread) /\ Len(w) = Len(q) + 1
      /\ \A j \in 1 .. Len(q) + 1 :
           w[j] = IF j < n THEN q[j] ELSE IF j = n THEN t ELSE q[j - 1]
  <2>1. InsertedAt(w, Thread, q, n, t)
    BY ONLY q \in Seq(Thread), t \in Thread, n \in 1 .. Len(q) + 1, InsertAtInserts
  <2>2. QED BY <2>1 DEF InsertedAt
<1>0. Len(q) \in Nat /\ n \in Int
  OBVIOUS
<1>2. w \in {Tokens!InsertAt(q, i, t) : i \in 1 .. Len(q) + 1}
  BY TokensLists
<1> HAVE Placed(n, q, t, f)
<1> HIDE DEF w
<1>3. n \in DOMAIN w /\ w[n] = t /\ (f = "FIFO" => n = Len(w))
  BY <1>0, <1>1 DEF Placed
<1>4. ASSUME f = "PRIO"
      PROVE  /\ \A j \in 1 .. n - 1      : init_prio[w[j]] <= init_prio[t]
             /\ \A j \in n + 1 .. Len(w) : init_prio[t] < init_prio[w[j]]
  <2>1. ASSUME NEW j \in 1 .. n - 1
        PROVE  init_prio[w[j]] <= init_prio[t]
    <3>1. j \in 1 .. Len(q) /\ j < n /\ w[j] = q[j]
      BY <1>0, <1>1, <2>1
    <3>2. QED BY <1>4, <3>1 DEF Placed, PartsAt
  <2>2. ASSUME NEW j \in n + 1 .. Len(w)
        PROVE  init_prio[t] < init_prio[w[j]]
    <3>1. j - 1 \in 1 .. Len(q) /\ j - 1 >= n /\ w[j] = q[j - 1]
      BY <1>0, <1>1, <2>2
    <3>2. QED BY <1>4, <3>1 DEF Placed, PartsAt
  <2>3. QED BY <2>1, <2>2
<1>5. \E i \in DOMAIN w :
        /\ w[i] = t
        /\ f = "FIFO" => i = Len(w)
        /\ f = "PRIO" =>
             /\ \A j \in 1 .. i - 1      : init_prio[w[j]] <= init_prio[t]
             /\ \A j \in i + 1 .. Len(w) : init_prio[t] < init_prio[w[j]]
  BY <1>3, <1>4
<1>6. QED BY <1>2, <1>5 DEF Tokens!Joined, w

LEMMA JoinIsWait ==
  ASSUME WaitInv, NEW t \in Thread, NEW s \in Sem, Joins(t, s)
  PROVE  Tokens!Wait(t, s)
<1> DEFINE q == k.waitq[s]
           w == QueueWith(k.prio, q, flag[s], t)
<1>0. /\ k.waitq \in [Sem -> Seq(Thread)] /\ q \in Seq(Thread) /\ Len(q) \in Nat
      /\ DOMAIN q = 1 .. Len(q)
  BY WaitTyped
<1>1. /\ value[s] = 0 /\ value' = value /\ k.stat[t] = "READY" /\ ~ Waits(t)
      /\ k'.waitq = [k.waitq EXCEPT ![s] = w]
  BY DEF Joins
<1>2. Granted' = Granted /\ GivenUp' = GivenUp
  BY JoinsGranted
<1>3. t \notin GivenUp /\ \A o \in Sem : t \notin Handed(o)
  BY <1>1, WaiterIsWaiting
<1>4. \A o \in Sem : t \notin ToSet(k.waitq[o])
  BY <1>1, WaitTyped DEF Consistent, WaitListsHoldSuspended, Sem
<1>5. t \notin Tokens!Engaged
  BY <1>3, <1>4, EngagedIs
<1>6. w \in Tokens!Joined(q, t, flag[s])
  <2>1. PICK n \in 1 .. Len(q) + 1 :
          w = InsertAt(q, n, t) /\ Placed(n, q, t, flag[s])
    BY <1>1, QueuePlace
  <2> HIDE DEF q, w
  <2>2. InsertAt(q, n, t) \in Tokens!Joined(q, t, flag[s])
    BY <1>0, <2>1, JoinedIs
  <2>3. QED BY <2>1, <2>2
<1> HIDE DEF w
<1>7. \E v \in Tokens!Joined(q, t, flag[s]) : k'.waitq = [k.waitq EXCEPT ![s] = v]
  BY <1>1, <1>6
<1>8. QED BY <1>1, <1>2, <1>5, <1>7 DEF Tokens!Wait, Granted

LEMMA WakeIsGiveOrAbandon ==
  ASSUME WaitInv, NEW t \in Thread, NEW s \in Sem, NEW e \in Error, Wakes(t, s, e)
  PROVE  Tokens!Give(s) \/ Tokens!Abandon(t, s)
<1>0. k.waitq[s] \in Seq(Thread)
  BY WaitTyped
<1>1. /\ value' = value /\ t \in ToSet(k.waitq[s])
      /\ k'.waitq = [k.waitq EXCEPT ![s] = RemoveFirst(@, t)]
  BY DEF Wakes
<1>2. k.waitq[s] # << >>
  BY <1>0, <1>1, MembersOf
<1>3. CASE e = "EOK"
  <2>1. t = Head(k.waitq[s])
    BY <1>3 DEF Wakes
  <2>2. k'.waitq = [k.waitq EXCEPT ![s] = Tail(k.waitq[s])]
    BY <1>0, <1>1, <1>2, <2>1, RemoveHead
  <2>3. /\ Granted' = [Granted EXCEPT ![s] = @ \cup {Head(k.waitq[s])}]
        /\ GivenUp' = GivenUp
    BY <1>3, <2>1, WakesGranted
  <2>4. QED BY <1>1, <1>2, <2>2, <2>3 DEF Tokens!Give, Granted
<1>4. CASE e # "EOK"
  <2>1. Granted' = Granted /\ GivenUp' = GivenUp \cup {t}
    BY <1>4, WakesGranted
  <2>2. QED BY <1>1, <2>1, TokensLists DEF Tokens!Abandon, Granted
<1>5. QED BY <1>3, <1>4

LEMMA ReturnIsReturn ==
  ASSUME WaitInv, NEW t \in Thread, Returns(t)
  PROVE  Tokens!Return(t)
<1>1. value' = value /\ k'.waitq = k.waitq /\ k.stat[t] = "READY" /\ call[t] \in Sem
  BY WaitTyped DEF Returns
<1>2. /\ Granted' = [o \in Sem |-> Handed(o) \ {t}] /\ GivenUp' = GivenUp \ {t}
      /\ \A o \in Sem : t \in Handed(o) <=> o = call[t] /\ k.error[t] = "EOK"
      /\ t \in GivenUp <=> k.error[t] # "EOK"
  BY ReturnsGranted
<1>3. \A o \in Sem : t \notin ToSet(k.waitq[o])
  BY <1>1, WaitTyped DEF Consistent, WaitListsHoldSuspended, Sem
<1>4. t \in Tokens!Engaged
  BY <1>1, <1>2, EngagedIs
<1>5. Granted' = [o \in Sem |-> Granted[o] \ {t}]
  BY <1>2 DEF Granted
<1>6. QED BY <1>1, <1>2, <1>3, <1>4, <1>5, TokensLists DEF Tokens!Return, Granted

LEMMA EffectImplements ==
  ASSUME WaitInv, Effect
  PROVE  [Tokens!Next]_(Tokens!vars)
<1>1. ASSUME SameQueues
      PROVE  k'.waitq = k.waitq /\ Granted' = Granted /\ GivenUp' = GivenUp
  BY <1>1, SameQueuesGranted DEF SameQueues
<1>2. CASE Rests
  BY <1>1, <1>2 DEF Rests, Tokens!vars, Granted
<1>3. ASSUME NEW s \in Sem, Takes(s)
      PROVE  Tokens!Next
  <2>1. Tokens!Take(s)
    BY <1>1, <1>3 DEF Takes, Tokens!Take, Granted
  <2>2. QED BY <2>1 DEF Tokens!Next
<1>4. ASSUME NEW s \in Sem, Adds(s)
      PROVE  Tokens!Next
  <2>1. Tokens!Give(s)
    BY <1>1, <1>4 DEF Adds, Tokens!Give, Granted
  <2>2. QED BY <2>1 DEF Tokens!Next
<1>5. ASSUME NEW s \in Sem, NEW v \in 0 .. MaxValue, Resets(s, v)
      PROVE  Tokens!Next
  <2>1. Tokens!Reset(s)
    BY <1>1, <1>5 DEF Resets, Tokens!Reset, Granted
  <2>2. QED BY <2>1 DEF Tokens!Next
<1>6. ASSUME NEW t \in Thread, Returns(t)
      PROVE  Tokens!Next
  BY <1>6, ReturnIsReturn DEF Tokens!Next
<1>7. ASSUME NEW t \in Thread, NEW s \in Sem, Joins(t, s)
      PROVE  Tokens!Next
  BY <1>7, JoinIsWait DEF Tokens!Next
<1>8. ASSUME NEW t \in Thread, NEW s \in Sem, NEW e \in Error, Wakes(t, s, e)
      PROVE  Tokens!Next
  BY <1>8, WakeIsGiveOrAbandon DEF Tokens!Next
<1>9. QED
  BY <1>2, <1>3, <1>4, <1>5, <1>6, <1>7, <1>8 DEF Effect

\* The semaphores implement TokenSemaphore: in every interleaving a token goes
\* to the first of the queue, who has been given one returns with it, and a
\* queue is in the order of arrival or of the priorities.
THEOREM SemaphoresImplementTokens == Spec /\ ~ BlockLocked => ImplementsTokens
<1>1. Init /\ ~ BlockLocked => Tokens!Init
  <2> SUFFICES ASSUME Init, ~ BlockLocked PROVE Tokens!Init
    OBVIOUS
  <2>1. k.waitq = [o \in Object |-> << >>]
    BY InitKernel, StartedFields DEF Init, CpuInit
  <2>2. GivenUp = {} /\ \A s \in Sem : Handed(s) = {}
    BY DEF GivenUp, Handed, Init, CpuInit
  <2>3. value = init_value
    BY DEF Init
  <2>4. QED BY <2>1, <2>2, <2>3 DEF Tokens!Init, Sem
<1>2. WaitInv /\ [Next]_vars => [Tokens!Next]_(Tokens!vars)
  BY WaitInvStep, EffectImplements
<1>3. QED BY <1>1, <1>2, WaitInvariance, PTL DEF Spec, ImplementsTokens, Tokens!Spec
-----------------------------------------------------------------------------
(***************************************************************************)
(* No timer is overdue: the timers of the takes and of the sleeps.         *)
(***************************************************************************)
LEMMA BlockInTime ==
  ASSUME IInv, TimersKept, NEW t \in Thread, NEW s \in Sem,
         TakeForever(t, s) \/ \E time \in WaitTimes : TakeTimed(t, s, time)
  PROVE  TimersKept'
<1>1. PICK w : w = Suspended(t, s)
  OBVIOUS
<1>2. /\ Running(t) /\ pc[t] = "run" /\ t # Idle /\ systick' = systick
      /\ k' = w \/ \E time \in WaitTimes : k' = rt_timer_start(w, t, time)
  BY <1>1 DEF TakeForever, TakeTimed, Block, Calls
<1>3. KernelOK(k) /\ k.stat[t] = "READY"
  BY <1>2, CpuPart, RunningThread
<1>4. PICK r : r = [k EXCEPT !.error[t] = "EOK"]
  OBVIOUS
<1>5. KernelOK(r) /\ r.stat = k.stat
  BY <1>3, <1>4, SetError DEF Error
<1>6. SameTimers(k, r)
  BY <1>3, <1>4 DEF SameTimers, KernelOK, KernelState
<1>7. w = rt_ipc_list_suspend(r, s, t, flag[s]) /\ s \in Object
  BY <1>1, <1>4 DEF Suspended, Sem
<1>8. KernelOK(w)
  <2>1. QueuedOn(r, s, t, w)
    BY <1>2, <1>3, <1>5, <1>7, IpcSuspendPreserves
  <2>2. QED BY <2>1 DEF QueuedOn
<1>9. SameTimers(r, w)
  BY <1>2, <1>3, <1>5, <1>7, IpcSuspendFrame
<1>10. SameTimers(k, w)
  BY <1>6, <1>9 DEF SameTimers
<1>11. t \notin k.active
  BY <1>3, AbsentFromLists
<1> SUFFICES ASSUME TimersInTime(k, FALSE) PROVE TimersInTime(k', FALSE)
  BY <1>2, KeptByThreads DEF Running, InThread
<1>12. CASE k' = w
  BY <1>10, <1>12, SameTimersInTime
<1>13. ASSUME NEW time \in WaitTimes, k' = rt_timer_start(w, t, time)
       PROVE  TimersInTime(k', FALSE)
  <2>1. time \in 1 .. HalfTick - 1
    BY SemaphoreAssumption
  <2>2. QED BY <1>8, <1>10, <1>11, <1>13, <2>1, TimedInTime
<1>14. QED BY <1>2, <1>12, <1>13

\* rt_thread_resume stops the timer of the thread it wakes.
LEMMA ResumeInTime ==
  ASSUME NEW r, KernelOK(r), NEW t \in Thread, TimersInTime(r, FALSE)
  PROVE  TimersInTime(rt_thread_resume(r, t), FALSE)
<1>1. CASE r.stat[t] = "SUSPEND"
  BY <1>1, ResumeFrame, StoppedInTime
<1>2. CASE r.stat[t] # "SUSPEND"
  BY <1>2 DEF rt_thread_resume
<1>3. QED BY <1>1, <1>2

LEMMA GiveInTime ==
  ASSUME IInv, TimersInTime(k, FALSE), NEW s \in Sem, Give(s)
  PROVE  TimersInTime(k', FALSE)
<1>1. KernelOK(k) /\ k \in KernelState
  BY DEF IInv, TypeOK, CpuTypeOK, KernelConsistent, KernelOK
<1>2. CASE k.waitq[s] # << >>
  <2>1. PICK t : t = Head(k.waitq[s])
    OBVIOUS
  <2>2. t \in Thread
    BY <1>1, <1>2, <2>1, Fields DEF Sem
  <2>3. k' = rt_thread_resume(k, t)
    BY <1>2, <2>1 DEF Give, rt_ipc_list_resume
  <2>4. QED BY <1>1, <2>2, <2>3, ResumeInTime
<1>3. CASE k.waitq[s] = << >>
  BY <1>3 DEF Give
<1>4. QED BY <1>2, <1>3

LEMMA ResumeFirstInTime ==
  ASSUME IInv, TimersInTime(k, FALSE), NEW s \in Sem, k.waitq[s] # << >>, ResumeFirst(s)
  PROVE  TimersInTime(k', FALSE)
<1>1. KernelOK(k) /\ k \in KernelState
  BY DEF IInv, TypeOK, CpuTypeOK, KernelConsistent, KernelOK
<1>2. PICK t : t = Head(k.waitq[s])
  OBVIOUS
<1>3. t \in Thread
  BY <1>1, <1>2, Fields DEF Sem
<1>4. PICK r : r = [k EXCEPT !.error[t] = "ERROR"]
  OBVIOUS
<1>5. KernelOK(r)
  BY <1>1, <1>3, <1>4, SetError DEF Error
<1>6. SameTimers(k, r)
  BY <1>1, <1>4 DEF SameTimers, KernelState
<1>7. k' = rt_thread_resume(r, t)
  BY <1>2, <1>4 DEF ResumeFirst
<1>8. QED BY <1>3, <1>5, <1>6, <1>7, SameTimersInTime, ResumeInTime

LEMMA TimersStep == IInv /\ TimersKept /\ [Next]_vars => TimersKept'
<1> SUFFICES ASSUME IInv, TimersKept, [Next]_vars PROVE TimersKept'
  OBVIOUS
<1>0. CpuInv
  BY CpuPart
<1>1. CASE UNCHANGED vars
  BY <1>1 DEF vars, TimersKept
<1>2. CASE SysTick_Handler \/ rt_timer_check \/ DeviceSchedule
  BY <1>0, <1>2, HandlersInTime
<1>3. ASSUME ~ systick, systick' = systick, k' = k
      PROVE  TimersKept'
  BY <1>3, KeptByThreads
<1>4. ASSUME NEW s \in Sem, DeviceRelease(s)
      PROVE  TimersKept'
  <2>1. Give(s) /\ ~ systick /\ systick' = systick
    BY <1>4 DEF DeviceRelease, InThread
  <2>2. QED BY <2>1, GiveInTime, KeptByThreads
<1>5. ASSUME NEW t \in Thread, ThreadStep(t) \/ ThreadCall(t)
      PROVE  TimersKept'
  <2>1. CASE \/ Schedule(t) \/ SleepReturn(t) \/ rt_thread_yield(t)
             \/ rt_enter_critical(t) \/ rt_exit_critical(t)
             \/ \E time \in WaitTimes : Sleep(t, time)
    BY <1>0, <2>1, SchedulerInTime, SemaphoreAssumption DEF Sleep
  <2>2. CASE \/ TakeReturn(t) \/ ResetValue(t) \/ DetachTest(t)
             \/ DetachResume(t) /\ k.waitq[call[t]] = << >>
    <3>1. ~ systick /\ systick' = systick /\ k' = k
      BY <2>2 DEF TakeReturn, ResetValue, DetachTest, DetachResume, Running, InThread
    <3>2. QED BY <1>3, <3>1
  <2>3. CASE \/ ResetResume(t)
             \/ DetachResume(t) /\ k.waitq[call[t]] # << >>
    <3>1. /\ ~ systick /\ systick' = systick /\ k.waitq[call[t]] # << >>
          /\ ResumeFirst(call[t])
      BY <2>3 DEF ResetResume, DetachResume, Running, InThread
    <3>2. call[t] \in Sem
      BY DEF IInv, TypeOK
    <3>3. QED BY <3>1, <3>2, ResumeFirstInTime, KeptByThreads
  <2>4. ASSUME NEW s \in Sem,
               \/ TakeAvailable(t, s) \/ DetachCall(t, s)
               \/ \E v \in 0 .. MaxValue : ResetCall(t, s, v)
        PROVE  TimersKept'
    <3>1. ~ systick /\ systick' = systick /\ k' = k
      BY <2>4 DEF TakeAvailable, DetachCall, ResetCall, Calls, Running, InThread, cpu
    <3>2. QED BY <1>3, <3>1
  <2>5. ASSUME NEW s \in Sem,
               TakeForever(t, s) \/ \E time \in WaitTimes : TakeTimed(t, s, time)
        PROVE  TimersKept'
    BY <2>5, BlockInTime
  <2>6. ASSUME NEW s \in Sem, rt_sem_release(t, s)
        PROVE  TimersKept'
    <3>1. Give(s) /\ ~ systick /\ systick' = systick
      BY <2>6 DEF rt_sem_release, Calls, Running, InThread
    <3>2. QED BY <3>1, GiveInTime, KeptByThreads
  <2>7. CASE ThreadStep(t)
    <3>1. \/ Schedule(t) \/ SleepReturn(t)
          \/ TakeReturn(t) \/ ResetValue(t) \/ DetachTest(t)
          \/ ResetResume(t) \/ DetachResume(t)
      BY <2>7 DEF ThreadStep
    <3>2. QED BY <2>1, <2>2, <2>3, <3>1
  <2>8. CASE ThreadCall(t)
    <3>1. CASE \/ rt_thread_yield(t) \/ rt_enter_critical(t) \/ rt_exit_critical(t)
               \/ \E time \in WaitTimes : Sleep(t, time)
      BY <2>1, <3>1
    <3>2. CASE \E s \in Sem :
                 \/ TakeAvailable(t, s) \/ TakeForever(t, s)
                 \/ \E time \in WaitTimes : TakeTimed(t, s, time)
                 \/ rt_sem_release(t, s)
                 \/ \E v \in 0 .. MaxValue : ResetCall(t, s, v)
                 \/ DetachCall(t, s)
      BY <2>4, <2>5, <2>6, <3>2
    <3>3. QED BY <2>8, <3>1, <3>2 DEF ThreadCall
  <2>9. QED BY <1>5, <2>7, <2>8
<1>6. QED BY <1>1, <1>2, <1>4, <1>5 DEF Next, Handler

\* When rt_timer_check has returned no timer in the list has run out, and the
\* list is in the order of expiry, however often the tick counter has wrapped
\* (timer.c:rt_timer_start, rt_timer_check).
THEOREM TimersAreKept == Spec /\ ~ BlockLocked => []NoTimerOverdue
<1>1. Init => TimersKept
  BY StartedInTime DEF Init
<1>2. IInv /\ TimersKept /\ [Next]_vars => TimersKept'
  BY TimersStep
<1>3. IInv /\ TimersKept => NoTimerOverdue
  BY CpuPart, InTimeIsNotOverdue
<1>4. QED BY <1>1, <1>2, <1>3, Invariance, PTL DEF Spec
=============================================================================
