--------------------------- MODULE ServicesProofs ---------------------------
(***************************************************************************)
(* Theorems about the mailbox, the event, the message queue and the memory *)
(* pool over one kernel: the most urgent ready thread runs, a wait keeps   *)
(* its deadline, no wake-up is lost, an event serves its waiters as they    *)
(* asked and claims a flag once, and the mailbox implements Channel.       *)
(* BlockProofs has those about blocks.                                     *)
(*                                                                         *)
(* SInv is the invariant they rest on: KInv is about the kernel and says   *)
(* where each thread waits; Attended that whoever was made ready is given  *)
(* the processor by somebody; ObjectsSound has the part of each object.    *)
(***************************************************************************)
EXTENDS Services, KernelProofs

\* Linking a node in front.
LEMMA PushNew ==
  ASSUME NEW S, NEW s \in Seq(S), IsInjective(s), NEW t \in S, t \notin ToSet(s)
  PROVE  /\ <<t>> \o s \in Seq(S)
         /\ ToSet(<<t>> \o s) = ToSet(s) \cup {t}
         /\ IsInjective(<<t>> \o s)
<1>1. InsertAt(s, 1, t) = <<t>> \o s
  <2>1. SubSeq(s, 1, 0) = << >>
    BY SubSeqProperties
  <2>2. SubSeq(s, 1, Len(s)) = s
    BY SubSeqProperties
  <2>3. InsertAt(s, 1, t) = << >> \o <<t>> \o s
    BY <2>1, <2>2 DEF InsertAt
  <2>4. << >> \o <<t>> = <<t>>
    OBVIOUS
  <2>5. QED BY <2>3, <2>4
<1>2. 1 \in 1 .. Len(s) + 1
  OBVIOUS
<1>3. /\ InsertAt(s, 1, t) \in Seq(S)
      /\ ToSet(InsertAt(s, 1, t)) = ToSet(s) \cup {t}
      /\ IsInjective(InsertAt(s, 1, t))
  BY ONLY s \in Seq(S), IsInjective(s), t \in S, t \notin ToSet(s), <1>2, InsertNew
<1>4. QED BY <1>1, <1>3
-----------------------------------------------------------------------------
(***************************************************************************)
(* The kernel beneath the objects.  A step either frees some waiting       *)
(* threads, often none, or lets the running one join a waiting list.       *)
(***************************************************************************)

\* Where a thread is in its code, also while it is inside rt_schedule.
Where(u) == IF pc[u] = "sched" THEN cont[u] ELSE pc[u]

AllPoints == Point \cup {"mq_send", "mq_urgent", "mq_copy", "alloc_test"}
Waits == {"send", "recv", "event", "alloc"}

\* Threads wait on list o at the point c.
WaitPoint(o, c) ==
  \/ using = "mb"    /\ o = suspend_thread        /\ c = "recv"
  \/ using = "mb"    /\ o = suspend_sender_thread /\ c = "send"
  \/ using = "event" /\ o = suspend_thread        /\ c = "event"
  \/ using = "mq"    /\ o = suspend_thread        /\ c = "recv"
  \/ using = "mp"    /\ o = pool_waiters          /\ c = "alloc"

LocalsTyped ==
  /\ pc \in [Thread -> AllPoints] /\ cont \in [Thread -> Continuation]
  /\ timeout \in [Thread -> (0 .. HalfTick) \cup {Forever}]
  /\ start \in [Thread -> Tick] /\ deadline \in [Thread -> Tick]
  /\ primask \in BOOLEAN /\ systick \in BOOLEAN /\ device \in BOOLEAN
  /\ detached \in BOOLEAN

\* In v the threads U are ready that waited in r, W of them without an error;
\* of all others only the error codes of X may differ.
Frees(r, X, U, W, v) ==
  /\ KernelOK(v) /\ v.lock = r.lock
  /\ U \subseteq Thread /\ W \subseteq U
  /\ \A u \in U : r.stat[u] = "SUSPEND" /\ (v.error[u] = "EOK" <=> u \in W)
  /\ \A u \in Thread : v.stat[u] = IF u \in U THEN "READY" ELSE r.stat[u]
  /\ \A o \in Object : ToSet(v.waitq[o]) = ToSet(r.waitq[o]) \ U
  /\ \A u \in Thread \ (U \cup X) : v.error[u] = r.error[u]
  /\ \A u \in Thread \ U : v.timeout[u] = r.timeout[u]

\* In v thread t waits on o that ran in r.
Enters(r, t, o, v) ==
  /\ KernelOK(v) /\ v.lock = r.lock /\ v.current = r.current
  /\ v.stat = [r.stat EXCEPT ![t] = "SUSPEND"]
  /\ \A x \in Object : ToSet(v.waitq[x]) =
       IF x = o THEN ToSet(r.waitq[x]) \cup {t} ELSE ToSet(r.waitq[x])
  /\ v.error = [r.error EXCEPT ![t] = "EOK"]
  /\ \A u \in Thread \ {t} : v.timeout[u] = r.timeout[u]

-----------------------------------------------------------------------------
\* A step of the kernel that frees nobody.
LEMMA FreesNobody ==
  ASSUME NEW r, NEW X, NEW v, KernelOK(v), v.lock = r.lock, v.stat = r.stat,
         \A o \in Object : ToSet(v.waitq[o]) = ToSet(r.waitq[o]),
         \A u \in Thread \ X : v.error[u] = r.error[u], v.timeout = r.timeout
  PROVE  Frees(r, X, {}, {}, v)
BY DEF Frees

LEMMA KernelRests ==
  ASSUME NEW r, KernelOK(r), NEW X
  PROVE  /\ Frees(r, X, {}, {}, r)
         /\ Frees(r, X, {}, {}, rt_schedule(r))
         /\ Frees(r, X, {}, {}, tick_increase(r))
         /\ \A t \in X, e \in Error : t \in Thread =>
              Frees(r, X, {}, {}, [r EXCEPT !.error[t] = e])
<1>0. r \in KernelState
  BY DEF KernelOK
<1>1. Frees(r, X, {}, {}, r)
  BY FreesNobody
<1>2. Frees(r, X, {}, {}, rt_schedule(r))
  <2> DEFINE v == rt_schedule(r)
  <2>1. KernelOK(v) /\ v.lock = r.lock /\ v.stat = r.stat /\ v.waitq = r.waitq /\ v.error = r.error
    BY SchedulePreserves
  <2>2. v.timeout = r.timeout
    BY <1>0, ScheduleFrame DEF SameTimers
  <2> HIDE DEF v
  <2>3. QED BY <2>1, <2>2, FreesNobody DEF v
<1>3. Frees(r, X, {}, {}, tick_increase(r))
  <2> DEFINE v == tick_increase(r)
  <2>1. KernelOK(v) /\ v.lock = r.lock /\ v.stat = r.stat /\ v.error = r.error
    BY TickPreserves
  <2>2. v.waitq = r.waitq /\ v.timeout = r.timeout
    BY TickFrame
  <2> HIDE DEF v
  <2>3. QED BY <2>1, <2>2, FreesNobody DEF v
<1>4. ASSUME NEW t \in X, NEW e \in Error, t \in Thread
      PROVE  Frees(r, X, {}, {}, [r EXCEPT !.error[t] = e])
  <2> DEFINE v == [r EXCEPT !.error[t] = e]
  <2>1. KernelOK(v) /\ v.lock = r.lock /\ v.stat = r.stat /\ v.waitq = r.waitq
        /\ v.error = [r.error EXCEPT ![t] = e]
    BY <1>4, SetError
  <2>2. v.timeout = r.timeout
    BY <1>0 DEF KernelState
  <2>3. r.error \in [Thread -> Error]
    BY <1>0, Fields
  <2>4. \A u \in Thread \ X : v.error[u] = r.error[u]
    BY <1>4, <2>1, <2>3
  <2> HIDE DEF v
  <2>5. QED BY <2>1, <2>2, <2>4, FreesNobody DEF v
<1>5. QED BY <1>1, <1>2, <1>3, <1>4

\* rt_thread_resume of a waiting thread, whose error code is now e.
LEMMA ResumeFrees ==
  ASSUME NEW r, KernelOK(r), NEW t \in Thread, r.stat[t] = "SUSPEND"
  PROVE  LET v == rt_thread_resume(r, t)
         IN  /\ Frees(r, {}, {t}, IF r.error[t] = "EOK" THEN {t} ELSE {}, v)
             /\ v.current = r.current /\ v.error = r.error
<1> DEFINE v == rt_thread_resume(r, t)
           W == IF r.error[t] = "EOK" THEN {t} ELSE {}
<1>1. /\ KernelOK(v) /\ v.stat = [r.stat EXCEPT ![t] = "READY"]
      /\ \A o \in Object : ToSet(v.waitq[o]) = ToSet(r.waitq[o]) \ {t}
      /\ v.current = r.current /\ v.lock = r.lock /\ v.error = r.error
  BY ResumePreserves
<1>2. \A u \in Thread \ {t} : v.timeout[u] = r.timeout[u]
  BY ResumeFrame DEF TimerStopped
<1>3. r.stat \in [Thread -> Stat]
  BY Fields DEF KernelOK
<1> HIDE DEF v
<1>4. \A u \in Thread : v.stat[u] = IF u \in {t} THEN "READY" ELSE r.stat[u]
  BY <1>1, <1>3
<1>5. W \subseteq {t} /\ \A u \in {t} : v.error[u] = "EOK" <=> u \in W
  BY <1>1
<1> HIDE DEF W
<1>6. Frees(r, {}, {t}, W, v)
  BY <1>1, <1>2, <1>4, <1>5 DEF Frees
<1>7. QED BY <1>1, <1>6 DEF v, W

\* rt_thread_resume of a waiting thread that is told an error, or none.
LEMMA ResumeWithFrees ==
  ASSUME NEW r, KernelOK(r), NEW t \in Thread, r.stat[t] = "SUSPEND", NEW e \in Error
  PROVE  LET v == rt_thread_resume([r EXCEPT !.error[t] = e], t)
         IN  /\ Frees(r, {}, {t}, IF e = "EOK" THEN {t} ELSE {}, v)
             /\ v.current = r.current
<1> DEFINE w == [r EXCEPT !.error[t] = e]
           v == rt_thread_resume(w, t)
           W == IF e = "EOK" THEN {t} ELSE {}
<1>1. /\ KernelOK(w) /\ w.stat = r.stat /\ w.waitq = r.waitq
      /\ w.current = r.current /\ w.lock = r.lock
      /\ w.error = [r.error EXCEPT ![t] = e]
  BY SetError
<1>2. w.timeout = r.timeout /\ r.error \in [Thread -> Error]
  BY Fields DEF KernelOK, KernelState
<1> HIDE DEF w
<1>3. w.error[t] = e /\ \A u \in Thread \ {t} : w.error[u] = r.error[u]
  BY <1>1, <1>2
<1>4. Frees(w, {}, {t}, W, v) /\ v.current = w.current
  <2>1. KernelOK(w) /\ w.stat[t] = "SUSPEND"
    BY <1>1
  <2>2. Frees(w, {}, {t}, IF w.error[t] = "EOK" THEN {t} ELSE {}, v) /\ v.current = w.current
    BY <2>1, ResumeFrees
  <2>3. QED BY <1>3, <2>2
<1> HIDE DEF v, W
<1>5. Frees(r, {}, {t}, W, v)
  BY <1>1, <1>2, <1>3, <1>4 DEF Frees
<1>6. QED BY <1>1, <1>4, <1>5 DEF v, W, w

LEMMA ExpireFrees ==
  ASSUME NEW r, KernelOK(r), r.timers # << >>
  PROVE  LET v == timer_expire(r)
         IN  Frees(r, {}, {Head(r.timers)}, {}, v)
<1> DEFINE v == timer_expire(r)
<1>0. PICK t : t = Head(r.timers)
  OBVIOUS
<1>1. /\ KernelOK(v) /\ r.stat[t] = "SUSPEND" /\ v.stat = [r.stat EXCEPT ![t] = "READY"]
      /\ \A o \in Object : ToSet(v.waitq[o]) = ToSet(r.waitq[o]) \ {t}
      /\ v.error = [r.error EXCEPT ![t] = "ETIMEOUT"] /\ v.lock = r.lock
  BY <1>0, ExpirePreserves
<1>2. t \in Thread /\ \A u \in Thread \ {t} : v.timeout[u] = r.timeout[u]
  BY <1>0, ExpireFrame DEF TimerStopped
<1>3. r.stat \in [Thread -> Stat] /\ r.error \in [Thread -> Error]
  BY Fields DEF KernelOK
<1> HIDE DEF v
<1>4. \A u \in Thread : v.stat[u] = IF u \in {t} THEN "READY" ELSE r.stat[u]
  BY <1>1, <1>2, <1>3
<1>5. v.error[t] # "EOK" /\ \A u \in Thread \ {t} : v.error[u] = r.error[u]
  BY <1>1, <1>2, <1>3
<1>6. Frees(r, {}, {t}, {}, v)
  BY <1>1, <1>2, <1>4, <1>5 DEF Frees
<1>7. QED BY <1>0, <1>6 DEF v

-----------------------------------------------------------------------------
\* Up to the start of the timer a thread that begins to wait is queued.
LEMMA QueuedEnters ==
  ASSUME NEW r, KernelOK(r), NEW t \in Thread, r.stat[t] = "READY", t # Idle,
         NEW o \in Object, NEW f
  PROVE  LET v == rt_ipc_list_suspend([r EXCEPT !.error[t] = "EOK"], o, t, f)
         IN  Enters(r, t, o, v) /\ v.tick = r.tick /\ t \notin v.active
<1> DEFINE w == [r EXCEPT !.error[t] = "EOK"]
           v == rt_ipc_list_suspend(w, o, t, f)
<1>1. /\ KernelOK(w) /\ w.stat = r.stat /\ w.waitq = r.waitq
      /\ w.current = r.current /\ w.lock = r.lock
      /\ w.error = [r.error EXCEPT ![t] = "EOK"]
  BY SetError DEF Error
<1>2. w.timeout = r.timeout /\ w.tick = r.tick
  BY DEF KernelOK, KernelState
<1> HIDE DEF w
<1>3. QueuedOn(w, o, t, v)
  BY <1>1, IpcSuspendPreserves
<1>4. SameTimers(w, v)
  BY <1>1, IpcSuspendFrame
<1>5. t \notin w.active
  BY <1>1, AbsentFromLists
<1> HIDE DEF v
<1>6. Enters(r, t, o, v)
  BY <1>1, <1>2, <1>3, <1>4 DEF Enters, QueuedOn, SameTimers
<1>7. QED BY <1>2, <1>4, <1>5, <1>6 DEF SameTimers, v, w

\* A thread that waits for a block of a pool is put before the others.
Pushed(r, t, o) ==
  LET u == rt_thread_suspend([r EXCEPT !.error[t] = "EOK"], t)
  IN  [u EXCEPT !.waitq[o] = <<t>> \o @]

LEMMA PushedEnters ==
  ASSUME NEW r, KernelOK(r), NEW t \in Thread, r.stat[t] = "READY", t # Idle,
         NEW o \in Object, NEW n, n = Pushed(r, t, o)
  PROVE  Enters(r, t, o, n) /\ n.tick = r.tick /\ t \notin n.active
<1> DEFINE w == [r EXCEPT !.error[t] = "EOK"]
           u == rt_thread_suspend(w, t)
           q == <<t>> \o u.waitq[o]
           v == [u EXCEPT !.waitq[o] = <<t>> \o @]
<1>1. /\ KernelOK(w) /\ w.stat = r.stat /\ w.waitq = r.waitq
      /\ w.current = r.current /\ w.lock = r.lock
      /\ w.error = [r.error EXCEPT ![t] = "EOK"]
  BY SetError DEF Error
<1>2. w.timeout = r.timeout /\ w.tick = r.tick
  BY DEF KernelOK, KernelState
<1>3. t \notin w.active
  BY <1>1, AbsentFromLists
<1> HIDE DEF w
<1>4. /\ KernelOK(u) /\ u.stat = [w.stat EXCEPT ![t] = "SUSPEND"]
      /\ \A x \in Object : ToSet(u.waitq[x]) = ToSet(w.waitq[x])
      /\ \A x \in Object : t \notin ToSet(u.waitq[x])
      /\ u.current = w.current /\ u.lock = w.lock /\ u.error = w.error
  BY <1>1, SuspendPreserves
<1>5. SameTimers(w, u)
  BY <1>1, SuspendFrame
<1> HIDE DEF u
<1>6. u \in KernelState /\ u.waitq \in [Object -> Seq(Thread)] /\ w.stat \in [Thread -> Stat]
  BY <1>1, <1>4, Fields DEF KernelOK
<1>7. IsInjective(u.waitq[o])
  BY <1>4 DEF KernelOK, Consistent, WaitListsHoldSuspended
<1>8. q \in Seq(Thread) /\ ToSet(q) = ToSet(u.waitq[o]) \cup {t} /\ IsInjective(q)
  BY <1>4, <1>6, <1>7, PushNew
<1>9. /\ v.table = u.table /\ v.group = u.group /\ v.defunct = u.defunct
      /\ v.stat = u.stat /\ v.prio = u.prio /\ v.mask = u.mask
      /\ v.timers = u.timers /\ v.active = u.active /\ v.error = u.error
      /\ v.current = u.current /\ v.lock = u.lock /\ v.tick = u.tick
      /\ v.timeout = u.timeout /\ v.waitq = [u.waitq EXCEPT ![o] = q]
      /\ v.remaining = u.remaining
  BY <1>6 DEF KernelState
<1>10. v \in KernelState
  BY <1>6, <1>8 DEF KernelState
<1> HIDE DEF v, q
<1>11. \A x \in Object : v.waitq[x] = IF x = o THEN q ELSE u.waitq[x]
  BY <1>6, <1>9
<1>12. \A x \in Object : ToSet(v.waitq[x]) =
         IF x = o THEN ToSet(u.waitq[x]) \cup {t} ELSE ToSet(u.waitq[x])
  BY <1>8, <1>11
<1>13. WaitListsHoldSuspended(v)
  <2>1. WaitListsHoldSuspended(u)
    BY <1>4 DEF KernelOK, Consistent
  <2>2. \A x \in Object : IsInjective(v.waitq[x])
    BY <1>8, <1>11, <2>1 DEF WaitListsHoldSuspended
  <2>3. \A x \in Object : \A y \in ToSet(v.waitq[x]) : v.stat[y] = "SUSPEND"
    <3>1. ASSUME NEW x \in Object, NEW y \in ToSet(v.waitq[x]), y = t
          PROVE  v.stat[y] = "SUSPEND"
      BY <1>4, <1>6, <1>9, <3>1
    <3>2. ASSUME NEW x \in Object, NEW y \in ToSet(v.waitq[x]), y # t
          PROVE  v.stat[y] = "SUSPEND"
      <4>1. y \in ToSet(u.waitq[x])
        BY <1>12, <3>2
      <4>2. u.stat[y] = "SUSPEND"
        BY <2>1, <4>1 DEF WaitListsHoldSuspended
      <4>3. QED BY <1>9, <4>2
    <3>3. QED BY <3>1, <3>2
  <2>4. \A x, y \in Object : x # y => ToSet(v.waitq[x]) \cap ToSet(v.waitq[y]) = {}
    BY <1>4, <1>12, <2>1 DEF WaitListsHoldSuspended
  <2>5. QED BY <2>2, <2>3, <2>4 DEF WaitListsHoldSuspended
<1>14. Consistent(v)
  <2>1. Consistent(u)
    BY <1>4 DEF KernelOK
  <2>2. QED BY <1>9, <1>13, <2>1 DEF Consistent, ReadyListsMatchStat, GroupMatchesTable,
             TimersBelongToSuspended, DefunctIsClosed, IdleIsReady
<1>15. Enters(r, t, o, v)
  <2>1. KernelOK(v)
    BY <1>10, <1>14 DEF KernelOK
  <2>2. QED BY <1>1, <1>2, <1>4, <1>5, <1>9, <1>12, <2>1 DEF Enters, SameTimers
<1>16. Enters(r, t, o, v) /\ v.tick = r.tick /\ t \notin v.active
  BY <1>2, <1>3, <1>5, <1>9, <1>15 DEF SameTimers
<1>17. v = n
  BY DEF Pushed, v, q, u, w
<1>18. QED BY <1>16, <1>17

\* With its timer, unless it waits for ever.
LEMMA TimedEnters ==
  ASSUME NEW r, NEW t \in Thread, NEW o, NEW v, Enters(r, t, o, v), v.tick = r.tick,
         t \notin v.active, KernelOK(r), NEW time \in Int
  PROVE  /\ Enters(r, t, o, Timed(v, t, time))
         /\ time > 0 => Timed(v, t, time).timeout[t] = (r.tick + time) % TickMod
<1>1. CASE ~ (time > 0)
  BY <1>1 DEF Timed
<1>2. CASE time > 0
  <2> DEFINE x == rt_timer_start(v, t, time)
  <2>0. time \in Nat /\ Timed(v, t, time) = x
    BY <1>2 DEF Timed
  <2>1. KernelOK(v) /\ v.stat[t] = "SUSPEND"
    <3>1. r.stat \in [Thread -> Stat]
      BY Fields DEF KernelOK
    <3>2. QED BY <3>1 DEF Enters
  <2>2. /\ KernelOK(x) /\ x.stat = v.stat /\ x.waitq = v.waitq
        /\ x.current = v.current /\ x.lock = v.lock /\ x.error = v.error
    BY <2>0, <2>1, TimerStartPreserves
  <2>3. x.timeout = [v.timeout EXCEPT ![t] = (v.tick + time) % TickMod]
    BY <2>0, <2>1, StartFrame
  <2>4. v.timeout \in [Thread -> Tick]
    BY <2>1, Fields DEF KernelOK
  <2> HIDE DEF x
  <2>5. x.timeout[t] = (r.tick + time) % TickMod
        /\ \A u \in Thread \ {t} : x.timeout[u] = v.timeout[u]
    BY <2>3, <2>4
  <2>6. Enters(r, t, o, x)
    BY <2>2, <2>5 DEF Enters
  <2>7. QED BY <2>0, <2>5, <2>6
<1>3. QED BY <1>1, <1>2
-----------------------------------------------------------------------------
(***************************************************************************)
(* What the objects keep true of the kernel and of the waiting threads.    *)
(***************************************************************************)
KernelSound == KernelOK(k) /\ k.lock = 0

\* A suspended thread is inside a call that waits.
SuspendedInWait ==
  \A u \in Thread :
    /\ k.stat[u] \in {"READY", "SUSPEND"}
    /\ k.stat[u] = "SUSPEND" => Where(u) \in Waits

\* The current thread is ready, or about to call rt_schedule.
CurrentIsReady == k.stat[k.current] = "SUSPEND" => pc[k.current] = "sched"

\* A thread on a waiting list waits where the object says, and has no error.
QueuedInWait ==
  \A o \in Object : \A u \in ToSet(k.waitq[o]) :
    WaitPoint(o, Where(u)) /\ k.error[u] = "EOK"

TestsWithoutError ==
  \A u \in Thread : Where(u) = "alloc_test" => k.error[u] = "EOK"

\* The idle thread never waits.
IdleWaitsNot == Where(Idle) \notin Waits \cup {"alloc_test"}

\* A thread waits where threads wait for the object in use.
WaitsForIt ==
  \A u \in Thread :
    /\ Where(u) \in Waits => \E o \in Object : WaitPoint(o, Where(u))
    /\ Where(u) = "alloc_test" => using = "mp"

\* deadline is the end of the time a thread waits for.
DeadlineIsEnd ==
  \A u \in Thread :
    Where(u) \in {"send", "recv", "event"} /\ timeout[u] > 0 =>
      deadline[u] = (start[u] + timeout[u]) % TickMod

KInv ==
  /\ KernelSound /\ LocalsTyped /\ using \in Kinds
  /\ SuspendedInWait /\ CurrentIsReady /\ QueuedInWait
  /\ TestsWithoutError /\ IdleWaitsNot /\ WaitsForIt /\ DeadlineIsEnd /\ DeadlineKept

\* All threads but X are where they were, with their locals.
OthersStay(X) ==
  \A u \in Thread \ X :
    /\ Where(u)' = Where(u)
    /\ timeout'[u] = timeout[u] /\ start'[u] = start[u] /\ deadline'[u] = deadline[u]

\* A step that frees U, W of them without an error; X are the ready threads
\* that move on.
Relaxes(X, U, W) ==
  /\ Frees(k, X, U, W, k') /\ OthersStay(X) /\ LocalsTyped' /\ using' = using
  /\ \A u \in X :
       /\ k.stat[u] = "READY" /\ Where(u)' \notin Waits
       /\ Where(u)' = "alloc_test" =>
            k'.error[u] = "EOK" /\ u # Idle /\ using = "mp"
  /\ k'.stat[k'.current] = "READY" \/ pc'[k'.current] = "sched"

\* A step in which t begins to wait on o, at c.
Joins(t, o, c) ==
  /\ Enters(k, t, o, k') /\ OthersStay({t}) /\ LocalsTyped' /\ using' = using
  /\ k.current = t /\ k.stat[t] = "READY" /\ pc'[t] = "sched" /\ cont'[t] = c
  /\ WaitPoint(o, c) /\ t # Idle
  /\ o # pool_waiters /\ timeout'[t] > 0 =>
       /\ deadline'[t] = (start'[t] + timeout'[t]) % TickMod
       /\ k'.timeout[t] = deadline'[t]

\* A queued thread is suspended.
LEMMA QueuedIsSuspended ==
  ASSUME KInv, NEW o \in Object, NEW u \in ToSet(k.waitq[o])
  PROVE  u \in Thread /\ k.stat[u] = "SUSPEND"
<1>1. k \in KernelState /\ WaitListsHoldSuspended(k)
  BY DEF KInv, KernelSound, KernelOK, Consistent
<1>2. k.waitq[o] \in Seq(Thread)
  BY <1>1, Fields
<1>3. u \in Thread
  BY <1>2, MembersOf
<1>4. QED BY <1>1, <1>3 DEF WaitListsHoldSuspended

LEMMA RelaxesKeeps ==
  ASSUME KInv, NEW X \in SUBSET Thread, NEW U, NEW W, Relaxes(X, U, W)
  PROVE  KInv'
<1>1. /\ KernelOK(k') /\ k'.lock = k.lock /\ U \subseteq Thread /\ W \subseteq U
      /\ \A u \in U : k.stat[u] = "SUSPEND" /\ (k'.error[u] = "EOK" <=> u \in W)
      /\ \A u \in Thread : k'.stat[u] = IF u \in U THEN "READY" ELSE k.stat[u]
      /\ \A o \in Object : ToSet(k'.waitq[o]) = ToSet(k.waitq[o]) \ U
      /\ \A u \in Thread \ (U \cup X) : k'.error[u] = k.error[u]
      /\ \A u \in Thread \ U : k'.timeout[u] = k.timeout[u]
  BY DEF Relaxes, Frees
<1>2. /\ \A u \in X : /\ k.stat[u] = "READY" /\ Where(u)' \notin Waits
                      /\ Where(u)' = "alloc_test" =>
                           k'.error[u] = "EOK" /\ u # Idle /\ using = "mp"
      /\ LocalsTyped' /\ using' = using
      /\ k'.stat[k'.current] = "READY" \/ pc'[k'.current] = "sched"
  BY DEF Relaxes
<1>3. \A u \in Thread \ X :
        /\ Where(u)' = Where(u) /\ timeout'[u] = timeout[u]
        /\ start'[u] = start[u] /\ deadline'[u] = deadline[u]
  BY DEF Relaxes, OthersStay
<1>4. KernelSound' /\ LocalsTyped' /\ using' \in Kinds
  BY <1>1, <1>2 DEF KInv, KernelSound
<1>5. SuspendedInWait'
  <2> SUFFICES ASSUME NEW u \in Thread
               PROVE  /\ k'.stat[u] \in {"READY", "SUSPEND"}
                      /\ k'.stat[u] = "SUSPEND" => Where(u)' \in Waits
    BY DEF SuspendedInWait
  <2>1. k.stat[u] \in {"READY", "SUSPEND"} /\ (k.stat[u] = "SUSPEND" => Where(u) \in Waits)
    BY DEF KInv, SuspendedInWait
  <2>2. CASE u \in U
    BY <1>1, <2>2
  <2>3. CASE u \notin U
    <3>1. k'.stat[u] = k.stat[u]
      BY <1>1, <2>3
    <3>2. CASE u \in X
      BY <1>2, <3>1, <3>2
    <3>3. CASE u \notin X
      BY <1>3, <2>1, <3>1, <3>3
    <3>4. QED BY <3>2, <3>3
  <2>4. QED BY <2>2, <2>3
<1>6. CurrentIsReady'
  BY <1>2 DEF CurrentIsReady
<1>7. ASSUME NEW o \in Object, NEW u \in ToSet(k'.waitq[o])
      PROVE  u \in ToSet(k.waitq[o]) /\ u \in Thread \ X /\ u \notin U
  <2>1. u \in ToSet(k.waitq[o]) /\ u \notin U
    BY <1>1
  <2>2. u \in Thread /\ k.stat[u] = "SUSPEND"
    BY <2>1, QueuedIsSuspended
  <2>3. QED BY <1>2, <2>1, <2>2
<1>8. QueuedInWait'
  <2> SUFFICES ASSUME NEW o \in Object, NEW u \in ToSet(k'.waitq[o])
               PROVE  WaitPoint(o, Where(u))' /\ k'.error[u] = "EOK"
    BY DEF QueuedInWait
  <2>1. u \in ToSet(k.waitq[o]) /\ u \in Thread \ X /\ u \notin U
    BY <1>7
  <2>2. WaitPoint(o, Where(u)) /\ k.error[u] = "EOK"
    BY <2>1 DEF KInv, QueuedInWait
  <2>3. k'.error[u] = k.error[u] /\ Where(u)' = Where(u)
    BY <1>1, <1>3, <2>1
  <2>4. QED BY <1>2, <2>2, <2>3 DEF WaitPoint
<1>9. TestsWithoutError'
  <2> SUFFICES ASSUME NEW u \in Thread, Where(u)' = "alloc_test"
               PROVE  k'.error[u] = "EOK"
    BY DEF TestsWithoutError
  <2>1. CASE u \in X
    BY <1>2, <2>1
  <2>2. CASE u \notin X
    <3>1. Where(u) = "alloc_test"
      BY <1>3, <2>2
    <3>2. k.error[u] = "EOK" /\ k.stat[u] # "SUSPEND"
      BY <3>1 DEF KInv, TestsWithoutError, SuspendedInWait, Waits
    <3>3. QED BY <1>1, <2>2, <3>2
  <2>3. QED BY <2>1, <2>2
<1>10. DeadlineIsEnd'
  <2> SUFFICES ASSUME NEW u \in Thread, Where(u)' \in {"send", "recv", "event"}, timeout'[u] > 0
               PROVE  deadline'[u] = (start'[u] + timeout'[u]) % TickMod
    BY DEF DeadlineIsEnd
  <2>1. u \notin X
    BY <1>2 DEF Waits
  <2>2. QED BY <1>3, <2>1 DEF KInv, DeadlineIsEnd
<1>11. DeadlineKept'
  <2> SUFFICES ASSUME NEW o \in {suspend_thread, suspend_sender_thread},
                      NEW u \in ToSet(k'.waitq[o]), timeout'[u] > 0
               PROVE  k'.timeout[u] = deadline'[u]
    BY DEF DeadlineKept
  <2>0. o \in Object
    BY IpcAssumption
  <2>1. u \in ToSet(k.waitq[o]) /\ u \in Thread \ X /\ u \notin U
    BY <1>7, <2>0
  <2>2. timeout'[u] = timeout[u] /\ deadline'[u] = deadline[u] /\ k'.timeout[u] = k.timeout[u]
    BY <1>1, <1>3, <2>1
  <2>3. QED BY <2>1, <2>2 DEF KInv, DeadlineKept
<1>12. IdleWaitsNot'
  <2>1. Idle \in Thread /\ IdleWaitsNot
    BY KernelAssumption DEF KInv
  <2>2. QED BY <1>2, <1>3, <2>1 DEF IdleWaitsNot
<1>13. WaitsForIt'
  <2>1. WaitsForIt
    BY DEF KInv
  <2> SUFFICES ASSUME NEW u \in Thread
               PROVE  /\ Where(u)' \in Waits => \E o \in Object : WaitPoint(o, Where(u))'
                      /\ Where(u)' = "alloc_test" => using' = "mp"
    BY DEF WaitsForIt
  <2>2. CASE u \in X
    BY <1>2, <2>2
  <2>3. CASE u \notin X
    <3>1. Where(u)' = Where(u)
      BY <1>3, <2>3
    <3>2. \A o \in Object : WaitPoint(o, Where(u)) => WaitPoint(o, Where(u))'
      BY <1>2, <3>1 DEF WaitPoint
    <3>3. QED BY <1>2, <2>1, <3>1, <3>2 DEF WaitsForIt
  <2>4. QED BY <2>2, <2>3
<1>14. QED BY <1>4, <1>5, <1>6, <1>8, <1>9, <1>10, <1>11, <1>12, <1>13 DEF KInv

LEMMA JoinsKeeps ==
  ASSUME KInv, NEW t \in Thread, NEW o \in Object, NEW c \in Waits, Joins(t, o, c)
  PROVE  KInv'
<1>1. /\ KernelOK(k') /\ k'.lock = k.lock /\ k'.current = k.current
      /\ k'.stat = [k.stat EXCEPT ![t] = "SUSPEND"]
      /\ \A x \in Object : ToSet(k'.waitq[x]) =
           IF x = o THEN ToSet(k.waitq[x]) \cup {t} ELSE ToSet(k.waitq[x])
      /\ k'.error = [k.error EXCEPT ![t] = "EOK"]
      /\ \A u \in Thread \ {t} : k'.timeout[u] = k.timeout[u]
  BY DEF Joins, Enters
<1>2. /\ LocalsTyped' /\ using' = using /\ k.current = t /\ k.stat[t] = "READY"
      /\ pc'[t] = "sched" /\ cont'[t] = c /\ WaitPoint(o, c) /\ t # Idle
      /\ o # pool_waiters /\ timeout'[t] > 0 =>
           /\ deadline'[t] = (start'[t] + timeout'[t]) % TickMod
           /\ k'.timeout[t] = deadline'[t]
  BY DEF Joins
<1>3. \A u \in Thread \ {t} :
        /\ Where(u)' = Where(u) /\ timeout'[u] = timeout[u]
        /\ start'[u] = start[u] /\ deadline'[u] = deadline[u]
  BY DEF Joins, OthersStay
<1>4. Where(t)' = c
  BY <1>2 DEF Where
<1>5. k.stat \in [Thread -> Stat] /\ k.error \in [Thread -> Error]
  BY Fields DEF KInv, KernelSound, KernelOK
<1>6. /\ k'.stat[t] = "SUSPEND" /\ k'.error[t] = "EOK"
      /\ \A u \in Thread \ {t} : k'.stat[u] = k.stat[u] /\ k'.error[u] = k.error[u]
  BY <1>1, <1>5
<1>7. KernelSound' /\ LocalsTyped' /\ using' \in Kinds
  BY <1>1, <1>2 DEF KInv, KernelSound
<1>8. SuspendedInWait'
  BY <1>3, <1>4, <1>6 DEF KInv, SuspendedInWait
<1>9. CurrentIsReady'
  BY <1>1, <1>2 DEF CurrentIsReady
<1>10. ASSUME NEW x \in Object, NEW u \in ToSet(k'.waitq[x]), u # t
       PROVE  u \in ToSet(k.waitq[x]) /\ u \in Thread \ {t}
  <2>1. u \in ToSet(k.waitq[x])
    BY <1>1, <1>10
  <2>2. QED BY <1>10, <2>1, QueuedIsSuspended
<1>11. ASSUME NEW x \in Object, t \in ToSet(k'.waitq[x])
       PROVE  x = o
  <2>1. x # o => t \in ToSet(k.waitq[x])
    BY <1>1, <1>11
  <2>2. QED BY <1>2, <2>1, QueuedIsSuspended
<1>12. QueuedInWait'
  <2> SUFFICES ASSUME NEW x \in Object, NEW u \in ToSet(k'.waitq[x])
               PROVE  WaitPoint(x, Where(u))' /\ k'.error[u] = "EOK"
    BY DEF QueuedInWait
  <2>1. CASE u = t
    <3>1. x = o
      BY <1>11, <2>1
    <3>2. QED BY <1>2, <1>4, <1>6, <2>1, <3>1 DEF WaitPoint
  <2>2. CASE u # t
    <3>1. u \in ToSet(k.waitq[x]) /\ u \in Thread \ {t}
      BY <1>10, <2>2
    <3>2. WaitPoint(x, Where(u)) /\ k.error[u] = "EOK"
      BY <3>1 DEF KInv, QueuedInWait
    <3>3. QED BY <1>2, <1>3, <1>6, <3>1, <3>2 DEF WaitPoint
  <2>3. QED BY <2>1, <2>2
<1>13. TestsWithoutError'
  BY <1>3, <1>6 DEF KInv, TestsWithoutError
<1>14. DeadlineIsEnd'
  <2> SUFFICES ASSUME NEW u \in Thread, Where(u)' \in {"send", "recv", "event"}, timeout'[u] > 0
               PROVE  deadline'[u] = (start'[u] + timeout'[u]) % TickMod
    BY DEF DeadlineIsEnd
  <2>1. CASE u = t
    <3>1. o # pool_waiters
      BY <1>2, <1>4, <2>1, MemPoolAssumption DEF WaitPoint
    <3>2. QED BY <1>2, <2>1, <3>1
  <2>2. CASE u # t
    BY <1>3, <2>2 DEF KInv, DeadlineIsEnd
  <2>3. QED BY <2>1, <2>2
<1>15. DeadlineKept'
  <2> SUFFICES ASSUME NEW x \in {suspend_thread, suspend_sender_thread},
                      NEW u \in ToSet(k'.waitq[x]), timeout'[u] > 0
               PROVE  k'.timeout[u] = deadline'[u]
    BY DEF DeadlineKept
  <2>0. x \in Object /\ x # pool_waiters
    BY IpcAssumption, MemPoolAssumption
  <2>1. CASE u = t
    <3>1. x = o
      BY <1>11, <2>0, <2>1
    <3>2. QED BY <1>2, <2>0, <2>1, <3>1
  <2>2. CASE u # t
    <3>1. u \in ToSet(k.waitq[x]) /\ u \in Thread \ {t}
      BY <1>10, <2>0, <2>2
    <3>2. timeout'[u] = timeout[u] /\ deadline'[u] = deadline[u] /\ k'.timeout[u] = k.timeout[u]
      BY <1>1, <1>3, <3>1
    <3>3. QED BY <3>1, <3>2 DEF KInv, DeadlineKept
  <2>3. QED BY <2>1, <2>2
<1>16. IdleWaitsNot'
  <2>1. Idle \in Thread /\ IdleWaitsNot
    BY KernelAssumption DEF KInv
  <2>2. QED BY <1>2, <1>3, <2>1 DEF IdleWaitsNot
<1>17. WaitsForIt'
  <2>1. WaitsForIt
    BY DEF KInv
  <2> SUFFICES ASSUME NEW u \in Thread
               PROVE  /\ Where(u)' \in Waits => \E x \in Object : WaitPoint(x, Where(u))'
                      /\ Where(u)' = "alloc_test" => using' = "mp"
    BY DEF WaitsForIt
  <2>2. CASE u = t
    <3>1. WaitPoint(o, Where(u))'
      BY <1>2, <1>4, <2>2 DEF WaitPoint
    <3>2. Where(u)' # "alloc_test"
      BY <1>4, <2>2 DEF Waits
    <3>3. QED BY <3>1, <3>2
  <2>3. CASE u # t
    <3>1. Where(u)' = Where(u)
      BY <1>3, <2>3
    <3>2. \A x \in Object : WaitPoint(x, Where(u)) => WaitPoint(x, Where(u))'
      BY <1>2, <3>1 DEF WaitPoint
    <3>3. QED BY <1>2, <2>1, <3>1, <3>2 DEF WaitsForIt
  <2>4. QED BY <2>2, <2>3
<1>18. QED BY <1>7, <1>8, <1>9, <1>12, <1>13, <1>14, <1>15, <1>16, <1>17 DEF KInv
-----------------------------------------------------------------------------
(***************************************************************************)
(* What the parts of the actions do to the threads and to the kernel.      *)
(***************************************************************************)
\* All threads but X are where they were in the code.
Moves(X) ==
  /\ pc' \in [Thread -> AllPoints] /\ cont' \in [Thread -> Continuation]
  /\ \A u \in Thread \ X : Where(u)' = Where(u)

\* All threads but X keep their locals.
Forgets(X) ==
  /\ timeout' \in [Thread -> (0 .. HalfTick) \cup {Forever}]
  /\ start' \in [Thread -> Tick] /\ deadline' \in [Thread -> Tick]
  /\ detached' \in BOOLEAN
  /\ \A u \in Thread \ X :
       timeout'[u] = timeout[u] /\ start'[u] = start[u] /\ deadline'[u] = deadline[u]

Flags == primask' \in BOOLEAN /\ systick' \in BOOLEAN /\ device' \in BOOLEAN

LEMMA LocalsMove ==
  ASSUME NEW X, Moves(X), Forgets(X), Flags
  PROVE  LocalsTyped' /\ OthersStay(X)
BY DEF LocalsTyped, OthersStay, Moves, Forgets, Flags

LEMMA TickZero == 0 \in Tick /\ 0 \in (0 .. HalfTick) \cup {Forever}
<1>1. HalfTick >= 0 /\ HalfTick \in Int
  BY KernelAssumption DEF HalfTick
<1>2. QED BY <1>1, KernelAssumption DEF Tick

LEMMA ForgetForgets ==
  ASSUME LocalsTyped, NEW t \in Thread, Forget(t)
  PROVE  Forgets({t})
<1>1. /\ timeout \in [Thread -> (0 .. HalfTick) \cup {Forever}]
      /\ start \in [Thread -> Tick] /\ deadline \in [Thread -> Tick]
      /\ detached \in BOOLEAN
  BY DEF LocalsTyped
<1>2. /\ timeout'  = [timeout EXCEPT ![t] = 0] /\ start' = [start EXCEPT ![t] = 0]
      /\ deadline' = [deadline EXCEPT ![t] = 0] /\ detached' = detached
  BY DEF Forget
<1>3. /\ timeout' \in [Thread -> (0 .. HalfTick) \cup {Forever}]
      /\ start' \in [Thread -> Tick] /\ deadline' \in [Thread -> Tick]
  BY <1>1, <1>2, TickZero
<1>4. QED BY <1>1, <1>2, <1>3 DEF Forgets

LEMMA WaitingForgets ==
  ASSUME LocalsTyped, UNCHANGED waiting, NEW X
  PROVE  Forgets(X)
BY DEF LocalsTyped, waiting, Forgets

\* Only detached changes.
LEMMA DetachingForgets ==
  ASSUME LocalsTyped, UNCHANGED <<timeout, start, deadline>>, detached' \in BOOLEAN, NEW X
  PROVE  Forgets(X)
BY DEF LocalsTyped, Forgets

LEMMA GotoMoves ==
  ASSUME LocalsTyped, NEW t \in Thread, NEW c \in AllPoints \ {"sched"}, Goto(t, c)
  PROVE  Moves({t}) /\ Where(t)' = c /\ pc'[t] = c
<1>1. pc \in [Thread -> AllPoints] /\ cont \in [Thread -> Continuation]
  BY DEF LocalsTyped
<1>2. pc' = [pc EXCEPT ![t] = c] /\ cont' = cont
  BY DEF Goto
<1>3. QED BY <1>1, <1>2 DEF Moves, Where

LEMMA ScheduleMoves ==
  ASSUME LocalsTyped, NEW t \in Thread, NEW c \in Continuation, ThenSchedule(t, c)
  PROVE  Moves({t}) /\ Where(t)' = c /\ pc'[t] = "sched" /\ cont'[t] = c
<1>1. pc \in [Thread -> AllPoints] /\ cont \in [Thread -> Continuation]
  BY DEF LocalsTyped
<1>2. pc' = [pc EXCEPT ![t] = "sched"] /\ cont' = [cont EXCEPT ![t] = c]
  BY DEF ThenSchedule
<1>3. "sched" \in AllPoints
  BY DEF AllPoints, Point
<1>4. QED BY <1>1, <1>2, <1>3 DEF Moves, Where

LEMMA PointsStay ==
  ASSUME LocalsTyped, pc' = pc, cont' = cont, NEW X
  PROVE  Moves(X) /\ \A u : Where(u)' = Where(u)
BY DEF LocalsTyped, Moves, Where

\* What the invariant says of the running thread.
LEMMA RunnerIsReady ==
  ASSUME KInv, NEW t \in Thread, Running(t), pc[t] # "sched"
  PROVE  /\ k.current = t /\ k.stat[t] = "READY" /\ Where(t) = pc[t] /\ KernelOK(k)
         /\ LocalsTyped /\ InThread
BY DEF KInv, KernelSound, Running, SuspendedInWait, CurrentIsReady, Where

-----------------------------------------------------------------------------
\* A thread goes on, at c, and nobody is woken.
LEMMA ThreadRests ==
  ASSUME KInv, NEW t \in Thread, Running(t), pc[t] # "sched",
         NEW c \in AllPoints \ (Waits \cup {"sched"}), Goto(t, c),
         Forgets({t}), Flags, using' = using,
         k' = k \/ \E e \in Error : k' = [k EXCEPT !.error[t] = e],
         c = "alloc_test" =>
           k' = k /\ k.error[t] = "EOK" /\ t # Idle /\ using = "mp"
  PROVE  Relaxes({t}, {}, {}) /\ Where(t)' = c
<1>1. k.current = t /\ k.stat[t] = "READY" /\ KernelOK(k) /\ LocalsTyped
  BY RunnerIsReady
<1>2. Moves({t}) /\ Where(t)' = c
  BY <1>1, GotoMoves
<1>3. LocalsTyped' /\ OthersStay({t})
  BY <1>2, LocalsMove
<1>4. Frees(k, {t}, {}, {}, k')
  <2>1. PICK X : X = {t}
    OBVIOUS
  <2>2. /\ Frees(k, X, {}, {}, k)
        /\ \A e \in Error : Frees(k, X, {}, {}, [k EXCEPT !.error[t] = e])
    BY <1>1, <2>1, KernelRests
  <2>3. ASSUME NEW e \in Error, k' = [k EXCEPT !.error[t] = e]
        PROVE  Frees(k, X, {}, {}, k')
    BY <2>2, <2>3
  <2>4. QED BY <2>1, <2>2, <2>3
<1>5. k'.current = t /\ k'.stat = k.stat
  <2>1. ASSUME NEW e \in Error, k' = [k EXCEPT !.error[t] = e]
        PROVE  k'.current = t /\ k'.stat = k.stat
    BY <1>1, <2>1 DEF KernelOK, KernelState
  <2>2. QED BY <1>1, <2>1
<1>6. QED BY <1>1, <1>2, <1>3, <1>4, <1>5 DEF Relaxes

\* A thread wakes others and is about to call rt_schedule.
LEMMA ThreadWakes ==
  ASSUME KInv, NEW t \in Thread, Running(t), pc[t] # "sched", ThenSchedule(t, "run"),
         Forgets({t}), Flags, using' = using,
         NEW U, NEW W, Frees(k, {}, U, W, k'), k'.current = k.current
  PROVE  Relaxes({t}, U, W) /\ Where(t)' = "run" /\ pc'[k'.current] = "sched"
<1>1. k.current = t /\ k.stat[t] = "READY" /\ KernelOK(k) /\ LocalsTyped
  BY RunnerIsReady
<1>2. "run" \in Continuation /\ "run" \notin Waits
  BY DEF Continuation, Waits
<1>3. Moves({t}) /\ Where(t)' = "run" /\ pc'[t] = "sched"
  BY <1>1, <1>2, ScheduleMoves
<1>4. LocalsTyped' /\ OthersStay({t})
  BY <1>3, LocalsMove
<1>5. Frees(k, {t}, U, W, k')
  BY DEF Frees
<1>6. QED BY <1>1, <1>2, <1>3, <1>4, <1>5 DEF Relaxes

\* A step in which no thread moves.
LEMMA NobodyMoves ==
  ASSUME KInv, pc' = pc, cont' = cont, UNCHANGED waiting, Flags, using' = using,
         NEW U, NEW W, Frees(k, {}, U, W, k'),
         k'.current = k.current \/ k'.stat[k'.current] = "READY"
  PROVE  Relaxes({}, U, W)
<1>1. LocalsTyped
  BY DEF KInv
<1>2. Moves({}) /\ Forgets({})
  BY <1>1, PointsStay, WaitingForgets
<1>3. LocalsTyped' /\ OthersStay({})
  BY <1>2, LocalsMove
<1>4. k'.stat[k'.current] = "READY" \/ pc'[k'.current] = "sched"
  <2>1. k.current \in Thread
    BY Fields DEF KInv, KernelSound, KernelOK
  <2>2. CASE k'.current = k.current
    <3>1. k'.stat[k.current] = "READY" \/ k'.stat[k.current] = k.stat[k.current]
      BY <2>1 DEF Frees
    <3>2. k.stat[k.current] = "READY" \/ pc[k.current] = "sched"
      BY <2>1 DEF KInv, SuspendedInWait, CurrentIsReady
    <3>3. QED BY <2>2, <3>1, <3>2
  <2>3. QED BY <2>2
<1>5. QED BY <1>3, <1>4 DEF Relaxes

LEMMA FirstIsQueued ==
  ASSUME KInv, NEW o \in Object, k.waitq[o] # << >>
  PROVE  Head(k.waitq[o]) \in ToSet(k.waitq[o])
<1>1. k \in KernelState /\ WaitListsHoldSuspended(k)
  BY DEF KInv, KernelSound, KernelOK, Consistent
<1>2. k.waitq[o] \in Seq(Thread) /\ IsInjective(k.waitq[o])
  BY <1>1, Fields DEF WaitListsHoldSuspended
<1>3. QED BY <1>2, HeadOfList

\* Wake(o): the first of those that wait on o, if there is one.
FirstOn(o) == IF k.waitq[o] # << >> THEN {Head(k.waitq[o])} ELSE {}

LEMMA WakeFrees ==
  ASSUME KInv, NEW o \in Object, Wake(o)
  PROVE  /\ Frees(k, {}, FirstOn(o), FirstOn(o), k') /\ k'.current = k.current
         /\ FirstOn(o) \subseteq ToSet(k.waitq[o])
<1>1. KernelOK(k)
  BY DEF KInv, KernelSound
<1>2. CASE k.waitq[o] = << >>
  <2>1. k' = k /\ FirstOn(o) = {}
    BY <1>2 DEF Wake, FirstOn
  <2>2. Frees(k, {}, {}, {}, k)
    BY <1>1, KernelRests
  <2>3. QED BY <2>1, <2>2
<1>3. CASE k.waitq[o] # << >>
  <2>0. PICK h : h = Head(k.waitq[o])
    OBVIOUS
  <2>1. h \in ToSet(k.waitq[o])
    BY <1>3, <2>0, FirstIsQueued
  <2>2. h \in Thread /\ k.stat[h] = "SUSPEND" /\ k.error[h] = "EOK"
    BY <2>1, QueuedIsSuspended DEF KInv, QueuedInWait
  <2>3. FirstOn(o) = {h} /\ k' = rt_thread_resume(k, h)
    BY <1>3, <2>0 DEF Wake, rt_ipc_list_resume, FirstOn
  <2>4. /\ Frees(k, {}, {h}, IF k.error[h] = "EOK" THEN {h} ELSE {}, rt_thread_resume(k, h))
        /\ rt_thread_resume(k, h).current = k.current
    BY <1>1, <2>2, ResumeFrees
  <2>5. QED BY <2>1, <2>2, <2>3, <2>4
<1>4. QED BY <1>2, <1>3

\* The same of the first thread that is told error e.
LEMMA ResumeFirstFrees ==
  ASSUME KInv, NEW o \in Object, k.waitq[o] # << >>, NEW e \in Error,
         k' = rt_thread_resume([k EXCEPT !.error[Head(k.waitq[o])] = e], Head(k.waitq[o]))
  PROVE  /\ Frees(k, {}, FirstOn(o), IF e = "EOK" THEN FirstOn(o) ELSE {}, k')
         /\ k'.current = k.current /\ FirstOn(o) \subseteq ToSet(k.waitq[o])
<1>1. KernelOK(k)
  BY DEF KInv, KernelSound
<1>2. PICK h : h = Head(k.waitq[o])
  OBVIOUS
<1>3. h \in ToSet(k.waitq[o])
  BY <1>2, FirstIsQueued
<1>4. h \in Thread /\ k.stat[h] = "SUSPEND"
  BY <1>3, QueuedIsSuspended
<1>5. FirstOn(o) = {h} /\ k' = rt_thread_resume([k EXCEPT !.error[h] = e], h)
  BY <1>2 DEF FirstOn
<1>6. /\ Frees(k, {}, {h}, IF e = "EOK" THEN {h} ELSE {},
               rt_thread_resume([k EXCEPT !.error[h] = e], h))
      /\ rt_thread_resume([k EXCEPT !.error[h] = e], h).current = k.current
  BY <1>1, <1>4, ResumeWithFrees
<1>7. QED BY <1>3, <1>5, <1>6
-----------------------------------------------------------------------------
\* A wait for what is left of a time ends when the wait for all of it did.
LEMMA EndStays ==
  ASSUME NEW now \in Tick, NEW b \in Tick, NEW n \in Nat, n <= HalfTick,
         n - TickDiff(now, b) > 0
  PROVE  (now + (n - TickDiff(now, b))) % TickMod = (b + n) % TickMod
<1>0. TickMod \in Nat /\ HalfTick \in Int /\ HalfTick < TickMod /\ now \in Nat /\ b \in Nat
      /\ b < TickMod /\ now < TickMod
  BY HalfTickIs, KernelAssumption DEF Tick
<1>1. PICK d \in Int : d = TickDiff(now, b) /\ d >= 0
                       /\ d = IF b <= now THEN now - b ELSE now - b + TickMod
  <2>1. TickDiff(now, b) \in Tick
    BY TickDiffIs
  <2>2. TickDiff(now, b) \in Int /\ TickDiff(now, b) >= 0
    BY <1>0, <2>1 DEF Tick
  <2>3. QED BY <2>2, TickDiffIs
<1>2. n - d \in Nat /\ n - d <= TickMod /\ n <= TickMod
  BY <1>0, <1>1
<1>3. (now + (n - d)) % TickMod =
        IF now + (n - d) < TickMod THEN now + (n - d) ELSE now + (n - d) - TickMod
  BY <1>2, TickPlusIs
<1>4. (b + n) % TickMod = IF b + n < TickMod THEN b + n ELSE b + n - TickMod
  BY <1>2, TickPlusIs
<1>5. IF b <= now THEN now + (n - d) = b + n ELSE now + (n - d) = b + n - TickMod
  BY <1>0, <1>1
<1>6. (now + (n - d)) % TickMod = (b + n) % TickMod
  BY ONLY <1>0, <1>1, <1>2, <1>3, <1>4, <1>5, n \in Nat
<1>7. QED BY <1>1, <1>6

\* Left is a time to wait: Forever, or no more than the thread waited for.
LEMMA LeftIs ==
  ASSUME KInv, NEW t \in Thread
  PROVE  /\ Left(t) \in (0 .. HalfTick) \cup {Forever}
         /\ Left(t) > 0 => /\ timeout[t] \in Nat /\ timeout[t] > 0 /\ timeout[t] <= HalfTick
                           /\ Left(t) = timeout[t] - TickDiff(k.tick, start[t])
<1>1. /\ timeout[t] \in (0 .. HalfTick) \cup {Forever} /\ Forever = -1 /\ HalfTick \in Int
      /\ k.tick \in Tick /\ start[t] \in Tick
  BY Fields, IpcAssumption, HalfTickIs DEF KInv, LocalsTyped, KernelSound, KernelOK
<1>2. CASE timeout[t] > 0
  <2>1. PICK d \in Int : d = TickDiff(k.tick, start[t]) /\ d >= 0
    <3>1. TickDiff(k.tick, start[t]) \in Tick
      BY <1>1, TickDiffIs
    <3>2. QED BY <3>1, KernelAssumption DEF Tick
  <2>2. timeout[t] \in Nat /\ timeout[t] <= HalfTick
    BY <1>1, <1>2
  <2>3. PICK m : m = Max({timeout[t] - d, 0})
    OBVIOUS
  <2>4. m \in {timeout[t] - d, 0} /\ m >= 0 /\ m >= timeout[t] - d
    <3> DEFINE S == {timeout[t] - d, 0}
    <3>1. m = CHOOSE x \in S : \A y \in S : x >= y
      BY <2>3 DEF Max
    <3>2. \E x \in S : \A y \in S : x >= y
      BY <2>1, <2>2
    <3> HIDE DEF S
    <3>3. m \in S /\ \A y \in S : m >= y
      BY <3>1, <3>2
    <3>4. QED BY <3>3 DEF S
  <2>5. Left(t) = m
    BY <1>2, <2>1, <2>3 DEF Left
  <2>6. QED BY <1>1, <2>1, <2>2, <2>4, <2>5
<1>3. CASE ~ (timeout[t] > 0)
  BY <1>1, <1>3 DEF Left
<1>4. QED BY <1>2, <1>3

LEMMA TimesToWait ==
  ASSUME NEW t \in Thread, NEW time \in WaitTimes[t]
  PROVE  time \in (0 .. HalfTick) \cup {Forever}
BY IpcAssumption, HalfTickIs

\* A thread begins to wait, up to rt_schedule.
LEMMA AwaitJoins ==
  ASSUME KInv, NEW t \in Thread, Running(t), pc[t] # "sched", t # Idle,
         NEW o \in Object, NEW c \in Waits, WaitPoint(o, c), using' = using,
         NEW n, Enters(k, t, o, n), n.tick = k.tick, t \notin n.active,
         NEW time \in (0 .. HalfTick) \cup {Forever}, Await(t, n, c, time),
         deadline' \in [Thread -> Tick], \A u \in Thread \ {t} : deadline'[u] = deadline[u],
         o # pool_waiters /\ time > 0 => deadline'[t] = (k.tick + time) % TickMod
  PROVE  Joins(t, o, c)
<1>1. k.current = t /\ k.stat[t] = "READY" /\ KernelOK(k) /\ LocalsTyped
  BY RunnerIsReady
<1>2. /\ k' = Timed(n, t, time) /\ ThenSchedule(t, c)
      /\ timeout' = [timeout EXCEPT ![t] = time]
      /\ start'   = [start EXCEPT ![t] = IF time > 0 THEN k.tick ELSE 0]
      /\ primask' = primask /\ systick' = systick /\ device' = device
      /\ detached' = detached
  BY DEF Await
<1>3. c \in Continuation /\ time \in Int /\ Forever = -1
  BY IpcAssumption, HalfTickIs DEF Waits, Continuation
<1>4. Moves({t}) /\ pc'[t] = "sched" /\ cont'[t] = c
  BY <1>1, <1>2, <1>3, ScheduleMoves
<1>5. /\ timeout \in [Thread -> (0 .. HalfTick) \cup {Forever}]
      /\ start \in [Thread -> Tick] /\ detached \in BOOLEAN /\ k.tick \in Tick
      /\ primask \in BOOLEAN /\ systick \in BOOLEAN /\ device \in BOOLEAN
  BY <1>1, Fields DEF LocalsTyped, KernelOK
<1>6. (IF time > 0 THEN k.tick ELSE 0) \in Tick
  BY <1>5, TickZero
<1>7. /\ timeout' \in [Thread -> (0 .. HalfTick) \cup {Forever}] /\ start' \in [Thread -> Tick]
      /\ timeout'[t] = time /\ (time > 0 => start'[t] = k.tick)
      /\ \A u \in Thread \ {t} : timeout'[u] = timeout[u] /\ start'[u] = start[u]
  BY <1>2, <1>5, <1>6
<1>8. Forgets({t}) /\ Flags
  BY <1>2, <1>5, <1>7 DEF Forgets, Flags
<1>9. LocalsTyped' /\ OthersStay({t})
  BY <1>4, <1>8, LocalsMove
<1>10. /\ Enters(k, t, o, k')
       /\ time > 0 => k'.timeout[t] = (k.tick + time) % TickMod
  BY <1>1, <1>2, <1>3, TimedEnters
<1>11. o # pool_waiters /\ timeout'[t] > 0 =>
         /\ deadline'[t] = (start'[t] + timeout'[t]) % TickMod
         /\ k'.timeout[t] = deadline'[t]
  BY <1>7, <1>10
<1>12. QED BY <1>1, <1>4, <1>9, <1>10, <1>11 DEF Joins

\* The first wait of a call.
LEMMA FirstWaitJoins ==
  ASSUME KInv, NEW t \in Thread, Running(t), pc[t] # "sched", t # Idle,
         NEW o \in Object, NEW c \in Waits, WaitPoint(o, c), using' = using,
         NEW time \in WaitTimes[t], Await(t, Queued(t, o), c, time), Begins(t, time)
  PROVE  Joins(t, o, c)
<1>1. k.current = t /\ k.stat[t] = "READY" /\ KernelOK(k) /\ LocalsTyped
  BY RunnerIsReady
<1>2. PICK n : n = Queued(t, o)
  OBVIOUS
<1>3. Enters(k, t, o, n) /\ n.tick = k.tick /\ t \notin n.active
  BY <1>1, <1>2, QueuedEnters DEF Queued
<1>4. time \in (0 .. HalfTick) \cup {Forever}
  BY TimesToWait
<1>5. deadline \in [Thread -> Tick] /\ k.tick \in Tick
  BY <1>1, Fields DEF LocalsTyped, KernelOK
<1>6. (IF time > 0 THEN (k.tick + time) % TickMod ELSE 0) \in Tick
  <2>1. CASE time > 0
    <3>1. time \in Nat /\ time <= TickMod
      <4>1. HalfTick \in Int /\ HalfTick < TickMod /\ TickMod \in Nat
        BY HalfTickIs, KernelAssumption
      <4>2. time \in 0 .. HalfTick
        BY <1>4, <2>1, IpcAssumption
      <4>3. QED BY <4>1, <4>2
    <3>2. (k.tick + time) % TickMod \in Tick
      BY <1>5, <3>1, TickPlusIs
    <3>3. QED BY <2>1, <3>2
  <2>2. CASE ~ (time > 0)
    BY <2>2, TickZero
  <2>3. QED BY <2>1, <2>2
<1>7. /\ deadline' \in [Thread -> Tick] /\ \A u \in Thread \ {t} : deadline'[u] = deadline[u]
      /\ time > 0 => deadline'[t] = (k.tick + time) % TickMod
  BY <1>5, <1>6 DEF Begins
<1>8. Await(t, n, c, time)
  BY <1>2
<1>9. QED BY <1>3, <1>4, <1>7, <1>8, AwaitJoins

\* A wait for what is left of the time.
LEMMA NextWaitJoins ==
  ASSUME KInv, NEW t \in Thread, NEW c \in {"send", "recv"}, Resumes(t, c),
         NEW o \in Object, WaitPoint(o, c), using' = using,
         Await(t, Queued(t, o), c, Left(t)), deadline' = deadline
  PROVE  Joins(t, o, c)
<1>0. Running(t) /\ pc[t] = c /\ pc[t] # "sched" /\ c \in Waits
  BY DEF Resumes, Waits
<1>1. k.current = t /\ k.stat[t] = "READY" /\ KernelOK(k) /\ LocalsTyped /\ Where(t) = c
  BY <1>0, RunnerIsReady
<1>2. PICK n : n = Queued(t, o)
  OBVIOUS
<1>10. t # Idle
  BY <1>0, <1>1 DEF KInv, IdleWaitsNot
<1>3. Enters(k, t, o, n) /\ n.tick = k.tick /\ t \notin n.active
  BY <1>1, <1>2, <1>10, QueuedEnters DEF Queued
<1>4. PICK time : time = Left(t)
  OBVIOUS
<1>5. time \in (0 .. HalfTick) \cup {Forever}
  BY <1>4, LeftIs
<1>6. deadline \in [Thread -> Tick] /\ k.tick \in Tick /\ start[t] \in Tick
  BY <1>1, Fields DEF LocalsTyped, KernelOK
<1>7. ASSUME time > 0 PROVE deadline'[t] = (k.tick + time) % TickMod
  <2>1. /\ timeout[t] \in Nat /\ timeout[t] > 0 /\ timeout[t] <= HalfTick
        /\ time = timeout[t] - TickDiff(k.tick, start[t])
    BY <1>4, <1>7, LeftIs
  <2>2. deadline[t] = (start[t] + timeout[t]) % TickMod
    BY <1>1, <2>1 DEF KInv, DeadlineIsEnd
  <2>3. timeout[t] - TickDiff(k.tick, start[t]) > 0
    BY <1>7, <2>1
  <2>4. (k.tick + (timeout[t] - TickDiff(k.tick, start[t]))) % TickMod
          = (start[t] + timeout[t]) % TickMod
    BY <1>6, <2>1, <2>3, EndStays
  <2>5. QED BY <2>1, <2>2, <2>4
<1>8. Await(t, n, c, time)
  BY <1>2, <1>4
<1>9. QED BY <1>0, <1>3, <1>5, <1>6, <1>7, <1>8, <1>10, AwaitJoins
-----------------------------------------------------------------------------
(***************************************************************************)
(* The steps that the objects share.                                       *)
(***************************************************************************)
LEMMA ScheduleRelaxes ==
  ASSUME KInv, NEW t \in Thread, Schedule(t), UNCHANGED waiting, using' = using
  PROVE  Relaxes({}, {}, {})
<1>1. KernelOK(k) /\ k.lock = 0 /\ LocalsTyped
  BY DEF KInv, KernelSound
<1>2. /\ pc[t] = "sched" /\ k' = rt_schedule(k) /\ pc' = [pc EXCEPT ![t] = cont[t]]
      /\ cont' = [cont EXCEPT ![t] = "run"] /\ UNCHANGED <<primask, systick, device>>
  BY DEF Schedule
<1>3. /\ pc \in [Thread -> AllPoints] /\ cont \in [Thread -> Continuation]
      /\ primask \in BOOLEAN /\ systick \in BOOLEAN /\ device \in BOOLEAN
  BY <1>1 DEF LocalsTyped
<1>4. /\ cont[t] \in AllPoints /\ "run" \in Continuation /\ cont[t] # "sched"
  BY <1>3 DEF AllPoints, Point, Continuation
<1>5. \A u \in Thread : Where(u)' = Where(u)
  BY <1>2, <1>3, <1>4 DEF Where
<1>6. pc' \in [Thread -> AllPoints] /\ cont' \in [Thread -> Continuation]
  BY <1>2, <1>3, <1>4
<1>7. Moves({}) /\ Forgets({}) /\ Flags
  BY <1>1, <1>2, <1>3, <1>5, <1>6, WaitingForgets DEF Moves, Flags
<1>8. LocalsTyped' /\ OthersStay({})
  BY <1>7, LocalsMove
<1>9. Frees(k, {}, {}, {}, k')
  BY <1>1, <1>2, KernelRests
<1>10. k'.stat[k'.current] = "READY"
  BY <1>1, <1>2, SchedulePreserves
<1>11. QED BY <1>8, <1>9, <1>10 DEF Relaxes

\* Where the code is in a detach.
DetachPoints == {"detach_test", "detach_resume", "senders_test", "senders_resume", "wild"}

\* The steps that leave the data of an object alone, of all the objects.
AnyStep(t) ==
  \/ IpcStep(t) \/ ResetResume(t)
  \/ \E o \in Object, c \in {"run", "senders_test"} : DetachTest(t, o, c)
  \/ \E o \in Object : DetachResume(t, o)

LEMMA StepsAre ==
  ASSUME NEW t \in Thread,
         \/ ObjectStep(t, "run") \/ ObjectStep(t, "senders_test") \/ SendersDetach(t)
         \/ IpcStep(t) \/ DetachTest(t, pool_waiters, "run") \/ DetachResume(t, pool_waiters)
  PROVE  AnyStep(t)
BY IpcAssumption, MemPoolAssumption DEF AnyStep, ObjectStep, SendersDetach

\* The points of a detach are none of the others.
LEMMA DetachPointsAre ==
  /\ DetachPoints \subseteq AllPoints \ (Waits \cup {"sched", "alloc_test", "run", "reset"})
  /\ \A o : TestPoint(o) \in DetachPoints /\ ResumePoint(o) \in DetachPoints
  /\ "wild" \in DetachPoints /\ "detach_test" \in DetachPoints
  /\ {"run", "senders_test"} \subseteq AllPoints \ (Waits \cup {"sched", "alloc_test", "reset"})
BY DEF DetachPoints, AllPoints, Point, Continuation, Waits, TestPoint, ResumePoint

LEMMA DetachTestRelaxes ==
  ASSUME KInv, NEW t \in Thread, NEW o \in Object, NEW c \in {"run", "senders_test"},
         DetachTest(t, o, c), using' = using
  PROVE  Relaxes({t}, {}, {}) /\ Where(t)' \in {"run"} \cup DetachPoints /\ k' = k
<1>1. /\ Running(t) /\ pc[t] = TestPoint(o) /\ k' = k /\ UNCHANGED waiting
      /\ UNCHANGED <<primask, systick, device>>
  BY DEF DetachTest
<1>2. PICK d : d = IF k.waitq[o] = << >> THEN c ELSE ResumePoint(o)
  OBVIOUS
<1>3. Goto(t, d)
  BY <1>2 DEF DetachTest
<1>4. d \in AllPoints \ (Waits \cup {"sched"}) /\ d # "alloc_test"
  BY <1>2, DetachPointsAre
<1>5. d \in {"run"} \cup DetachPoints
  BY <1>2, DetachPointsAre DEF DetachPoints
<1>6. pc[t] # "sched"
  BY <1>1, DetachPointsAre
<1>7. Forgets({t}) /\ Flags
  BY <1>1, <1>6, RunnerIsReady, WaitingForgets DEF Flags, LocalsTyped
<1>8. Relaxes({t}, {}, {}) /\ Where(t)' = d
  BY <1>1, <1>3, <1>4, <1>6, <1>7, ThreadRests
<1>9. QED BY <1>1, <1>5, <1>8

\* rt_ipc_list_resume_all wakes one thread.
LEMMA ResumeOneFrees ==
  ASSUME KInv, NEW o \in Object, k.waitq[o] # << >>, ResumeFirst(o)
  PROVE  /\ FirstOn(o) \subseteq ToSet(k.waitq[o])
         /\ Frees(k, {}, FirstOn(o), {}, k') /\ k'.current = k.current
<1>1. k' = rt_thread_resume([k EXCEPT !.error[Head(k.waitq[o])] = "ERROR"],
                            Head(k.waitq[o]))
  BY DEF ResumeFirst
<1>2. PICK e \in Error : e = "ERROR"
  BY DEF Error
<1>3. k' = rt_thread_resume([k EXCEPT !.error[Head(k.waitq[o])] = e], Head(k.waitq[o]))
  BY <1>1, <1>2
<1>4. /\ Frees(k, {}, FirstOn(o), IF e = "EOK" THEN FirstOn(o) ELSE {}, k')
      /\ k'.current = k.current /\ FirstOn(o) \subseteq ToSet(k.waitq[o])
  BY <1>3, ResumeFirstFrees
<1>5. QED BY <1>2, <1>4

LEMMA ResetResumeRelaxes ==
  ASSUME KInv, NEW t \in Thread, ResetResume(t), using' = using
  PROVE  \E o \in Object : /\ k.waitq[o] # << >> /\ FirstOn(o) \subseteq ToSet(k.waitq[o])
                           /\ Relaxes({}, FirstOn(o), {}) /\ k'.current = k.current
<1>1. /\ pc' = pc /\ cont' = cont /\ UNCHANGED waiting
      /\ UNCHANGED <<primask, systick, device>>
  BY DEF ResetResume
<1>2. Flags
  BY <1>1 DEF Flags, KInv, LocalsTyped
<1>3. PICK o \in Object : k.waitq[o] # << >> /\ ResumeFirst(o)
  BY DEF ResetResume
<1>4. /\ FirstOn(o) \subseteq ToSet(k.waitq[o])
      /\ Frees(k, {}, FirstOn(o), {}, k') /\ k'.current = k.current
  BY <1>3, ResumeOneFrees
<1>5. Relaxes({}, FirstOn(o), {})
  BY <1>1, <1>2, <1>4, NobodyMoves
<1>6. QED BY <1>3, <1>4, <1>5

\* A thread that wakes others and goes on.
LEMMA GoesOnRelaxes ==
  ASSUME KInv, NEW t \in Thread, Running(t), pc[t] # "sched",
         NEW c \in AllPoints \ (Waits \cup {"sched", "alloc_test"}), Goto(t, c),
         Forgets({t}), Flags, using' = using,
         NEW U, NEW W, Frees(k, {}, U, W, k'), k'.current = k.current
  PROVE  Relaxes({t}, U, W) /\ Where(t)' = c
<1>1. k.current = t /\ k.stat[t] = "READY" /\ KernelOK(k) /\ LocalsTyped
  BY RunnerIsReady
<1>2. Moves({t}) /\ Where(t)' = c
  BY <1>1, GotoMoves
<1>3. LocalsTyped' /\ OthersStay({t})
  BY <1>2, LocalsMove
<1>4. Frees(k, {t}, U, W, k')
  BY DEF Frees
<1>5. k'.stat[k'.current] = "READY"
  BY <1>1 DEF Frees
<1>6. QED BY <1>1, <1>2, <1>3, <1>4, <1>5 DEF Relaxes

\* The head of the list is woken, or there is none.
LEMMA DetachResumeRelaxes ==
  ASSUME KInv, NEW t \in Thread, NEW o \in Object, DetachResume(t, o), using' = using
  PROVE  /\ FirstOn(o) \subseteq ToSet(k.waitq[o])
         /\ Relaxes({t}, FirstOn(o), {}) /\ Where(t)' \in DetachPoints
<1>1. /\ Running(t) /\ pc[t] = ResumePoint(o)
      /\ UNCHANGED waiting /\ UNCHANGED <<primask, systick, device>>
  BY DEF DetachResume
<1>2. pc[t] # "sched"
  BY <1>1, DetachPointsAre
<1>3. Flags /\ Forgets({t})
  BY <1>1, <1>2, RunnerIsReady, WaitingForgets DEF Flags, LocalsTyped
<1>4. CASE k.waitq[o] # << >>
  <2>1. ResumeFirst(o) /\ Goto(t, TestPoint(o))
    BY <1>4 DEF DetachResume
  <2>2. /\ FirstOn(o) \subseteq ToSet(k.waitq[o])
        /\ Frees(k, {}, FirstOn(o), {}, k') /\ k'.current = k.current
    BY <1>4, <2>1, ResumeOneFrees
  <2>3. PICK c : c = TestPoint(o)
    OBVIOUS
  <2>4. c \in AllPoints \ (Waits \cup {"sched", "alloc_test"}) /\ c \in DetachPoints
    BY <2>3, DetachPointsAre
  <2>5. Relaxes({t}, FirstOn(o), {}) /\ Where(t)' = c
    BY <1>1, <1>2, <1>3, <2>1, <2>2, <2>3, <2>4, GoesOnRelaxes
  <2>6. QED BY <2>2, <2>4, <2>5
<1>5. CASE k.waitq[o] = << >>
  <2>1. Goto(t, "wild") /\ k' = k /\ FirstOn(o) = {}
    BY <1>5 DEF DetachResume, FirstOn
  <2>2. PICK c : c = "wild"
    OBVIOUS
  <2>3. c \in AllPoints \ (Waits \cup {"sched"}) /\ c # "alloc_test" /\ c \in DetachPoints
    BY <2>2, DetachPointsAre
  <2>4. Relaxes({t}, {}, {}) /\ Where(t)' = c
    BY <1>1, <1>2, <1>3, <2>1, <2>2, <2>3, ThreadRests
  <2>5. QED BY <2>1, <2>3, <2>4
<1>6. QED BY <1>4, <1>5

LEMMA ResetCallRelaxes ==
  ASSUME KInv, NEW t \in Thread, ResetCall(t), using' = using
  PROVE  Relaxes({t}, {}, {}) /\ Where(t)' = "reset" /\ k' = k
<1>1. /\ Running(t) /\ pc[t] = "run" /\ k' = k /\ primask' = TRUE /\ Goto(t, "reset")
      /\ UNCHANGED waiting /\ UNCHANGED <<systick, device>>
  BY DEF ResetCall, Calls
<1>2. Flags /\ Forgets({t})
  BY <1>1, RunnerIsReady, WaitingForgets DEF Flags, LocalsTyped
<1>3. PICK c \in AllPoints \ (Waits \cup {"sched"}) : c = "reset"
  BY DEF AllPoints, Point, Continuation, Waits
<1>4. Relaxes({t}, {}, {}) /\ Where(t)' = c
  BY <1>1, <1>2, <1>3, ThreadRests
<1>5. QED BY <1>1, <1>3, <1>4

LEMMA DetachCallRelaxes ==
  ASSUME KInv, NEW t \in Thread, DetachCall(t), using' = using
  PROVE  Relaxes({t}, {}, {}) /\ Where(t)' = "detach_test" /\ k' = k
<1>1. /\ Running(t) /\ pc[t] = "run" /\ k' = k /\ Goto(t, "detach_test")
      /\ detached' = TRUE
      /\ UNCHANGED <<timeout, start, deadline>> /\ UNCHANGED <<primask, systick, device>>
  BY DEF DetachCall, Calls
<1>2. Flags /\ Forgets({t})
  BY <1>1, RunnerIsReady, DetachingForgets DEF Flags, LocalsTyped
<1>3. PICK c \in AllPoints \ (Waits \cup {"sched"}) : c = "detach_test"
  BY DEF AllPoints, Point, Continuation, Waits
<1>4. Relaxes({t}, {}, {}) /\ Where(t)' = c
  BY <1>1, <1>2, <1>3, ThreadRests
<1>5. QED BY <1>1, <1>3, <1>4

LEMMA ResetEndRelaxes ==
  ASSUME KInv, NEW t \in Thread, ResetEnd(t), using' = using
  PROVE  Relaxes({t}, {}, {}) /\ Where(t)' = "run" /\ pc'[k'.current] = "sched" /\ k' = k
<1>1. /\ Running(t) /\ pc[t] = "reset" /\ k' = k /\ primask' = FALSE
      /\ ThenSchedule(t, "run")
      /\ UNCHANGED waiting /\ UNCHANGED <<systick, device>>
  BY DEF ResetEnd
<1>2. Flags /\ Forgets({t})
  BY <1>1, RunnerIsReady, WaitingForgets DEF Flags, LocalsTyped
<1>3. Frees(k, {}, {}, {}, k')
  BY <1>1, KernelRests DEF KInv, KernelSound
<1>4. QED BY <1>1, <1>2, <1>3, ThreadWakes

\* The tick, a timer that ends a wait, and the rt_schedule of a handler.
Expiring == IF systick /\ Due(k) THEN {Head(k.timers)} ELSE {}

LEMMA HandlerRelaxes ==
  ASSUME KInv, IpcHandler, using' = using
  PROVE  Relaxes({}, Expiring, {})
<1>0. KernelOK(k) /\ k.lock = 0 /\ UNCHANGED waiting /\ LocalsTyped
  BY DEF KInv, KernelSound, IpcHandler
<1>1. CASE SysTick_Handler
  <2>1. /\ k' = tick_increase(k) /\ UNCHANGED <<primask, device>> /\ systick' = TRUE
        /\ pc' = pc /\ cont' = cont /\ ~ systick
    BY <1>1 DEF SysTick_Handler
  <2>2. Flags /\ Expiring = {}
    BY <1>0, <2>1 DEF Flags, LocalsTyped, Expiring
  <2>3. Frees(k, {}, {}, {}, k')
    BY <1>0, <2>1, KernelRests
  <2>4. k'.current # k.current => k'.stat[k'.current] = "READY"
    BY <1>0, <2>1, TickPreserves
  <2>5. Relaxes({}, {}, {})
    BY <1>0, <2>1, <2>2, <2>3, <2>4, NobodyMoves
  <2>6. QED BY <2>2, <2>5
<1>2. CASE rt_timer_check /\ Due(k)
  <2>1. /\ k' = timer_expire(k) /\ UNCHANGED <<primask, systick, device>>
        /\ pc' = pc /\ cont' = cont /\ systick /\ k.timers # << >>
    BY <1>2 DEF rt_timer_check, Due
  <2>2. Flags /\ Expiring = {Head(k.timers)}
    BY <1>0, <1>2, <2>1 DEF Flags, LocalsTyped, Expiring
  <2>3. Frees(k, {}, {Head(k.timers)}, {}, k')
    BY <1>0, <2>1, ExpireFrees
  <2>4. k'.stat[k'.current] = "READY"
    BY <1>0, <2>1, ExpirePreserves
  <2>5. Relaxes({}, {Head(k.timers)}, {})
    BY <1>0, <2>1, <2>2, <2>3, <2>4, NobodyMoves
  <2>6. QED BY <2>2, <2>5
<1>3. CASE rt_timer_check /\ ~ Due(k)
  <2>1. k' = k /\ systick' = FALSE /\ UNCHANGED <<primask, device>> /\ pc' = pc /\ cont' = cont
    BY <1>3 DEF rt_timer_check
  <2>2. Flags /\ Expiring = {}
    BY <1>0, <1>3, <2>1 DEF Flags, LocalsTyped, Expiring
  <2>3. Frees(k, {}, {}, {}, k')
    BY <1>0, <2>1, KernelRests
  <2>4. Relaxes({}, {}, {})
    BY <1>0, <2>1, <2>2, <2>3, NobodyMoves
  <2>5. QED BY <2>2, <2>4
<1>4. CASE DeviceSchedule
  <2>1. k' = rt_schedule(k) /\ device' = FALSE /\ UNCHANGED <<primask, systick>>
        /\ pc' = pc /\ cont' = cont /\ ~ systick
    BY <1>4 DEF DeviceSchedule
  <2>2. Flags /\ Expiring = {}
    BY <1>0, <1>4, <2>1 DEF Flags, LocalsTyped, Expiring
  <2>3. Frees(k, {}, {}, {}, k')
    BY <1>0, <2>1, KernelRests
  <2>4. k'.stat[k'.current] = "READY"
    BY <1>0, <2>1, SchedulePreserves
  <2>5. Relaxes({}, {}, {})
    BY <1>0, <2>1, <2>2, <2>3, <2>4, NobodyMoves
  <2>6. QED BY <2>2, <2>5
<1>5. QED BY <1>1, <1>2, <1>3, <1>4 DEF IpcHandler

-----------------------------------------------------------------------------
\* A call that wakes the first thread on o and returns.
LEMMA ReturnRelaxes ==
  ASSUME KInv, NEW t \in Thread, Running(t), pc[t] # "sched", NEW o \in Object,
         Wake(o), ReturnAfterWake(t, o), Forgets({t}), Flags, using' = using
  PROVE  Relaxes({t}, FirstOn(o), FirstOn(o)) /\ Where(t)' = "run"
<1>1. Frees(k, {}, FirstOn(o), FirstOn(o), k') /\ k'.current = k.current
  BY WakeFrees
<1>2. CASE k.waitq[o] # << >>
  <2>1. ThenSchedule(t, "run")
    BY <1>2 DEF ReturnAfterWake
  <2>2. QED BY <1>1, <2>1, ThreadWakes
<1>3. CASE k.waitq[o] = << >>
  <2>1. Goto(t, "run")
    BY <1>3 DEF ReturnAfterWake
  <2>2. PICK c \in AllPoints \ (Waits \cup {"sched", "alloc_test"}) : c = "run"
    BY DEF AllPoints, Point, Continuation, Waits
  <2>3. Relaxes({t}, FirstOn(o), FirstOn(o)) /\ Where(t)' = c
    BY <1>1, <2>1, <2>2, GoesOnRelaxes
  <2>4. QED BY <2>2, <2>3
<1>4. QED BY <1>2, <1>3

\* A handler that does.
LEMMA DeviceWakes ==
  ASSUME KInv, pc' = pc, cont' = cont, UNCHANGED waiting, Flags, using' = using,
         NEW o \in Object, Wake(o)
  PROVE  Relaxes({}, FirstOn(o), FirstOn(o))
<1>1. Frees(k, {}, FirstOn(o), FirstOn(o), k') /\ k'.current = k.current
  BY WakeFrees
<1>2. QED BY <1>1, NobodyMoves

\* A call that gives up.
LEMMA FailsRelaxes ==
  ASSUME KInv, NEW t \in Thread, NEW c, using' = using, c # "sched",
         Fails(t, c) \/ \E e \in Error : GivesUp(t, c, e)
  PROVE  /\ Relaxes({t}, {}, {}) /\ Where(t)' = "run" /\ Where(t) = c
         /\ k.current = t
<1>1. /\ Running(t) /\ pc[t] = c /\ pc[t] # "sched" /\ Goto(t, "run") /\ Forget(t)
      /\ k' = k \/ \E e \in Error : k' = [k EXCEPT !.error[t] = e]
      /\ UNCHANGED <<primask, systick, device>>
  BY DEF Fails, GivesUp, Resumes
<1>2. LocalsTyped /\ Where(t) = c /\ k.current = t
  BY <1>1, RunnerIsReady
<1>3. Flags /\ Forgets({t})
  BY <1>1, <1>2, ForgetForgets DEF Flags, LocalsTyped
<1>4. PICK d \in AllPoints \ (Waits \cup {"sched"}) : d = "run"
  BY DEF AllPoints, Point, Continuation, Waits
<1>5. Relaxes({t}, {}, {}) /\ Where(t)' = d
  BY <1>1, <1>3, <1>4, ThreadRests
<1>6. QED BY <1>2, <1>4, <1>5
-----------------------------------------------------------------------------
(***************************************************************************)
(* The mailbox.                                                            *)
(***************************************************************************)
LEMMA SentRelaxes ==
  ASSUME KInv, NEW t \in Thread, Running(t), pc[t] # "sched", NEW v, Sent(t, v), using' = using
  PROVE  /\ Relaxes({t}, FirstOn(suspend_thread), FirstOn(suspend_thread))
         /\ Where(t)' = "run"
<1>1. /\ Wake(suspend_thread) /\ ReturnAfterWake(t, suspend_thread) /\ Forget(t)
      /\ UNCHANGED <<primask, systick, device>>
  BY DEF Sent, Store
<1>2. Flags /\ Forgets({t})
  BY <1>1, RunnerIsReady, ForgetForgets DEF Flags, LocalsTyped
<1>3. suspend_thread \in Object
  BY IpcAssumption
<1>4. QED BY <1>1, <1>2, <1>3, ReturnRelaxes

LEMMA ReceivedRelaxes ==
  ASSUME KInv, NEW t \in Thread, Running(t), pc[t] # "sched", Received(t), using' = using
  PROVE  /\ Relaxes({t}, FirstOn(suspend_sender_thread), FirstOn(suspend_sender_thread))
         /\ Where(t)' = "run"
<1>1. /\ Wake(suspend_sender_thread) /\ ReturnAfterWake(t, suspend_sender_thread)
      /\ Forget(t) /\ UNCHANGED <<primask, systick, device>>
  BY DEF Received, Fetch
<1>2. Flags /\ Forgets({t})
  BY <1>1, RunnerIsReady, ForgetForgets DEF Flags, LocalsTyped
<1>3. suspend_sender_thread \in Object
  BY IpcAssumption
<1>4. QED BY <1>1, <1>2, <1>3, ReturnRelaxes

LEMMA DeviceSendRelaxes ==
  ASSUME KInv, NEW v, DeviceSend(v), using' = using
  PROVE  Relaxes({}, FirstOn(suspend_thread), FirstOn(suspend_thread))
<1>1. /\ Wake(suspend_thread) /\ pc' = pc /\ cont' = cont /\ UNCHANGED waiting
      /\ UNCHANGED <<primask, systick>> /\ device' \in BOOLEAN
  BY DEF DeviceSend, Store
<1>2. Flags
  BY <1>1 DEF Flags, KInv, LocalsTyped
<1>3. suspend_thread \in Object
  BY IpcAssumption
<1>4. QED BY <1>1, <1>2, <1>3, DeviceWakes

LEMMA DeviceRecvRelaxes ==
  ASSUME KInv, DeviceRecv, using' = using
  PROVE  Relaxes({}, FirstOn(suspend_sender_thread), FirstOn(suspend_sender_thread))
<1>1. /\ Wake(suspend_sender_thread) /\ pc' = pc /\ cont' = cont /\ UNCHANGED waiting
      /\ UNCHANGED <<primask, systick>> /\ device' \in BOOLEAN
  BY DEF DeviceRecv, Fetch
<1>2. Flags
  BY <1>1 DEF Flags, KInv, LocalsTyped
<1>3. suspend_sender_thread \in Object
  BY IpcAssumption
<1>4. QED BY <1>1, <1>2, <1>3, DeviceWakes

LEMMA SendWaitJoins ==
  ASSUME KInv, using = "mb", using' = using, NEW t \in Thread, NEW v,
         \/ SendWaitAgain(t)
         \/ \E time \in WaitTimes[t] : SendWait(t, v, time)
  PROVE  Joins(t, suspend_sender_thread, "send")
<1>0. PICK c \in {"send", "recv"} : c = "send"
  OBVIOUS
<1>1. WaitPoint(suspend_sender_thread, c) /\ suspend_sender_thread \in Object /\ c \in Waits
  BY <1>0, IpcAssumption DEF WaitPoint, Waits
<1>2. CASE SendWaitAgain(t)
  <2>1. /\ Resumes(t, c) /\ Await(t, Queued(t, suspend_sender_thread), c, Left(t))
        /\ deadline' = deadline
    BY <1>0, <1>2 DEF SendWaitAgain, AwaitRoom
  <2>2. QED BY <1>0, <1>1, <2>1, NextWaitJoins
<1>3. CASE \E time \in WaitTimes[t] : SendWait(t, v, time)
  <2>1. PICK time \in WaitTimes[t] : SendWait(t, v, time)
    BY <1>3
  <2>2. /\ Running(t) /\ pc[t] = "run" /\ t # Idle /\ pc[t] # "sched"
        /\ Await(t, Queued(t, suspend_sender_thread), c, time) /\ Begins(t, time)
    BY <1>0, <2>1 DEF SendWait, AwaitRoom, Calls
  <2>3. QED BY <1>0, <1>1, <2>2, FirstWaitJoins
<1>4. QED BY <1>2, <1>3

LEMMA RecvWaitJoins ==
  ASSUME KInv, using = "mb", using' = using, NEW t \in Thread,
         RecvWaitAgain(t) \/ \E time \in WaitTimes[t] : RecvWait(t, time)
  PROVE  Joins(t, suspend_thread, "recv")
<1>0. PICK c \in {"send", "recv"} : c = "recv"
  OBVIOUS
<1>1. WaitPoint(suspend_thread, c) /\ suspend_thread \in Object /\ c \in Waits
  BY <1>0, IpcAssumption DEF WaitPoint, Waits
<1>2. CASE RecvWaitAgain(t)
  <2>1. /\ Resumes(t, c) /\ Await(t, Queued(t, suspend_thread), c, Left(t))
        /\ deadline' = deadline
    BY <1>0, <1>2 DEF RecvWaitAgain, AwaitMail
  <2>2. QED BY <1>0, <1>1, <2>1, NextWaitJoins
<1>3. CASE \E time \in WaitTimes[t] : RecvWait(t, time)
  <2>1. PICK time \in WaitTimes[t] : RecvWait(t, time)
    BY <1>3
  <2>2. /\ Running(t) /\ pc[t] = "run" /\ t # Idle /\ pc[t] # "sched"
        /\ Await(t, Queued(t, suspend_thread), c, time) /\ Begins(t, time)
    BY <1>0, <2>1 DEF RecvWait, AwaitMail, Calls
  <2>3. QED BY <1>0, <1>1, <2>2, FirstWaitJoins
<1>4. QED BY <1>2, <1>3

LEMMA SendGivesUpRelaxes ==
  ASSUME KInv, NEW t \in Thread, SendGivesUp(t), using' = using
  PROVE  /\ Relaxes({t}, {}, {}) /\ Where(t)' = "run" /\ Where(t) = "send"
         /\ k.current = t
<1>1. Fails(t, "send") \/ \E e \in Error : GivesUp(t, "send", e)
  BY DEF SendGivesUp, Error
<1>2. QED BY <1>1, FailsRelaxes

LEMMA RecvGivesUpRelaxes ==
  ASSUME KInv, NEW t \in Thread, RecvGivesUp(t) \/ MqRecvGivesUp(t), using' = using
  PROVE  /\ Relaxes({t}, {}, {}) /\ Where(t)' = "run" /\ Where(t) = "recv"
         /\ k.current = t
<1>1. Fails(t, "recv") \/ \E e \in Error : GivesUp(t, "recv", e)
  BY DEF RecvGivesUp, MqRecvGivesUp, Error
<1>2. QED BY <1>1, FailsRelaxes

LEMMA ObjectStepKeeps ==
  ASSUME KInv, using' = using, NEW t \in Thread, AnyStep(t) \/ ObjectCall(t) \/ ResetEnd(t)
  PROVE  KInv'
<1>1. CASE Schedule(t) /\ UNCHANGED waiting
  BY <1>1, ScheduleRelaxes, RelaxesKeeps
<1>2. ASSUME NEW o \in Object, NEW c \in {"run", "senders_test"}, DetachTest(t, o, c)
      PROVE  KInv'
  BY <1>2, DetachTestRelaxes, RelaxesKeeps
<1>3. CASE ResetResume(t)
  BY <1>3, ResetResumeRelaxes, RelaxesKeeps
<1>4. ASSUME NEW o \in Object, DetachResume(t, o)
      PROVE  KInv'
  BY <1>4, DetachResumeRelaxes, RelaxesKeeps
<1>5. CASE ResetCall(t)
  BY <1>5, ResetCallRelaxes, RelaxesKeeps
<1>6. CASE DetachCall(t)
  BY <1>6, DetachCallRelaxes, RelaxesKeeps
<1>7. CASE ResetEnd(t)
  BY <1>7, ResetEndRelaxes, RelaxesKeeps
<1>8. QED BY <1>1, <1>2, <1>3, <1>4, <1>5, <1>6, <1>7 DEF AnyStep, ObjectCall, IpcStep

LEMMA MbKeeps ==
  ASSUME KInv, using = "mb", using' = using, MbNext
  PROVE  KInv'
<1>1. ASSUME NEW t \in Thread, MbStep(t)
      PROVE  KInv'
  <2>1. CASE ObjectStep(t, "senders_test") \/ SendersDetach(t) \/ ResetRing(t)
    BY <2>1, StepsAre, ObjectStepKeeps DEF ResetRing
  <2>2. CASE SendAgain(t)
    <3>1. Running(t) /\ pc[t] # "sched" /\ Sent(t, mail[t])
      BY <2>2 DEF SendAgain, Resumes
    <3>2. QED BY <3>1, SentRelaxes, RelaxesKeeps
  <2>3. CASE SendWaitAgain(t)
    BY <2>3, SendWaitJoins, JoinsKeeps, IpcAssumption DEF Waits
  <2>4. CASE SendGivesUp(t)
    BY <2>4, SendGivesUpRelaxes, RelaxesKeeps
  <2>5. CASE RecvAgain(t)
    <3>1. Running(t) /\ pc[t] # "sched" /\ Received(t)
      BY <2>5 DEF RecvAgain, Resumes
    <3>2. QED BY <3>1, ReceivedRelaxes, RelaxesKeeps
  <2>6. CASE RecvWaitAgain(t)
    BY <2>6, RecvWaitJoins, JoinsKeeps, IpcAssumption DEF Waits
  <2>7. CASE RecvGivesUp(t)
    BY <2>7, RecvGivesUpRelaxes, RelaxesKeeps
  <2>8. QED BY <1>1, <2>1, <2>2, <2>3, <2>4, <2>5, <2>6, <2>7 DEF MbStep
<1>2. ASSUME NEW t \in Thread, MbCall(t)
      PROVE  KInv'
  <2>1. CASE ObjectCall(t)
    BY <2>1, ObjectStepKeeps
  <2>2. ASSUME NEW v \in Mail, Send(t, v)
        PROVE  KInv'
    <3>1. Running(t) /\ pc[t] # "sched" /\ Sent(t, v)
      BY <2>2 DEF Send, Calls
    <3>2. QED BY <3>1, SentRelaxes, RelaxesKeeps
  <2>3. ASSUME NEW v \in Mail, \E time \in WaitTimes[t] : SendWait(t, v, time)
        PROVE  KInv'
    BY <2>3, SendWaitJoins, JoinsKeeps, IpcAssumption DEF Waits
  <2>4. CASE Recv(t)
    <3>1. Running(t) /\ pc[t] # "sched" /\ Received(t)
      BY <2>4 DEF Recv, Calls
    <3>2. QED BY <3>1, ReceivedRelaxes, RelaxesKeeps
  <2>5. CASE \E time \in WaitTimes[t] : RecvWait(t, time)
    BY <2>5, RecvWaitJoins, JoinsKeeps, IpcAssumption DEF Waits
  <2>6. QED BY <1>2, <2>1, <2>2, <2>3, <2>4, <2>5 DEF MbCall
<1>3. CASE MbHandler
  <2>1. CASE IpcHandler
    BY <2>1, HandlerRelaxes, RelaxesKeeps
  <2>2. CASE DeviceRecv
    BY <2>2, DeviceRecvRelaxes, RelaxesKeeps
  <2>3. ASSUME NEW v \in Mail, DeviceSend(v)
        PROVE  KInv'
    BY <2>3, DeviceSendRelaxes, RelaxesKeeps
  <2>4. QED BY <1>3, <2>1, <2>2, <2>3 DEF MbHandler
<1>4. QED BY <1>1, <1>2, <1>3 DEF MbNext
-----------------------------------------------------------------------------
(***************************************************************************)
(* The message queue.                                                      *)
(***************************************************************************)
LEMMA MqTakeRelaxes ==
  ASSUME KInv, NEW t \in Thread, NEW m, NEW d \in {"mq_send", "mq_urgent"},
         MqTakeBlock(t, m, d), using' = using
  PROVE  Relaxes({t}, {}, {}) /\ Where(t)' = d
<1>1. /\ Running(t) /\ pc[t] = "run" /\ k' = k /\ Goto(t, d)
      /\ UNCHANGED waiting /\ UNCHANGED <<primask, systick, device>>
  BY DEF MqTakeBlock, Calls
<1>2. Flags /\ Forgets({t})
  BY <1>1, RunnerIsReady, WaitingForgets DEF Flags, LocalsTyped
<1>3. d \in AllPoints \ (Waits \cup {"sched", "alloc_test"})
  BY DEF AllPoints, Point, Continuation, Waits
<1>4. Relaxes({t}, {}, {}) /\ Where(t)' = d
  BY <1>1, <1>2, <1>3, ThreadRests
<1>5. QED BY <1>4

LEMMA MqLinkRelaxes ==
  ASSUME KInv, NEW t \in Thread, MqLink(t), using' = using
  PROVE  /\ Relaxes({t}, FirstOn(suspend_thread), FirstOn(suspend_thread))
         /\ Where(t)' = "run"
<1>1. /\ Running(t) /\ pc[t] # "sched" /\ Wake(suspend_thread)
      /\ ReturnAfterWake(t, suspend_thread)
      /\ UNCHANGED waiting /\ UNCHANGED <<primask, systick, device>>
  BY DEF MqLink, LinkLast, LinkFirst
<1>2. Flags /\ Forgets({t})
  BY <1>1, RunnerIsReady, WaitingForgets DEF Flags, LocalsTyped
<1>3. suspend_thread \in Object
  BY IpcAssumption
<1>4. QED BY <1>1, <1>2, <1>3, ReturnRelaxes

LEMMA DeviceMqSendRelaxes ==
  ASSUME KInv, NEW m, DeviceMqSend(m), using' = using
  PROVE  Relaxes({}, FirstOn(suspend_thread), FirstOn(suspend_thread))
<1>1. /\ Wake(suspend_thread) /\ pc' = pc /\ cont' = cont /\ UNCHANGED waiting
      /\ UNCHANGED <<primask, systick>> /\ device' \in BOOLEAN
  BY DEF DeviceMqSend, LinkLast, LinkFirst
<1>2. Flags
  BY <1>1 DEF Flags, KInv, LocalsTyped
<1>3. suspend_thread \in Object
  BY IpcAssumption
<1>4. QED BY <1>1, <1>2, <1>3, DeviceWakes

LEMMA UnlinkRelaxes ==
  ASSUME KInv, NEW t \in Thread, Running(t), pc[t] # "sched", Unlink(t), using' = using
  PROVE  Relaxes({t}, {}, {}) /\ Where(t)' = "mq_copy"
<1>1. k' = k /\ Goto(t, "mq_copy") /\ Forget(t) /\ UNCHANGED <<primask, systick, device>>
  BY DEF Unlink
<1>2. Flags /\ Forgets({t})
  BY <1>1, RunnerIsReady, ForgetForgets DEF Flags, LocalsTyped
<1>3. PICK d \in AllPoints \ (Waits \cup {"sched", "alloc_test"}) : d = "mq_copy"
  BY DEF AllPoints, Point, Continuation, Waits
<1>4. Relaxes({t}, {}, {}) /\ Where(t)' = d
  BY <1>1, <1>2, <1>3, ThreadRests
<1>5. QED BY <1>3, <1>4

\* A step that leaves the kernel and the threads alone.
LEMMA CpuRests ==
  ASSUME KInv, UNCHANGED cpu, UNCHANGED waiting, using' = using
  PROVE  Relaxes({}, {}, {})
<1>1. k' = k /\ pc' = pc /\ cont' = cont /\ UNCHANGED <<primask, systick, device>>
  BY DEF cpu
<1>2. Flags
  BY <1>1 DEF Flags, KInv, LocalsTyped
<1>3. Frees(k, {}, {}, {}, k')
  BY <1>1, KernelRests DEF KInv, KernelSound
<1>4. QED BY <1>1, <1>2, <1>3, NobodyMoves

LEMMA MqFreeRelaxes ==
  ASSUME KInv, NEW t \in Thread, MqFreeBlock(t), using' = using
  PROVE  Relaxes({t}, {}, {}) /\ Where(t)' = "run"
<1>1. /\ Running(t) /\ pc[t] = "mq_copy" /\ k' = k /\ Goto(t, "run")
      /\ UNCHANGED waiting /\ UNCHANGED <<primask, systick, device>>
  BY DEF MqFreeBlock
<1>2. Flags /\ Forgets({t})
  BY <1>1, RunnerIsReady, WaitingForgets DEF Flags, LocalsTyped
<1>3. PICK d \in AllPoints \ (Waits \cup {"sched", "alloc_test"}) : d = "run"
  BY DEF AllPoints, Point, Continuation, Waits
<1>4. Relaxes({t}, {}, {}) /\ Where(t)' = d
  BY <1>1, <1>2, <1>3, ThreadRests
<1>5. QED BY <1>3, <1>4

LEMMA MqWaitJoins ==
  ASSUME KInv, using = "mq", using' = using, NEW t \in Thread,
         MqRecvWaitAgain(t) \/ \E time \in WaitTimes[t] : MqRecvWait(t, time)
  PROVE  Joins(t, suspend_thread, "recv")
<1>0. PICK c \in {"send", "recv"} : c = "recv"
  OBVIOUS
<1>1. WaitPoint(suspend_thread, c) /\ suspend_thread \in Object /\ c \in Waits
  BY <1>0, IpcAssumption DEF WaitPoint, Waits
<1>2. CASE MqRecvWaitAgain(t)
  <2>1. /\ Resumes(t, c) /\ Await(t, Queued(t, suspend_thread), c, Left(t))
        /\ deadline' = deadline
    BY <1>0, <1>2 DEF MqRecvWaitAgain, MqAwait
  <2>2. QED BY <1>0, <1>1, <2>1, NextWaitJoins
<1>3. CASE \E time \in WaitTimes[t] : MqRecvWait(t, time)
  <2>1. PICK time \in WaitTimes[t] : MqRecvWait(t, time)
    BY <1>3
  <2>2. /\ Running(t) /\ pc[t] = "run" /\ t # Idle /\ pc[t] # "sched"
        /\ Await(t, Queued(t, suspend_thread), c, time) /\ Begins(t, time)
    BY <1>0, <2>1 DEF MqRecvWait, MqAwait, Calls
  <2>3. QED BY <1>0, <1>1, <2>2, FirstWaitJoins
<1>4. QED BY <1>2, <1>3

LEMMA MqKeeps ==
  ASSUME KInv, using = "mq", using' = using, MqNext
  PROVE  KInv'
<1>1. ASSUME NEW t \in Thread, MqStep(t)
      PROVE  KInv'
  <2>1. CASE ObjectStep(t, "run") \/ MqReset(t)
    BY <2>1, StepsAre, ObjectStepKeeps DEF MqReset
  <2>2. CASE MqLink(t)
    BY <2>2, MqLinkRelaxes, RelaxesKeeps
  <2>3. CASE MqFreeBlock(t)
    BY <2>3, MqFreeRelaxes, RelaxesKeeps
  <2>4. CASE MqRecvAgain(t)
    <3>1. Running(t) /\ pc[t] # "sched" /\ Unlink(t)
      BY <2>4 DEF MqRecvAgain, Resumes
    <3>2. QED BY <3>1, UnlinkRelaxes, RelaxesKeeps
  <2>5. CASE MqRecvWaitAgain(t)
    BY <2>5, MqWaitJoins, JoinsKeeps, IpcAssumption DEF Waits
  <2>6. CASE MqRecvGivesUp(t)
    BY <2>6, RecvGivesUpRelaxes, RelaxesKeeps
  <2>7. QED BY <1>1, <2>1, <2>2, <2>3, <2>4, <2>5, <2>6 DEF MqStep
<1>2. ASSUME NEW t \in Thread, MqCall(t)
      PROVE  KInv'
  <2>1. CASE ObjectCall(t)
    BY <2>1, ObjectStepKeeps
  <2>2. ASSUME NEW m \in Message,
               MqTakeBlock(t, m, IF m \in UrgentMessage THEN "mq_urgent" ELSE "mq_send")
        PROVE  KInv'
    <3>1. PICK d \in {"mq_send", "mq_urgent"} : MqTakeBlock(t, m, d)
      BY <2>2
    <3>2. QED BY <3>1, MqTakeRelaxes, RelaxesKeeps
  <2>3. CASE MqRecv(t)
    <3>1. Running(t) /\ pc[t] # "sched" /\ Unlink(t)
      BY <2>3 DEF MqRecv, Calls
    <3>2. QED BY <3>1, UnlinkRelaxes, RelaxesKeeps
  <2>4. CASE \E time \in WaitTimes[t] : MqRecvWait(t, time)
    BY <2>4, MqWaitJoins, JoinsKeeps, IpcAssumption DEF Waits
  <2>5. QED BY <1>2, <2>1, <2>2, <2>3, <2>4 DEF MqCall
<1>3. CASE MqHandler
  <2>1. CASE IpcHandler
    BY <2>1, HandlerRelaxes, RelaxesKeeps
  <2>2. CASE DeviceMqRecv
    <3>1. UNCHANGED cpu /\ UNCHANGED waiting
      BY <2>2 DEF DeviceMqRecv
    <3>2. QED BY <3>1, CpuRests, RelaxesKeeps
  <2>3. ASSUME NEW m \in Message, DeviceMqSend(m)
        PROVE  KInv'
    BY <2>3, DeviceMqSendRelaxes, RelaxesKeeps
  <2>4. QED BY <1>3, <2>1, <2>2, <2>3 DEF MqHandler
<1>4. QED BY <1>1, <1>2, <1>3 DEF MqNext
-----------------------------------------------------------------------------
(***************************************************************************)
(* The memory pool.                                                        *)
(***************************************************************************)
LEMMA PoolWaitJoins ==
  ASSUME KInv, using = "mp", using' = using, NEW t \in Thread,
         PoolAllocWaitAgain(t) \/ \E time \in WaitTimes[t] : PoolAllocWait(t, time)
  PROVE  Joins(t, pool_waiters, "alloc")
<1>1. PICK time \in (0 .. HalfTick) \cup {Forever} :
        /\ Running(t) /\ pc[t] # "sched" /\ t # Idle /\ PoolAwait(t, time)
        /\ deadline' = deadline
  <2>1. CASE PoolAllocWaitAgain(t)
    <3>1. Running(t) /\ pc[t] = "alloc_test" /\ PoolAwait(t, timeout[t]) /\ deadline' = deadline
      BY <2>1 DEF PoolAllocWaitAgain
    <3>2. Where(t) = "alloc_test" /\ timeout[t] \in (0 .. HalfTick) \cup {Forever}
      BY <3>1, RunnerIsReady DEF LocalsTyped
    <3>3. t # Idle
      BY <3>2 DEF KInv, IdleWaitsNot
    <3>4. QED BY <3>1, <3>2, <3>3
  <2>2. CASE \E time \in WaitTimes[t] : PoolAllocWait(t, time)
    <3>1. PICK time \in WaitTimes[t] : PoolAllocWait(t, time)
      BY <2>2
    <3>2. QED BY <3>1, TimesToWait DEF PoolAllocWait, Calls
  <2>3. QED BY <2>1, <2>2
<1>2. k.current = t /\ k.stat[t] = "READY" /\ KernelOK(k) /\ LocalsTyped
  BY <1>1, RunnerIsReady
<1>3. pool_waiters \in Object
  BY MemPoolAssumption
<1>4. PICK n : n = Pushed(k, t, pool_waiters)
  OBVIOUS
<1>5. Enters(k, t, pool_waiters, n) /\ n.tick = k.tick /\ t \notin n.active
  BY <1>1, <1>2, <1>3, <1>4, PushedEnters
<1>6. Await(t, n, "alloc", time)
  <2>1. Await(t, Pushed(k, t, pool_waiters), "alloc", time)
    BY <1>1 DEF PoolAwait, Pushed
  <2>2. QED BY <1>4, <2>1
<1>7. PICK c \in Waits : c = "alloc"
  BY DEF Waits
<1>8. WaitPoint(pool_waiters, c)
  BY <1>7 DEF WaitPoint
<1>9. deadline' \in [Thread -> Tick] /\ \A u \in Thread \ {t} : deadline'[u] = deadline[u]
  BY <1>1, <1>2 DEF LocalsTyped
<1>10. Await(t, n, c, time)
  BY <1>6, <1>7
<1>11. Joins(t, pool_waiters, c)
  BY <1>1, <1>3, <1>5, <1>8, <1>9, <1>10, AwaitJoins
<1>12. QED BY <1>7, <1>11

LEMMA PoolLeftRelaxes ==
  ASSUME KInv, NEW t \in Thread, PoolTimeLeft(t), using' = using
  PROVE  /\ Relaxes({t}, {}, {}) /\ Where(t)' = "alloc_test" /\ Where(t) = "alloc"
         /\ k' = k /\ k.error[t] = "EOK"
<1>1. /\ Running(t) /\ pc[t] = "alloc" /\ k.error[t] = "EOK" /\ k' = k /\ Goto(t, "alloc_test")
      /\ timeout' = [timeout EXCEPT ![t] = Left(t)]
      /\ UNCHANGED <<primask, systick, device, start, deadline, detached>>
  BY DEF PoolTimeLeft, Resumes
<1>2. LocalsTyped /\ Where(t) = "alloc"
  BY <1>1, RunnerIsReady
<1>3. t # Idle /\ using = "mp"
  BY <1>2 DEF KInv, IdleWaitsNot, WaitsForIt, WaitPoint, Waits
<1>4. Left(t) \in (0 .. HalfTick) \cup {Forever}
  BY LeftIs
<1>5. Flags /\ Forgets({t})
  BY <1>1, <1>2, <1>4 DEF Flags, Forgets, LocalsTyped
<1>6. PICK d \in AllPoints \ (Waits \cup {"sched"}) : d = "alloc_test"
  BY DEF AllPoints, Point, Continuation, Waits
<1>7. Relaxes({t}, {}, {}) /\ Where(t)' = d
  BY <1>1, <1>3, <1>5, <1>6, ThreadRests
<1>8. QED BY <1>1, <1>2, <1>6, <1>7

LEMMA PoolAgainRelaxes ==
  ASSUME KInv, NEW t \in Thread, PoolAllocAgain(t), using' = using
  PROVE  /\ Relaxes({t}, {}, {}) /\ Where(t)' = "run" /\ Where(t) = "alloc_test"
         /\ k' = k
<1>1. /\ Running(t) /\ pc[t] = "alloc_test" /\ k' = k /\ Goto(t, "run") /\ Forget(t)
      /\ UNCHANGED <<primask, systick, device>>
  BY DEF PoolAllocAgain
<1>2. LocalsTyped /\ Where(t) = "alloc_test"
  BY <1>1, RunnerIsReady
<1>3. Flags /\ Forgets({t})
  BY <1>1, <1>2, ForgetForgets DEF Flags, LocalsTyped
<1>4. PICK d \in AllPoints \ (Waits \cup {"sched", "alloc_test"}) : d = "run"
  BY DEF AllPoints, Point, Continuation, Waits
<1>5. Relaxes({t}, {}, {}) /\ Where(t)' = d
  BY <1>1, <1>3, <1>4, ThreadRests
<1>6. QED BY <1>1, <1>2, <1>4, <1>5

LEMMA PoolGivesUpRelaxes ==
  ASSUME KInv, NEW t \in Thread, PoolGivesUp(t), using' = using
  PROVE  /\ Relaxes({t}, {}, {}) /\ Where(t)' = "run" /\ k.current = t
         /\ \/ Where(t) = "alloc"
            \/ Where(t) = "alloc_test" /\ block_free_count = 0
<1>1. CASE Fails(t, "alloc")
  BY <1>1, FailsRelaxes
<1>2. CASE ~ Fails(t, "alloc")
  <2>1. /\ Running(t) /\ pc[t] = "alloc_test" /\ Goto(t, "run") /\ Forget(t)
        /\ k' = [k EXCEPT !.error[t] = "ETIMEOUT"] /\ block_free_count = 0
        /\ UNCHANGED <<primask, systick, device>>
    BY <1>2 DEF PoolGivesUp
  <2>2. LocalsTyped /\ Where(t) = "alloc_test" /\ k.current = t
    BY <2>1, RunnerIsReady
  <2>3. Flags /\ Forgets({t})
    BY <2>1, <2>2, ForgetForgets DEF Flags, LocalsTyped
  <2>4. PICK d \in AllPoints \ (Waits \cup {"sched", "alloc_test"}) : d = "run"
    BY DEF AllPoints, Point, Continuation, Waits
  <2>5. \E e \in Error : k' = [k EXCEPT !.error[t] = e]
    BY <2>1 DEF Error
  <2>6. Relaxes({t}, {}, {}) /\ Where(t)' = d
    BY <2>1, <2>3, <2>4, <2>5, ThreadRests
  <2>7. QED BY <2>1, <2>2, <2>4, <2>6
<1>3. QED BY <1>1, <1>2

\* The thread that rt_mp_free wakes.
Served1 == IF suspend_thread_count > 0 THEN FirstOn(pool_waiters) ELSE {}

LEMMA ReturnFrees ==
  ASSUME KInv, NEW b, ReturnBlock(b)
  PROVE  Frees(k, {}, Served1, Served1, k') /\ k'.current = k.current
         /\ Served1 \subseteq ToSet(k.waitq[pool_waiters])
<1>0. pool_waiters \in Object /\ KernelOK(k)
  BY MemPoolAssumption DEF KInv, KernelSound
<1>1. CASE suspend_thread_count > 0 /\ k.waitq[pool_waiters] # << >>
  <2>1. PICK e \in Error : e = "EOK"
    BY DEF Error
  <2>2. k' = rt_thread_resume([k EXCEPT !.error[Head(k.waitq[pool_waiters])] = e],
                              Head(k.waitq[pool_waiters]))
    BY <1>1, <2>1 DEF ReturnBlock, NobodyThere
  <2>3. /\ Frees(k, {}, FirstOn(pool_waiters),
                 IF e = "EOK" THEN FirstOn(pool_waiters) ELSE {}, k')
        /\ k'.current = k.current /\ FirstOn(pool_waiters) \subseteq ToSet(k.waitq[pool_waiters])
    BY <1>0, <1>1, <2>2, ResumeFirstFrees
  <2>4. Served1 = FirstOn(pool_waiters)
    BY <1>1 DEF Served1
  <2>5. QED BY <2>1, <2>3, <2>4
<1>2. CASE ~ (suspend_thread_count > 0 /\ k.waitq[pool_waiters] # << >>)
  <2>1. k' = k /\ Served1 = {}
    BY <1>2 DEF ReturnBlock, NobodyThere, Served1, FirstOn
  <2>2. Frees(k, {}, {}, {}, k)
    BY <1>0, KernelRests
  <2>3. QED BY <2>1, <2>2
<1>3. QED BY <1>1, <1>2

LEMMA PoolFreeRelaxes ==
  ASSUME KInv, NEW t \in Thread, NEW b, PoolFree(t, b), using' = using
  PROVE  Relaxes({t}, Served1, Served1) /\ Where(t)' = "run"
<1>1. /\ Running(t) /\ pc[t] = "run" /\ pc[t] # "sched" /\ ReturnBlock(b)
      /\ UNCHANGED <<primask, systick, device>> /\ UNCHANGED waiting
  BY DEF PoolFree, Calls
<1>2. Flags /\ Forgets({t})
  BY <1>1, RunnerIsReady, WaitingForgets DEF Flags, LocalsTyped
<1>3. Frees(k, {}, Served1, Served1, k') /\ k'.current = k.current
  BY <1>1, ReturnFrees
<1>4. PICK d \in AllPoints \ (Waits \cup {"sched", "alloc_test"}) : d = "run"
  BY DEF AllPoints, Point, Continuation, Waits
<1>5. CASE suspend_thread_count > 0
  <2>1. ThenSchedule(t, "run")
    BY <1>5 DEF PoolFree
  <2>2. QED BY <1>1, <1>2, <1>3, <2>1, ThreadWakes
<1>6. CASE ~ (suspend_thread_count > 0)
  <2>1. Goto(t, d)
    BY <1>4, <1>6 DEF PoolFree
  <2>2. Relaxes({t}, Served1, Served1) /\ Where(t)' = d
    BY <1>1, <1>2, <1>3, <2>1, GoesOnRelaxes
  <2>3. QED BY <1>4, <2>2
<1>7. QED BY <1>5, <1>6

LEMMA DevicePoolFreeRelaxes ==
  ASSUME KInv, NEW b, DevicePoolFree(b), using' = using
  PROVE  Relaxes({}, Served1, Served1)
<1>1. /\ ReturnBlock(b) /\ pc' = pc /\ cont' = cont /\ UNCHANGED waiting
      /\ UNCHANGED <<primask, systick>> /\ device' \in BOOLEAN
  BY DEF DevicePoolFree
<1>2. Flags
  BY <1>1 DEF Flags, KInv, LocalsTyped
<1>3. Frees(k, {}, Served1, Served1, k') /\ k'.current = k.current
  BY <1>1, ReturnFrees
<1>4. QED BY <1>1, <1>2, <1>3, NobodyMoves

LEMMA PoolKeeps ==
  ASSUME KInv, using = "mp", using' = using, PoolNext
  PROVE  KInv'
<1>1. ASSUME NEW t \in Thread, PoolStep(t)
      PROVE  KInv'
  <2>1. CASE IpcStep(t) \/ DetachTest(t, pool_waiters, "run")
    BY <2>1, StepsAre, ObjectStepKeeps
  <2>2. CASE PoolTimeLeft(t)
    BY <2>2, PoolLeftRelaxes, RelaxesKeeps
  <2>3. CASE PoolAllocAgain(t)
    BY <2>3, PoolAgainRelaxes, RelaxesKeeps
  <2>4. CASE PoolAllocWaitAgain(t)
    BY <2>4, PoolWaitJoins, JoinsKeeps, MemPoolAssumption DEF Waits
  <2>5. CASE PoolGivesUp(t)
    BY <2>5, PoolGivesUpRelaxes, RelaxesKeeps
  <2>6. CASE PoolDetachResume(t)
    BY <2>6, StepsAre, ObjectStepKeeps DEF PoolDetachResume
  <2>7. QED BY <1>1, <2>1, <2>2, <2>3, <2>4, <2>5, <2>6 DEF PoolStep
<1>2. ASSUME NEW t \in Thread, PoolCall(t)
      PROVE  KInv'
  <2>1. CASE DetachCall(t)
    BY <2>1, DetachCallRelaxes, RelaxesKeeps
  <2>2. CASE PoolAlloc(t)
    <3>1. UNCHANGED cpu /\ UNCHANGED waiting
      BY <2>2 DEF PoolAlloc
    <3>2. QED BY <3>1, CpuRests, RelaxesKeeps
  <2>3. CASE \E time \in WaitTimes[t] : PoolAllocWait(t, time)
    BY <2>3, PoolWaitJoins, JoinsKeeps, MemPoolAssumption DEF Waits
  <2>4. ASSUME NEW b \in PoolBlock, PoolFree(t, b)
        PROVE  KInv'
    BY <2>4, PoolFreeRelaxes, RelaxesKeeps
  <2>5. QED BY <1>2, <2>1, <2>2, <2>3, <2>4 DEF PoolCall
<1>3. CASE PoolHandler
  <2>1. CASE IpcHandler
    BY <2>1, HandlerRelaxes, RelaxesKeeps
  <2>2. CASE DevicePoolAlloc
    <3>1. UNCHANGED cpu /\ UNCHANGED waiting
      BY <2>2 DEF DevicePoolAlloc
    <3>2. QED BY <3>1, CpuRests, RelaxesKeeps
  <2>3. ASSUME NEW b \in PoolBlock, DevicePoolFree(b)
        PROVE  KInv'
    BY <2>3, DevicePoolFreeRelaxes, RelaxesKeeps
  <2>4. QED BY <1>3, <2>1, <2>2, <2>3 DEF PoolHandler
<1>4. QED BY <1>1, <1>2, <1>3 DEF PoolNext
-----------------------------------------------------------------------------
(***************************************************************************)
(* The event.                                                              *)
(***************************************************************************)
\* What the loop of rt_event_send begins with.
Before(s) ==
  [k |-> k, set |-> set \cup s, want |-> event_set,
   claims |-> [f \in Flag |-> IF f \in s THEN 0 ELSE claims[f]]]

\* f holds the results of m rounds over q.
AreRounds(f, m, q, s) ==
  f = [n \in 0 .. m |-> IF n = 0 THEN Before(s) ELSE Serve(f[n - 1], q[n])]

LEMMA RoundsExist ==
  ASSUME NEW L \in Nat, NEW q, NEW s
  PROVE  \E f : AreRounds(f, L, q, s)
<1> DEFINE Bad == {m \in 0 .. L : ~ \E f : AreRounds(f, m, q, s)}
<1>1. SUFFICES ASSUME Bad # {} PROVE FALSE
  BY DEF Bad
<1>2. PICK m \in 0 .. L : m \in Bad /\ \A j \in Bad : m <= j
  <2>1. Bad \in SUBSET Nat
    BY DEF Bad
  <2>2. Min(Bad) \in Bad /\ \A j \in Bad : Min(Bad) <= j
    BY <1>1, <2>1, MinProperties
  <2>3. QED BY <2>2 DEF Bad
<1>3. ~ \E f : AreRounds(f, m, q, s)
  BY <1>2 DEF Bad
<1>4. \A j \in 0 .. L : j < m => \E f : AreRounds(f, j, q, s)
  BY <1>2 DEF Bad
<1> HIDE DEF Bad
<1>5. CASE m = 0
  <2> DEFINE g == [n \in 0 .. 0 |-> Before(s)]
  <2>1. g = [n \in 0 .. 0 |-> IF n = 0 THEN Before(s) ELSE Serve(g[n - 1], q[n])]
    OBVIOUS
  <2>2. AreRounds(g, 0, q, s)
    BY <2>1 DEF AreRounds
  <2>3. QED BY <1>3, <1>5, <2>2
<1>6. CASE m # 0
  <2>1. PICK f : AreRounds(f, m - 1, q, s)
    BY <1>4, <1>6
  <2>2. \A n \in 0 .. m - 1 : f[n] = IF n = 0 THEN Before(s) ELSE Serve(f[n - 1], q[n])
    BY <2>1 DEF AreRounds
  <2> DEFINE g == [n \in 0 .. m |-> IF n = m THEN Serve(f[m - 1], q[m]) ELSE f[n]]
  <2>3. ASSUME NEW n \in 0 .. m
        PROVE  g[n] = IF n = 0 THEN Before(s) ELSE Serve(g[n - 1], q[n])
    <3>1. CASE n = m
      BY <1>6, <3>1
    <3>2. CASE n # m
      BY <1>6, <2>2, <3>2
    <3>3. QED BY <3>1, <3>2
  <2>4. g = [n \in 0 .. m |-> g[n]]
    OBVIOUS
  <2> HIDE DEF g
  <2>5. g = [n \in 0 .. m |-> IF n = 0 THEN Before(s) ELSE Serve(g[n - 1], q[n])]
    BY <2>3, <2>4
  <2>6. AreRounds(g, m, q, s)
    BY <2>5 DEF AreRounds
  <2>7. QED BY <1>3, <2>6
<1>7. QED BY <1>5, <1>6

LEMMA RoundsAre ==
  ASSUME KInv, NEW s
  PROVE  /\ Rounds(s)[0] = Before(s)
         /\ \A n \in 1 .. Len(k.waitq[suspend_thread]) :
              Rounds(s)[n] = Serve(Rounds(s)[n - 1], k.waitq[suspend_thread][n])
<1> DEFINE q == k.waitq[suspend_thread]
           r == Rounds(s)
<1>1. Len(q) \in Nat
  BY Fields, IpcAssumption DEF KInv, KernelSound, KernelOK
<1>2. r = CHOOSE f : AreRounds(f, Len(q), q, s)
  BY DEF Rounds, AreRounds, Before
<1> HIDE DEF q, r
<1>3. AreRounds(r, Len(q), q, s)
  BY <1>1, <1>2, RoundsExist
<1>4. r[0] = Before(s) /\ \A n \in 1 .. Len(q) : r[n] = Serve(r[n - 1], q[n])
  BY <1>1, <1>3 DEF AreRounds
<1>5. QED BY <1>4 DEF q, r

\* What a thread that waits with option o for the flags w is told, of v.
ToldOf(o, w, v) == IF "AND" \in o THEN v = w ELSE v # {} /\ v \subseteq w

EventInv ==
  /\ EventTypeOK /\ NoWaiterBesideFlags
  /\ \A f \in Flag : claims[f] \in {0, 1}
  /\ \A f \in set : claims[f] = 0
  /\ \A u \in Thread : Where(u) = "event" =>
       /\ k.stat[u] = "SUSPEND" => event_set[u] = asked[u]
       /\ k.stat[u] = "READY" /\ k.error[u] = "EOK" => ToldOf(event_info[u], asked[u], event_set[u])

\* After n rounds the threads T are served.
ServedSoFar(s, n, r, T) ==
  LET q == k.waitq[suspend_thread]
  IN  /\ T \subseteq {q[j] : j \in 1 .. n}
      /\ Frees(k, {}, T, T, r.k) /\ r.k.current = k.current /\ r.k.error = k.error
      /\ T = {} => r.k = k
      /\ r.set \subseteq set \cup s
      /\ r.want \in [Thread -> SUBSET Flag]
      /\ \A u \in Thread \ T : r.want[u] = event_set[u]
      /\ \A u \in T : ToldOf(event_info[u], event_set[u], r.want[u])
      /\ r.claims \in [Flag -> {0, 1}]
      /\ \A f \in r.set : r.claims[f] = 0
      /\ \A j \in 1 .. n :
           q[j] \notin T => ~ Satisfied(r.set, event_set[q[j]], event_info[q[j]])

LEMMA NothingServed ==
  ASSUME KInv, EventInv, NEW s \in SUBSET Flag
  PROVE  ServedSoFar(s, 0, Before(s), {})
<1> DEFINE r == Before(s)
<1>1. /\ r.k = k /\ r.set = set \cup s /\ r.want = event_set
      /\ r.claims = [f \in Flag |-> IF f \in s THEN 0 ELSE claims[f]]
  BY DEF Before
<1>2. /\ set \subseteq Flag /\ event_set \in [Thread -> SUBSET Flag]
      /\ \A f \in Flag : claims[f] \in {0, 1}
      /\ \A f \in set : claims[f] = 0
  BY DEF EventInv, EventTypeOK
<1> HIDE DEF r
<1>3. Frees(k, {}, {}, {}, r.k)
  BY <1>1, KernelRests DEF KInv, KernelSound
<1>4. r.claims \in [Flag -> {0, 1}] /\ \A f \in r.set : r.claims[f] = 0
  BY <1>1, <1>2
<1>5. ServedSoFar(s, 0, r, {})
  BY <1>1, <1>2, <1>3, <1>4 DEF ServedSoFar
<1>6. QED BY <1>5 DEF r

\* Fewer flags satisfy no more.
LEMMA SatisfiedByMore ==
  ASSUME NEW a, NEW b, a \subseteq b, NEW w, NEW o, Satisfied(a, w, o)
  PROVE  Satisfied(b, w, o)
BY DEF Satisfied

LEMMA ClaimOnce ==
  ASSUME NEW c \in [Flag -> {0, 1}], NEW w, \A f \in w : f \in Flag /\ c[f] = 0, NEW o
  PROVE  Claim(c, w, o) \in [Flag -> {0, 1}]
<1>1. CASE "CLEAR" \notin o
  BY <1>1 DEF Claim
<1>2. CASE "CLEAR" \in o
  <2>1. Claim(c, w, o) = [f \in Flag |-> IF f \in w THEN c[f] + 1 ELSE c[f]]
    BY <1>2 DEF Claim
  <2>2. \A f \in Flag : (IF f \in w THEN c[f] + 1 ELSE c[f]) \in {0, 1}
    OBVIOUS
  <2>3. QED BY <2>1, <2>2
<1>3. QED BY <1>1, <1>2

LEMMA UnclaimedStays ==
  ASSUME NEW c \in [Flag -> {0, 1}], NEW w, NEW o, NEW f \in Flag,
         "CLEAR" \in o => f \notin w
  PROVE  Claim(c, w, o)[f] = c[f]
BY DEF Claim

\* Two threads in a row are freed.
LEMMA FreesTwice ==
  ASSUME NEW T, NEW r, NEW t, NEW v, Frees(k, {}, T, T, r), r.error = k.error,
         Frees(r, {}, {t}, {t}, v), v.error = r.error, t \notin T
  PROVE  Frees(k, {}, T \cup {t}, T \cup {t}, v)
BY DEF Frees

\* One round of rt_event_send.
LEMMA ServeOne ==
  ASSUME KInv, EventInv, NEW s \in SUBSET Flag, NEW n \in Nat,
         n + 1 \in 1 .. Len(k.waitq[suspend_thread]), NEW r, NEW T, ServedSoFar(s, n, r, T)
  PROVE  \E V : ServedSoFar(s, n + 1, Serve(r, k.waitq[suspend_thread][n + 1]), V)
<1>1. PICK q : q = k.waitq[suspend_thread]
  OBVIOUS
<1>2. PICK t : t = q[n + 1]
  OBVIOUS
<1>3. q \in Seq(Thread) /\ IsInjective(q) /\ suspend_thread \in Object
  BY <1>1, Fields, IpcAssumption DEF KInv, KernelSound, KernelOK, Consistent, WaitListsHoldSuspended
<1>4. t \in Thread /\ t \in ToSet(q) /\ n + 1 \in DOMAIN q
  BY <1>1, <1>2, <1>3, MembersOf
<1>5. \A j \in 1 .. n : q[j] # t /\ j \in DOMAIN q
  BY <1>1, <1>2, <1>3 DEF IsInjective
<1>6. /\ T \subseteq {q[j] : j \in 1 .. n}
      /\ Frees(k, {}, T, T, r.k) /\ r.k.current = k.current /\ r.k.error = k.error
      /\ T = {} => r.k = k
      /\ r.set \subseteq set \cup s
      /\ r.want \in [Thread -> SUBSET Flag]
      /\ \A u \in Thread \ T : r.want[u] = event_set[u]
      /\ \A u \in T : ToldOf(event_info[u], event_set[u], r.want[u])
      /\ r.claims \in [Flag -> {0, 1}]
      /\ \A f \in r.set : r.claims[f] = 0
      /\ \A j \in 1 .. n :
           q[j] \notin T => ~ Satisfied(r.set, event_set[q[j]], event_info[q[j]])
  BY <1>1 DEF ServedSoFar
<1>7. t \notin T
  BY <1>5, <1>6
<1>8. r.want[t] = event_set[t] /\ event_set[t] \subseteq Flag /\ set \cup s \subseteq Flag
  BY <1>4, <1>6, <1>7 DEF EventInv, EventTypeOK
<1>9. \A j \in 1 .. n + 1 : j \in 1 .. n \/ (j = n + 1 /\ q[j] = t)
  BY <1>2
<1>10. {q[j] : j \in 1 .. n} \subseteq {q[j] : j \in 1 .. n + 1} /\ t \in {q[j] : j \in 1 .. n + 1}
  BY <1>2
<1>11. CASE ~ Satisfied(r.set, event_set[t], event_info[t])
  <2>1. Serve(r, t) = r
    BY <1>8, <1>11 DEF Serve
  <2>2. \A j \in 1 .. n + 1 :
           q[j] \notin T => ~ Satisfied(r.set, event_set[q[j]], event_info[q[j]])
    BY <1>6, <1>9, <1>11
  <2>3. ServedSoFar(s, n + 1, r, T)
    BY <1>1, <1>6, <1>10, <2>2 DEF ServedSoFar
  <2>4. QED BY <1>1, <1>2, <2>1, <2>3
<1>12. CASE Satisfied(r.set, event_set[t], event_info[t])
  <2>1. PICK w : w = IF "AND" \in event_info[t] THEN event_set[t] ELSE event_set[t] \cap r.set
    OBVIOUS
  <2>2. PICK a : a = IF "CLEAR" \in event_info[t] THEN r.set \ w ELSE r.set
    OBVIOUS
  <2>3. PICK v : v = Serve(r, t)
    OBVIOUS
  <2>4. /\ v.k = rt_thread_resume(r.k, t) /\ v.set = a
        /\ v.want = [r.want EXCEPT ![t] = w]
        /\ v.claims = Claim(r.claims, w, event_info[t])
    BY <1>8, <1>12, <2>1, <2>2, <2>3 DEF Serve
  <2>5. w \subseteq Flag /\ w \subseteq r.set /\ ToldOf(event_info[t], event_set[t], w)
        /\ r.set \subseteq Flag
    BY <1>6, <1>8, <1>12, <2>1 DEF Satisfied, ToldOf
  <2>6. v.claims \in [Flag -> {0, 1}] /\ \A f \in v.set : v.claims[f] = 0
    <3>1. PICK c : c = r.claims
      OBVIOUS
    <3>2. PICK b : b = r.set
      OBVIOUS
    <3>3. PICK o : o = event_info[t]
      OBVIOUS
    <3>4. /\ c \in [Flag -> {0, 1}] /\ \A f \in b : f \in Flag /\ c[f] = 0
          /\ w \subseteq b
      BY <1>6, <2>5, <3>1, <3>2
    <3>5. v.claims = Claim(c, w, o) /\ v.set = IF "CLEAR" \in o THEN b \ w ELSE b
      BY <2>2, <2>4, <3>1, <3>2, <3>3
    <3>6. Claim(c, w, o) \in [Flag -> {0, 1}]
      BY <3>4, ClaimOnce
    <3>7. ASSUME NEW f \in v.set
          PROVE  Claim(c, w, o)[f] = 0
      <4>1. f \in b /\ ("CLEAR" \in o => f \notin w)
        BY <3>5
      <4>2. Claim(c, w, o)[f] = c[f]
        BY <3>4, <4>1, UnclaimedStays
      <4>3. QED BY <3>4, <4>1, <4>2
    <3>8. QED BY <3>5, <3>6, <3>7
  <2>7. k.stat[t] = "SUSPEND" /\ k.error[t] = "EOK"
    BY <1>1, <1>3, <1>4, QueuedIsSuspended DEF KInv, QueuedInWait
  <2>8. KernelOK(r.k) /\ r.k.stat[t] = "SUSPEND" /\ r.k.error[t] = "EOK"
    BY <1>4, <1>6, <1>7, <2>7 DEF Frees
  <2>9. /\ Frees(r.k, {}, {t}, IF r.k.error[t] = "EOK" THEN {t} ELSE {}, v.k)
        /\ v.k.current = r.k.current /\ v.k.error = r.k.error
    <3>1. PICK b : b = r.k
      OBVIOUS
    <3>2. KernelOK(b) /\ b.stat[t] = "SUSPEND" /\ v.k = rt_thread_resume(b, t)
      BY <2>4, <2>8, <3>1
    <3>3. LET y == rt_thread_resume(b, t)
          IN  /\ Frees(b, {}, {t}, IF b.error[t] = "EOK" THEN {t} ELSE {}, y)
              /\ y.current = b.current /\ y.error = b.error
      BY <1>4, <3>2, ResumeFrees
    <3>4. QED BY <3>1, <3>2, <3>3
  <2>10. Frees(r.k, {}, {t}, {t}, v.k)
    BY <2>8, <2>9
  <2>11. PICK V : V = T \cup {t}
    OBVIOUS
  <2>12. Frees(k, {}, V, V, v.k)
    BY <1>6, <1>7, <2>9, <2>10, <2>11, FreesTwice
  <2>13. /\ v.want \in [Thread -> SUBSET Flag]
         /\ \A u \in Thread \ V : v.want[u] = event_set[u]
         /\ \A u \in V : ToldOf(event_info[u], event_set[u], v.want[u])
    <3>1. v.want \in [Thread -> SUBSET Flag] /\ v.want[t] = w
          /\ \A u \in Thread \ {t} : v.want[u] = r.want[u]
      BY <1>4, <1>6, <2>4, <2>5
    <3>2. T \subseteq Thread
      BY <1>6 DEF Frees
    <3>3. QED BY <1>6, <2>5, <2>11, <3>1, <3>2
  <2>14. v.set \subseteq r.set
    BY <2>2, <2>4
  <2>15. \A j \in 1 .. n + 1 :
           q[j] \notin V => ~ Satisfied(v.set, event_set[q[j]], event_info[q[j]])
    <3> SUFFICES ASSUME NEW j \in 1 .. n + 1, q[j] \notin V,
                        Satisfied(v.set, event_set[q[j]], event_info[q[j]])
                 PROVE  FALSE
      OBVIOUS
    <3>1. j \in 1 .. n /\ q[j] \notin T
      BY <1>9, <2>11
    <3>2. Satisfied(r.set, event_set[q[j]], event_info[q[j]])
      BY <2>14, SatisfiedByMore
    <3>3. QED BY <1>6, <3>1, <3>2
  <2>16. V # {} /\ V \subseteq {q[j] : j \in 1 .. n + 1}
    BY <1>6, <1>10, <2>11
  <2>17. v.set \subseteq set \cup s /\ v.k.current = k.current /\ v.k.error = k.error
    BY <1>6, <2>9, <2>14
  <2>18. ServedSoFar(s, n + 1, v, V)
    BY <1>1, <2>6, <2>12, <2>13, <2>15, <2>16, <2>17 DEF ServedSoFar
  <2>19. QED BY <1>1, <1>2, <2>3, <2>18
<1>13. QED BY <1>11, <1>12

\* All rounds.
LEMMA AllServed ==
  ASSUME KInv, EventInv, NEW s \in SUBSET Flag
  PROVE  \E T : ServedSoFar(s, Len(k.waitq[suspend_thread]), Served(s), T)
<1> DEFINE q == k.waitq[suspend_thread]
           r == Rounds(s)
           Bad == {m \in 0 .. Len(q) : ~ \E T : ServedSoFar(s, m, r[m], T)}
<1>1. Len(q) \in Nat
  BY Fields, IpcAssumption DEF KInv, KernelSound, KernelOK
<1>2. r[0] = Before(s) /\ \A n \in 1 .. Len(q) : r[n] = Serve(r[n - 1], q[n])
  BY RoundsAre
<1>3. ASSUME Bad # {} PROVE FALSE
  <2>1. PICK m \in 0 .. Len(q) : m \in Bad /\ \A j \in Bad : m <= j
    <3>1. Bad \in SUBSET Nat
      BY DEF Bad
    <3>2. Min(Bad) \in Bad /\ \A j \in Bad : Min(Bad) <= j
      BY <1>3, <3>1, MinProperties
    <3>3. QED BY <3>2 DEF Bad
  <2>2. ~ \E T : ServedSoFar(s, m, r[m], T)
    BY <2>1 DEF Bad
  <2>3. \A j \in 0 .. Len(q) : j < m => \E T : ServedSoFar(s, j, r[j], T)
    BY <2>1 DEF Bad
  <2>4. m # 0
    BY <1>2, <2>2, NothingServed
  <2>5. PICK n \in Nat : m = n + 1
    BY <2>4
  <2>6. n \in 0 .. Len(q) /\ n < m /\ n + 1 \in 1 .. Len(q)
    BY <1>1, <2>5
  <2>7. PICK T : ServedSoFar(s, n, r[n], T)
    BY <2>3, <2>6
  <2>8. r[n + 1] = Serve(r[n], q[n + 1])
    BY <1>2, <2>6
  <2>9. \E V : ServedSoFar(s, n + 1, Serve(r[n], q[n + 1]), V)
    BY <2>6, <2>7, ServeOne
  <2>10. QED BY <2>2, <2>5, <2>8, <2>9
<1>4. Len(q) \notin Bad
  BY <1>3
<1>5. \E T : ServedSoFar(s, Len(q), r[Len(q)], T)
  BY <1>1, <1>4
<1>6. QED BY <1>5 DEF Served

\* What the event does in a step that frees U, and moves X.
EventMoves(X, U, W) ==
  /\ EventTypeOK'
  /\ \A f \in Flag : claims'[f] \in {0, 1}
  /\ \A f \in set' : claims'[f] = 0
  /\ \A u \in Thread \ X :
       /\ asked'[u] = asked[u] /\ event_info'[u] = event_info[u]
       /\ u \notin W => event_set'[u] = event_set[u]
       /\ u \in W => ToldOf(event_info[u], event_set[u], event_set'[u])
  /\ \A u \in ToSet(k.waitq[suspend_thread]) \ U :
       ~ Satisfied(set', event_set[u], event_info[u])

LEMMA EventRelaxesKeeps ==
  ASSUME KInv, EventInv, NEW X \in SUBSET Thread, NEW U, NEW W, Relaxes(X, U, W),
         EventMoves(X, U, W)
  PROVE  EventInv'
<1>1. /\ W \subseteq U /\ suspend_thread \in Object
      /\ \A u \in U : k.stat[u] = "SUSPEND" /\ (k'.error[u] = "EOK" <=> u \in W)
      /\ \A u \in Thread : k'.stat[u] = IF u \in U THEN "READY" ELSE k.stat[u]
      /\ \A o \in Object : ToSet(k'.waitq[o]) = ToSet(k.waitq[o]) \ U
      /\ \A u \in Thread \ (U \cup X) : k'.error[u] = k.error[u]
  BY IpcAssumption DEF Relaxes, Frees
<1>2. /\ \A u \in X : k.stat[u] = "READY" /\ Where(u)' # "event"
      /\ \A u \in Thread \ X : Where(u)' = Where(u)
  BY DEF Relaxes, OthersStay, Waits
<1>3. /\ EventTypeOK'
      /\ \A f \in Flag : claims'[f] \in {0, 1}
      /\ \A f \in set' : claims'[f] = 0
      /\ \A u \in Thread \ X :
           /\ asked'[u] = asked[u] /\ event_info'[u] = event_info[u]
           /\ u \notin W => event_set'[u] = event_set[u]
           /\ u \in W => ToldOf(event_info[u], event_set[u], event_set'[u])
      /\ \A u \in ToSet(k.waitq[suspend_thread]) \ U :
           ~ Satisfied(set', event_set[u], event_info[u])
  BY DEF EventMoves
<1>4. NoWaiterBesideFlags'
  <2> SUFFICES ASSUME NEW u \in ToSet(k'.waitq[suspend_thread])
               PROVE  ~ Satisfied(set', event_set'[u], event_info'[u])
    BY DEF NoWaiterBesideFlags, Satisfied
  <2>1. u \in ToSet(k.waitq[suspend_thread]) /\ u \notin U
    BY <1>1
  <2>2. u \in Thread /\ k.stat[u] = "SUSPEND"
    BY <1>1, <2>1, QueuedIsSuspended
  <2>3. u \in Thread \ X /\ u \notin W
    BY <1>1, <1>2, <2>1, <2>2
  <2>4. event_set'[u] = event_set[u] /\ event_info'[u] = event_info[u]
    BY <1>3, <2>3
  <2>5. ~ Satisfied(set', event_set[u], event_info[u])
    BY <1>3, <2>1
  <2>6. QED BY <2>4, <2>5
<1>5. ASSUME NEW u \in Thread, Where(u)' = "event"
      PROVE  /\ k'.stat[u] = "SUSPEND" => event_set'[u] = asked'[u]
             /\ k'.stat[u] = "READY" /\ k'.error[u] = "EOK" =>
                  ToldOf(event_info'[u], asked'[u], event_set'[u])
  <2>1. u \notin X /\ Where(u) = "event"
    BY <1>2, <1>5
  <2>2. /\ k.stat[u] = "SUSPEND" => event_set[u] = asked[u]
        /\ k.stat[u] = "READY" /\ k.error[u] = "EOK" =>
             ToldOf(event_info[u], asked[u], event_set[u])
    BY <2>1 DEF EventInv
  <2>3. asked'[u] = asked[u] /\ event_info'[u] = event_info[u]
    BY <1>3, <2>1
  <2>4. CASE u \in W
    <3>1. k.stat[u] = "SUSPEND" /\ k'.stat[u] = "READY"
      BY <1>1, <2>4
    <3>2. ToldOf(event_info[u], event_set[u], event_set'[u])
      BY <1>3, <2>1, <2>4
    <3>3. QED BY <2>2, <2>3, <3>1, <3>2
  <2>5. CASE u \in U \ W
    BY <1>1, <2>5
  <2>6. CASE u \notin U
    <3>1. u \notin W /\ k'.stat[u] = k.stat[u] /\ k'.error[u] = k.error[u]
      BY <1>1, <2>1, <2>6
    <3>2. event_set'[u] = event_set[u]
      BY <1>3, <2>1, <3>1
    <3>3. QED BY <2>2, <2>3, <3>1, <3>2
  <2>7. QED BY <2>4, <2>5, <2>6
<1>6. QED BY <1>3, <1>4, <1>5 DEF EventInv

LEMMA EventRests ==
  ASSUME KInv, EventInv, UNCHANGED event, NEW X, NEW U
  PROVE  EventMoves(X, U, {})
<1>1. /\ set' = set /\ event_set' = event_set /\ event_info' = event_info
      /\ asked' = asked /\ claims' = claims
  BY DEF event
<1>2. EventTypeOK'
  BY <1>1 DEF EventInv, EventTypeOK
<1>3. QED BY <1>1, <1>2 DEF EventMoves, EventInv, NoWaiterBesideFlags

\* rt_event_send.
LEMMA SendsFrees ==
  ASSUME KInv, EventInv, NEW s \in FlagSet, Sends(s), NEW X
  PROVE  \E T : /\ Frees(k, {}, T, T, k') /\ k'.current = k.current
                /\ T \subseteq ToSet(k.waitq[suspend_thread]) /\ (T = {} => k' = k)
                /\ EventMoves(X, T, T)
<1>1. PICK q : q = k.waitq[suspend_thread]
  OBVIOUS
<1>2. q \in Seq(Thread) /\ suspend_thread \in Object
  BY <1>1, Fields, IpcAssumption DEF KInv, KernelSound, KernelOK
<1>3. PICK r : r = Served(s)
  OBVIOUS
<1>4. s \in SUBSET Flag
  BY DEF FlagSet
<1>5. PICK T : ServedSoFar(s, Len(q), r, T)
  BY <1>1, <1>3, <1>4, AllServed
<1>6. /\ k' = r.k /\ set' = r.set /\ event_set' = r.want /\ claims' = r.claims
      /\ event_info' = event_info /\ asked' = asked
  BY <1>3 DEF Sends
<1>7. /\ T \subseteq {q[j] : j \in 1 .. Len(q)}
      /\ Frees(k, {}, T, T, r.k) /\ r.k.current = k.current
      /\ T = {} => r.k = k
      /\ r.set \subseteq set \cup s
      /\ r.want \in [Thread -> SUBSET Flag]
      /\ \A u \in Thread \ T : r.want[u] = event_set[u]
      /\ \A u \in T : ToldOf(event_info[u], event_set[u], r.want[u])
      /\ r.claims \in [Flag -> {0, 1}]
      /\ \A f \in r.set : r.claims[f] = 0
      /\ \A j \in 1 .. Len(q) :
           q[j] \notin T => ~ Satisfied(r.set, event_set[q[j]], event_info[q[j]])
  BY <1>1, <1>5 DEF ServedSoFar
<1>8. ToSet(q) = {q[j] : j \in 1 .. Len(q)}
  BY <1>2, MembersOf
<1>9. EventTypeOK'
  BY <1>4, <1>6, <1>7 DEF EventInv, EventTypeOK
<1>10. \A u \in ToSet(q) \ T : ~ Satisfied(set', event_set[u], event_info[u])
  BY <1>6, <1>7, <1>8
<1>11. EventMoves(X, T, T)
  BY <1>1, <1>6, <1>7, <1>9, <1>10 DEF EventMoves
<1>12. QED BY <1>1, <1>6, <1>7, <1>8, <1>11

LEMMA EventSendRelaxes ==
  ASSUME KInv, EventInv, NEW t \in Thread, NEW s \in FlagSet, rt_event_send(t, s), using' = using
  PROVE  \E T : /\ Relaxes({t}, T, T) /\ Where(t)' = "run" /\ k'.current = k.current
                /\ pc'[t] = "sched" \/ k' = k
                /\ EventMoves({t}, T, T)
<1>1. /\ Running(t) /\ pc[t] = "run" /\ pc[t] # "sched" /\ Sends(s)
      /\ UNCHANGED <<primask, systick, device>> /\ UNCHANGED waiting
  BY DEF rt_event_send, Calls
<1>2. LocalsTyped /\ pc \in [Thread -> AllPoints]
  BY <1>1, RunnerIsReady DEF LocalsTyped
<1>3. Flags /\ Forgets({t})
  BY <1>1, <1>2, WaitingForgets DEF Flags, LocalsTyped
<1>4. PICK T : /\ Frees(k, {}, T, T, k') /\ k'.current = k.current
               /\ T \subseteq ToSet(k.waitq[suspend_thread]) /\ (T = {} => k' = k)
               /\ EventMoves({t}, T, T)
  BY <1>1, SendsFrees
<1>5. CASE k'.waitq # k.waitq
  <2>1. ThenSchedule(t, "run")
    BY <1>5 DEF rt_event_send
  <2>2. pc'[t] = "sched"
    BY <1>2, <2>1 DEF ThenSchedule
  <2>3. Relaxes({t}, T, T) /\ Where(t)' = "run"
    BY <1>1, <1>3, <1>4, <2>1, ThreadWakes
  <2>4. QED BY <1>4, <2>2, <2>3
<1>6. CASE k'.waitq = k.waitq
  <2>1. PICK d \in AllPoints \ (Waits \cup {"sched", "alloc_test"}) : d = "run"
    BY DEF AllPoints, Point, Continuation, Waits
  <2>2. Goto(t, d)
    BY <1>6, <2>1 DEF rt_event_send
  <2>3. Relaxes({t}, T, T) /\ Where(t)' = d
    BY <1>1, <1>3, <1>4, <2>2, GoesOnRelaxes
  <2>4. T = {}
    <3>1. ToSet(k'.waitq[suspend_thread]) = ToSet(k.waitq[suspend_thread]) \ T
      BY <1>4, IpcAssumption DEF Frees
    <3>2. QED BY <1>4, <1>6, <3>1
  <2>5. QED BY <1>4, <2>1, <2>3, <2>4
<1>7. QED BY <1>5, <1>6

LEMMA DeviceEventRelaxes ==
  ASSUME KInv, EventInv, NEW s \in FlagSet, DeviceEventSend(s), using' = using
  PROVE  \E T : /\ Relaxes({}, T, T) /\ EventMoves({}, T, T)
                /\ device' \/ k' = k
<1>1. /\ Sends(s) /\ pc' = pc /\ cont' = cont /\ UNCHANGED waiting
      /\ UNCHANGED <<primask, systick>> /\ device' = (k'.waitq # k.waitq)
  BY DEF DeviceEventSend
<1>2. Flags
  BY <1>1 DEF Flags, KInv, LocalsTyped
<1>3. PICK T : /\ Frees(k, {}, T, T, k') /\ k'.current = k.current
               /\ T \subseteq ToSet(k.waitq[suspend_thread]) /\ (T = {} => k' = k)
               /\ EventMoves({}, T, T)
  BY <1>1, SendsFrees
<1>4. Relaxes({}, T, T)
  BY <1>1, <1>2, <1>3, NobodyMoves
<1>5. device' \/ T = {}
  <2>1. ToSet(k'.waitq[suspend_thread]) = ToSet(k.waitq[suspend_thread]) \ T
    BY <1>3, IpcAssumption DEF Frees
  <2>2. QED BY <1>1, <1>3, <2>1
<1>6. QED BY <1>3, <1>4, <1>5

LEMMA EventRecvRelaxes ==
  ASSUME KInv, EventInv, NEW t \in Thread, NEW w \in SUBSET Flag, NEW o, EventRecv(t, w, o),
         using' = using
  PROVE  /\ Relaxes({t}, {}, {}) /\ EventMoves({t}, {}, {}) /\ Where(t)' = "run"
         /\ k' = [k EXCEPT !.error[t] = "EOK"]
<1>1. /\ Running(t) /\ pc[t] = "run" /\ Satisfied(set, w, o)
      /\ k' = [k EXCEPT !.error[t] = "EOK"]
      /\ set' = IF "CLEAR" \in o THEN set \ w ELSE set
      /\ claims' = Claim(claims, set \cap w, o)
      /\ pc' = pc /\ cont' = cont /\ UNCHANGED waiting
      /\ UNCHANGED <<primask, systick, device>> /\ UNCHANGED <<event_set, event_info, asked>>
  BY DEF EventRecv, Calls
<1>2. LocalsTyped /\ pc \in [Thread -> AllPoints]
  BY <1>1, RunnerIsReady DEF LocalsTyped
<1>3. Flags /\ Forgets({t}) /\ pc[t] # "sched"
  BY <1>1, <1>2, WaitingForgets DEF Flags, LocalsTyped
<1>4. PICK d \in AllPoints \ (Waits \cup {"sched", "alloc_test"}) : d = "run"
  BY DEF AllPoints, Point, Continuation, Waits
<1>5. Goto(t, d)
  BY <1>1, <1>2, <1>4 DEF Goto
<1>6. \E e \in Error : k' = [k EXCEPT !.error[t] = e]
  BY <1>1 DEF Error
<1>7. Relaxes({t}, {}, {}) /\ Where(t)' = d
  BY <1>1, <1>3, <1>4, <1>5, <1>6, ThreadRests
<1>8. /\ set \subseteq Flag /\ (\A f \in Flag : claims[f] \in {0, 1})
      /\ (\A f \in set : claims[f] = 0) /\ event_set \in [Thread -> SUBSET Flag]
  BY DEF EventInv, EventTypeOK
<1>9. set' \subseteq set
  BY <1>1
<1>10. EventTypeOK'
  BY <1>1, <1>9 DEF EventInv, EventTypeOK
<1>11. (\A f \in Flag : claims'[f] \in {0, 1}) /\ (\A f \in set' : claims'[f] = 0)
  <2>1. CASE "CLEAR" \notin o
    BY <1>1, <1>8, <2>1 DEF Claim
  <2>2. CASE "CLEAR" \in o
    <3>1. claims' = [f \in Flag |-> IF f \in set \cap w THEN claims[f] + 1 ELSE claims[f]]
      BY <1>1, <2>2 DEF Claim
    <3>2. \A f \in Flag : (IF f \in set \cap w THEN claims[f] + 1 ELSE claims[f]) \in {0, 1}
      BY <1>8
    <3>3. \A f \in Flag : claims'[f] \in {0, 1}
      BY <3>1, <3>2
    <3>4. \A f \in set \ w : claims'[f] = 0
      BY <1>8, <3>1
    <3>5. QED BY <1>1, <2>2, <3>3, <3>4
  <2>3. QED BY <2>1, <2>2
<1>12. \A u \in ToSet(k.waitq[suspend_thread]) : ~ Satisfied(set', event_set[u], event_info[u])
  BY <1>9, SatisfiedByMore DEF EventInv, NoWaiterBesideFlags
<1>13. EventMoves({t}, {}, {})
  BY <1>1, <1>10, <1>11, <1>12 DEF EventMoves
<1>14. QED BY <1>1, <1>4, <1>7, <1>13

LEMMA EventReturnRelaxes ==
  ASSUME KInv, EventInv, NEW t \in Thread, EventRecvReturn(t), using' = using
  PROVE  Relaxes({t}, {}, {}) /\ EventMoves({t}, {}, {}) /\ Where(t)' = "run" /\ k' = k
<1>1. /\ Running(t) /\ pc[t] = "event" /\ k' = k /\ Goto(t, "run") /\ Forget(t)
      /\ event_set' = [event_set EXCEPT ![t] = {}]
      /\ event_info' = [event_info EXCEPT ![t] = {}]
      /\ asked' = [asked EXCEPT ![t] = {}]
      /\ UNCHANGED <<primask, systick, device>> /\ UNCHANGED <<set, claims>>
  BY DEF EventRecvReturn
<1>2. Flags /\ Forgets({t})
  BY <1>1, RunnerIsReady, ForgetForgets DEF Flags, LocalsTyped
<1>3. PICK d \in AllPoints \ (Waits \cup {"sched", "alloc_test"}) : d = "run"
  BY DEF AllPoints, Point, Continuation, Waits
<1>4. Relaxes({t}, {}, {}) /\ Where(t)' = d
  BY <1>1, <1>2, <1>3, ThreadRests
<1>5. /\ event_set \in [Thread -> SUBSET Flag] /\ asked \in [Thread -> SUBSET Flag]
      /\ event_info \in [Thread -> SUBSET {"AND", "OR", "CLEAR"}] /\ set \subseteq Flag
  BY DEF EventInv, EventTypeOK
<1>6. EventTypeOK' /\ \A u \in Thread \ {t} : /\ asked'[u] = asked[u]
                                              /\ event_info'[u] = event_info[u]
                                              /\ event_set'[u] = event_set[u]
  BY <1>1, <1>5 DEF EventTypeOK
<1>7. EventMoves({t}, {}, {})
  BY <1>1, <1>6 DEF EventMoves, EventInv, NoWaiterBesideFlags
<1>8. QED BY <1>1, <1>3, <1>4, <1>7

LEMMA EventWaitJoins ==
  ASSUME KInv, EventInv, using = "event", using' = using, NEW t \in Thread,
         NEW w \in SUBSET Flag, NEW o \in SUBSET {"AND", "OR", "CLEAR"},
         NEW time \in WaitTimes[t], EventRecvWait(t, w, o, time)
  PROVE  Joins(t, suspend_thread, "event") /\ EventInv'
<1>1. /\ Running(t) /\ pc[t] = "run" /\ pc[t] # "sched" /\ t # Idle /\ ~ Satisfied(set, w, o)
      /\ Await(t, Queued(t, suspend_thread), "event", time) /\ Begins(t, time)
      /\ event_set' = [event_set EXCEPT ![t] = w]
      /\ event_info' = [event_info EXCEPT ![t] = o]
      /\ asked' = [asked EXCEPT ![t] = w]
      /\ set' = set /\ claims' = claims
  BY DEF EventRecvWait, Calls
<1>2. PICK c \in Waits : c = "event"
  BY DEF Waits
<1>3. WaitPoint(suspend_thread, c) /\ suspend_thread \in Object
  BY <1>2, IpcAssumption DEF WaitPoint
<1>4. Joins(t, suspend_thread, c)
  BY <1>1, <1>2, <1>3, FirstWaitJoins
<1>5. /\ event_set \in [Thread -> SUBSET Flag] /\ asked \in [Thread -> SUBSET Flag]
      /\ event_info \in [Thread -> SUBSET {"AND", "OR", "CLEAR"}] /\ set \subseteq Flag
  BY DEF EventInv, EventTypeOK
<1>6. /\ EventTypeOK' /\ event_set'[t] = w /\ asked'[t] = w /\ event_info'[t] = o
      /\ \A u \in Thread \ {t} : /\ asked'[u] = asked[u] /\ event_info'[u] = event_info[u]
                                 /\ event_set'[u] = event_set[u]
  BY <1>1, <1>5 DEF EventTypeOK
<1>7. /\ k.stat \in [Thread -> Stat] /\ k.error \in [Thread -> Error]
      /\ k'.stat = [k.stat EXCEPT ![t] = "SUSPEND"]
      /\ ToSet(k'.waitq[suspend_thread]) = ToSet(k.waitq[suspend_thread]) \cup {t}
      /\ k'.error = [k.error EXCEPT ![t] = "EOK"]
      /\ \A u \in Thread \ {t} : Where(u)' = Where(u)
  BY <1>3, <1>4, Fields DEF Joins, Enters, OthersStay, KInv, KernelSound, KernelOK
<1>8. k'.stat[t] = "SUSPEND"
      /\ \A u \in Thread \ {t} : k'.stat[u] = k.stat[u] /\ k'.error[u] = k.error[u]
  BY <1>7
<1>9. NoWaiterBesideFlags'
  <2> SUFFICES ASSUME NEW u \in ToSet(k'.waitq[suspend_thread])
               PROVE  ~ Satisfied(set', event_set'[u], event_info'[u])
    BY DEF NoWaiterBesideFlags, Satisfied
  <2>1. CASE u = t
    BY <1>1, <1>6, <2>1
  <2>2. CASE u # t
    <3>1. u \in ToSet(k.waitq[suspend_thread])
      BY <1>7, <2>2
    <3>2. u \in Thread /\ ~ Satisfied(set, event_set[u], event_info[u])
      BY <1>3, <3>1, QueuedIsSuspended DEF EventInv, NoWaiterBesideFlags
    <3>3. event_set'[u] = event_set[u] /\ event_info'[u] = event_info[u]
      BY <1>6, <2>2, <3>2
    <3>4. QED BY <1>1, <3>2, <3>3
  <2>3. QED BY <2>1, <2>2
<1>10. ASSUME NEW u \in Thread, Where(u)' = "event"
       PROVE  /\ k'.stat[u] = "SUSPEND" => event_set'[u] = asked'[u]
              /\ k'.stat[u] = "READY" /\ k'.error[u] = "EOK" =>
                   ToldOf(event_info'[u], asked'[u], event_set'[u])
  <2>1. CASE u = t
    BY <1>6, <1>8, <2>1
  <2>2. CASE u # t
    <3>1. Where(u) = "event" /\ k'.stat[u] = k.stat[u] /\ k'.error[u] = k.error[u]
      BY <1>7, <1>8, <1>10, <2>2
    <3>2. /\ k.stat[u] = "SUSPEND" => event_set[u] = asked[u]
          /\ k.stat[u] = "READY" /\ k.error[u] = "EOK" =>
               ToldOf(event_info[u], asked[u], event_set[u])
      BY <3>1 DEF EventInv
    <3>3. event_set'[u] = event_set[u] /\ asked'[u] = asked[u] /\ event_info'[u] = event_info[u]
      BY <1>6, <2>2
    <3>4. QED BY <3>1, <3>2, <3>3
  <2>3. QED BY <2>1, <2>2
<1>11. EventInv'
  BY <1>1, <1>6, <1>9, <1>10 DEF EventInv
<1>12. QED BY <1>2, <1>4, <1>11

LEMMA EventKeeps ==
  ASSUME KInv, EventInv, using = "event", using' = using, EventNext
  PROVE  KInv' /\ EventInv'
<1>1. ASSUME NEW X \in SUBSET Thread, NEW U, NEW W, Relaxes(X, U, W), EventMoves(X, U, W)
      PROVE  KInv' /\ EventInv'
  BY <1>1, RelaxesKeeps, EventRelaxesKeeps
<1>2. ASSUME NEW X \in SUBSET Thread, NEW U, Relaxes(X, U, {}), UNCHANGED event
      PROVE  KInv' /\ EventInv'
  BY <1>1, <1>2, EventRests
<1>3. ASSUME NEW t \in Thread, ResetEnd(t), EventTypeOK', set' = {} \/ set' = set,
             UNCHANGED <<event_set, event_info, asked, claims>>
      PROVE  KInv' /\ EventInv'
  <2>1. Relaxes({t}, {}, {})
    BY <1>3, ResetEndRelaxes
  <2>2. set' \subseteq set
    BY <1>3
  <2>3. \A u \in ToSet(k.waitq[suspend_thread]) : ~ Satisfied(set', event_set[u], event_info[u])
    BY <2>2, SatisfiedByMore DEF EventInv, NoWaiterBesideFlags
  <2>4. EventMoves({t}, {}, {})
    BY <1>3, <2>2, <2>3 DEF EventMoves, EventInv
  <2>5. QED BY <1>1, <2>1, <2>4
<1>4. ASSUME NEW t \in Thread, EventStep(t)
      PROVE  KInv' /\ EventInv'
  <2>1. CASE Schedule(t) /\ UNCHANGED waiting /\ UNCHANGED event
    BY <1>2, <2>1, ScheduleRelaxes
  <2>2. ASSUME NEW o \in Object, NEW c \in {"run", "senders_test"}, DetachTest(t, o, c),
               UNCHANGED event
        PROVE  KInv' /\ EventInv'
    BY <1>2, <2>2, DetachTestRelaxes
  <2>3. CASE ResetResume(t) /\ UNCHANGED event
    BY <1>2, <2>3, ResetResumeRelaxes
  <2>4. ASSUME NEW o \in Object, DetachResume(t, o), UNCHANGED event
        PROVE  KInv' /\ EventInv'
    BY <1>2, <2>4, DetachResumeRelaxes
  <2>5. CASE EventRecvReturn(t)
    BY <1>1, <2>5, EventReturnRelaxes
  <2>6. CASE EventReset(t)
    <3>1. /\ ResetEnd(t) /\ set' = {}
          /\ UNCHANGED <<event_set, event_info, asked, claims>>
      BY <2>6 DEF EventReset
    <3>2. EventTypeOK'
      BY <3>1 DEF EventInv, EventTypeOK
    <3>3. QED BY <1>3, <3>1, <3>2
  <2>7. ObjectStep(t, "run") => AnyStep(t)
    BY StepsAre
  <2>8. QED BY <1>4, <2>1, <2>2, <2>3, <2>4, <2>5, <2>6, <2>7 DEF EventStep, AnyStep, IpcStep
<1>5. ASSUME NEW t \in Thread, EventCall(t)
      PROVE  KInv' /\ EventInv'
  <2>1. CASE ResetCall(t) /\ UNCHANGED event
    BY <1>2, <2>1, ResetCallRelaxes
  <2>2. CASE DetachCall(t) /\ UNCHANGED event
    BY <1>2, <2>2, DetachCallRelaxes
  <2>3. ASSUME NEW s \in FlagSet, rt_event_send(t, s)
        PROVE  KInv' /\ EventInv'
    BY <1>1, <2>3, EventSendRelaxes
  <2>4. ASSUME NEW w \in SUBSET Flag, NEW o \in SUBSET {"AND", "OR", "CLEAR"},
               \/ EventRecv(t, w, o)
               \/ \E time \in WaitTimes[t] : EventRecvWait(t, w, o, time)
        PROVE  KInv' /\ EventInv'
    <3>1. CASE EventRecv(t, w, o)
      BY <1>1, <3>1, EventRecvRelaxes
    <3>2. ASSUME NEW time \in WaitTimes[t], EventRecvWait(t, w, o, time)
          PROVE  KInv' /\ EventInv'
      <4>1. Joins(t, suspend_thread, "event") /\ EventInv'
        BY <3>2, EventWaitJoins
      <4>2. PICK c \in Waits : c = "event"
        BY DEF Waits
      <4>3. suspend_thread \in Object
        BY IpcAssumption
      <4>4. KInv'
        BY <4>1, <4>2, <4>3, JoinsKeeps
      <4>5. QED BY <4>1, <4>4
    <3>3. QED BY <2>4, <3>1, <3>2
  <2>5. ASSUME NEW a \in Asks[t],
               \/ EventRecv(t, a.flags, a.option)
               \/ \E time \in WaitTimes[t] : EventRecvWait(t, a.flags, a.option, time)
        PROVE  KInv' /\ EventInv'
    <3>1. a.flags \in SUBSET Flag /\ a.option \in SUBSET {"AND", "OR", "CLEAR"}
      BY EventAssumption
    <3>2. PICK w \in SUBSET Flag : w = a.flags
      BY <3>1
    <3>3. PICK o \in SUBSET {"AND", "OR", "CLEAR"} : o = a.option
      BY <3>1
    <3>4. QED BY <2>4, <2>5, <3>2, <3>3
  <2>6. QED BY <1>5, <2>1, <2>2, <2>3, <2>5 DEF EventCall, ObjectCall
<1>6. CASE EventHandler
  <2>1. CASE IpcHandler /\ UNCHANGED event
    BY <1>2, <2>1, HandlerRelaxes
  <2>2. ASSUME NEW s \in FlagSet, DeviceEventSend(s)
        PROVE  KInv' /\ EventInv'
    BY <1>1, <2>2, DeviceEventRelaxes
  <2>3. QED BY <1>6, <2>1, <2>2 DEF EventHandler
<1>7. QED BY <1>4, <1>5, <1>6 DEF EventNext

-----------------------------------------------------------------------------
(***************************************************************************)
(* The woken threads.  As long as threads wait on a list there is a woken  *)
(* one on its way for everything they wait for.                            *)
(***************************************************************************)
\* Enough of D are on their way for n things, if any thread is in Q.
Backed(Q, n, D) == Q # {} => n <= Cardinality(D)

\* n becomes m, D becomes E and Q becomes R.
LEMMA BackedKeeps ==
  ASSUME NEW D \in SUBSET Thread, NEW E \in SUBSET Thread, NEW n \in Int, NEW m \in Int,
         NEW Q, NEW R \in SUBSET Q, Backed(Q, n, D),
         \/ m <= 0
         \/ m <= n /\ D \subseteq E
         \/ m <= n - 1 /\ \E t : D \ {t} \subseteq E
         \/ m <= n + 1 /\ (Q # {} => \E h \in E \ D : D \subseteq E)
  PROVE  Backed(R, m, E)
<1>1. IsFiniteSet(D) /\ IsFiniteSet(E)
  BY ThreadFinite, FS_Subset
<1>2. Cardinality(D) \in Nat /\ Cardinality(E) \in Nat
  BY <1>1, FS_CardinalityType
<1> SUFFICES ASSUME R # {} PROVE m <= Cardinality(E)
  BY DEF Backed
<1>3. n <= Cardinality(D) /\ Q # {}
  BY DEF Backed
<1>4. CASE m <= 0
  BY <1>2, <1>4
<1>5. CASE m <= n /\ D \subseteq E
  <2>1. Cardinality(D) <= Cardinality(E)
    BY <1>1, <1>5, FS_Subset
  <2>2. QED BY <1>2, <1>3, <1>5, <2>1
<1>6. CASE m <= n - 1 /\ \E t : D \ {t} \subseteq E
  <2>1. PICK t : D \ {t} \subseteq E
    BY <1>6
  <2>2. IsFiniteSet(D \ {t})
        /\ Cardinality(D \ {t}) = IF t \in D THEN Cardinality(D) - 1 ELSE Cardinality(D)
    BY <1>1, FS_RemoveElement
  <2>3. Cardinality(D \ {t}) <= Cardinality(E)
    BY <1>1, <2>1, FS_Subset
  <2>4. QED BY <1>2, <1>3, <1>6, <2>2, <2>3
<1>7. CASE m <= n + 1 /\ (Q # {} => \E h \in E \ D : D \subseteq E)
  <2>1. PICK h \in E \ D : D \subseteq E
    BY <1>3, <1>7
  <2>2. IsFiniteSet(D \cup {h}) /\ Cardinality(D \cup {h}) = Cardinality(D) + 1
    BY <1>1, <2>1, FS_AddElement
  <2>3. D \cup {h} \in SUBSET E
    BY <2>1
  <2>4. Cardinality(D \cup {h}) <= Cardinality(E)
    BY <1>1, <2>3, FS_Subset
  <2>5. QED BY <1>2, <1>3, <1>7, <2>2, <2>4
<1>8. QED BY <1>4, <1>5, <1>6, <1>7

LEMMA WokenIs ==
  ASSUME NEW c \in Waits \cup {"alloc_test"}
  PROVE  /\ Woken(c) = {u \in Thread : /\ Where(u) = c /\ k.stat[u] = "READY"
                                       /\ k.error[u] = "EOK"}
         /\ Woken(c)' = {u \in Thread : /\ Where(u)' = c /\ k'.stat[u] = "READY"
                                        /\ k'.error[u] = "EOK"}
BY DEF Woken, Where, Waits

LEMMA WokenRelaxes ==
  ASSUME KInv, NEW X \in SUBSET Thread, NEW U, NEW W, Relaxes(X, U, W), NEW c \in Waits
  PROVE  Woken(c)' = (Woken(c) \ X) \cup {u \in W : Where(u) = c}
<1>1. /\ U \subseteq Thread /\ W \subseteq U
      /\ \A u \in U : k.stat[u] = "SUSPEND" /\ (k'.error[u] = "EOK" <=> u \in W)
      /\ \A u \in Thread : k'.stat[u] = IF u \in U THEN "READY" ELSE k.stat[u]
      /\ \A u \in Thread \ (U \cup X) : k'.error[u] = k.error[u]
  BY DEF Relaxes, Frees
<1>2. /\ \A u \in X : k.stat[u] = "READY" /\ Where(u)' \notin Waits
      /\ \A u \in Thread \ X : Where(u)' = Where(u)
  BY DEF Relaxes, OthersStay
<1>3. ASSUME NEW u \in Thread
      PROVE  u \in Woken(c)' <=> u \in (Woken(c) \ X) \cup {w \in W : Where(w) = c}
  <2>1. CASE u \in X
    <3>1. u \notin Woken(c)' /\ u \notin W
      BY <1>1, <1>2, <2>1, WokenIs
    <3>2. QED BY <2>1, <3>1
  <2>2. CASE u \notin X /\ u \in U
    <3>1. u \in Woken(c)' <=> u \in W /\ Where(u) = c
      BY <1>1, <1>2, <2>2, WokenIs
    <3>2. u \notin Woken(c)
      BY <1>1, <2>2, WokenIs
    <3>3. QED BY <3>1, <3>2
  <2>3. CASE u \notin X /\ u \notin U
    <3>1. u \in Woken(c)' <=> u \in Woken(c)
      BY <1>1, <1>2, <2>3, WokenIs
    <3>2. QED BY <1>1, <2>3, <3>1
  <2>4. QED BY <2>1, <2>2, <2>3
<1>4. Woken(c)' \subseteq Thread /\ Woken(c) \subseteq Thread
  BY WokenIs
<1>5. QED BY <1>1, <1>3, <1>4

\* Nobody is woken while testing for a block.
LEMMA TestsRelaxes ==
  ASSUME KInv, NEW X \in SUBSET Thread, NEW U, NEW W, Relaxes(X, U, W)
  PROVE  Woken("alloc_test")' =
           (Woken("alloc_test") \ X) \cup {u \in X : Where(u)' = "alloc_test"}
<1>0. PICK c \in Waits \cup {"alloc_test"} : c = "alloc_test"
  OBVIOUS
<1>1. /\ U \subseteq Thread /\ W \subseteq U
      /\ \A u \in U : k.stat[u] = "SUSPEND"
      /\ \A u \in Thread : k'.stat[u] = IF u \in U THEN "READY" ELSE k.stat[u]
      /\ \A u \in Thread \ (U \cup X) : k'.error[u] = k.error[u]
  BY DEF Relaxes, Frees
<1>2. /\ \A u \in X : k.stat[u] = "READY" /\ (Where(u)' = c => k'.error[u] = "EOK")
      /\ \A u \in Thread \ X : Where(u)' = Where(u)
  BY <1>0 DEF Relaxes, OthersStay
<1>3. \A u \in U : Where(u) # c
  BY <1>0, <1>1 DEF KInv, SuspendedInWait, Waits
<1>4. ASSUME NEW u \in Thread
      PROVE  u \in Woken(c)' <=> u \in (Woken(c) \ X) \cup {w \in X : Where(w)' = c}
  <2>1. CASE u \in X
    BY <1>1, <1>2, <2>1, WokenIs
  <2>2. CASE u \notin X /\ u \in U
    BY <1>2, <1>3, <2>2, WokenIs
  <2>3. CASE u \notin X /\ u \notin U
    BY <1>1, <1>2, <2>3, WokenIs
  <2>4. QED BY <2>1, <2>2, <2>3
<1>5. Woken(c)' \subseteq Thread /\ Woken(c) \subseteq Thread
  BY WokenIs
<1>6. Woken(c)' = (Woken(c) \ X) \cup {u \in X : Where(u)' = c}
  BY <1>4, <1>5
<1>7. QED BY <1>0, <1>6

LEMMA WokenJoins ==
  ASSUME KInv, NEW t \in Thread, NEW o, NEW d, Joins(t, o, d),
         NEW c \in Waits \cup {"alloc_test"}
  PROVE  Woken(c)' = Woken(c) \ {t}
<1>1. /\ k'.stat = [k.stat EXCEPT ![t] = "SUSPEND"]
      /\ k'.error = [k.error EXCEPT ![t] = "EOK"]
      /\ \A u \in Thread \ {t} : Where(u)' = Where(u)
  BY DEF Joins, Enters, OthersStay
<1>2. k.stat \in [Thread -> Stat] /\ k.error \in [Thread -> Error]
  BY Fields DEF KInv, KernelSound, KernelOK
<1>3. /\ k'.stat[t] = "SUSPEND"
      /\ \A u \in Thread \ {t} : k'.stat[u] = k.stat[u] /\ k'.error[u] = k.error[u]
  BY <1>1, <1>2
<1>4. QED BY <1>1, <1>3, WokenIs

\* The running thread is at one point only.
LEMMA RunnerWoken ==
  ASSUME KInv, NEW t \in Thread, Running(t), pc[t] # "sched",
         NEW c \in Waits \cup {"alloc_test"}, pc[t] # c \/ k.error[t] # "EOK"
  PROVE  t \notin Woken(c)
<1>1. Where(t) = pc[t]
  BY RunnerIsReady
<1>2. QED BY <1>1, WokenIs

-----------------------------------------------------------------------------
\* The set of those that wait on o.
Waiters(o) == ToSet(k.waitq[o])

LEMMA WaitersAre ==
  ASSUME KInv, NEW o \in Object
  PROVE  Waiters(o) \subseteq Thread /\ (k.waitq[o] = << >> <=> Waiters(o) = {})
<1>1. k.waitq[o] \in Seq(Thread)
  BY Fields DEF KInv, KernelSound, KernelOK
<1>2. QED BY <1>1, MembersOf, EmptyThreadList DEF Waiters

LEMMA WaitersRelax ==
  ASSUME NEW X, NEW U, NEW W, Relaxes(X, U, W), NEW o \in Object
  PROVE  Waiters(o)' = Waiters(o) \ U
BY DEF Relaxes, Frees, Waiters

LEMMA WaitersJoin ==
  ASSUME NEW t, NEW o, NEW c, Joins(t, o, c), NEW x \in Object
  PROVE  Waiters(x)' = IF x = o THEN Waiters(x) \cup {t} ELSE Waiters(x)
BY DEF Joins, Enters, Waiters

\* The first of those on o is woken: one more thing, one more on its way.
LEMMA FirstBacks ==
  ASSUME KInv, NEW X \in SUBSET Thread, NEW o \in Object, NEW c \in Waits,
         \A u \in Waiters(o) : Where(u) = c,
         Relaxes(X, FirstOn(o), FirstOn(o)), Woken(c) \cap X = {},
         NEW n \in Int, Backed(Waiters(o), n, Woken(c))
  PROVE  Backed(Waiters(o)', n + 1, Woken(c)')
<1>0. PICK F : F = FirstOn(o)
  OBVIOUS
<1>1. Woken(c)' = Woken(c) \cup {u \in F : Where(u) = c}
  <2>1. Woken(c)' = (Woken(c) \ X) \cup {u \in F : Where(u) = c}
    BY <1>0, WokenRelaxes
  <2>2. QED BY <2>1
<1>2. ASSUME Waiters(o) # {}
      PROVE  \E h \in Woken(c)' \ Woken(c) : Woken(c) \subseteq Woken(c)'
  <2>1. k.waitq[o] # << >>
    BY <1>2, WaitersAre
  <2>2. PICK h : h = Head(k.waitq[o])
    OBVIOUS
  <2>3. h \in Waiters(o) /\ h \in F
    BY <1>0, <2>1, <2>2, FirstIsQueued DEF Waiters, FirstOn
  <2>4. k.stat[h] = "SUSPEND"
    BY <2>3, QueuedIsSuspended DEF Waiters
  <2>5. h \notin Woken(c)
    BY <2>4, WokenIs
  <2>6. QED BY <1>1, <2>3, <2>5
<1>3. Waiters(o)' \subseteq Waiters(o)
  BY WaitersRelax
<1>4. PICK D \in SUBSET Thread : D = Woken(c)
  BY WokenIs
<1>5. PICK E \in SUBSET Thread : E = Woken(c)'
  BY WokenIs
<1>6. PICK R \in SUBSET Waiters(o) : R = Waiters(o)'
  BY <1>3
<1>7. Waiters(o) # {} => \E h \in E \ D : D \subseteq E
  BY <1>2, <1>4, <1>5
<1>8. Backed(R, n + 1, E)
  BY <1>4, <1>7, BackedKeeps
<1>9. QED BY <1>5, <1>6, <1>8

\* Nothing is added, and nobody on its way goes elsewhere.
LEMMA RestBacks ==
  ASSUME KInv, NEW X \in SUBSET Thread, NEW U, NEW W, Relaxes(X, U, W),
         NEW o \in Object, NEW c \in Waits, Woken(c) \cap X = {},
         NEW n \in Int, NEW m \in Int, m <= n, Backed(Waiters(o), n, Woken(c))
  PROVE  Backed(Waiters(o)', m, Woken(c)')
<1>0. Woken(c)' = (Woken(c) \ X) \cup {u \in W : Where(u) = c}
  BY ONLY KInv, X \in SUBSET Thread, Relaxes(X, U, W), c \in Waits, WokenRelaxes
<1>1. Woken(c) \subseteq Woken(c)' /\ Waiters(o)' \subseteq Waiters(o)
  BY <1>0, WaitersRelax
<1>2. PICK D \in SUBSET Thread : D = Woken(c)
  BY WokenIs
<1>3. PICK E \in SUBSET Thread : E = Woken(c)'
  BY WokenIs
<1>4. PICK R \in SUBSET Waiters(o) : R = Waiters(o)'
  BY <1>1
<1>5. Backed(R, m, E)
  BY <1>1, <1>2, <1>3, BackedKeeps
<1>6. QED BY <1>3, <1>4, <1>5

\* The running thread takes one thing, on its way to it or not.
LEMMA TakeBacks ==
  ASSUME KInv, NEW t \in Thread, NEW U, NEW W, Relaxes({t}, U, W),
         NEW o \in Object, NEW c \in Waits,
         NEW n \in Int, Backed(Waiters(o), n, Woken(c))
  PROVE  Backed(Waiters(o)', n - 1, Woken(c)')
<1>0. PICK X \in SUBSET Thread : X = {t}
  OBVIOUS
<1>1. Woken(c) \ {t} \subseteq Woken(c)' /\ Waiters(o)' \subseteq Waiters(o)
  <2>1. Woken(c)' = (Woken(c) \ X) \cup {u \in W : Where(u) = c}
    BY <1>0, WokenRelaxes
  <2>2. QED BY <1>0, <2>1, WaitersRelax
<1>2. PICK D \in SUBSET Thread : D = Woken(c)
  BY WokenIs
<1>3. PICK E \in SUBSET Thread : E = Woken(c)'
  BY WokenIs
<1>4. PICK R \in SUBSET Waiters(o) : R = Waiters(o)'
  BY <1>1
<1>5. \E u : D \ {u} \subseteq E
  BY <1>1, <1>2, <1>3
<1>6. PICK m \in Int : m = n - 1
  OBVIOUS
<1>7. Backed(R, m, E)
  <2>1. Backed(Waiters(o), n, D) /\ m <= n - 1 /\ m \in Int
    BY <1>2, <1>6
  <2>2. \/ m <= 0
        \/ m <= n /\ D \subseteq E
        \/ m <= n - 1 /\ \E v : D \ {v} \subseteq E
        \/ m <= n + 1 /\ (Waiters(o) # {} => \E h \in E \ D : D \subseteq E)
    BY <1>5, <2>1
  <2>3. QED BY <2>1, <2>2, BackedKeeps
<1>8. QED BY <1>3, <1>4, <1>6, <1>7

\* A thread begins to wait on another list.
LEMMA JoinBacks ==
  ASSUME KInv, NEW t \in Thread, NEW x \in Object, NEW d, Joins(t, x, d),
         NEW o \in Object \ {x}, NEW c \in Waits, t \notin Woken(c),
         NEW n \in Int, Backed(Waiters(o), n, Woken(c))
  PROVE  Backed(Waiters(o)', n, Woken(c)')
<1>1. Woken(c) = Woken(c)' /\ Waiters(o)' = Waiters(o)
  BY WokenJoins, WaitersJoin
<1>2. QED BY <1>1 DEF Backed

LEMMA NothingBacks ==
  ASSUME NEW S \in SUBSET Thread, NEW Q
  PROVE  Backed(Q, 0, S)
<1>1. Cardinality(S) \in Nat
  BY ThreadFinite, FS_Subset, FS_CardinalityType
<1>2. QED BY <1>1 DEF Backed
-----------------------------------------------------------------------------
(***************************************************************************)
(* The steps that leave the object alone.                                  *)
(***************************************************************************)
\* Where a thread is that neither waits nor holds anything of an object.
Outside == {"run", "reset"} \cup DetachPoints

\* A step of the threads X, all outside, that frees U with an error.
Calm(X, U) ==
  /\ Relaxes(X, U, {})
  /\ \A u \in X : Where(u) \in Outside /\ Where(u)' \in Outside

LEMMA CalmSteps ==
  ASSUME KInv, using' = using,
         IpcHandler \/ \E t \in Thread : AnyStep(t) \/ ObjectCall(t) \/ ResetEnd(t)
  PROVE  \E X \in SUBSET Thread : \E U : Calm(X, U)
<1>1. ASSUME NEW t \in Thread, NEW U, Relaxes({t}, U, {}), Where(t)' \in Outside,
             Running(t), pc[t] \in Outside
      PROVE  \E X \in SUBSET Thread : \E V : Calm(X, V)
  <2>1. Where(t) = pc[t]
    BY <1>1, RunnerIsReady DEF Outside, DetachPoints
  <2>2. PICK X \in SUBSET Thread : X = {t}
    OBVIOUS
  <2>3. Calm(X, U)
    BY <1>1, <2>1, <2>2 DEF Calm
  <2>4. QED BY <2>3
<1>2. ASSUME NEW U, Relaxes({}, U, {})
      PROVE  \E X \in SUBSET Thread : \E V : Calm(X, V)
  <2>1. PICK X \in SUBSET Thread : X = {}
    OBVIOUS
  <2>2. Calm(X, U)
    BY <1>2, <2>1 DEF Calm
  <2>3. QED BY <2>2
<1>3. CASE IpcHandler
  BY <1>2, <1>3, HandlerRelaxes
<1>4. ASSUME NEW t \in Thread, AnyStep(t) \/ ObjectCall(t) \/ ResetEnd(t)
      PROVE  \E X \in SUBSET Thread : \E U : Calm(X, U)
  <2>1. CASE Schedule(t) /\ UNCHANGED waiting
    BY <1>2, <2>1, ScheduleRelaxes
  <2>2. ASSUME NEW o \in Object, NEW c \in {"run", "senders_test"}, DetachTest(t, o, c)
        PROVE  \E X \in SUBSET Thread : \E U : Calm(X, U)
    <3>1. Running(t) /\ pc[t] \in Outside
      BY <2>2, DetachPointsAre DEF DetachTest, Outside
    <3>2. Relaxes({t}, {}, {}) /\ Where(t)' \in Outside
      BY <2>2, DetachTestRelaxes DEF Outside
    <3>3. QED BY <1>1, <3>1, <3>2
  <2>3. CASE ResetResume(t)
    BY <1>2, <2>3, ResetResumeRelaxes
  <2>4. ASSUME NEW o \in Object, DetachResume(t, o)
        PROVE  \E X \in SUBSET Thread : \E U : Calm(X, U)
    <3>1. Running(t) /\ pc[t] \in Outside
      BY <2>4, DetachPointsAre DEF DetachResume, Outside
    <3>2. Relaxes({t}, FirstOn(o), {}) /\ Where(t)' \in Outside
      BY <2>4, DetachResumeRelaxes DEF Outside
    <3>3. QED BY <1>1, <3>1, <3>2
  <2>5. CASE ResetCall(t)
    <3>1. Running(t) /\ pc[t] \in Outside
      BY <2>5 DEF ResetCall, Calls, Outside
    <3>2. Relaxes({t}, {}, {}) /\ Where(t)' \in Outside
      BY <2>5, ResetCallRelaxes DEF Outside
    <3>3. QED BY <1>1, <3>1, <3>2
  <2>6. CASE DetachCall(t)
    <3>1. Running(t) /\ pc[t] \in Outside
      BY <2>6 DEF DetachCall, Calls, Outside
    <3>2. Relaxes({t}, {}, {}) /\ Where(t)' \in Outside
      BY <2>6, DetachCallRelaxes, DetachPointsAre DEF Outside
    <3>3. QED BY <1>1, <3>1, <3>2
  <2>7. CASE ResetEnd(t)
    <3>1. Running(t) /\ pc[t] \in Outside
      BY <2>7 DEF ResetEnd, Outside
    <3>2. Relaxes({t}, {}, {}) /\ Where(t)' \in Outside
      BY <2>7, ResetEndRelaxes DEF Outside
    <3>3. QED BY <1>1, <3>1, <3>2
  <2>8. QED BY <1>4, <2>1, <2>2, <2>3, <2>4, <2>5, <2>6, <2>7
            DEF AnyStep, ObjectCall, IpcStep
<1>5. QED BY <1>3, <1>4

\* Who is on the way stays on it.
LEMMA CalmWoken ==
  ASSUME KInv, NEW X \in SUBSET Thread, NEW U, Calm(X, U),
         NEW c \in Waits \cup {"alloc_test"}
  PROVE  /\ Woken(c)' = Woken(c)
         /\ \A u \in Thread : Where(u)' # Where(u) =>
              Where(u) \in Outside /\ Where(u)' \in Outside
<1>1. /\ Relaxes(X, U, {}) /\ \A u \in X : Where(u) \in Outside /\ Where(u)' \in Outside
  BY DEF Calm
<1>2. \A u \in Thread \ X : Where(u)' = Where(u)
  BY <1>1 DEF Relaxes, OthersStay
<1>3. X \cap Woken(c) = {}
  BY <1>1, WokenIs DEF Outside, DetachPoints, Waits
<1>4. Woken(c)' = Woken(c)
  <2>1. CASE c \in Waits
    <3>1. Woken(c)' = (Woken(c) \ X) \cup {u \in {} : Where(u) = c}
      BY <1>1, <2>1, WokenRelaxes
    <3>2. QED BY <1>3, <3>1
  <2>2. CASE c = "alloc_test"
    <3>1. Woken(c)' = (Woken(c) \ X) \cup {u \in X : Where(u)' = c}
      BY <1>1, <2>2, TestsRelaxes
    <3>2. QED BY <1>1, <1>3, <2>2, <3>1 DEF Outside, DetachPoints
  <2>3. QED BY <2>1, <2>2
<1>5. QED BY <1>1, <1>2, <1>4
-----------------------------------------------------------------------------
(***************************************************************************)
(* The mailbox: its ring is a channel, and nobody waits in vain.           *)
(***************************************************************************)
LEMMA WrapIs ==
  ASSUME NEW n \in Nat \ {0}, NEW a \in 0 .. n - 1, NEW b \in 0 .. n
  PROVE  /\ (a + b) % n = IF a + b < n THEN a + b ELSE a + b - n
         /\ (a + b) % n \in 0 .. n - 1
<1>1. n \in Nat /\ n > 0 /\ a \in Int /\ 0 <= a /\ a < n /\ b \in Int /\ 0 <= b /\ b <= n
  OBVIOUS
<1>2. CASE a + b < n
  <2>1. (a + b) % n = a + b
    BY <1>1, <1>2
  <2>2. QED BY <1>1, <1>2, <2>1
<1>3. CASE ~ (a + b < n)
  <2>1. (a + b) % n = a + b - n
    BY <1>1, <1>3
  <2>2. QED BY <1>1, <1>3, <2>1
<1>4. QED BY <1>2, <1>3

\* The entry mails of the ring lie between out_offset and in_offset.
RingOK ==
  /\ msg_pool \in [0 .. size - 1 -> Mail \cup {NoMail}]
  /\ entry \in 0 .. size
  /\ in_offset \in 0 .. size - 1 /\ out_offset \in 0 .. size - 1
  /\ received \in Mail \cup {NoMail}
  /\ in_offset = (out_offset + entry) % size

\* Where the i-th mail is.
Slot(o, i) == (o + (i - 1)) % size

LEMMA SlotIs ==
  ASSUME NEW o \in 0 .. size - 1, NEW i \in 1 .. size + 1
  PROVE  /\ Slot(o, i) = IF o + (i - 1) < size THEN o + (i - 1) ELSE o + (i - 1) - size
         /\ Slot(o, i) \in 0 .. size - 1
<1>1. i - 1 \in 0 .. size /\ size \in Nat \ {0}
  BY MailboxAssumption
<1>2. QED BY <1>1, WrapIs DEF Slot

\* The ring of the pool p with n mails from o on.
RingOf(p, o, n) == [i \in 1 .. n |-> p[(o + i - 1) % size]]

LEMMA RingIs ==
  ASSUME NEW p \in [0 .. size - 1 -> Mail \cup {NoMail}], NEW o \in 0 .. size - 1,
         NEW n \in 0 .. size
  PROVE  /\ RingOf(p, o, n) \in Seq(Mail \cup {NoMail}) /\ Len(RingOf(p, o, n)) = n
         /\ \A i \in 1 .. n : RingOf(p, o, n)[i] = p[Slot(o, i)]
<1>1. size \in Nat \ {0}
  BY MailboxAssumption
<1>2. \A i \in 1 .. n : (o + i - 1) % size = Slot(o, i)
  <2>1. \A i \in 1 .. n : o + i - 1 = o + (i - 1)
    BY <1>1
  <2>2. QED BY <2>1 DEF Slot
<1>3. \A i \in 1 .. n : Slot(o, i) \in 0 .. size - 1
  <2>1. \A i \in 1 .. n : i \in 1 .. size + 1
    BY <1>1
  <2>2. QED BY <1>1, <2>1, SlotIs
<1>4. \A i \in 1 .. n : p[(o + i - 1) % size] \in Mail \cup {NoMail}
  BY <1>1, <1>2, <1>3
<1>5. n \in Nat
  BY <1>1
<1>6. RingOf(p, o, n) \in Seq(Mail \cup {NoMail}) /\ Len(RingOf(p, o, n)) = n
  BY <1>4, <1>5, IsASeq DEF RingOf
<1>7. \A i \in 1 .. n : RingOf(p, o, n)[i] = p[(o + i - 1) % size]
  BY DEF RingOf
<1>8. QED BY <1>2, <1>6, <1>7

LEMMA RingsAre ==
  /\ Ring = RingOf(msg_pool, out_offset, entry)
  /\ Ring' = RingOf(msg_pool', out_offset', entry')
BY DEF Ring, RingOf

\* A mail is stored behind the others.
LEMMA StoreRing ==
  ASSUME RingOK, NEW v \in Mail, Store(v)
  PROVE  RingOK' /\ Fifo!Send(v)
<1>1. /\ msg_pool \in [0 .. size - 1 -> Mail \cup {NoMail}] /\ size \in Nat \ {0}
      /\ entry \in 0 .. size /\ out_offset \in 0 .. size - 1 /\ in_offset \in 0 .. size - 1
      /\ in_offset = (out_offset + entry) % size /\ received \in Mail \cup {NoMail}
  BY MailboxAssumption DEF RingOK
<1>2. /\ entry # size /\ msg_pool' = [msg_pool EXCEPT ![in_offset] = v]
      /\ in_offset' = Advanced(in_offset) /\ entry' = entry + 1
      /\ out_offset' = out_offset /\ received' = received
  BY DEF Store
<1>3. in_offset = IF out_offset + entry < size THEN out_offset + entry
                  ELSE out_offset + entry - size
  BY <1>1, WrapIs
<1>4. in_offset' = (out_offset' + entry') % size /\ in_offset' \in 0 .. size - 1
  <2>1. entry + 1 \in 0 .. size
    BY <1>1, <1>2
  <2>2. /\ (out_offset + (entry + 1)) % size =
             IF out_offset + (entry + 1) < size THEN out_offset + (entry + 1)
             ELSE out_offset + (entry + 1) - size
        /\ (out_offset + (entry + 1)) % size \in 0 .. size - 1
    BY <1>1, <2>1, WrapIs
  <2>3. in_offset' = IF in_offset + 1 >= size THEN 0 ELSE in_offset + 1
    BY <1>2 DEF Advanced
  <2>4. in_offset' = (out_offset + (entry + 1)) % size
    BY <1>1, <1>2, <1>3, <2>2, <2>3
  <2>5. QED BY <1>2, <2>2, <2>4
<1>5. RingOK'
  BY <1>1, <1>2, <1>4 DEF RingOK
<1>6. /\ Ring \in Seq(Mail \cup {NoMail}) /\ Len(Ring) = entry
      /\ \A i \in 1 .. entry : Ring[i] = msg_pool[Slot(out_offset, i)]
  BY <1>1, RingIs, RingsAre
<1>7. /\ Ring' \in Seq(Mail \cup {NoMail}) /\ Len(Ring') = entry + 1
      /\ \A i \in 1 .. entry + 1 : Ring'[i] = msg_pool'[Slot(out_offset, i)]
  <2>1. /\ Ring' \in Seq(Mail \cup {NoMail}) /\ Len(Ring') = entry'
        /\ \A i \in 1 .. entry' : Ring'[i] = msg_pool'[Slot(out_offset', i)]
    BY <1>5, RingIs, RingsAre DEF RingOK
  <2>2. QED BY <1>2, <2>1
<1>8. \A i \in 1 .. entry + 1 : /\ i \in 1 .. size + 1
                               /\ Slot(out_offset, i) \in 0 .. size - 1
                               /\ Slot(out_offset, i) = in_offset <=> i = entry + 1
  <2> TAKE i \in 1 .. entry + 1
  <2>1. i \in 1 .. size + 1 /\ i \in 1 .. size
    BY <1>1, <1>2
  <2>2. /\ Slot(out_offset, i) = IF out_offset + (i - 1) < size THEN out_offset + (i - 1)
                                 ELSE out_offset + (i - 1) - size
        /\ Slot(out_offset, i) \in 0 .. size - 1
    BY <1>1, <2>1, SlotIs
  <2>3. QED BY <1>1, <1>2, <1>3, <2>1, <2>2
<1>9. Ring' = Append(Ring, v)
  <2>1. Len(Append(Ring, v)) = entry + 1 /\ Append(Ring, v) \in Seq(Mail \cup {NoMail})
        /\ \A i \in 1 .. entry : Append(Ring, v)[i] = Ring[i]
        /\ Append(Ring, v)[entry + 1] = v
    BY <1>6, AppendProperties
  <2>2. ASSUME NEW i \in 1 .. entry + 1
        PROVE  Ring'[i] = Append(Ring, v)[i]
    <3>1. CASE i = entry + 1
      BY <1>1, <1>2, <1>7, <1>8, <2>1, <3>1
    <3>2. CASE i # entry + 1
      <4>1. i \in 1 .. entry
        BY <1>1, <3>2
      <4>2. Ring'[i] = msg_pool[Slot(out_offset, i)]
        BY <1>1, <1>2, <1>7, <1>8, <3>2
      <4>3. QED BY <1>6, <2>1, <4>1, <4>2
    <3>3. QED BY <3>1, <3>2
  <2>3. QED BY <1>7, <2>1, <2>2, SeqEqual
<1>10. QED BY <1>1, <1>2, <1>5, <1>6, <1>9 DEF Fifo!Send

\* The oldest mail is fetched.
LEMMA FetchRing ==
  ASSUME RingOK, Fetch
  PROVE  RingOK' /\ Fifo!Receive
<1>1. /\ msg_pool \in [0 .. size - 1 -> Mail \cup {NoMail}] /\ size \in Nat \ {0}
      /\ entry \in 0 .. size /\ out_offset \in 0 .. size - 1 /\ in_offset \in 0 .. size - 1
      /\ in_offset = (out_offset + entry) % size
  BY MailboxAssumption DEF RingOK
<1>2. /\ entry # 0 /\ msg_pool' = [msg_pool EXCEPT ![out_offset] = NoMail]
      /\ out_offset' = Advanced(out_offset) /\ entry' = entry - 1
      /\ in_offset' = in_offset /\ received' = msg_pool[out_offset]
  BY DEF Fetch
<1>3. in_offset = IF out_offset + entry < size THEN out_offset + entry
                  ELSE out_offset + entry - size
  BY <1>1, WrapIs
<1>4. out_offset' = (IF out_offset + 1 >= size THEN 0 ELSE out_offset + 1)
      /\ out_offset' \in 0 .. size - 1 /\ entry' \in 0 .. size
  BY <1>1, <1>2 DEF Advanced
<1>5. in_offset' = (out_offset' + entry') % size
  <2>1. (out_offset' + entry') % size =
          IF out_offset' + entry' < size THEN out_offset' + entry'
          ELSE out_offset' + entry' - size
    BY <1>1, <1>4, WrapIs
  <2>2. QED BY <1>1, <1>2, <1>3, <1>4, <2>1
<1>6. RingOK'
  BY <1>1, <1>2, <1>4, <1>5 DEF RingOK
<1>7. /\ Ring \in Seq(Mail \cup {NoMail}) /\ Len(Ring) = entry
      /\ \A i \in 1 .. entry : Ring[i] = msg_pool[Slot(out_offset, i)]
  BY <1>1, RingIs, RingsAre
<1>8. /\ Ring' \in Seq(Mail \cup {NoMail}) /\ Len(Ring') = entry - 1
      /\ \A i \in 1 .. entry - 1 : Ring'[i] = msg_pool'[Slot(out_offset', i)]
  <2>1. /\ Ring' \in Seq(Mail \cup {NoMail}) /\ Len(Ring') = entry'
        /\ \A i \in 1 .. entry' : Ring'[i] = msg_pool'[Slot(out_offset', i)]
    BY <1>6, RingIs, RingsAre DEF RingOK
  <2>2. QED BY <1>2, <2>1
<1>9. \A i \in 1 .. entry - 1 : /\ Slot(out_offset', i) = Slot(out_offset, i + 1)
                               /\ Slot(out_offset, i + 1) \in 0 .. size - 1
                               /\ Slot(out_offset, i + 1) # out_offset
  <2> TAKE i \in 1 .. entry - 1
  <2>1. i \in 1 .. size + 1 /\ i + 1 \in 1 .. size + 1 /\ i + 1 <= size
    BY <1>1
  <2>2. Slot(out_offset', i) = IF out_offset' + (i - 1) < size THEN out_offset' + (i - 1)
                               ELSE out_offset' + (i - 1) - size
    BY <1>4, <2>1, SlotIs
  <2>3. PICK j \in 1 .. size + 1 : j = i + 1
    BY <2>1
  <2>4. /\ Slot(out_offset, j) = IF out_offset + (j - 1) < size THEN out_offset + (j - 1)
                                 ELSE out_offset + (j - 1) - size
        /\ Slot(out_offset, j) \in 0 .. size - 1
    BY <1>1, SlotIs
  <2>5. QED BY <1>1, <1>4, <2>1, <2>2, <2>3, <2>4
<1>10. Ring # << >> /\ Ring[1] = msg_pool[out_offset]
  <2>1. 1 \in 1 .. entry /\ 1 \in 1 .. size + 1
    BY <1>1, <1>2
  <2>2. Slot(out_offset, 1) = IF out_offset + (1 - 1) < size THEN out_offset + (1 - 1)
                              ELSE out_offset + (1 - 1) - size
    BY <1>1, <2>1, SlotIs
  <2>3. Slot(out_offset, 1) = out_offset
    BY <1>1, <2>2
  <2>4. QED BY <1>1, <1>2, <1>7, <2>1, <2>3
<1>11. Head(Ring) = msg_pool[out_offset]
  BY <1>7, <1>10
<1>12. Ring' = Tail(Ring)
  <2>1. Tail(Ring) \in Seq(Mail \cup {NoMail}) /\ Len(Tail(Ring)) = entry - 1
        /\ \A i \in 1 .. entry - 1 : Tail(Ring)[i] = Ring[i + 1]
    BY <1>7, <1>10, HeadTailProperties
  <2>2. ASSUME NEW i \in 1 .. entry - 1
        PROVE  Ring'[i] = Tail(Ring)[i]
    <3>1. i + 1 \in 1 .. entry
      BY <1>1
    <3>2. Ring[i + 1] = msg_pool[Slot(out_offset, i + 1)]
      BY <1>7, <3>1
    <3>3. msg_pool'[Slot(out_offset, i + 1)] = msg_pool[Slot(out_offset, i + 1)]
      BY <1>1, <1>2, <1>9
    <3>4. QED BY <1>8, <1>9, <2>1, <3>2, <3>3
  <2>3. QED BY <1>8, <2>1, <2>2, SeqEqual
<1>13. QED BY <1>2, <1>6, <1>10, <1>11, <1>12 DEF Fifo!Receive

\* The ring is emptied.
LEMMA ClearRing ==
  ASSUME RingOK, NEW t, ResetRing(t)
  PROVE  RingOK' /\ Fifo!Clear
<1>1. /\ entry' = 0 /\ in_offset' = 0 /\ out_offset' = 0
      /\ msg_pool' = [i \in 0 .. size - 1 |-> NoMail] /\ received' = received
  BY DEF ResetRing
<1>2. size \in Nat \ {0} /\ 0 \in 0 .. size - 1 /\ 0 \in 0 .. size
  BY MailboxAssumption
<1>3. 0 = (0 + 0) % size
  BY <1>2, WrapIs
<1>4. RingOK'
  BY <1>1, <1>2, <1>3 DEF RingOK
<1>5. Ring' \in Seq(Mail \cup {NoMail}) /\ Len(Ring') = 0
  BY <1>1, <1>4, RingIs, RingsAre DEF RingOK
<1>6. Ring' = << >>
  BY <1>5, EmptySeq
<1>7. QED BY <1>1, <1>4, <1>6 DEF Fifo!Clear

-----------------------------------------------------------------------------
\* A woken thread is on its way for every mail and for every free slot.
Stocked ==
  /\ Backed(Waiters(suspend_thread), entry, Woken("recv"))
  /\ Backed(Waiters(suspend_sender_thread), size - entry, Woken("send"))

\* A thread that sends has its mail.
MailKept ==
  /\ mail \in [Thread -> Mail \cup {NoMail}]
  /\ \A u \in Thread : Where(u) = "send" => mail[u] \in Mail

MbInv == RingOK /\ Stocked /\ MailKept

LEMMA MbCounts ==
  ASSUME RingOK
  PROVE  /\ entry \in Int /\ size \in Int /\ size - entry \in Int
         /\ entry \in Nat /\ size - entry \in Nat
BY MailboxAssumption DEF RingOK

LEMMA MbWaitPoints ==
  ASSUME KInv, using = "mb"
  PROVE  /\ suspend_thread \in Object /\ suspend_sender_thread \in Object
         /\ suspend_thread # suspend_sender_thread
         /\ suspend_thread # pool_waiters /\ suspend_sender_thread # pool_waiters
         /\ \A u \in Waiters(suspend_thread) : Where(u) = "recv"
         /\ \A u \in Waiters(suspend_sender_thread) : Where(u) = "send"
<1>1. /\ suspend_thread \in Object /\ suspend_sender_thread \in Object
      /\ suspend_thread # suspend_sender_thread
      /\ suspend_thread # pool_waiters /\ suspend_sender_thread # pool_waiters
  BY IpcAssumption, MemPoolAssumption
<1>2. QED BY <1>1 DEF KInv, QueuedInWait, WaitPoint, Waiters

\* The abstract channel is left alone.
LEMMA RingRests ==
  ASSUME UNCHANGED <<ring, received>>
  PROVE  UNCHANGED Fifo!vars /\ (RingOK => RingOK')
<1>1. /\ msg_pool' = msg_pool /\ entry' = entry /\ in_offset' = in_offset
      /\ out_offset' = out_offset /\ received' = received
  BY DEF ring
<1>2. Ring' = Ring
  BY <1>1, RingsAre
<1>3. QED BY <1>1, <1>2 DEF RingOK, Fifo!vars

\* Where the mails of the threads are when those of X move on.
LEMMA MailStays ==
  ASSUME MailKept, NEW X \in SUBSET Thread, OthersStay(X),
         \A u \in X : Where(u)' # "send",
         mail' \in [Thread -> Mail \cup {NoMail}],
         \A u \in Thread \ X : mail'[u] = mail[u]
  PROVE  MailKept'
BY DEF MailKept, OthersStay

LEMMA MbCalm ==
  ASSUME KInv, MbInv, using = "mb", NEW X \in SUBSET Thread, NEW U, Calm(X, U),
         UNCHANGED mailbox
  PROVE  MbInv' /\ UNCHANGED Fifo!vars
<1>1. /\ UNCHANGED <<ring, received>> /\ mail' = mail /\ entry' = entry
  BY DEF mailbox, ring
<1>2. UNCHANGED Fifo!vars /\ RingOK'
  BY <1>1, RingRests DEF MbInv
<1>3. "send" \in Waits /\ "recv" \in Waits /\ "send" \notin Outside /\ "recv" \notin Outside
  BY DEF Waits, Outside, DetachPoints
<1>4. /\ Woken("send")' = Woken("send") /\ Woken("recv")' = Woken("recv")
      /\ \A u \in Thread : Where(u)' # Where(u) =>
           Where(u) \in Outside /\ Where(u)' \in Outside
  BY <1>3, CalmWoken
<1>5. /\ Waiters(suspend_thread)' \subseteq Waiters(suspend_thread)
      /\ Waiters(suspend_sender_thread)' \subseteq Waiters(suspend_sender_thread)
  <2>1. Relaxes(X, U, {})
    BY DEF Calm
  <2>2. QED BY <2>1, WaitersRelax, MbWaitPoints
<1>6. Stocked'
  BY <1>1, <1>4, <1>5 DEF MbInv, Stocked, Backed
<1>7. MailKept'
  BY <1>1, <1>3, <1>4 DEF MbInv, MailKept
<1>8. QED BY <1>2, <1>6, <1>7 DEF MbInv

-----------------------------------------------------------------------------
\* A mail more: it is for the receiver that is woken.
LEMMA StoreStocks ==
  ASSUME KInv, MbInv, using = "mb", NEW X \in SUBSET Thread,
         X = {} \/ \E t \in Thread : X = {t},
         Relaxes(X, FirstOn(suspend_thread), FirstOn(suspend_thread)),
         X \cap Woken("recv") = {}, entry' = entry + 1
  PROVE  Stocked'
<1>1. /\ entry \in Int /\ size - entry \in Int /\ size - (entry + 1) \in Int
      /\ size - (entry + 1) = (size - entry) - 1 /\ size \in Int
  BY MbCounts DEF MbInv
<1>2. "send" \in Waits /\ "recv" \in Waits
  BY DEF Waits
<1>3. Backed(Waiters(suspend_thread)', entry + 1, Woken("recv")')
  BY <1>1, <1>2, FirstBacks, MbWaitPoints DEF MbInv, Stocked
<1>4. PICK n \in Int : n = size - entry
  BY <1>1
<1>5. PICK m \in Int : m = size - (entry + 1)
  BY <1>1
<1>6. Backed(Waiters(suspend_sender_thread), n, Woken("send")) /\ m = n - 1 /\ m <= n
  BY <1>1, <1>4, <1>5 DEF MbInv, Stocked
<1>7. suspend_sender_thread \in Object
  BY MbWaitPoints
<1>8. Backed(Waiters(suspend_sender_thread)', m, Woken("send")')
  <2>1. CASE X = {}
    <3>1. Woken("send") \cap X = {}
      BY <2>1
    <3>2. QED BY <1>2, <1>6, <1>7, <3>1, RestBacks
  <2>2. ASSUME NEW t \in Thread, X = {t}
        PROVE  Backed(Waiters(suspend_sender_thread)', m, Woken("send")')
    <3>1. Relaxes({t}, FirstOn(suspend_thread), FirstOn(suspend_thread))
      BY <2>2
    <3>2. Backed(Waiters(suspend_sender_thread)', n - 1, Woken("send")')
      BY <1>2, <1>6, <1>7, <3>1, TakeBacks
    <3>3. QED BY <1>6, <3>2
  <2>3. QED BY <2>1, <2>2
<1>9. entry' = entry + 1 /\ size - entry' = m
  BY <1>1, <1>5
<1>10. QED BY <1>3, <1>8, <1>9 DEF Stocked

\* A mail less: its slot is for the sender that is woken.
LEMMA FetchStocks ==
  ASSUME KInv, MbInv, using = "mb", NEW X \in SUBSET Thread,
         X = {} \/ \E t \in Thread : X = {t},
         Relaxes(X, FirstOn(suspend_sender_thread), FirstOn(suspend_sender_thread)),
         X \cap Woken("send") = {}, entry' = entry - 1
  PROVE  Stocked'
<1>1. /\ entry \in Int /\ size - entry \in Int /\ entry - 1 \in Int
      /\ size - (entry - 1) = (size - entry) + 1 /\ size \in Int
  BY MbCounts DEF MbInv
<1>2. "send" \in Waits /\ "recv" \in Waits
  BY DEF Waits
<1>3. PICK n \in Int : n = size - entry
  BY <1>1
<1>4. Backed(Waiters(suspend_sender_thread), n, Woken("send"))
  BY <1>3 DEF MbInv, Stocked
<1>5. Backed(Waiters(suspend_sender_thread)', n + 1, Woken("send")')
  BY <1>2, <1>4, FirstBacks, MbWaitPoints
<1>6. PICK m \in Int : m = entry - 1
  BY <1>1
<1>7. Backed(Waiters(suspend_thread), entry, Woken("recv")) /\ m <= entry
      /\ suspend_thread \in Object
  BY <1>1, <1>6, MbWaitPoints DEF MbInv, Stocked
<1>8. Backed(Waiters(suspend_thread)', m, Woken("recv")')
  <2>1. CASE X = {}
    <3>1. Woken("recv") \cap X = {}
      BY <2>1
    <3>2. QED BY <1>1, <1>2, <1>7, <3>1, RestBacks
  <2>2. ASSUME NEW t \in Thread, X = {t}
        PROVE  Backed(Waiters(suspend_thread)', m, Woken("recv")')
    <3>1. Relaxes({t}, FirstOn(suspend_sender_thread), FirstOn(suspend_sender_thread))
      BY <2>2
    <3>2. Backed(Waiters(suspend_thread)', entry - 1, Woken("recv")')
      BY <1>1, <1>2, <1>7, <3>1, TakeBacks
    <3>3. QED BY <1>6, <3>2
  <2>3. QED BY <2>1, <2>2
<1>9. entry' = m /\ size - entry' = n + 1
  BY <1>1, <1>3, <1>6
<1>10. QED BY <1>5, <1>8, <1>9 DEF Stocked

LEMMA SentKeeps ==
  ASSUME KInv, MbInv, using = "mb", using' = using, NEW t \in Thread, Running(t),
         pc[t] \in {"run", "send"}, NEW v \in Mail, Sent(t, v)
  PROVE  MbInv' /\ Fifo!Send(v)
<1>1. /\ Store(v) /\ entry' = entry + 1
      /\ mail' = [mail EXCEPT ![t] = NoMail]
  BY DEF Sent, Store, Posted
<1>2. pc[t] # "sched" /\ pc[t] # "recv" /\ "recv" \in Waits
  BY DEF Waits
<1>3. PICK X \in SUBSET Thread : X = {t}
  OBVIOUS
<1>4. Relaxes(X, FirstOn(suspend_thread), FirstOn(suspend_thread)) /\ Where(t)' = "run"
  BY <1>2, <1>3, SentRelaxes
<1>5. X \cap Woken("recv") = {}
  BY <1>2, <1>3, RunnerWoken
<1>6. Stocked'
  BY <1>1, <1>3, <1>4, <1>5, StoreStocks
<1>7. RingOK' /\ Fifo!Send(v)
  BY <1>1, StoreRing DEF MbInv
<1>8. MailKept'
  <2>1. /\ mail' \in [Thread -> Mail \cup {NoMail}]
        /\ \A u \in Thread \ X : mail'[u] = mail[u]
    BY <1>1, <1>3 DEF MbInv, MailKept
  <2>2. OthersStay(X)
    BY <1>4 DEF Relaxes
  <2>3. \A u \in X : Where(u)' # "send"
    BY <1>3, <1>4
  <2>4. QED BY <2>1, <2>2, <2>3, MailStays DEF MbInv
<1>9. QED BY <1>1, <1>6, <1>7, <1>8 DEF MbInv

LEMMA ReceivedKeeps ==
  ASSUME KInv, MbInv, using = "mb", using' = using, NEW t \in Thread, Running(t),
         pc[t] \in {"run", "recv"}, Received(t)
  PROVE  MbInv' /\ Fifo!Receive
<1>1. /\ Fetch /\ entry' = entry - 1 /\ mail' = mail
  BY DEF Received, Fetch
<1>2. pc[t] # "sched" /\ pc[t] # "send" /\ "send" \in Waits
  BY DEF Waits
<1>3. PICK X \in SUBSET Thread : X = {t}
  OBVIOUS
<1>4. Relaxes(X, FirstOn(suspend_sender_thread), FirstOn(suspend_sender_thread))
      /\ Where(t)' = "run"
  BY <1>2, <1>3, ReceivedRelaxes
<1>5. X \cap Woken("send") = {}
  BY <1>2, <1>3, RunnerWoken
<1>6. Stocked'
  BY <1>1, <1>3, <1>4, <1>5, FetchStocks
<1>7. RingOK' /\ Fifo!Receive
  BY <1>1, FetchRing DEF MbInv
<1>8. MailKept'
  <2>1. /\ mail' \in [Thread -> Mail \cup {NoMail}]
        /\ \A u \in Thread \ X : mail'[u] = mail[u]
    BY <1>1, <1>3 DEF MbInv, MailKept
  <2>2. OthersStay(X)
    BY <1>4 DEF Relaxes
  <2>3. \A u \in X : Where(u)' # "send"
    BY <1>3, <1>4
  <2>4. QED BY <2>1, <2>2, <2>3, MailStays DEF MbInv
<1>9. QED BY <1>1, <1>6, <1>7, <1>8 DEF MbInv

LEMMA DeviceSendKeeps ==
  ASSUME KInv, MbInv, using = "mb", using' = using, NEW v \in Mail, DeviceSend(v)
  PROVE  MbInv' /\ Fifo!Send(v)
<1>1. /\ Store(v) /\ entry' = entry + 1 /\ mail' = mail
  BY DEF DeviceSend, Store
<1>2. PICK X \in SUBSET Thread : X = {}
  OBVIOUS
<1>3. Relaxes(X, FirstOn(suspend_thread), FirstOn(suspend_thread))
  BY <1>2, DeviceSendRelaxes
<1>4. Stocked'
  BY <1>1, <1>2, <1>3, StoreStocks
<1>5. RingOK' /\ Fifo!Send(v)
  BY <1>1, StoreRing DEF MbInv
<1>6. MailKept'
  BY <1>1, <1>2, <1>3, MailStays DEF MbInv, MailKept, Relaxes
<1>7. QED BY <1>1, <1>4, <1>5, <1>6 DEF MbInv

LEMMA DeviceRecvKeeps ==
  ASSUME KInv, MbInv, using = "mb", using' = using, DeviceRecv
  PROVE  MbInv' /\ Fifo!Receive
<1>1. /\ Fetch /\ entry' = entry - 1 /\ mail' = mail
  BY DEF DeviceRecv, Fetch
<1>2. PICK X \in SUBSET Thread : X = {}
  OBVIOUS
<1>3. Relaxes(X, FirstOn(suspend_sender_thread), FirstOn(suspend_sender_thread))
  BY <1>2, DeviceRecvRelaxes
<1>4. Stocked'
  BY <1>1, <1>2, <1>3, FetchStocks
<1>5. RingOK' /\ Fifo!Receive
  BY <1>1, FetchRing DEF MbInv
<1>6. MailKept'
  BY <1>1, <1>2, <1>3, MailStays DEF MbInv, MailKept, Relaxes
<1>7. QED BY <1>1, <1>4, <1>5, <1>6 DEF MbInv

-----------------------------------------------------------------------------
\* A thread that goes on inside its call was woken.
LEMMA ResumesWoken ==
  ASSUME KInv, NEW t \in Thread, NEW c \in Waits, Resumes(t, c)
  PROVE  t \in Woken(c) /\ Running(t) /\ pc[t] = c /\ pc[t] # "sched"
<1>1. Running(t) /\ pc[t] = c /\ k.error[t] = "EOK" /\ pc[t] # "sched"
  BY DEF Resumes, Waits
<1>2. Where(t) = c /\ k.stat[t] = "READY"
  BY <1>1, RunnerIsReady
<1>3. QED BY <1>1, <1>2, WokenIs

LEMMA SendWaitKeeps ==
  ASSUME KInv, MbInv, using = "mb", using' = using, NEW t \in Thread, NEW v \in Mail,
         SendWaitAgain(t) \/ \E time \in WaitTimes[t] : SendWait(t, v, time)
  PROVE  MbInv' /\ UNCHANGED Fifo!vars
<1>1. /\ entry = size /\ Running(t) /\ pc[t] \in {"run", "send"}
      /\ \E w \in Mail : mail' = [mail EXCEPT ![t] = w]
      /\ UNCHANGED <<ring, received>> /\ entry' = entry
  <2>1. CASE SendWaitAgain(t)
    <3>1. Resumes(t, "send") /\ "send" \in Waits
      BY <2>1 DEF SendWaitAgain, Waits
    <3>2. Running(t) /\ pc[t] = "send" /\ Where(t) = "send"
      BY <3>1, ResumesWoken, RunnerIsReady DEF Waits
    <3>3. mail[t] \in Mail
      BY <3>2 DEF MbInv, MailKept
    <3>4. QED BY <2>1, <3>2, <3>3 DEF SendWaitAgain, AwaitRoom, ring
  <2>2. CASE \E time \in WaitTimes[t] : SendWait(t, v, time)
    BY <2>2 DEF SendWait, AwaitRoom, Calls, ring
  <2>3. QED BY <2>1, <2>2
<1>2. Joins(t, suspend_sender_thread, "send")
  BY SendWaitJoins
<1>4. t \notin Woken("recv") /\ "recv" \in Waits
  BY <1>1, RunnerWoken DEF Waits
<1>5. RingOK' /\ UNCHANGED Fifo!vars
  BY <1>1, RingRests DEF MbInv
<1>6. Stocked'
  <2>1. PICK x \in Object : x = suspend_sender_thread
    BY MbWaitPoints
  <2>2. PICK o \in Object \ {x} : o = suspend_thread
    BY <2>1, MbWaitPoints
  <2>3. Joins(t, x, "send") /\ entry \in Int
    BY <1>2, <2>1, MbCounts DEF MbInv
  <2>4. Backed(Waiters(o), entry, Woken("recv"))
    BY <2>2 DEF MbInv, Stocked
  <2>5. Backed(Waiters(o)', entry, Woken("recv")')
    BY <1>4, <2>3, <2>4, JoinBacks
  <2>6. Waiters(o)' = Waiters(suspend_thread)'
    BY <2>2 DEF Waiters
  <2>7. PICK S \in SUBSET Thread : S = Woken("send")'
    BY WokenIs DEF Waits
  <2>8. Backed(Waiters(suspend_sender_thread)', 0, S)
    BY NothingBacks
  <2>9. size - entry' = 0
    BY <1>1, MailboxAssumption
  <2>10. QED BY <1>1, <2>5, <2>6, <2>7, <2>8, <2>9 DEF Stocked
<1>7. MailKept'
  <2>1. \A u \in Thread \ {t} : Where(u)' = Where(u)
    BY <1>2 DEF Joins, OthersStay
  <2>2. QED BY <1>1, <2>1 DEF MbInv, MailKept
<1>8. QED BY <1>5, <1>6, <1>7 DEF MbInv

LEMMA RecvWaitKeeps ==
  ASSUME KInv, MbInv, using = "mb", using' = using, NEW t \in Thread,
         RecvWaitAgain(t) \/ \E time \in WaitTimes[t] : RecvWait(t, time)
  PROVE  MbInv' /\ UNCHANGED Fifo!vars
<1>1. /\ entry = 0 /\ Running(t) /\ pc[t] \in {"run", "recv"}
      /\ UNCHANGED <<ring, received>> /\ mail' = mail /\ entry' = entry
  <2>1. CASE RecvWaitAgain(t)
    BY <2>1 DEF RecvWaitAgain, AwaitMail, Resumes, mailbox, ring
  <2>2. CASE \E time \in WaitTimes[t] : RecvWait(t, time)
    BY <2>2 DEF RecvWait, AwaitMail, Calls, mailbox, ring
  <2>3. QED BY <2>1, <2>2
<1>2. Joins(t, suspend_thread, "recv")
  BY RecvWaitJoins
<1>4. t \notin Woken("send") /\ "send" \in Waits
  BY <1>1, RunnerWoken DEF Waits
<1>5. RingOK' /\ UNCHANGED Fifo!vars
  BY <1>1, RingRests DEF MbInv
<1>6. Stocked'
  <2>1. PICK x \in Object : x = suspend_thread
    BY MbWaitPoints
  <2>2. PICK o \in Object \ {x} : o = suspend_sender_thread
    BY <2>1, MbWaitPoints
  <2>3. PICK n \in Int : n = size - entry
    BY MbCounts DEF MbInv
  <2>4. Joins(t, x, "recv") /\ Backed(Waiters(o), n, Woken("send"))
    BY <1>2, <2>1, <2>2, <2>3 DEF MbInv, Stocked
  <2>5. Backed(Waiters(o)', n, Woken("send")')
    BY <1>4, <2>4, JoinBacks
  <2>6. Waiters(o)' = Waiters(suspend_sender_thread)'
    BY <2>2 DEF Waiters
  <2>7. PICK S \in SUBSET Thread : S = Woken("recv")'
    BY WokenIs DEF Waits
  <2>8. Backed(Waiters(suspend_thread)', 0, S)
    BY NothingBacks
  <2>9. QED BY <1>1, <2>3, <2>5, <2>6, <2>7, <2>8 DEF Stocked
<1>7. MailKept'
  <2>1. \A u \in Thread \ {t} : Where(u)' = Where(u)
    BY <1>2 DEF Joins, OthersStay
  <2>2. Where(t)' = "recv"
    BY <1>2 DEF Joins, Where
  <2>3. QED BY <1>1, <2>1, <2>2 DEF MbInv, MailKept
<1>8. QED BY <1>5, <1>6, <1>7 DEF MbInv

\* A thread gives up that found nothing, or was woken with an error.
LEMMA GivesUpStocks ==
  ASSUME KInv, MbInv, using = "mb", NEW t \in Thread, Relaxes({t}, {}, {}), entry' = entry,
         \/ Where(t) = "send" /\ (t \notin Woken("send") \/ entry = size)
         \/ Where(t) = "recv" /\ (t \notin Woken("recv") \/ entry = 0)
  PROVE  Stocked' /\ Woken("send")' \subseteq Woken("send")
         /\ Woken("recv")' \subseteq Woken("recv")
<1>0. PICK X \in SUBSET Thread : X = {t}
  OBVIOUS
<1>1. "send" \in Waits /\ "recv" \in Waits
  BY DEF Waits
<1>2. Relaxes(X, {}, {}) /\ entry \in Int
  BY <1>0, MbCounts DEF MbInv
<1>3. PICK n \in Int : n = size - entry
  BY MbCounts DEF MbInv
<1>4. /\ Backed(Waiters(suspend_thread), entry, Woken("recv"))
      /\ Backed(Waiters(suspend_sender_thread), n, Woken("send"))
      /\ suspend_thread \in Object /\ suspend_sender_thread \in Object
  BY <1>3, MbWaitPoints DEF MbInv, Stocked
<1>5. Backed(Waiters(suspend_thread)', entry, Woken("recv")')
  <2>1. CASE t \notin Woken("recv")
    <3>1. Woken("recv") \cap X = {}
      BY <1>0, <2>1
    <3>2. QED BY <1>1, <1>2, <1>4, <3>1, RestBacks
  <2>2. CASE entry = 0
    <3>1. PICK S \in SUBSET Thread : S = Woken("recv")'
      BY <1>1, WokenIs
    <3>2. QED BY <2>2, <3>1, NothingBacks
  <2>3. QED BY <1>1, <2>1, <2>2, WokenIs
<1>6. Backed(Waiters(suspend_sender_thread)', n, Woken("send")')
  <2>1. CASE t \notin Woken("send")
    <3>1. Woken("send") \cap X = {}
      BY <1>0, <2>1
    <3>2. QED BY <1>1, <1>2, <1>4, <3>1, RestBacks
  <2>2. CASE entry = size
    <3>1. PICK S \in SUBSET Thread : S = Woken("send")'
      BY <1>1, WokenIs
    <3>2. n = 0
      BY <1>3, <2>2, MailboxAssumption
    <3>3. QED BY <3>1, <3>2, NothingBacks
  <2>3. QED BY <1>1, <2>1, <2>2, WokenIs
<1>7. Stocked'
  BY <1>3, <1>5, <1>6 DEF Stocked
<1>8. ASSUME NEW c \in Waits
      PROVE  Woken(c)' \subseteq Woken(c)
  <2>1. Woken(c)' = (Woken(c) \ X) \cup {u \in {} : Where(u) = c}
    BY <1>2, WokenRelaxes
  <2>2. QED BY <2>1
<1>9. QED BY <1>1, <1>7, <1>8

LEMMA MbGivesUpKeeps ==
  ASSUME KInv, MbInv, using = "mb", using' = using, NEW t \in Thread,
         SendGivesUp(t) \/ RecvGivesUp(t)
  PROVE  MbInv' /\ UNCHANGED Fifo!vars
<1>1. UNCHANGED <<ring, received>> /\ entry' = entry
  BY DEF SendGivesUp, RecvGivesUp, mailbox, ring
<1>2. /\ mail' \in [Thread -> Mail \cup {NoMail}]
      /\ \A u \in Thread \ {t} : mail'[u] = mail[u]
  BY DEF SendGivesUp, RecvGivesUp, Posted, mailbox, MbInv, MailKept
<1>3. Relaxes({t}, {}, {}) /\ Where(t)' = "run"
  BY SendGivesUpRelaxes, RecvGivesUpRelaxes
<1>4. \/ Where(t) = "send" /\ (t \notin Woken("send") \/ entry = size)
      \/ Where(t) = "recv" /\ (t \notin Woken("recv") \/ entry = 0)
  <2>1. CASE SendGivesUp(t)
    <3>1. Where(t) = "send"
      BY <2>1, SendGivesUpRelaxes
    <3>2. k.error[t] # "EOK" \/ entry = size
      BY <2>1 DEF SendGivesUp, Fails
    <3>3. QED BY <3>1, <3>2, WokenIs DEF Waits
  <2>2. CASE RecvGivesUp(t)
    <3>1. Where(t) = "recv"
      BY <2>2, RecvGivesUpRelaxes
    <3>2. k.error[t] # "EOK" \/ entry = 0
      BY <2>2 DEF RecvGivesUp, Fails
    <3>3. QED BY <3>1, <3>2, WokenIs DEF Waits
  <2>3. QED BY <2>1, <2>2
<1>5. Stocked' /\ Woken("send")' \subseteq Woken("send")
      /\ Woken("recv")' \subseteq Woken("recv")
  BY <1>1, <1>3, <1>4, GivesUpStocks
<1>6. MailKept'
  <2>1. PICK X \in SUBSET Thread : X = {t}
    OBVIOUS
  <2>2. OthersStay(X) /\ \A u \in X : Where(u)' # "send"
    BY <1>3, <2>1 DEF Relaxes
  <2>3. QED BY <1>2, <2>1, <2>2, MailStays DEF MbInv
<1>7. RingOK' /\ UNCHANGED Fifo!vars
  BY <1>1, RingRests DEF MbInv
<1>8. QED BY <1>1, <1>5, <1>6, <1>7 DEF MbInv

LEMMA ResetRingKeeps ==
  ASSUME KInv, MbInv, using = "mb", using' = using, NEW t \in Thread, ResetRing(t)
  PROVE  MbInv' /\ Fifo!Clear
<1>1. /\ ResetEnd(t) /\ entry' = 0 /\ mail' = mail
      /\ k.waitq' = k.waitq /\ AllEmpty
  BY DEF ResetRing, ResetEnd
<1>2. RingOK' /\ Fifo!Clear
  BY ClearRing DEF MbInv
<1>3. PICK X \in SUBSET Thread : \E U : Calm(X, U)
  BY <1>1, CalmSteps
<1>4. PICK U : Calm(X, U)
  BY <1>3
<1>5. /\ Woken("send")' = Woken("send") /\ Woken("recv")' = Woken("recv")
      /\ \A u \in Thread : Where(u)' # Where(u) =>
           Where(u) \in Outside /\ Where(u)' \in Outside
  BY <1>4, CalmWoken DEF Waits
<1>6. Waiters(suspend_thread)' = {} /\ Waiters(suspend_sender_thread)' = {}
  <2>1. /\ k'.waitq[suspend_thread] = << >> /\ k'.waitq[suspend_sender_thread] = << >>
        /\ << >> \in Seq(Thread)
    BY <1>1, MbWaitPoints DEF AllEmpty
  <2>2. QED BY <2>1, EmptyThreadList DEF Waiters
<1>7. Stocked'
  BY <1>6 DEF Stocked, Backed
<1>8. MailKept'
  BY <1>1, <1>5 DEF MbInv, MailKept, Outside, DetachPoints
<1>9. QED BY <1>1, <1>2, <1>5, <1>7, <1>8 DEF MbInv

\* Every step keeps the invariant and is a step of the channel, or none.
LEMMA MbInvKeeps ==
  ASSUME KInv, MbInv, using = "mb", using' = using, MbNext
  PROVE  MbInv' /\ [Fifo!Next]_Fifo!vars
<1>1. ASSUME \/ IpcHandler
             \/ \E t \in Thread : AnyStep(t) \/ ObjectCall(t),
             UNCHANGED mailbox
      PROVE  MbInv' /\ [Fifo!Next]_Fifo!vars
  <2>1. \E X \in SUBSET Thread : \E U : Calm(X, U)
    BY <1>1, CalmSteps
  <2>2. PICK X \in SUBSET Thread : \E U : Calm(X, U)
    BY <2>1
  <2>3. PICK U : Calm(X, U)
    BY <2>2
  <2>4. MbInv' /\ UNCHANGED Fifo!vars
    BY <1>1, <2>3, MbCalm
  <2>5. QED BY <2>4
<1>2. ASSUME NEW t \in Thread, MbStep(t)
      PROVE  MbInv' /\ [Fifo!Next]_Fifo!vars
  <2>1. CASE (ObjectStep(t, "senders_test") \/ SendersDetach(t)) /\ UNCHANGED mailbox
    BY <1>1, <2>1, StepsAre
  <2>2. CASE SendAgain(t)
    <3>1. t \in Woken("send") /\ Running(t) /\ pc[t] = "send" /\ Sent(t, mail[t])
      BY <2>2, ResumesWoken DEF SendAgain, Waits
    <3>2. Where(t) = "send"
      BY <3>1, RunnerIsReady
    <3>3. mail[t] \in Mail
      BY <3>2 DEF MbInv, MailKept
    <3>4. MbInv' /\ Fifo!Send(mail[t])
      BY <3>1, <3>2, <3>3, SentKeeps
    <3>5. QED BY <3>3, <3>4 DEF Fifo!Next
  <2>3. CASE SendWaitAgain(t)
    <3>1. Where(t) = "send"
      BY <2>3, ResumesWoken, RunnerIsReady DEF SendWaitAgain, Waits
    <3>2. mail[t] \in Mail
      BY <3>1 DEF MbInv, MailKept
    <3>3. MbInv' /\ UNCHANGED Fifo!vars
      BY <2>3, <3>2, SendWaitKeeps
    <3>4. QED BY <3>3
  <2>4. CASE RecvAgain(t)
    <3>1. t \in Woken("recv") /\ Running(t) /\ pc[t] = "recv" /\ Received(t)
      BY <2>4, ResumesWoken DEF RecvAgain, Waits
    <3>2. MbInv' /\ Fifo!Receive
      BY <3>1, ReceivedKeeps DEF MbInv
    <3>3. QED BY <3>2 DEF Fifo!Next
  <2>5. CASE RecvWaitAgain(t)
    BY <2>5, RecvWaitKeeps
  <2>6. CASE SendGivesUp(t) \/ RecvGivesUp(t)
    BY <2>6, MbGivesUpKeeps
  <2>7. CASE ResetRing(t)
    BY <2>7, ResetRingKeeps DEF Fifo!Next
  <2>8. QED BY <1>2, <2>1, <2>2, <2>3, <2>4, <2>5, <2>6, <2>7 DEF MbStep
<1>3. ASSUME NEW t \in Thread, MbCall(t)
      PROVE  MbInv' /\ [Fifo!Next]_Fifo!vars
  <2>1. CASE ObjectCall(t) /\ UNCHANGED mailbox
    BY <1>1, <2>1
  <2>2. ASSUME NEW v \in Mail, Send(t, v)
        PROVE  MbInv' /\ [Fifo!Next]_Fifo!vars
    <3>1. Running(t) /\ pc[t] = "run" /\ Sent(t, v)
      BY <2>2 DEF Send, Calls
    <3>2. MbInv' /\ Fifo!Send(v)
      BY <3>1, SentKeeps
    <3>3. QED BY <3>2 DEF Fifo!Next
  <2>3. ASSUME NEW v \in Mail, \E time \in WaitTimes[t] : SendWait(t, v, time)
        PROVE  MbInv' /\ [Fifo!Next]_Fifo!vars
    BY <2>3, SendWaitKeeps
  <2>4. CASE Recv(t)
    <3>1. Running(t) /\ pc[t] = "run" /\ Received(t)
      BY <2>4 DEF Recv, Calls
    <3>2. MbInv' /\ Fifo!Receive
      BY <3>1, ReceivedKeeps
    <3>3. QED BY <3>2 DEF Fifo!Next
  <2>5. CASE \E time \in WaitTimes[t] : RecvWait(t, time)
    BY <2>5, RecvWaitKeeps
  <2>6. QED BY <1>3, <2>1, <2>2, <2>3, <2>4, <2>5 DEF MbCall
<1>4. CASE MbHandler
  <2>1. CASE IpcHandler /\ UNCHANGED mailbox
    BY <1>1, <2>1
  <2>2. CASE DeviceRecv
    BY <2>2, DeviceRecvKeeps DEF Fifo!Next
  <2>3. ASSUME NEW v \in Mail, DeviceSend(v)
        PROVE  MbInv' /\ [Fifo!Next]_Fifo!vars
    BY <2>3, DeviceSendKeeps DEF Fifo!Next
  <2>4. QED BY <1>4, <2>1, <2>2, <2>3 DEF MbHandler
<1>5. QED BY <1>2, <1>3, <1>4 DEF MbNext

-----------------------------------------------------------------------------
(***************************************************************************)
(* Who runs, and who is inside a reset or a detach.                        *)
(***************************************************************************)
\* The current thread heads the ready lists, unless it is about to call
\* rt_schedule, or a handler or a reset is.
Urgent ==
  ~ device /\ ~ primask /\ ~ detached /\ pc[k.current] # "sched" => AtHead(k)

\* A thread in a reset runs with interrupts disabled, on an object in use.
ResetMasked ==
  \A u \in Thread : Where(u) = "reset" => primask /\ Running(u) /\ ~ detached

\* A thread in a detach is in the one of the object that is gone.
DetachNoted == \A u \in Thread : Where(u) \in DetachPoints => detached

Attended == Urgent /\ ResetMasked /\ DetachNoted

\* The ready lists are as they were.
SameReady == k'.table = k.table /\ k'.group = k.group /\ k'.current = k.current

LEMMA SameReadyHead ==
  ASSUME SameReady
  PROVE  AtHead(k') <=> AtHead(k)
BY DEF SameReady, AtHead, highest_ready_priority

\* Where the code is in a reset or a detach, and not inside rt_schedule.
LEMMA PointsInUse ==
  ASSUME LocalsTyped, NEW u \in Thread
  PROVE  /\ Where(u) = "reset" <=> pc[u] = "reset"
         /\ Where(u) \in DetachPoints <=> pc[u] \in DetachPoints
         /\ pc[u] = "sched" => Where(u) = cont[u]
<1>1. cont[u] \in Continuation
  BY DEF LocalsTyped
<1>2. cont[u] # "reset" /\ cont[u] \notin DetachPoints
  BY <1>1 DEF Continuation, DetachPoints
<1>3. QED BY <1>2 DEF Where, DetachPoints

\* A thread that is in no reset and no detach goes on.
LEMMA ThreadAttends ==
  ASSUME KInv, Attended, NEW t \in Thread, Running(t),
         pc[t] \notin {"sched", "reset"} \cup DetachPoints, OthersStay({t}),
         Where(t)' \notin {"reset"} \cup DetachPoints,
         detached' = detached, primask' = primask,
         \/ pc'[t] = "sched" /\ k'.current = k.current
         \/ SameReady /\ device' = device
  PROVE  Attended'
<1>1. k.current = t /\ Where(t) = pc[t] /\ ~ device
  BY RunnerIsReady DEF Running, InThread
<1>2. \A u \in Thread \ {t} : Where(u)' = Where(u)
  BY DEF OthersStay
<1>3. \A u \in Thread : Where(u) = "reset" => u = t
  BY DEF Attended, ResetMasked, Running
<1>4. ResetMasked'
  BY <1>2, <1>3 DEF ResetMasked
<1>5. DetachNoted'
  BY <1>2 DEF Attended, DetachNoted
<1>7. Urgent'
  <2>1. CASE pc'[t] = "sched" /\ k'.current = k.current
    BY <1>1, <2>1 DEF Urgent
  <2>2. CASE SameReady /\ device' = device
    <3>1. (AtHead(k) <=> AtHead(k')) /\ k'.current = t
      BY <1>1, <2>2, SameReadyHead DEF SameReady
    <3>2. ~ primask' /\ ~ detached' => AtHead(k)
      BY <1>1 DEF Attended, Urgent
    <3>3. QED BY <3>1, <3>2 DEF Urgent
  <2>3. QED BY <2>1, <2>2
<1>8. QED BY <1>4, <1>5, <1>7 DEF Attended

\* As a step that frees threads, or one that lets t wait.
LEMMA RelaxAttends ==
  ASSUME KInv, Attended, NEW t \in Thread, Running(t),
         pc[t] \notin {"sched", "reset"} \cup DetachPoints,
         NEW U, NEW W, Relaxes({t}, U, W), Where(t)' \notin {"reset"} \cup DetachPoints,
         detached' = detached, primask' = primask,
         \/ pc'[t] = "sched" /\ k'.current = k.current
         \/ SameReady /\ device' = device
  PROVE  Attended'
<1>1. OthersStay({t})
  BY DEF Relaxes
<1>2. QED BY <1>1, ThreadAttends

LEMMA JoinAttends ==
  ASSUME KInv, Attended, NEW t \in Thread, Running(t), pc[t] \notin {"sched", "reset"} \cup DetachPoints,
         NEW o, NEW c \in Waits, Joins(t, o, c), detached' = detached,
         primask' = primask
  PROVE  Attended'
<1>1. OthersStay({t}) /\ pc'[t] = "sched" /\ Where(t)' = c /\ k'.current = k.current
  BY DEF Joins, Enters, Where
<1>2. c \notin {"reset"} \cup DetachPoints
  BY DEF Waits, DetachPoints
<1>3. QED BY <1>1, <1>2, ThreadAttends

\* A handler, which uses no object that is gone.
LEMMA DeviceAttends ==
  ASSUME KInv, Attended, InThread, ~ primask, ~ detached, pc' = pc, cont' = cont,
         detached' = detached, primask' = primask, device' \/ SameReady
  PROVE  Attended'
<1>1. \A u \in Thread : Where(u)' = Where(u)
  BY DEF Where
<1>2. \A u \in Thread : Where(u) # "reset" /\ Where(u) \notin DetachPoints
  BY DEF Attended, ResetMasked, DetachNoted
<1>3. ResetMasked' /\ DetachNoted'
  BY <1>1, <1>2 DEF ResetMasked, DetachNoted
<1>4. Urgent'
  <2>1. CASE device'
    BY <2>1 DEF Urgent
  <2>2. CASE SameReady
    <3>1. (AtHead(k) <=> AtHead(k')) /\ k'.current = k.current
      BY <2>2, SameReadyHead DEF SameReady
    <3>2. QED BY <3>1 DEF Attended, Urgent, InThread
  <2>3. QED BY <2>1, <2>2
<1>5. QED BY <1>3, <1>4 DEF Attended

LEMMA RestAttends ==
  ASSUME Attended, UNCHANGED cpu, UNCHANGED waiting
  PROVE  Attended'
<1>1. /\ k' = k /\ pc' = pc /\ cont' = cont /\ primask' = primask /\ systick' = systick
      /\ device' = device /\ detached' = detached
  BY DEF cpu, waiting
<1>2. \A u : Where(u)' = Where(u) /\ (Running(u)' <=> Running(u))
  BY <1>1 DEF Where, Running, InThread
<1>3. AtHead(k)' <=> AtHead(k)
  BY <1>1 DEF AtHead, highest_ready_priority
<1>4. QED BY <1>1, <1>2, <1>3 DEF Attended, Urgent, ResetMasked, DetachNoted

\* The handlers that use no object.
LEMMA IpcHandlerAttends ==
  ASSUME KInv, Attended, IpcHandler, using' = using
  PROVE  Attended'
<1>1. /\ pc' = pc /\ cont' = cont /\ primask' = primask /\ detached' = detached
      /\ ~ primask \/ systick \/ device
  BY DEF IpcHandler, SysTick_Handler, rt_timer_check, DeviceSchedule, waiting
<1>2. \A u : Where(u)' = Where(u)
  BY <1>1 DEF Where
<1>3. \A u \in Thread : Where(u) # "reset"
  BY <1>1 DEF Attended, ResetMasked, Running, InThread
<1>4. ResetMasked' /\ DetachNoted'
  BY <1>1, <1>2, <1>3 DEF Attended, ResetMasked, DetachNoted
<1>6. KernelOK(k) /\ k.lock = 0
  BY DEF KInv, KernelSound
<1>7. CASE SysTick_Handler
  <2>1. k' = tick_increase(k) /\ device' = device
    BY <1>7 DEF SysTick_Handler
  <2>2. (k'.current # k.current => AtHead(k')) /\ (AtHead(k) => AtHead(k'))
    BY <1>6, <2>1, TickPreserves
  <2>3. Urgent'
    BY <1>1, <2>1, <2>2 DEF Attended, Urgent
  <2>4. QED BY <1>4, <2>3 DEF Attended
<1>8. CASE rt_timer_check /\ Due(k)
  <2>1. k' = timer_expire(k) /\ k.timers # << >>
    BY <1>8 DEF rt_timer_check, Due
  <2>2. AtHead(k')
    BY <1>6, <2>1, ExpirePreserves
  <2>3. QED BY <1>4, <2>2 DEF Attended, Urgent
<1>9. CASE rt_timer_check /\ ~ Due(k)
  <2>1. k' = k /\ device' = device
    BY <1>9 DEF rt_timer_check
  <2>2. Urgent'
    BY <1>1, <2>1 DEF Attended, Urgent
  <2>3. QED BY <1>4, <2>2 DEF Attended
<1>10. CASE DeviceSchedule
  <2>1. k' = rt_schedule(k)
    BY <1>10 DEF DeviceSchedule
  <2>2. AtHead(k')
    BY <1>6, <2>1, SchedulePreserves
  <2>3. QED BY <1>4, <2>2 DEF Attended, Urgent
<1>11. QED BY <1>7, <1>8, <1>9, <1>10 DEF IpcHandler

-----------------------------------------------------------------------------
\* A step that moves nobody, while nobody is in a reset.
LEMMA StayingAttends ==
  ASSUME KInv, Attended, NEW U, NEW W, Relaxes({}, U, W), detached' = detached,
         \A u \in Thread : Where(u) # "reset", Urgent'
  PROVE  Attended'
<1>1. \A u \in Thread : Where(u)' = Where(u)
  BY DEF Relaxes, OthersStay
<1>2. ResetMasked' /\ DetachNoted'
  BY <1>1 DEF Attended, ResetMasked, DetachNoted
<1>3. QED BY <1>2 DEF Attended

LEMMA ScheduleAttends ==
  ASSUME KInv, Attended, NEW t \in Thread, Schedule(t), UNCHANGED waiting, using' = using
  PROVE  Attended'
<1>1. /\ Running(t) /\ pc[t] = "sched" /\ k' = rt_schedule(k) /\ primask' = primask
      /\ detached' = detached
  BY DEF Schedule, waiting
<1>2. AtHead(k')
  BY <1>1, SchedulePreserves DEF KInv, KernelSound
<1>3. Where(t) # "reset"
  BY <1>1, PointsInUse DEF KInv
<1>4. \A u \in Thread : Where(u) # "reset"
  BY <1>1, <1>3 DEF Attended, ResetMasked, Running
<1>5. PICK U, W : Relaxes({}, U, W)
  BY ScheduleRelaxes
<1>6. QED BY <1>1, <1>2, <1>4, <1>5, StayingAttends DEF Urgent

\* A thread in the detach of the object that is gone goes on.
LEMMA DetachingAttends ==
  ASSUME KInv, Attended, NEW t \in Thread, Running(t), pc[t] \in DetachPoints,
         detached' = detached, NEW U, NEW W, Relaxes({t}, U, W),
         Where(t)' \in {"run"} \cup DetachPoints
  PROVE  Attended'
<1>1. Where(t) \in DetachPoints
  BY RunnerIsReady, DetachPointsAre
<1>2. detached /\ Where(t) # "reset" /\ Where(t)' # "reset"
  BY <1>1, DetachPointsAre DEF Attended, DetachNoted
<1>3. \A u \in Thread \ {t} : Where(u)' = Where(u)
  BY DEF Relaxes, OthersStay
<1>4. \A u \in Thread : Where(u) # "reset"
  BY <1>2 DEF Attended, ResetMasked, Running
<1>5. QED BY <1>2, <1>3, <1>4 DEF Attended, Urgent, ResetMasked, DetachNoted

LEMMA DetachAttends ==
  ASSUME KInv, Attended, NEW t \in Thread, using' = using, NEW o \in Object,
         (\E c \in {"run", "senders_test"} : DetachTest(t, o, c)) \/ DetachResume(t, o)
  PROVE  Attended'
<1>1. Running(t) /\ pc[t] \in DetachPoints /\ detached' = detached
  BY DetachPointsAre DEF DetachTest, DetachResume, waiting
<1>2. PICK U : Relaxes({t}, U, {}) /\ Where(t)' \in {"run"} \cup DetachPoints
  <2>1. ASSUME NEW c \in {"run", "senders_test"}, DetachTest(t, o, c)
        PROVE  Relaxes({t}, {}, {}) /\ Where(t)' \in {"run"} \cup DetachPoints
    BY <2>1, DetachTestRelaxes
  <2>2. CASE DetachResume(t, o)
    BY <2>2, DetachResumeRelaxes
  <2>3. QED BY <2>1, <2>2
<1>3. QED BY <1>1, <1>2, DetachingAttends

LEMMA ResetResumeAttends ==
  ASSUME KInv, Attended, NEW t \in Thread, ResetResume(t), using' = using
  PROVE  Attended'
<1>1. /\ Running(t) /\ pc[t] = "reset" /\ primask' = primask /\ detached' = detached
      /\ systick' = systick /\ device' = device
  BY DEF ResetResume, waiting
<1>2. PICK U : Relaxes({}, U, {}) /\ k'.current = k.current
  BY ResetResumeRelaxes
<1>3. Where(t) = "reset"
  BY <1>1, PointsInUse DEF KInv
<1>4. primask /\ ~ detached
  BY <1>3 DEF Attended, ResetMasked
<1>5. \A u \in Thread : Where(u)' = Where(u)
  BY <1>2 DEF Relaxes, OthersStay
<1>6. QED BY <1>1, <1>2, <1>4, <1>5
          DEF Attended, Urgent, ResetMasked, DetachNoted, Running, InThread

LEMMA ObjectCallAttends ==
  ASSUME KInv, Attended, NEW t \in Thread, ObjectCall(t), using' = using
  PROVE  Attended'
<1>1. Calls(t) /\ Running(t) /\ pc[t] = "run" /\ ~ detached
  BY DEF ObjectCall, ResetCall, DetachCall, Calls
<1>2. Where(t) = "run"
  BY <1>1, RunnerIsReady
<1>3. \A u \in Thread : Where(u) # "reset" /\ Where(u) \notin DetachPoints
  BY <1>1, <1>2 DEF Attended, ResetMasked, DetachNoted, Running
<1>4. CASE ResetCall(t)
  <2>1. /\ primask' = TRUE /\ detached' = detached /\ systick' = systick /\ device' = device
    BY <1>4 DEF ResetCall, waiting
  <2>2. Relaxes({t}, {}, {}) /\ Where(t)' = "reset" /\ k' = k
    BY <1>4, ResetCallRelaxes
  <2>3. \A u \in Thread \ {t} : Where(u)' = Where(u)
    BY <2>2 DEF Relaxes, OthersStay
  <2>4. ResetMasked'
    BY <1>1, <1>3, <2>1, <2>2, <2>3 DEF ResetMasked, Running, InThread
  <2>5. DetachNoted'
    BY <1>3, <2>2, <2>3 DEF DetachNoted, DetachPoints
  <2>6. QED BY <1>1, <2>1, <2>4, <2>5 DEF Attended, Urgent
<1>5. CASE DetachCall(t)
  <2>1. detached' = TRUE
    BY <1>5 DEF DetachCall
  <2>2. Relaxes({t}, {}, {}) /\ Where(t)' = "detach_test"
    BY <1>5, DetachCallRelaxes
  <2>3. \A u \in Thread \ {t} : Where(u)' = Where(u)
    BY <2>2 DEF Relaxes, OthersStay
  <2>4. ResetMasked'
    BY <1>3, <2>2, <2>3 DEF ResetMasked
  <2>5. Where(t)' \in DetachPoints
    BY <2>2 DEF DetachPoints
  <2>6. QED BY <2>1, <2>4, <2>5 DEF Attended, Urgent, DetachNoted
<1>6. QED BY <1>4, <1>5 DEF ObjectCall

LEMMA ResetEndAttends ==
  ASSUME KInv, Attended, NEW t \in Thread, ResetEnd(t), using' = using
  PROVE  Attended'
<1>1. Running(t) /\ pc[t] = "reset" /\ detached' = detached
  BY DEF ResetEnd, waiting
<1>2. /\ Relaxes({t}, {}, {}) /\ Where(t)' = "run" /\ pc'[k'.current] = "sched"
  BY ResetEndRelaxes
<1>3. Where(t) = "reset"
  BY <1>1, PointsInUse DEF KInv
<1>4. ~ detached /\ \A u \in Thread \ {t} : Where(u) # "reset"
  BY <1>1, <1>3 DEF Attended, ResetMasked, Running
<1>5. \A u \in Thread \ {t} : Where(u)' = Where(u)
  BY <1>2 DEF Relaxes, OthersStay
<1>6. ResetMasked' /\ DetachNoted'
  BY <1>2, <1>4, <1>5 DEF Attended, ResetMasked, DetachNoted, DetachPoints
<1>7. QED BY <1>1, <1>2, <1>4, <1>6 DEF Attended, Urgent

LEMMA ObjectAttends ==
  ASSUME KInv, Attended, NEW t \in Thread, using' = using,
         AnyStep(t) \/ ObjectCall(t) \/ ResetEnd(t)
  PROVE  Attended'
BY ScheduleAttends, ResetResumeAttends, DetachAttends, ObjectCallAttends, ResetEndAttends
   DEF AnyStep, IpcStep

-----------------------------------------------------------------------------
\* What follows the wake-up of a waiting thread.
LEMMA WakeAttends ==
  ASSUME KInv, NEW t \in Thread, NEW o \in Object, Wake(o)
  PROVE  /\ ReturnAfterWake(t, o) /\ UNCHANGED device =>
              \/ pc'[t] = "sched" /\ k'.current = k.current
              \/ SameReady /\ device' = device
         /\ device' = (k.waitq[o] # << >>) => device' \/ SameReady
<1>1. k'.current = k.current
  BY WakeFrees
<1>2. k.waitq[o] = << >> => k' = k
  BY DEF Wake
<1>3. LocalsTyped /\ "run" \in Continuation
  BY DEF KInv, Continuation
<1>4. ThenSchedule(t, "run") => pc'[t] = "sched"
  BY <1>3, ScheduleMoves
<1>5. k' = k => SameReady
  BY DEF SameReady
<1>6. QED BY <1>1, <1>2, <1>4, <1>5 DEF ReturnAfterWake

LEMMA ErrorKeepsReady ==
  ASSUME NEW t, NEW e, k \in KernelState, k' = [k EXCEPT !.error[t] = e]
  PROVE  SameReady
BY DEF SameReady, KernelState

\* A wait that is over.
LEMMA FailsAttends ==
  ASSUME KInv, Attended, NEW t \in Thread, NEW c \in Waits, using' = using,
         Fails(t, c) \/ \E e \in Error : GivesUp(t, c, e)
  PROVE  Attended'
<1>1. c \notin {"sched", "reset"} \cup DetachPoints
  BY DEF Waits, DetachPoints
<1>2. Relaxes({t}, {}, {}) /\ Where(t)' = "run"
  BY <1>1, FailsRelaxes
<1>3. /\ Running(t) /\ pc[t] = c /\ Forget(t) /\ UNCHANGED <<primask, device>>
      /\ k' = k \/ \E e \in Error : k' = [k EXCEPT !.error[t] = e]
  BY DEF Fails, GivesUp, Resumes
<1>4. k \in KernelState
  BY DEF KInv, KernelSound, KernelOK
<1>5. SameReady
  BY <1>3, <1>4, ErrorKeepsReady DEF SameReady
<1>6. detached' = detached
  BY <1>3 DEF Forget
<1>7. "run" \notin {"reset"} \cup DetachPoints
  BY DEF DetachPoints
<1>8. QED BY <1>1, <1>2, <1>3, <1>5, <1>6, <1>7, RelaxAttends

-----------------------------------------------------------------------------
\* A thread goes on at a point that is in no reset and no detach.
LEMMA RunIsOutside ==
  /\ {"run", "mq_copy", "alloc_test", "mq_send", "mq_urgent"}
       \cap ({"sched", "reset"} \cup DetachPoints) = {}
  /\ Waits \cap ({"sched", "reset"} \cup DetachPoints) = {}
BY DEF DetachPoints, Waits

LEMMA MbStepAttends ==
  ASSUME KInv, MbInv, Attended, using = "mb", using' = using, NEW t \in Thread, NEW v,
         \/ Send(t, v) \/ SendAgain(t) \/ Recv(t) \/ RecvAgain(t)
         \/ SendGivesUp(t) \/ RecvGivesUp(t)
  PROVE  Attended'
<1>0. suspend_thread \in Object /\ suspend_sender_thread \in Object
  BY IpcAssumption
<1>1. ASSUME NEW m, Sent(t, m), Running(t), pc[t] \in {"run", "send"}
      PROVE  Attended'
  <2>1. pc[t] \notin {"sched", "reset"} \cup DetachPoints
    BY <1>1 DEF DetachPoints
  <2>2. Relaxes({t}, FirstOn(suspend_thread), FirstOn(suspend_thread)) /\ Where(t)' = "run"
    BY <1>1, <2>1, SentRelaxes
  <2>3. /\ Wake(suspend_thread) /\ ReturnAfterWake(t, suspend_thread) /\ UNCHANGED device
        /\ primask' = primask /\ detached' = detached
    BY <1>1 DEF Sent, Store, Forget
  <2>4. \/ pc'[t] = "sched" /\ k'.current = k.current
        \/ SameReady /\ device' = device
    BY <1>0, <2>3, WakeAttends
  <2>5. Where(t)' \notin {"reset"} \cup DetachPoints
    BY <2>2, RunIsOutside
  <2>6. QED BY <1>1, <2>1, <2>2, <2>3, <2>4, <2>5, RelaxAttends
<1>2. ASSUME Received(t), Running(t), pc[t] \in {"run", "recv"}
      PROVE  Attended'
  <2>1. pc[t] \notin {"sched", "reset"} \cup DetachPoints
    BY <1>2 DEF DetachPoints
  <2>2. Relaxes({t}, FirstOn(suspend_sender_thread), FirstOn(suspend_sender_thread))
        /\ Where(t)' = "run"
    BY <1>2, <2>1, ReceivedRelaxes
  <2>3. /\ Wake(suspend_sender_thread) /\ ReturnAfterWake(t, suspend_sender_thread)
        /\ UNCHANGED device /\ primask' = primask /\ detached' = detached
    BY <1>2 DEF Received, Fetch, Forget
  <2>4. \/ pc'[t] = "sched" /\ k'.current = k.current
        \/ SameReady /\ device' = device
    BY <1>0, <2>3, WakeAttends
  <2>5. Where(t)' \notin {"reset"} \cup DetachPoints
    BY <2>2, RunIsOutside
  <2>6. QED BY <1>2, <2>1, <2>2, <2>3, <2>4, <2>5, RelaxAttends
<1>3. ASSUME NEW c \in {"send", "recv"}, Fails(t, c) \/ \E e \in Error : GivesUp(t, c, e)
      PROVE  Attended'
  <2>1. c \in Waits
    BY DEF Waits
  <2>2. QED BY <1>3, <2>1, FailsAttends
<1>4. "EOK" \in Error /\ "ETIMEOUT" \in Error
  BY DEF Error
<1>5. CASE Send(t, v)
  BY <1>1, <1>5 DEF Send, Calls
<1>6. CASE SendAgain(t)
  BY <1>1, <1>6 DEF SendAgain, Resumes
<1>7. CASE Recv(t)
  BY <1>2, <1>7 DEF Recv, Calls
<1>8. CASE RecvAgain(t)
  BY <1>2, <1>8 DEF RecvAgain, Resumes
<1>9. CASE SendGivesUp(t)
  BY <1>3, <1>4, <1>9 DEF SendGivesUp
<1>10. CASE RecvGivesUp(t)
  BY <1>3, <1>4, <1>10 DEF RecvGivesUp
<1>11. QED BY <1>5, <1>6, <1>7, <1>8, <1>9, <1>10

LEMMA MbWaitAttends ==
  ASSUME KInv, MbInv, Attended, using = "mb", using' = using, NEW t \in Thread, NEW v,
         \/ SendWaitAgain(t) \/ \E time \in WaitTimes[t] : SendWait(t, v, time)
         \/ RecvWaitAgain(t) \/ \E time \in WaitTimes[t] : RecvWait(t, time)
  PROVE  Attended'
<1>1. detached' = detached
  BY DEF SendWaitAgain, SendWait, RecvWaitAgain, RecvWait, AwaitRoom, AwaitMail, Await
<1>2. /\ Running(t) /\ primask' = primask
      /\ pc[t] \notin {"sched", "reset"} \cup DetachPoints
  BY DEF SendWaitAgain, SendWait, RecvWaitAgain, RecvWait, AwaitRoom, AwaitMail, Await,
         Calls, Resumes, DetachPoints
<1>3. "send" \in Waits /\ "recv" \in Waits
  BY DEF Waits
<1>4. CASE SendWaitAgain(t) \/ \E time \in WaitTimes[t] : SendWait(t, v, time)
  <2>1. Joins(t, suspend_sender_thread, "send")
    BY <1>4, SendWaitJoins
  <2>2. PICK c \in Waits : c = "send"
    BY <1>3
  <2>3. QED BY <1>1, <1>2, <2>1, <2>2, JoinAttends
<1>5. CASE RecvWaitAgain(t) \/ \E time \in WaitTimes[t] : RecvWait(t, time)
  <2>1. Joins(t, suspend_thread, "recv")
    BY <1>5, RecvWaitJoins
  <2>2. PICK c \in Waits : c = "recv"
    BY <1>3
  <2>3. QED BY <1>1, <1>2, <2>1, <2>2, JoinAttends
<1>6. QED BY <1>4, <1>5

LEMMA MbAttends ==
  ASSUME KInv, MbInv, Attended, using = "mb", using' = using, MbNext
  PROVE  Attended'
<1>1. CASE MbHandler
  <2>1. CASE IpcHandler
    BY <2>1, IpcHandlerAttends
  <2>2. ASSUME NEW o \in Object, Wake(o), device' = (k.waitq[o] # << >>),
               InThread, ~ primask, ~ detached,
               UNCHANGED <<pc, cont, primask, systick, waiting, mail>>
        PROVE  Attended'
    <3>1. PICK t \in Thread : TRUE
      BY KernelAssumption
    <3>2. device' \/ SameReady
      BY <2>2, <3>1, WakeAttends
    <3>3. detached' = detached /\ pc' = pc /\ cont' = cont /\ primask' = primask
      BY <2>2 DEF waiting
    <3>4. QED BY <2>2, <3>2, <3>3, DeviceAttends
  <2>3. suspend_thread \in Object /\ suspend_sender_thread \in Object
    BY IpcAssumption
  <2>4. CASE DeviceRecv
    BY <2>2, <2>3, <2>4 DEF DeviceRecv, Fetch
  <2>5. ASSUME NEW v \in Mail, DeviceSend(v)
        PROVE  Attended'
    BY <2>2, <2>3, <2>5 DEF DeviceSend, Store
  <2>6. QED BY <1>1, <2>1, <2>4, <2>5 DEF MbHandler
<1>2. ASSUME NEW t \in Thread, MbStep(t)
      PROVE  Attended'
  <2>1. PICK v : v \notin Mail
    BY MailboxAssumption
  <2>2. CASE ObjectStep(t, "senders_test") \/ SendersDetach(t)
    BY <2>2, StepsAre, ObjectAttends
  <2>3. CASE ResetRing(t)
    BY <2>3, ObjectAttends DEF ResetRing
  <2>4. CASE SendAgain(t) \/ RecvAgain(t) \/ SendGivesUp(t) \/ RecvGivesUp(t)
    BY <2>4, MbStepAttends
  <2>5. CASE SendWaitAgain(t) \/ RecvWaitAgain(t)
    BY <2>5, MbWaitAttends
  <2>6. QED BY <1>2, <2>2, <2>3, <2>4, <2>5 DEF MbStep
<1>3. ASSUME NEW t \in Thread, MbCall(t)
      PROVE  Attended'
  <2>1. CASE ObjectCall(t)
    BY <2>1, ObjectAttends
  <2>2. ASSUME NEW v, \/ Send(t, v) \/ Recv(t)
        PROVE  Attended'
    BY <2>2, MbStepAttends
  <2>3. ASSUME NEW v, \/ \E time \in WaitTimes[t] : SendWait(t, v, time)
                      \/ \E time \in WaitTimes[t] : RecvWait(t, time)
        PROVE  Attended'
    BY <2>3, MbWaitAttends
  <2>4. QED BY <1>3, <2>1, <2>2, <2>3 DEF MbCall
<1>4. QED BY <1>1, <1>2, <1>3 DEF MbNext

-----------------------------------------------------------------------------
LEMMA EventAttends ==
  ASSUME KInv, EventInv, Attended, using = "event", using' = using, EventNext
  PROVE  Attended'
<1>1. CASE EventHandler
  <2>1. CASE IpcHandler
    BY <2>1, IpcHandlerAttends
  <2>2. ASSUME NEW s \in FlagSet, DeviceEventSend(s)
        PROVE  Attended'
    <3>1. device' \/ k' = k
      BY <2>2, DeviceEventRelaxes
    <3>2. /\ InThread /\ ~ primask /\ ~ detached /\ pc' = pc /\ cont' = cont
          /\ primask' = primask /\ detached' = detached
      BY <2>2 DEF DeviceEventSend, waiting
    <3>3. QED BY <3>1, <3>2, DeviceAttends DEF SameReady
  <2>3. QED BY <1>1, <2>1, <2>2 DEF EventHandler
<1>2. ASSUME NEW t \in Thread, Running(t), pc[t] \in {"run", "event"}, Where(t)' = "run",
             NEW U, NEW W, Relaxes({t}, U, W), detached' = detached, primask' = primask,
             \/ pc'[t] = "sched" /\ k'.current = k.current
             \/ SameReady /\ device' = device
      PROVE  Attended'
  <2>1. pc[t] \notin {"sched", "reset"} \cup DetachPoints
    BY <1>2 DEF DetachPoints
  <2>2. Where(t)' \notin {"reset"} \cup DetachPoints
    BY <1>2, RunIsOutside
  <2>3. QED BY <1>2, <2>1, <2>2, RelaxAttends
<1>3. ASSUME NEW t \in Thread, EventStep(t)
      PROVE  Attended'
  <2>1. CASE ObjectStep(t, "run")
    BY <2>1, StepsAre, ObjectAttends
  <2>2. CASE EventReset(t)
    BY <2>2, ObjectAttends DEF EventReset
  <2>3. CASE EventRecvReturn(t)
    <3>1. Relaxes({t}, {}, {}) /\ Where(t)' = "run" /\ k' = k
      BY <2>3, EventReturnRelaxes
    <3>2. /\ Running(t) /\ pc[t] = "event" /\ detached' = detached /\ primask' = primask
          /\ device' = device
      BY <2>3 DEF EventRecvReturn, Forget
    <3>3. QED BY <1>2, <3>1, <3>2 DEF SameReady
  <2>4. QED BY <1>3, <2>1, <2>2, <2>3 DEF EventStep
<1>4. ASSUME NEW t \in Thread, EventCall(t)
      PROVE  Attended'
  <2>1. CASE ObjectCall(t)
    BY <2>1, ObjectAttends
  <2>2. ASSUME NEW s \in FlagSet, rt_event_send(t, s)
        PROVE  Attended'
    <3>1. PICK T : /\ Relaxes({t}, T, T) /\ Where(t)' = "run" /\ k'.current = k.current
                   /\ pc'[t] = "sched" \/ k' = k
      BY <2>2, EventSendRelaxes
    <3>2. /\ Running(t) /\ pc[t] = "run" /\ detached' = detached /\ primask' = primask
          /\ device' = device
      BY <2>2 DEF rt_event_send, Calls, waiting
    <3>3. QED BY <1>2, <3>1, <3>2 DEF SameReady
  <2>3. ASSUME NEW w \in SUBSET Flag, NEW o, EventRecv(t, w, o)
        PROVE  Attended'
    <3>1. Relaxes({t}, {}, {}) /\ Where(t)' = "run" /\ k' = [k EXCEPT !.error[t] = "EOK"]
      BY <2>3, EventRecvRelaxes
    <3>2. /\ Running(t) /\ pc[t] = "run" /\ detached' = detached /\ primask' = primask
          /\ device' = device
      BY <2>3 DEF EventRecv, Calls, waiting
    <3>3. k \in KernelState
      BY DEF KInv, KernelSound, KernelOK
    <3>4. SameReady
      BY <3>1, <3>3, ErrorKeepsReady
    <3>5. QED BY <1>2, <3>1, <3>2, <3>4
  <2>4. ASSUME NEW w \in SUBSET Flag, NEW o \in SUBSET {"AND", "OR", "CLEAR"},
               NEW time \in WaitTimes[t], EventRecvWait(t, w, o, time)
        PROVE  Attended'
    <3>1. Joins(t, suspend_thread, "event")
      BY <2>4, EventWaitJoins
    <3>2. /\ Running(t) /\ pc[t] = "run" /\ ~ detached /\ detached' = detached
          /\ primask' = primask
      BY <2>4 DEF EventRecvWait, Calls, Await
    <3>3. PICK c \in Waits : c = "event"
      BY DEF Waits
    <3>4. pc[t] \notin {"sched", "reset"} \cup DetachPoints
      BY <3>2, RunIsOutside
    <3>5. QED BY <3>1, <3>2, <3>3, <3>4, JoinAttends
  <2>5. ASSUME NEW a \in Asks[t],
               \/ EventRecv(t, a.flags, a.option)
               \/ \E time \in WaitTimes[t] : EventRecvWait(t, a.flags, a.option, time)
        PROVE  Attended'
    <3>1. a.flags \in SUBSET Flag /\ a.option \in SUBSET {"AND", "OR", "CLEAR"}
      BY EventAssumption
    <3>2. PICK w \in SUBSET Flag : w = a.flags
      BY <3>1
    <3>3. PICK o \in SUBSET {"AND", "OR", "CLEAR"} : o = a.option
      BY <3>1
    <3>4. QED BY <2>3, <2>4, <2>5, <3>2, <3>3
  <2>6. QED BY <1>4, <2>1, <2>2, <2>5 DEF EventCall
<1>5. QED BY <1>1, <1>3, <1>4 DEF EventNext

-----------------------------------------------------------------------------
(***************************************************************************)
(* The message queue: how many messages wait, and for whom.                *)
(***************************************************************************)
\* For every message there is a woken receiver while others wait.
QueueStocked ==
  /\ mq_entry \in Nat
  /\ Backed(Waiters(suspend_thread), mq_entry, Woken("recv"))

LEMMA FewerThreads ==
  ASSUME NEW D \in SUBSET Thread
  PROVE  /\ Cardinality(D) \in Nat
         /\ \A E \in SUBSET D : Cardinality(E) <= Cardinality(D)
         /\ \A h \in Thread : \A E \in SUBSET (D \cup {h}) : Cardinality(E) <= Cardinality(D) + 1
         /\ \A t \in D : Cardinality(D \ {t}) = Cardinality(D) - 1 /\ Cardinality(D) > 0
<1>1. IsFiniteSet(D)
  BY ThreadFinite, FS_Subset
<1>2. Cardinality(D) \in Nat
  BY <1>1, FS_CardinalityType
<1>3. \A E \in SUBSET D : Cardinality(E) <= Cardinality(D)
  BY <1>1, FS_Subset
<1>4. ASSUME NEW h \in Thread, NEW E \in SUBSET (D \cup {h})
      PROVE  Cardinality(E) <= Cardinality(D) + 1
  <2>1. PICK V : V = D \cup {h}
    OBVIOUS
  <2>2. IsFiniteSet(V) /\ (Cardinality(V) = Cardinality(D) \/ Cardinality(V) = Cardinality(D) + 1)
    BY <1>1, <2>1, FS_AddElement
  <2>3. Cardinality(E) <= Cardinality(V) /\ Cardinality(E) \in Nat
    BY <2>1, <2>2, FS_Subset, FS_CardinalityType
  <2>4. QED BY <1>2, <2>2, <2>3
<1>5. ASSUME NEW t \in D
      PROVE  Cardinality(D \ {t}) = Cardinality(D) - 1 /\ Cardinality(D) > 0
  <2>1. PICK E : E = D \ {t}
    OBVIOUS
  <2>2. IsFiniteSet(E) /\ Cardinality(E) = Cardinality(D) - 1
    BY <1>1, <2>1, FS_RemoveElement
  <2>3. Cardinality(E) \in Nat
    BY <2>2, FS_CardinalityType
  <2>4. QED BY <1>2, <2>1, <2>2, <2>3
<1>6. QED BY <1>2, <1>3, <1>4, <1>5

LEMMA MqWaitPoints ==
  ASSUME KInv, using = "mq"
  PROVE  /\ suspend_thread \in Object /\ "recv" \in Waits /\ suspend_thread # pool_waiters
         /\ \A u \in Waiters(suspend_thread) : Where(u) = "recv"
<1>1. /\ suspend_thread \in Object /\ "recv" \in Waits /\ suspend_thread # pool_waiters
  BY IpcAssumption, MemPoolAssumption DEF Waits
<1>2. \A u \in Waiters(suspend_thread) : WaitPoint(suspend_thread, Where(u))
  BY <1>1 DEF KInv, QueuedInWait, Waiters
<1>3. QED BY <1>1, <1>2 DEF WaitPoint

LEMMA QueueCalm ==
  ASSUME KInv, QueueStocked, using = "mq", NEW X \in SUBSET Thread, NEW U, Calm(X, U),
         mq_entry' = mq_entry
  PROVE  QueueStocked'
<1>1. Woken("recv")' = Woken("recv")
  BY CalmWoken DEF Waits
<1>2. Relaxes(X, U, {})
  BY DEF Calm
<1>3. Waiters(suspend_thread)' = Waiters(suspend_thread) \ U
  BY <1>2, MqWaitPoints, WaitersRelax
<1>4. Backed(Waiters(suspend_thread)', mq_entry', Woken("recv")')
  BY <1>1, <1>3 DEF QueueStocked, Backed
<1>5. QED BY <1>4 DEF QueueStocked

\* A message is linked, and a receiver woken.
LEMMA LinkStocks ==
  ASSUME KInv, QueueStocked, using = "mq", NEW X \in SUBSET Thread,
         Relaxes(X, FirstOn(suspend_thread), FirstOn(suspend_thread)),
         X \cap Woken("recv") = {}, mq_entry' = mq_entry + 1
  PROVE  QueueStocked'
<1>0. PICK o \in Object : o = suspend_thread
  BY MqWaitPoints
<1>1. PICK c \in Waits : c = "recv"
  BY MqWaitPoints
<1>2. /\ \A u \in Waiters(o) : Where(u) = c
      /\ Relaxes(X, FirstOn(o), FirstOn(o)) /\ Woken(c) \cap X = {}
      /\ mq_entry \in Int /\ Backed(Waiters(o), mq_entry, Woken(c))
  BY <1>0, <1>1, MqWaitPoints DEF QueueStocked
<1>3. PICK n \in Int : n = mq_entry
  BY <1>2
<1>4. Backed(Waiters(o), n, Woken(c))
  BY <1>2, <1>3
<1>5. Backed(Waiters(o)', n + 1, Woken(c)')
  BY <1>2, <1>4, FirstBacks
<1>6. Waiters(o)' = Waiters(suspend_thread)' /\ Woken(c)' = Woken("recv")'
  BY <1>0, <1>1 DEF Waiters, Woken
<1>7. mq_entry' \in Nat /\ mq_entry' = n + 1
  BY <1>3 DEF QueueStocked
<1>8. QED BY <1>5, <1>6, <1>7 DEF QueueStocked

\* Nobody on the way goes elsewhere, and no message is linked or unlinked.
LEMMA QueueRests ==
  ASSUME KInv, QueueStocked, using = "mq", NEW X \in SUBSET Thread, Relaxes(X, {}, {}),
         X \cap Woken("recv") = {} \/ mq_entry = 0, mq_entry' = mq_entry
  PROVE  QueueStocked'
<1>0. Woken("recv")' = Woken("recv") \ X
  <2>1. PICK c \in Waits : c = "recv"
    BY DEF Waits
  <2>2. PICK W : W = {}
    OBVIOUS
  <2>3. Relaxes(X, W, W)
    BY <2>2
  <2>4. Woken(c)' = (Woken(c) \ X) \cup {u \in W : Where(u) = c}
    BY ONLY KInv, X \in SUBSET Thread, c \in Waits, <2>3, WokenRelaxes
  <2>5. QED BY <2>1, <2>2, <2>4 DEF Woken
<1>1. Waiters(suspend_thread)' = Waiters(suspend_thread)
  <2>1. Waiters(suspend_thread)' = Waiters(suspend_thread) \ {}
    BY MqWaitPoints, WaitersRelax
  <2>2. QED BY <2>1
<1>2. PICK D \in SUBSET Thread : D = Woken("recv")
  BY WokenIs DEF Waits
<1>3. PICK E \in SUBSET D : E = Woken("recv")'
  BY <1>0, <1>2
<1>4. Cardinality(E) <= Cardinality(D) /\ Cardinality(E) \in Nat /\ Cardinality(D) \in Nat
  <2>1. E \in SUBSET Thread
    OBVIOUS
  <2>2. QED BY <2>1, FewerThreads
<1>5. mq_entry = 0 \/ E = D
  BY <1>0, <1>2, <1>3
<1>6. Backed(Waiters(suspend_thread), mq_entry, E)
  BY <1>2, <1>4, <1>5 DEF QueueStocked, Backed
<1>7. QED BY <1>1, <1>3, <1>6 DEF QueueStocked

\* A message is unlinked: by a woken receiver, or by somebody else.
LEMMA UnlinkStocks ==
  ASSUME KInv, QueueStocked, using = "mq", NEW X \in SUBSET Thread, Relaxes(X, {}, {}),
         X \cap Woken("recv") = {} \/ \E t \in Woken("recv") : X = {t},
         mq_entry # 0, mq_entry' = mq_entry - 1
  PROVE  QueueStocked'
<1>0. Woken("recv")' = Woken("recv") \ X
  <2>1. PICK c \in Waits : c = "recv"
    BY DEF Waits
  <2>2. PICK W : W = {}
    OBVIOUS
  <2>3. Relaxes(X, W, W)
    BY <2>2
  <2>4. Woken(c)' = (Woken(c) \ X) \cup {u \in W : Where(u) = c}
    BY ONLY KInv, X \in SUBSET Thread, c \in Waits, <2>3, WokenRelaxes
  <2>5. QED BY <2>1, <2>2, <2>4 DEF Woken
<1>1. Waiters(suspend_thread)' = Waiters(suspend_thread)
  <2>1. Waiters(suspend_thread)' = Waiters(suspend_thread) \ {}
    BY MqWaitPoints, WaitersRelax
  <2>2. QED BY <2>1
<1>2. PICK D \in SUBSET Thread : D = Woken("recv")
  BY WokenIs DEF Waits
<1>3. PICK E \in SUBSET D : E = Woken("recv")'
  BY <1>0, <1>2
<1>4. E = D \/ Cardinality(E) = Cardinality(D) - 1
  <2>1. CASE X \cap Woken("recv") = {}
    BY <1>0, <1>2, <1>3, <2>1
  <2>2. ASSUME NEW t \in D, X = {t}
        PROVE  Cardinality(E) = Cardinality(D) - 1
    <3>1. E = D \ {t}
      BY <1>0, <1>2, <1>3, <2>2
    <3>2. QED BY <3>1, FewerThreads
  <2>3. QED BY <1>2, <2>1, <2>2
<1>5. Cardinality(D) \in Nat /\ mq_entry \in Nat /\ mq_entry' \in Nat
  BY FewerThreads DEF QueueStocked
<1>6. Waiters(suspend_thread) # {} => mq_entry <= Cardinality(D)
  BY <1>2 DEF QueueStocked, Backed
<1>7. Waiters(suspend_thread) # {} => mq_entry' <= Cardinality(E)
  BY <1>4, <1>5, <1>6
<1>8. QED BY <1>1, <1>3, <1>5, <1>7 DEF QueueStocked, Backed

\* Whoever begins to wait, or waits again, finds the queue empty.
LEMMA MqWaitKeeps ==
  ASSUME KInv, QueueStocked, using = "mq", using' = using, NEW t \in Thread,
         MqRecvWaitAgain(t) \/ \E time \in WaitTimes[t] : MqRecvWait(t, time)
  PROVE  QueueStocked'
<1>1. mq_entry = 0 /\ mq_entry' = mq_entry
  BY DEF MqRecvWaitAgain, MqRecvWait, MqAwait, queue_vars
<1>2. PICK S \in SUBSET Thread : S = Woken("recv")'
  BY WokenIs DEF Waits
<1>3. Backed(Waiters(suspend_thread)', 0, S)
  BY NothingBacks
<1>4. QED BY <1>1, <1>2, <1>3 DEF QueueStocked

LEMMA MqResetKeeps ==
  ASSUME KInv, using = "mq", using' = using, NEW t \in Thread, MqReset(t)
  PROVE  QueueStocked'
<1>1. mq_entry' = 0
  BY DEF MqReset
<1>2. PICK S \in SUBSET Thread : S = Woken("recv")'
  BY WokenIs DEF Waits
<1>3. Backed(Waiters(suspend_thread)', 0, S)
  BY NothingBacks
<1>4. QED BY <1>1, <1>2, <1>3 DEF QueueStocked

-----------------------------------------------------------------------------
LEMMA MqStepKeeps ==
  ASSUME KInv, QueueStocked, Attended, using = "mq", using' = using, NEW t \in Thread,
         \/ \E m \in Message : \E d \in {"mq_send", "mq_urgent"} : MqTakeBlock(t, m, d)
         \/ MqLink(t) \/ MqFreeBlock(t) \/ MqRecv(t) \/ MqRecvAgain(t) \/ MqRecvGivesUp(t)
  PROVE  QueueStocked' /\ Attended'
<1>0. "recv" \in Waits \cup {"alloc_test"} /\ "recv" \in Waits
  BY DEF Waits
<1>1. ASSUME NEW U, NEW W, Relaxes({t}, U, W), Running(t),
             pc[t] \in {"run", "mq_send", "mq_urgent", "mq_copy", "recv"},
             Where(t)' \in {"run", "mq_send", "mq_urgent", "mq_copy"},
             detached' = detached, primask' = primask,
             \/ pc'[t] = "sched" /\ k'.current = k.current
             \/ SameReady /\ device' = device
      PROVE  Attended'
  <2>1. pc[t] \notin {"sched", "reset"} \cup DetachPoints
    BY <1>1 DEF DetachPoints
  <2>2. Where(t)' \notin {"reset"} \cup DetachPoints
    BY <1>1 DEF DetachPoints
  <2>3. QED BY <1>1, <2>1, <2>2, RelaxAttends
<1>2. ASSUME Running(t), pc[t] \in {"run", "mq_send", "mq_urgent", "mq_copy"}
      PROVE  {t} \cap Woken("recv") = {}
  <2>1. pc[t] # "sched" /\ pc[t] # "recv"
    BY <1>2
  <2>2. QED BY <1>0, <1>2, <2>1, RunnerWoken
<1>3. PICK X \in SUBSET Thread : X = {t}
  OBVIOUS
<1>4. ASSUME NEW m \in Message, NEW d \in {"mq_send", "mq_urgent"}, MqTakeBlock(t, m, d)
      PROVE  QueueStocked' /\ Attended'
  <2>1. /\ Running(t) /\ pc[t] = "run" /\ mq_entry' = mq_entry /\ k' = k
        /\ detached' = detached /\ primask' = primask /\ device' = device
    BY <1>4 DEF MqTakeBlock, Calls, waiting
  <2>2. Relaxes({t}, {}, {}) /\ Where(t)' = d
    BY <1>4, MqTakeRelaxes
  <2>3. QueueStocked'
    <3>1. X \cap Woken("recv") = {} /\ Relaxes(X, {}, {})
      BY <1>2, <1>3, <2>1, <2>2
    <3>2. QED BY <2>1, <3>1, QueueRests
  <2>4. Attended'
    BY <1>1, <2>1, <2>2 DEF SameReady
  <2>5. QED BY <2>3, <2>4
<1>5. CASE MqLink(t)
  <2>1. /\ Running(t) /\ pc[t] \in {"mq_send", "mq_urgent"} /\ mq_entry' = mq_entry + 1
        /\ Wake(suspend_thread) /\ ReturnAfterWake(t, suspend_thread) /\ UNCHANGED device
        /\ detached' = detached /\ primask' = primask
    BY <1>5 DEF MqLink, LinkLast, LinkFirst, waiting
  <2>2. /\ Relaxes({t}, FirstOn(suspend_thread), FirstOn(suspend_thread))
        /\ Where(t)' = "run"
    BY <1>5, MqLinkRelaxes
  <2>3. QueueStocked'
    <3>1. X \cap Woken("recv") = {}
          /\ Relaxes(X, FirstOn(suspend_thread), FirstOn(suspend_thread))
      BY <1>2, <1>3, <2>1, <2>2
    <3>2. QED BY <2>1, <3>1, LinkStocks
  <2>4. \/ pc'[t] = "sched" /\ k'.current = k.current
        \/ SameReady /\ device' = device
    BY <2>1, MqWaitPoints, WakeAttends
  <2>5. Attended'
    BY <1>1, <2>1, <2>2, <2>4
  <2>6. QED BY <2>3, <2>5
<1>6. CASE MqFreeBlock(t)
  <2>1. /\ Running(t) /\ pc[t] = "mq_copy" /\ mq_entry' = mq_entry /\ k' = k
        /\ detached' = detached /\ primask' = primask /\ device' = device
    BY <1>6 DEF MqFreeBlock, waiting
  <2>2. Relaxes({t}, {}, {}) /\ Where(t)' = "run"
    BY <1>6, MqFreeRelaxes
  <2>3. QueueStocked'
    <3>1. X \cap Woken("recv") = {} /\ Relaxes(X, {}, {})
      BY <1>2, <1>3, <2>1, <2>2
    <3>2. QED BY <2>1, <3>1, QueueRests
  <2>4. Attended'
    BY <1>1, <2>1, <2>2 DEF SameReady
  <2>5. QED BY <2>3, <2>4
<1>7. CASE MqRecv(t) \/ MqRecvAgain(t)
  <2>1. /\ Running(t) /\ pc[t] \in {"run", "recv"} /\ pc[t] # "sched" /\ Unlink(t)
    BY <1>7 DEF MqRecv, MqRecvAgain, Calls, Resumes
  <2>2. /\ mq_entry # 0 /\ mq_entry' = mq_entry - 1 /\ k' = k
        /\ detached' = detached /\ primask' = primask /\ device' = device
    BY <2>1 DEF Unlink, Forget
  <2>3. Relaxes({t}, {}, {}) /\ Where(t)' = "mq_copy"
    BY <2>1, UnlinkRelaxes
  <2>4. X \cap Woken("recv") = {} \/ \E u \in Woken("recv") : X = {u}
    <3>1. CASE MqRecv(t)
      <4>1. pc[t] = "run"
        BY <3>1 DEF MqRecv, Calls
      <4>2. QED BY <1>2, <1>3, <2>1, <4>1
    <3>2. CASE MqRecvAgain(t)
      <4>1. Resumes(t, "recv")
        BY <3>2 DEF MqRecvAgain
      <4>2. t \in Woken("recv")
        BY <1>0, <4>1, ResumesWoken
      <4>3. QED BY <1>3, <4>2
    <3>3. QED BY <1>7, <3>1, <3>2
  <2>5. Relaxes(X, {}, {})
    BY <1>3, <2>3
  <2>6. QueueStocked'
    BY <2>2, <2>4, <2>5, UnlinkStocks
  <2>7. Attended'
    BY <1>1, <2>1, <2>2, <2>3 DEF SameReady
  <2>8. QED BY <2>6, <2>7
<1>8. CASE MqRecvGivesUp(t)
  <2>1. /\ mq_entry' = mq_entry
        /\ Fails(t, "recv") \/ (mq_entry = 0 /\ GivesUp(t, "recv", "ETIMEOUT"))
    BY <1>8 DEF MqRecvGivesUp, queue_vars
  <2>2. Relaxes({t}, {}, {})
    BY <1>8, RecvGivesUpRelaxes
  <2>3. {t} \cap Woken("recv") = {} \/ mq_entry = 0
    <3>1. CASE Fails(t, "recv")
      <4>1. Running(t) /\ pc[t] # "sched" /\ k.error[t] # "EOK"
        BY <3>1 DEF Fails
      <4>2. QED BY <1>0, <4>1, RunnerWoken
    <3>2. QED BY <2>1, <3>1
  <2>5. QueueStocked'
    <3>1. X \cap Woken("recv") = {} \/ mq_entry = 0
      BY <1>3, <2>3
    <3>2. Relaxes(X, {}, {})
      BY <1>3, <2>2
    <3>3. QED BY <2>1, <3>1, <3>2, QueueRests
  <2>6. "ETIMEOUT" \in Error
    BY DEF Error
  <2>7. PICK c \in Waits : c = "recv"
    BY <1>0
  <2>8. Fails(t, c) \/ \E e \in Error : GivesUp(t, c, e)
    BY <2>1, <2>6, <2>7
  <2>9. Attended'
    BY <2>8, FailsAttends
  <2>10. QED BY <2>5, <2>9
<1>9. QED BY <1>4, <1>5, <1>6, <1>7, <1>8

LEMMA MqDeviceKeeps ==
  ASSUME KInv, QueueStocked, Attended, using = "mq", using' = using,
         DeviceMqRecv \/ \E m \in Message : DeviceMqSend(m)
  PROVE  QueueStocked' /\ Attended'
<1>0. PICK X \in SUBSET Thread : X = {}
  OBVIOUS
<1>1. CASE DeviceMqRecv
  <2>1. /\ UNCHANGED cpu /\ UNCHANGED waiting
        /\ mq_entry # 0 /\ mq_entry' = mq_entry - 1
    BY <1>1 DEF DeviceMqRecv
  <2>2. Relaxes(X, {}, {})
    BY <1>0, <2>1, CpuRests
  <2>3. X \cap Woken("recv") = {}
    BY <1>0
  <2>4. QueueStocked'
    BY <2>1, <2>2, <2>3, UnlinkStocks
  <2>5. QED BY <2>1, <2>4, RestAttends
<1>2. ASSUME NEW m \in Message, DeviceMqSend(m)
      PROVE  QueueStocked' /\ Attended'
  <2>1. /\ InThread /\ ~ primask /\ ~ detached /\ mq_entry' = mq_entry + 1
        /\ Wake(suspend_thread) /\ device' = (k.waitq[suspend_thread] # << >>)
        /\ detached' = detached /\ primask' = primask /\ pc' = pc /\ cont' = cont
    BY <1>2 DEF DeviceMqSend, LinkLast, LinkFirst, waiting
  <2>2. Relaxes({}, FirstOn(suspend_thread), FirstOn(suspend_thread))
    BY <1>2, DeviceMqSendRelaxes
  <2>3. Relaxes(X, FirstOn(suspend_thread), FirstOn(suspend_thread)) /\ X \cap Woken("recv") = {}
    BY <1>0, <2>2
  <2>4. QueueStocked'
    BY <2>1, <2>3, LinkStocks
  <2>5. PICK t \in Thread : TRUE
    BY KernelAssumption
  <2>6. device' \/ SameReady
    BY <2>1, <2>5, MqWaitPoints, WakeAttends
  <2>7. Attended'
    BY <2>1, <2>6, DeviceAttends
  <2>8. QED BY <2>4, <2>7
<1>3. QED BY <1>1, <1>2

LEMMA MqStockKeeps ==
  ASSUME KInv, QueueStocked, Attended, using = "mq", using' = using, MqNext
  PROVE  QueueStocked' /\ Attended'
<1>1. ASSUME UNCHANGED queue_vars,
             IpcHandler \/ \E t \in Thread : AnyStep(t) \/ ObjectCall(t)
      PROVE  QueueStocked' /\ Attended'
  <2>0. PICK X \in SUBSET Thread : \E U : Calm(X, U)
    BY <1>1, CalmSteps
  <2>1. PICK U : Calm(X, U)
    BY <2>0
  <2>2. QueueStocked'
    BY <1>1, <2>1, QueueCalm DEF queue_vars
  <2>3. QED BY <1>1, <2>2, IpcHandlerAttends, ObjectAttends
<1>2. ASSUME NEW t \in Thread,
             MqRecvWaitAgain(t) \/ \E time \in WaitTimes[t] : MqRecvWait(t, time)
      PROVE  QueueStocked' /\ Attended'
  <2>1. QueueStocked'
    BY <1>2, MqWaitKeeps
  <2>2. Joins(t, suspend_thread, "recv")
    BY <1>2, MqWaitJoins
  <2>3. PICK c \in Waits : c = "recv"
    BY DEF Waits
  <2>4. /\ Running(t) /\ primask' = primask /\ detached' = detached
        /\ pc[t] \notin {"sched", "reset"} \cup DetachPoints
    BY <1>2 DEF MqRecvWaitAgain, MqRecvWait, MqAwait, Await, Calls, Resumes, DetachPoints
  <2>5. Attended'
    BY <2>2, <2>3, <2>4, JoinAttends
  <2>6. QED BY <2>1, <2>5
<1>3. CASE MqHandler
  BY <1>1, <1>3, MqDeviceKeeps DEF MqHandler
<1>4. ASSUME NEW t \in Thread, MqStep(t)
      PROVE  QueueStocked' /\ Attended'
  <2>1. CASE MqReset(t)
    <3>1. Attended'
      BY <2>1, ObjectAttends DEF MqReset
    <3>2. QED BY <2>1, <3>1, MqResetKeeps
  <2>2. CASE ObjectStep(t, "run") /\ UNCHANGED queue_vars
    BY <1>1, <2>2, StepsAre
  <2>3. QED BY <1>2, <1>4, <2>1, <2>2, MqStepKeeps DEF MqStep
<1>5. ASSUME NEW t \in Thread, MqCall(t)
      PROVE  QueueStocked' /\ Attended'
  <2>1. ASSUME NEW m \in Message,
               MqTakeBlock(t, m, IF m \in UrgentMessage THEN "mq_urgent" ELSE "mq_send")
        PROVE  QueueStocked' /\ Attended'
    <3>1. PICK d \in {"mq_send", "mq_urgent"} :
            d = IF m \in UrgentMessage THEN "mq_urgent" ELSE "mq_send"
      OBVIOUS
    <3>2. MqTakeBlock(t, m, d)
      BY <2>1, <3>1
    <3>3. QED BY <3>2, MqStepKeeps
  <2>2. CASE MqRecv(t)
    BY <2>2, MqStepKeeps
  <2>3. QED BY <1>1, <1>2, <1>5, <2>1, <2>2 DEF MqCall
<1>6. QED BY <1>3, <1>4, <1>5 DEF MqNext

-----------------------------------------------------------------------------
(***************************************************************************)
(* The memory pool: how many blocks are free, and who waits for one.       *)
(***************************************************************************)
\* The threads that are on their way to a block.
PoolWoken == Woken("alloc") \cup Woken("alloc_test")

\* For every free block there is a woken thread while others wait, and the
\* pool counts at least those that wait.
PoolStocked ==
  /\ block_free_count \in Nat /\ suspend_thread_count \in Nat
  /\ Cardinality(Waiters(pool_waiters)) <= suspend_thread_count
  /\ Backed(Waiters(pool_waiters), block_free_count, PoolWoken)

LEMMA PoolWaitPoints ==
  ASSUME KInv, using = "mp"
  PROVE  /\ pool_waiters \in Object /\ "alloc" \in Waits
         /\ \A u \in Waiters(pool_waiters) : Where(u) = "alloc"
         /\ \A o \in Object : Waiters(o) # {} => o = pool_waiters
<1>1. pool_waiters \in Object /\ "alloc" \in Waits
  BY MemPoolAssumption DEF Waits
<1>2. \A o \in Object : \A u \in Waiters(o) : WaitPoint(o, Where(u))
  BY DEF KInv, QueuedInWait, Waiters
<1>3. QED BY <1>1, <1>2 DEF WaitPoint

LEMMA PoolWokenIs ==
  /\ PoolWoken \in SUBSET Thread
  /\ PoolWoken' \in SUBSET Thread
BY WokenIs DEF PoolWoken, Waits

LEMMA PoolWokenRelaxes ==
  ASSUME KInv, NEW X \in SUBSET Thread, NEW U, NEW W, Relaxes(X, U, W)
  PROVE  PoolWoken' = (PoolWoken \ X) \cup {u \in W : Where(u) = "alloc"}
                                      \cup {u \in X : Where(u)' = "alloc_test"}
<1>1. PICK c \in Waits : c = "alloc"
  BY DEF Waits
<1>2. Woken(c)' = (Woken(c) \ X) \cup {u \in W : Where(u) = c}
  BY ONLY KInv, X \in SUBSET Thread, Relaxes(X, U, W), c \in Waits, WokenRelaxes
<1>3. Woken("alloc_test")' =
        (Woken("alloc_test") \ X) \cup {u \in X : Where(u)' = "alloc_test"}
  BY TestsRelaxes
<1>4. PoolWoken' = Woken(c)' \cup Woken("alloc_test")' /\ PoolWoken = Woken(c) \cup Woken("alloc_test")
  BY <1>1 DEF PoolWoken
<1>5. QED BY <1>1, <1>2, <1>3, <1>4

LEMMA PoolWaitersCount ==
  ASSUME KInv, using = "mp"
  PROVE  /\ Waiters(pool_waiters) \in SUBSET Thread
         /\ Cardinality(Waiters(pool_waiters)) \in Nat
<1>1. PICK D \in SUBSET Thread : D = Waiters(pool_waiters)
  BY PoolWaitPoints, WaitersAre
<1>2. QED BY <1>1, FewerThreads

\* How the pool changes when threads U are freed, those of W to fetch a block.
LEMMA PoolRelaxes ==
  ASSUME KInv, PoolStocked, using = "mp", NEW X \in SUBSET Thread, NEW U, NEW W,
         Relaxes(X, U, W), block_free_count' \in Nat, suspend_thread_count' \in Nat,
         \/ suspend_thread_count' = suspend_thread_count
         \/ /\ suspend_thread_count' = suspend_thread_count - 1
            /\ \/ Waiters(pool_waiters) = {}
               \/ \E h \in Waiters(pool_waiters) : h \in U,
         \/ block_free_count' <= 0
         \/ block_free_count' <= block_free_count /\ PoolWoken \subseteq PoolWoken'
         \/ block_free_count' <= block_free_count - 1 /\ \E t : PoolWoken \ {t} \subseteq PoolWoken'
         \/ /\ block_free_count' <= block_free_count + 1
            /\ Waiters(pool_waiters) # {} =>
                 \E h \in PoolWoken' \ PoolWoken : PoolWoken \subseteq PoolWoken'
  PROVE  PoolStocked'
<1>1. Waiters(pool_waiters)' = Waiters(pool_waiters) \ U
  BY PoolWaitPoints, WaitersRelax
<1>2. PICK Q \in SUBSET Thread : Q = Waiters(pool_waiters)
  BY PoolWaitersCount
<1>3. PICK R \in SUBSET Q : R = Waiters(pool_waiters)'
  BY <1>1, <1>2
<1>4. Cardinality(R) <= suspend_thread_count'
  <2>1. Cardinality(R) <= Cardinality(Q) /\ Cardinality(Q) <= suspend_thread_count
        /\ Cardinality(R) \in Nat /\ Cardinality(Q) \in Nat
    <3>1. R \in SUBSET Thread
      OBVIOUS
    <3>2. QED BY <1>2, <3>1, FewerThreads DEF PoolStocked
  <2>2. CASE suspend_thread_count' = suspend_thread_count
    BY <2>1, <2>2 DEF PoolStocked
  <2>3. CASE Q = {}
    <3>1. Cardinality(R) = 0
      BY <2>3, FS_EmptySet
    <3>2. QED BY <3>1
  <2>4. ASSUME NEW h \in Q, h \in U, suspend_thread_count' = suspend_thread_count - 1
        PROVE  Cardinality(R) <= suspend_thread_count'
    <3>1. PICK S \in SUBSET Thread : S = Q \ {h}
      OBVIOUS
    <3>2. Cardinality(S) = Cardinality(Q) - 1 /\ Cardinality(S) \in Nat
      BY <3>1, FewerThreads
    <3>3. R \in SUBSET S
      BY <1>1, <1>2, <1>3, <2>4, <3>1
    <3>4. Cardinality(R) <= Cardinality(S)
      BY <3>3, FewerThreads
    <3>5. QED BY <2>1, <2>4, <3>2, <3>4 DEF PoolStocked
  <2>5. QED BY <1>2, <2>2, <2>3, <2>4
<1>5. PICK D \in SUBSET Thread : D = PoolWoken
  BY PoolWokenIs
<1>6. PICK E \in SUBSET Thread : E = PoolWoken'
  BY PoolWokenIs
<1>7. PICK n \in Int : n = block_free_count
  BY DEF PoolStocked
<1>8. PICK m \in Int : m = block_free_count'
  OBVIOUS
<1>9. Backed(R, m, E)
  <2>1. Backed(Q, n, D)
    BY <1>2, <1>5, <1>7 DEF PoolStocked
  <2>2. \/ m <= 0
        \/ m <= n /\ D \subseteq E
        \/ m <= n - 1 /\ \E t : D \ {t} \subseteq E
        \/ m <= n + 1 /\ (Q # {} => \E h \in E \ D : D \subseteq E)
    BY <1>2, <1>5, <1>6, <1>7, <1>8
  <2>3. QED BY <2>1, <2>2, BackedKeeps
<1>10. QED BY <1>3, <1>4, <1>6, <1>8, <1>9 DEF PoolStocked

LEMMA PoolCalm ==
  ASSUME KInv, PoolStocked, using = "mp", NEW X \in SUBSET Thread, NEW U, Calm(X, U),
         block_free_count' = block_free_count, suspend_thread_count' \in Nat,
         \/ suspend_thread_count' = suspend_thread_count
         \/ /\ suspend_thread_count' = suspend_thread_count - 1
            /\ \E h \in Waiters(pool_waiters) : h \in U
  PROVE  PoolStocked'
<1>1. Woken("alloc")' = Woken("alloc") /\ Woken("alloc_test")' = Woken("alloc_test")
  BY CalmWoken DEF Waits
<1>2. PoolWoken' = PoolWoken
  BY <1>1 DEF PoolWoken
<1>3. Relaxes(X, U, {})
  BY DEF Calm
<1>5. block_free_count' \in Nat /\ block_free_count' <= block_free_count
  BY DEF PoolStocked
<1>6. PICK W : W = {}
  OBVIOUS
<1>7. Relaxes(X, U, W)
  BY <1>3, <1>6
<1>8. \/ suspend_thread_count' = suspend_thread_count
      \/ /\ suspend_thread_count' = suspend_thread_count - 1
         /\ \/ Waiters(pool_waiters) = {}
            \/ \E h \in Waiters(pool_waiters) : h \in U
  OBVIOUS
<1>9. \/ block_free_count' <= 0
      \/ block_free_count' <= block_free_count /\ PoolWoken \subseteq PoolWoken'
      \/ block_free_count' <= block_free_count - 1 /\ \E t : PoolWoken \ {t} \subseteq PoolWoken'
      \/ /\ block_free_count' <= block_free_count + 1
         /\ Waiters(pool_waiters) # {} =>
              \E h \in PoolWoken' \ PoolWoken : PoolWoken \subseteq PoolWoken'
  BY <1>2, <1>5
<1>10. QED BY <1>5, <1>7, <1>8, <1>9, PoolRelaxes

\* Nobody on the way goes elsewhere, the threads and the count are as they were.
LEMMA PoolRests ==
  ASSUME KInv, PoolStocked, using = "mp", NEW X \in SUBSET Thread, Relaxes(X, {}, {}),
         suspend_thread_count' = suspend_thread_count, block_free_count' \in Nat,
         \/ block_free_count' <= 0
         \/ block_free_count' <= block_free_count /\ PoolWoken \subseteq PoolWoken'
         \/ block_free_count' <= block_free_count - 1 /\ \E t : PoolWoken \ {t} \subseteq PoolWoken'
  PROVE  PoolStocked'
<1>1. PICK U : U = {}
  OBVIOUS
<1>2. Relaxes(X, U, U) /\ suspend_thread_count' \in Nat
  BY <1>1 DEF PoolStocked
<1>3. \/ block_free_count' <= 0
      \/ block_free_count' <= block_free_count /\ PoolWoken \subseteq PoolWoken'
      \/ block_free_count' <= block_free_count - 1 /\ \E t : PoolWoken \ {t} \subseteq PoolWoken'
      \/ /\ block_free_count' <= block_free_count + 1
         /\ Waiters(pool_waiters) # {} =>
              \E h \in PoolWoken' \ PoolWoken : PoolWoken \subseteq PoolWoken'
  OBVIOUS
<1>4. QED BY <1>2, <1>3, PoolRelaxes

-----------------------------------------------------------------------------
\* A thread that goes on in rt_mp_alloc was woken.
LEMMA PoolGoesOn ==
  ASSUME KInv, NEW t \in Thread,
         Resumes(t, "alloc") \/ (Running(t) /\ pc[t] = "alloc_test")
  PROVE  t \in PoolWoken /\ pc[t] # "sched"
<1>1. CASE Resumes(t, "alloc")
  <2>1. t \in Woken("alloc") /\ pc[t] # "sched"
    BY <1>1, ResumesWoken DEF Waits
  <2>2. QED BY <2>1 DEF PoolWoken
<1>2. CASE Running(t) /\ pc[t] = "alloc_test"
  <2>1. Where(t) = "alloc_test" /\ k.stat[t] = "READY"
    BY <1>2, RunnerIsReady
  <2>2. k.error[t] = "EOK"
    BY <2>1 DEF KInv, TestsWithoutError
  <2>3. t \in Woken("alloc_test")
    BY <2>1, <2>2, WokenIs
  <2>4. QED BY <1>2, <2>3 DEF PoolWoken
<1>3. QED BY <1>1, <1>2

\* A running thread that is elsewhere is not.
LEMMA PoolPasses ==
  ASSUME KInv, NEW t \in Thread, Running(t), pc[t] # "sched",
         pc[t] \notin {"alloc", "alloc_test"} \/ k.error[t] # "EOK"
  PROVE  t \notin PoolWoken
BY RunnerWoken DEF PoolWoken, Waits

LEMMA PoolAttendsOf ==
  ASSUME KInv, Attended, NEW t \in Thread, Running(t),
         pc[t] \in {"run", "alloc", "alloc_test"}, Where(t)' \in {"run", "alloc_test"},
         NEW U, NEW W, Relaxes({t}, U, W),
         detached' = detached, primask' = primask,
         \/ pc'[t] = "sched" /\ k'.current = k.current
         \/ SameReady /\ device' = device
  PROVE  Attended'
<1>1. pc[t] \notin {"sched", "reset"} \cup DetachPoints
  BY DEF DetachPoints
<1>2. Where(t)' \notin {"reset"} \cup DetachPoints
  BY DEF DetachPoints
<1>3. QED BY <1>1, <1>2, RelaxAttends

LEMMA PoolTakeKeeps ==
  ASSUME KInv, PoolStocked, Attended, using = "mp", using' = using, NEW t \in Thread,
         PoolAlloc(t) \/ PoolTimeLeft(t) \/ PoolAllocAgain(t) \/ PoolGivesUp(t)
  PROVE  PoolStocked' /\ Attended'
<1>0. PICK X \in SUBSET Thread : X = {t}
  OBVIOUS
<1>1. block_free_count \in Nat /\ suspend_thread_count \in Nat
  BY DEF PoolStocked
<1>2. CASE PoolAlloc(t)
  <2>1. /\ UNCHANGED cpu /\ UNCHANGED waiting
        /\ block_free_count # 0 /\ block_free_count' = block_free_count - 1
        /\ suspend_thread_count' = suspend_thread_count
    BY <1>2 DEF PoolAlloc, TakeBlock
  <2>2. PICK Y \in SUBSET Thread : Y = {}
    OBVIOUS
  <2>3. Relaxes(Y, {}, {})
    BY <2>1, <2>2, CpuRests
  <2>4. PoolWoken' = PoolWoken
    BY <2>1 DEF PoolWoken, Woken, cpu
  <2>5. block_free_count' \in Nat /\ block_free_count' <= block_free_count
    BY <1>1, <2>1
  <2>6. PoolStocked'
    BY <2>1, <2>3, <2>4, <2>5, PoolRests
  <2>7. QED BY <2>1, <2>6, RestAttends
<1>3. CASE PoolTimeLeft(t)
  <2>1. /\ Resumes(t, "alloc") /\ Running(t) /\ pc[t] = "alloc" /\ detached' = detached
        /\ primask' = primask /\ device' = device
        /\ block_free_count' = block_free_count
        /\ suspend_thread_count' = suspend_thread_count
    BY <1>3 DEF PoolTimeLeft, Resumes, mempool
  <2>2. Relaxes({t}, {}, {}) /\ Where(t)' = "alloc_test" /\ k' = k
    BY <1>3, PoolLeftRelaxes
  <2>3. t \in PoolWoken
    BY <2>1, PoolGoesOn
  <2>4. PoolWoken \subseteq PoolWoken'
    <3>1. Relaxes(X, {}, {})
      BY <1>0, <2>2
    <3>2. PoolWoken' = (PoolWoken \ X) \cup {u \in {} : Where(u) = "alloc"}
                                       \cup {u \in X : Where(u)' = "alloc_test"}
      BY <3>1, PoolWokenRelaxes
    <3>3. QED BY <1>0, <2>2, <2>3, <3>2
  <2>5. PoolStocked'
    <3>1. Relaxes(X, {}, {}) /\ block_free_count' \in Nat /\ block_free_count' <= block_free_count
      BY <1>0, <1>1, <2>1, <2>2
    <3>2. QED BY <2>1, <2>4, <3>1, PoolRests
  <2>6. Attended'
    BY <2>1, <2>2, PoolAttendsOf DEF SameReady
  <2>7. QED BY <2>5, <2>6
<1>4. CASE PoolAllocAgain(t)
  <2>1. /\ Running(t) /\ pc[t] = "alloc_test" /\ detached' = detached
        /\ primask' = primask /\ device' = device
        /\ block_free_count # 0 /\ block_free_count' = block_free_count - 1
        /\ suspend_thread_count' = suspend_thread_count
    BY <1>4 DEF PoolAllocAgain, TakeBlock, Forget
  <2>2. Relaxes({t}, {}, {}) /\ Where(t)' = "run" /\ k' = k
    BY <1>4, PoolAgainRelaxes
  <2>4. PoolWoken \ {t} \subseteq PoolWoken'
    <3>1. Relaxes(X, {}, {})
      BY <1>0, <2>2
    <3>2. PoolWoken' = (PoolWoken \ X) \cup {u \in {} : Where(u) = "alloc"}
                                       \cup {u \in X : Where(u)' = "alloc_test"}
      BY <3>1, PoolWokenRelaxes
    <3>3. QED BY <1>0, <3>2
  <2>5. PoolStocked'
    <3>1. Relaxes(X, {}, {}) /\ block_free_count' \in Nat /\ block_free_count' <= block_free_count - 1
      BY <1>0, <1>1, <2>1, <2>2
    <3>2. \E u : PoolWoken \ {u} \subseteq PoolWoken'
      BY <2>4
    <3>3. QED BY <2>1, <3>1, <3>2, PoolRests
  <2>6. Attended'
    BY <2>1, <2>2, PoolAttendsOf DEF SameReady
  <2>7. QED BY <2>5, <2>6
<1>5. CASE PoolGivesUp(t)
  <2>1. /\ Running(t) /\ pc[t] \in {"alloc", "alloc_test"} /\ pc[t] # "sched"
        /\ primask' = primask /\ device' = device /\ detached' = detached
        /\ k' = k \/ \E e \in Error : k' = [k EXCEPT !.error[t] = e]
        /\ k.error[t] # "EOK" \/ block_free_count = 0
        /\ block_free_count' = block_free_count
        /\ suspend_thread_count' = suspend_thread_count
    BY <1>5 DEF PoolGivesUp, Fails, Forget, Error, mempool
  <2>2. Relaxes({t}, {}, {}) /\ Where(t)' = "run"
    BY <1>5, PoolGivesUpRelaxes
  <2>3. PoolWoken' = PoolWoken \ {t}
    <3>1. Relaxes(X, {}, {})
      BY <1>0, <2>2
    <3>2. PoolWoken' = (PoolWoken \ X) \cup {u \in {} : Where(u) = "alloc"}
                                       \cup {u \in X : Where(u)' = "alloc_test"}
      BY <3>1, PoolWokenRelaxes
    <3>3. QED BY <1>0, <2>2, <3>2
  <2>4. \/ block_free_count' <= 0
        \/ block_free_count' <= block_free_count /\ PoolWoken \subseteq PoolWoken'
    <3>1. CASE k.error[t] # "EOK"
      <4>1. t \notin PoolWoken
        BY <2>1, <3>1, PoolPasses
      <4>2. QED BY <1>1, <2>1, <2>3, <4>1
    <3>2. CASE block_free_count = 0
      <4>1. block_free_count' = 0
        BY <2>1, <3>2
      <4>2. QED BY <4>1
    <3>3. QED BY <2>1, <3>1, <3>2
  <2>5. PoolStocked'
    <3>1. Relaxes(X, {}, {}) /\ block_free_count' \in Nat
      BY <1>0, <1>1, <2>1, <2>2
    <3>2. QED BY <2>1, <2>4, <3>1, PoolRests
  <2>6. SameReady
    <3>1. k \in KernelState
      BY DEF KInv, KernelSound, KernelOK
    <3>2. QED BY <2>1, <3>1, ErrorKeepsReady DEF SameReady
  <2>7. Attended'
    BY <2>1, <2>2, <2>6, PoolAttendsOf
  <2>8. QED BY <2>5, <2>7
<1>6. QED BY <1>2, <1>3, <1>4, <1>5

LEMMA PoolWaitKeeps ==
  ASSUME KInv, PoolStocked, Attended, using = "mp", using' = using, NEW t \in Thread,
         PoolAllocWaitAgain(t) \/ \E time \in WaitTimes[t] : PoolAllocWait(t, time)
  PROVE  PoolStocked' /\ Attended'
<1>1. /\ block_free_count = 0 /\ block_free_count' = block_free_count
      /\ suspend_thread_count' = suspend_thread_count + 1 /\ detached' = detached
      /\ Running(t) /\ pc[t] \in {"run", "alloc_test"} /\ primask' = primask
  BY DEF PoolAllocWaitAgain, PoolAllocWait, PoolAwait, Await, Calls
<1>3. Joins(t, pool_waiters, "alloc")
  BY PoolWaitJoins
<1>4. Waiters(pool_waiters)' = Waiters(pool_waiters) \cup {t}
  BY <1>3, PoolWaitPoints, WaitersJoin
<1>5. Cardinality(Waiters(pool_waiters)') <= suspend_thread_count'
  <2>1. PICK Q \in SUBSET Thread : Q = Waiters(pool_waiters)
    BY PoolWaitersCount
  <2>2. PICK R \in SUBSET (Q \cup {t}) : R = Waiters(pool_waiters)'
    BY <1>4, <2>1
  <2>3. Cardinality(R) <= Cardinality(Q) + 1 /\ Cardinality(Q) \in Nat
    BY FewerThreads
  <2>4. Cardinality(R) \in Nat
    <3>1. R \in SUBSET Thread
      OBVIOUS
    <3>2. QED BY <3>1, FewerThreads
  <2>5. QED BY <1>1, <2>1, <2>2, <2>3, <2>4 DEF PoolStocked
<1>6. PICK E \in SUBSET Thread : E = PoolWoken'
  BY PoolWokenIs
<1>7. Backed(Waiters(pool_waiters)', 0, E)
  BY NothingBacks
<1>8. PoolStocked'
  BY <1>1, <1>5, <1>6, <1>7 DEF PoolStocked
<1>9. Attended'
  <2>1. pc[t] \notin {"sched", "reset"} \cup DetachPoints
    BY <1>1 DEF DetachPoints
  <2>2. PICK c \in Waits : c = "alloc"
    BY PoolWaitPoints
  <2>3. QED BY <1>1, <1>3, <2>1, <2>2, JoinAttends
<1>10. QED BY <1>8, <1>9

\* A block comes back, and the first of the waiting threads is woken.
LEMMA ReturnStocks ==
  ASSUME KInv, PoolStocked, using = "mp", NEW X \in SUBSET Thread, Relaxes(X, Served1, Served1),
         X \cap PoolWoken = {}, NEW b, ReturnBlock(b)
  PROVE  PoolStocked'
<1>1. /\ block_free_count' = block_free_count + 1
      /\ suspend_thread_count' = IF suspend_thread_count > 0 THEN suspend_thread_count - 1
                                 ELSE suspend_thread_count
  BY DEF ReturnBlock
<1>2. block_free_count \in Nat /\ suspend_thread_count \in Nat
  BY DEF PoolStocked
<1>3. PICK S : S = Served1
  OBVIOUS
<1>4. ASSUME Waiters(pool_waiters) # {}
      PROVE  /\ suspend_thread_count > 0
             /\ \E h \in Waiters(pool_waiters) : h \in S
  <2>1. PICK D \in SUBSET Thread : D = Waiters(pool_waiters)
    BY PoolWaitersCount
  <2>2. PICK u \in D : TRUE
    BY <1>4, <2>1
  <2>3. Cardinality(D) > 0 /\ Cardinality(D) \in Nat
    BY <2>2, FewerThreads
  <2>4. suspend_thread_count > 0
    BY <1>2, <2>1, <2>3 DEF PoolStocked
  <2>5. k.waitq[pool_waiters] # << >>
    BY <1>4, PoolWaitPoints, WaitersAre
  <2>6. Head(k.waitq[pool_waiters]) \in Waiters(pool_waiters)
    BY <2>5, PoolWaitPoints, FirstIsQueued DEF Waiters
  <2>7. QED BY <1>3, <2>4, <2>5, <2>6 DEF Served1, FirstOn
<1>5. PoolWoken' = (PoolWoken \ X) \cup {u \in S : Where(u) = "alloc"}
                                   \cup {u \in X : Where(u)' = "alloc_test"}
  BY <1>3, PoolWokenRelaxes
<1>6. PoolWoken \subseteq PoolWoken'
  BY <1>5
<1>7. ASSUME Waiters(pool_waiters) # {}
      PROVE  \E h \in PoolWoken' \ PoolWoken : PoolWoken \subseteq PoolWoken'
  <2>1. PICK h \in Waiters(pool_waiters) : h \in S
    BY <1>4, <1>7
  <2>2. Where(h) = "alloc"
    BY PoolWaitPoints
  <2>3. k.stat[h] = "SUSPEND"
    BY PoolWaitPoints, QueuedIsSuspended DEF Waiters
  <2>4. h \notin PoolWoken
    BY <2>3, WokenIs DEF PoolWoken, Waits
  <2>5. QED BY <1>5, <1>6, <2>1, <2>2, <2>4
<1>8. Relaxes(X, S, S)
  BY <1>3
<1>9. block_free_count' \in Nat /\ suspend_thread_count' \in Nat
  BY <1>1, <1>2
<1>10. \/ suspend_thread_count' = suspend_thread_count
       \/ /\ suspend_thread_count' = suspend_thread_count - 1
          /\ \/ Waiters(pool_waiters) = {}
             \/ \E h \in Waiters(pool_waiters) : h \in S
  BY <1>1, <1>4
<1>11. \/ block_free_count' <= 0
       \/ block_free_count' <= block_free_count /\ PoolWoken \subseteq PoolWoken'
       \/ block_free_count' <= block_free_count - 1 /\ \E t : PoolWoken \ {t} \subseteq PoolWoken'
       \/ /\ block_free_count' <= block_free_count + 1
          /\ Waiters(pool_waiters) # {} =>
               \E h \in PoolWoken' \ PoolWoken : PoolWoken \subseteq PoolWoken'
  BY <1>1, <1>2, <1>7
<1>12. QED BY <1>8, <1>9, <1>10, <1>11, PoolRelaxes

LEMMA PoolFreeKeeps ==
  ASSUME KInv, PoolStocked, Attended, using = "mp", using' = using, NEW t \in Thread, NEW b,
         PoolFree(t, b)
  PROVE  PoolStocked' /\ Attended'
<1>1. /\ Running(t) /\ pc[t] = "run" /\ detached' = detached /\ ReturnBlock(b)
      /\ primask' = primask /\ device' = device
      /\ IF suspend_thread_count > 0 THEN ThenSchedule(t, "run") ELSE Goto(t, "run")
  BY DEF PoolFree, Calls, waiting
<1>2. Relaxes({t}, Served1, Served1) /\ Where(t)' = "run"
  BY PoolFreeRelaxes
<1>3. k'.current = k.current
  BY <1>1, ReturnFrees
<1>4. \/ pc'[t] = "sched" /\ k'.current = k.current
      \/ SameReady /\ device' = device
  <2>1. CASE suspend_thread_count > 0
    <3>1. LocalsTyped /\ "run" \in Continuation
      BY DEF KInv, Continuation
    <3>2. pc'[t] = "sched"
      BY <1>1, <2>1, <3>1, ScheduleMoves
    <3>3. QED BY <1>3, <3>2
  <2>2. CASE ~ (suspend_thread_count > 0)
    <3>1. k' = k
      BY <1>1, <2>2 DEF ReturnBlock
    <3>2. QED BY <1>1, <3>1 DEF SameReady
  <2>3. QED BY <2>1, <2>2
<1>5. Attended'
  <2>1. pc[t] \in {"run", "alloc", "alloc_test"} /\ Where(t)' \in {"run", "alloc_test"}
    BY <1>1, <1>2
  <2>2. PICK S : S = Served1
    OBVIOUS
  <2>3. Relaxes({t}, S, S)
    BY <1>2, <2>2
  <2>4. QED BY <1>1, <1>4, <2>1, <2>3, PoolAttendsOf
<1>6. PoolStocked'
  <2>1. PICK X \in SUBSET Thread : X = {t}
    OBVIOUS
  <2>2. t \notin PoolWoken
    BY <1>1, PoolPasses
  <2>3. Relaxes(X, Served1, Served1) /\ X \cap PoolWoken = {}
    BY <1>2, <2>1, <2>2
  <2>4. QED BY <1>1, <2>3, ReturnStocks
<1>7. QED BY <1>5, <1>6

LEMMA PoolDeviceKeeps ==
  ASSUME KInv, PoolStocked, Attended, using = "mp", using' = using,
         DevicePoolAlloc \/ \E b \in PoolBlock : DevicePoolFree(b)
  PROVE  PoolStocked' /\ Attended'
<1>0. PICK X \in SUBSET Thread : X = {}
  OBVIOUS
<1>1. CASE DevicePoolAlloc
  <2>1. /\ UNCHANGED cpu /\ UNCHANGED waiting
        /\ block_free_count # 0 /\ block_free_count' = block_free_count - 1
        /\ suspend_thread_count' = suspend_thread_count
    BY <1>1 DEF DevicePoolAlloc, TakeBlock
  <2>2. Relaxes(X, {}, {})
    BY <1>0, <2>1, CpuRests
  <2>3. PoolWoken' = PoolWoken
    BY <2>1 DEF PoolWoken, Woken, cpu
  <2>4. block_free_count' \in Nat /\ block_free_count' <= block_free_count
    BY <2>1 DEF PoolStocked
  <2>5. PoolStocked'
    BY <2>1, <2>2, <2>3, <2>4, PoolRests
  <2>6. QED BY <2>1, <2>5, RestAttends
<1>2. ASSUME NEW b \in PoolBlock, DevicePoolFree(b)
      PROVE  PoolStocked' /\ Attended'
  <2>1. /\ InThread /\ ~ primask /\ ~ detached /\ ReturnBlock(b)
        /\ device' = (suspend_thread_count > 0)
        /\ detached' = detached /\ primask' = primask /\ pc' = pc /\ cont' = cont
    BY <1>2 DEF DevicePoolFree, waiting
  <2>2. Relaxes({}, Served1, Served1)
    BY <1>2, DevicePoolFreeRelaxes
  <2>3. Relaxes(X, Served1, Served1) /\ X \cap PoolWoken = {}
    BY <1>0, <2>2
  <2>4. PoolStocked'
    BY <2>1, <2>3, ReturnStocks
  <2>5. device' \/ SameReady
    BY <2>1 DEF ReturnBlock, SameReady
  <2>6. Attended'
    BY <2>1, <2>5, DeviceAttends
  <2>7. QED BY <2>4, <2>6
<1>3. QED BY <1>1, <1>2

\* rt_mp_detach wakes the first waiting thread, or finds the list empty.
LEMMA PoolDetachKeeps ==
  ASSUME KInv, PoolStocked, Attended, using = "mp", using' = using, NEW t \in Thread,
         PoolDetachResume(t)
  PROVE  PoolStocked' /\ Attended'
<1>1. PICK o \in Object : o = pool_waiters
  BY PoolWaitPoints
<1>2. /\ DetachResume(t, o) /\ block_free_count' = block_free_count
      /\ suspend_thread_count' = IF k.waitq[o] = << >> THEN suspend_thread_count
                                 ELSE suspend_thread_count - 1
  BY <1>1 DEF PoolDetachResume
<1>3. Relaxes({t}, FirstOn(o), {}) /\ Where(t)' \in DetachPoints
  BY <1>2, DetachResumeRelaxes
<1>4. PICK X \in SUBSET Thread : X = {t}
  OBVIOUS
<1>5. PICK U : U = FirstOn(o)
  OBVIOUS
<1>6. Calm(X, U)
  <2>1. Running(t) /\ pc[t] \in DetachPoints
    BY <1>2, DetachPointsAre DEF DetachResume
  <2>2. Where(t) \in DetachPoints
    BY <2>1, RunnerIsReady, DetachPointsAre
  <2>3. Relaxes(X, U, {})
    BY <1>3, <1>4, <1>5
  <2>4. QED BY <1>3, <1>4, <2>2, <2>3 DEF Calm, Outside
<1>7. /\ suspend_thread_count' \in Nat
      /\ \/ suspend_thread_count' = suspend_thread_count
         \/ /\ suspend_thread_count' = suspend_thread_count - 1
            /\ \E h \in Waiters(pool_waiters) : h \in U
  <2>1. CASE k.waitq[o] = << >>
    BY <1>2, <2>1 DEF PoolStocked
  <2>2. CASE k.waitq[o] # << >>
    <3>1. PICK h : h = Head(k.waitq[o])
      OBVIOUS
    <3>2. h \in U /\ h \in Waiters(o)
      BY <1>5, <2>2, <3>1, FirstIsQueued DEF FirstOn, Waiters
    <3>3. PICK D \in SUBSET Thread : D = Waiters(pool_waiters)
      BY PoolWaitersCount
    <3>4. h \in D
      BY <1>1, <3>2, <3>3
    <3>5. Cardinality(D) > 0 /\ Cardinality(D) \in Nat
      BY <3>4, FewerThreads
    <3>6. suspend_thread_count - 1 \in Nat
      BY <3>3, <3>5 DEF PoolStocked
    <3>7. QED BY <1>1, <1>2, <2>2, <3>2, <3>6
  <2>3. QED BY <2>1, <2>2
<1>8. PoolStocked'
  BY <1>2, <1>6, <1>7, PoolCalm
<1>9. Attended'
  BY <1>2, DetachAttends
<1>10. QED BY <1>8, <1>9

LEMMA PoolStockKeeps ==
  ASSUME KInv, PoolStocked, Attended, using = "mp", using' = using, PoolNext
  PROVE  PoolStocked' /\ Attended'
<1>1. ASSUME UNCHANGED mempool,
             IpcHandler \/ \E t \in Thread : AnyStep(t) \/ DetachCall(t)
      PROVE  PoolStocked' /\ Attended'
  <2>1. IpcHandler \/ \E t \in Thread : AnyStep(t) \/ ObjectCall(t)
    BY <1>1 DEF ObjectCall
  <2>0. PICK X \in SUBSET Thread : \E U : Calm(X, U)
    BY <2>1, CalmSteps
  <2>2. PICK U : Calm(X, U)
    BY <2>0
  <2>3. /\ block_free_count' = block_free_count /\ suspend_thread_count' \in Nat
        /\ suspend_thread_count' = suspend_thread_count
    BY <1>1 DEF mempool, PoolStocked
  <2>4. PoolStocked'
    BY <2>2, <2>3, PoolCalm
  <2>5. QED BY <2>1, <2>4, IpcHandlerAttends, ObjectAttends
<1>2. CASE PoolHandler
  BY <1>1, <1>2, PoolDeviceKeeps DEF PoolHandler
<1>3. ASSUME NEW t \in Thread, PoolStep(t)
      PROVE  PoolStocked' /\ Attended'
  <2>1. CASE (IpcStep(t) \/ DetachTest(t, pool_waiters, "run")) /\ UNCHANGED mempool
    BY <1>1, <2>1, StepsAre
  <2>2. QED BY <1>3, <2>1, PoolTakeKeeps, PoolWaitKeeps, PoolDetachKeeps DEF PoolStep
<1>4. ASSUME NEW t \in Thread, PoolCall(t)
      PROVE  PoolStocked' /\ Attended'
  BY <1>1, <1>4, PoolTakeKeeps, PoolWaitKeeps, PoolFreeKeeps DEF PoolCall
<1>5. QED BY <1>2, <1>3, <1>4 DEF PoolNext

-----------------------------------------------------------------------------
(***************************************************************************)
(* All objects.                                                            *)
(***************************************************************************)
\* The event as it was initialised.
EventUnused ==
  /\ set = {} /\ event_set = [t \in Thread |-> {}] /\ event_info = [t \in Thread |-> {}]
  /\ asked = [t \in Thread |-> {}] /\ claims = [f \in Flag |-> 0]

\* An object in use keeps its invariant, one that is not stays as it was.
EventSound == IF using = "event" THEN EventInv ELSE EventUnused
BoxSound   == IF using = "mb" THEN MbInv ELSE RingOK /\ entry = 0
QueueSound == IF using = "mq" THEN QueueStocked ELSE mq_entry = 0
PoolSound  == using = "mp" => PoolStocked

ObjectsSound == EventSound /\ BoxSound /\ QueueSound /\ PoolSound

SInv == KInv /\ Attended /\ ObjectsSound

LEMMA InitSInv == Init => SInv
<1> SUFFICES ASSUME Init PROVE SInv
  OBVIOUS
<1>1. /\ k = StartedKernel /\ pc = [t \in Thread |-> "run"] /\ cont = [t \in Thread |-> "run"]
      /\ primask = FALSE /\ systick = FALSE /\ device = FALSE
      /\ timeout = [t \in Thread |-> 0] /\ start = [t \in Thread |-> 0]
      /\ deadline = [t \in Thread |-> 0] /\ detached = FALSE
      /\ EventInit /\ using \in Kinds
  BY DEF Init, IpcInit, CpuInit
<1>2. KernelOK(k) /\ AtHead(k) /\ k.lock = 0 /\ (\A t \in Thread : k.stat[t] = "READY")
      /\ (\A o \in Object : k.waitq[o] = << >>)
  <2>1. KernelOK(StartedKernel) /\ AtHead(StartedKernel)
    BY InitKernel
  <2>2. /\ StartedKernel.stat = [t \in Thread |-> "READY"] /\ StartedKernel.lock = 0
        /\ StartedKernel.waitq = [o \in Object |-> << >>]
    BY StartedFields
  <2>3. QED BY <1>1, <2>1, <2>2
<1>3. "run" \in AllPoints /\ "run" \in Continuation /\ "run" \notin Waits
  BY DEF AllPoints, Point, Continuation, Waits
<1>4. LocalsTyped
  BY <1>1, <1>3, TickZero DEF LocalsTyped
<1>5. \A t \in Thread : Where(t) = "run"
  BY <1>1 DEF Where
<1>6. \A o \in Object : ToSet(k.waitq[o]) = {}
  <2>1. << >> \in Seq(Thread)
    OBVIOUS
  <2>2. QED BY <1>2, <2>1, EmptyThreadList
<1>7. k.current \in Thread /\ Idle \in Thread /\ {suspend_thread, suspend_sender_thread} \subseteq Object
  BY <1>2, Fields, KernelAssumption, IpcAssumption DEF KernelOK
<1>8. KInv
  BY <1>1, <1>2, <1>3, <1>4, <1>5, <1>6, <1>7
     DEF KInv, KernelSound, SuspendedInWait, CurrentIsReady, QueuedInWait, TestsWithoutError,
         IdleWaitsNot, WaitsForIt, DeadlineIsEnd, DeadlineKept
<1>9. EventUnused
  BY <1>1 DEF EventInit, EventUnused
<1>10. EventInv
  <2>1. EventTypeOK /\ (\A f \in Flag : claims[f] \in {0, 1}) /\ set = {}
    BY <1>9 DEF EventUnused, EventTypeOK
  <2>2. NoWaiterBesideFlags
    BY <1>6, <1>7 DEF NoWaiterBesideFlags
  <2>3. QED BY <1>5, <2>1, <2>2 DEF EventInv
<1>11. Attended
  BY <1>1, <1>2, <1>5 DEF Attended, Urgent, ResetMasked, DetachNoted, DetachPoints
<1>12. \A o \in Object : \A n, D : Backed(Waiters(o), n, D)
  BY <1>6 DEF Backed, Waiters
<1>13. pool_waiters \in Object
  BY MemPoolAssumption
<1>14. RingOK /\ entry = 0 /\ MbInv
  <2>1. MbInit
    BY DEF Init
  <2>2. size \in Nat /\ size > 0
    BY MailboxAssumption
  <2>3. (0 + 0) % size = 0
    BY <2>2
  <2>4. RingOK /\ entry = 0
    BY <2>1, <2>2, <2>3 DEF MbInit, RingOK
  <2>5. Stocked
    BY <1>7, <1>12 DEF Stocked
  <2>6. MailKept
    BY <1>5, <2>1 DEF MbInit, MailKept
  <2>7. QED BY <1>1, <2>4, <2>5, <2>6 DEF MbInv
<1>15. mq_entry = 0 /\ QueueStocked
  <2>1. mq_entry = 0
    BY DEF Init, MqInit
  <2>2. QED BY <1>1, <1>7, <1>12, <2>1 DEF QueueStocked
<1>16. PoolStocked
  <2>1. block_free_count = Cardinality(PoolBlock) /\ suspend_thread_count = 0
    BY DEF Init, PoolInit, block_total_count
  <2>2. block_free_count \in Nat
    BY <2>1, MemPoolAssumption, FS_CardinalityType
  <2>3. Cardinality(Waiters(pool_waiters)) = 0
    BY <1>6, <1>13, FS_EmptySet DEF Waiters
  <2>4. QED BY <1>1, <1>12, <1>13, <2>1, <2>2, <2>3 DEF PoolStocked
<1>17. ObjectsSound
  BY <1>9, <1>10, <1>14, <1>15, <1>16
     DEF ObjectsSound, EventSound, BoxSound, QueueSound, PoolSound
<1>18. QED BY <1>8, <1>11, <1>17 DEF SInv

\* The objects that are not in use stay as they are.
LEMMA EventUntouched ==
  ASSUME EventSound, using # "event", using' = using, UNCHANGED event
  PROVE  EventSound'
<1>1. EventUnused
  BY DEF EventSound
<1>2. EventUnused'
  BY <1>1 DEF event, EventUnused
<1>3. QED BY <1>2 DEF EventSound

LEMMA BoxUntouched ==
  ASSUME BoxSound, using # "mb", using' = using, UNCHANGED mailbox
  PROVE  BoxSound'
<1>1. RingOK /\ entry = 0
  BY DEF BoxSound
<1>2. UNCHANGED <<ring, received>> /\ entry' = entry
  BY DEF mailbox, ring
<1>3. RingOK'
  BY <1>1, <1>2, RingRests
<1>4. QED BY <1>1, <1>2, <1>3 DEF BoxSound

LEMMA QueueUntouched ==
  ASSUME QueueSound, using # "mq", using' = using, UNCHANGED queue_vars
  PROVE  QueueSound'
<1>1. mq_entry = 0 /\ mq_entry' = mq_entry
  BY DEF QueueSound, queue_vars
<1>2. QED BY <1>1 DEF QueueSound

\* A step that leaves the kernel and all objects alone.
LEMMA StandsStill ==
  ASSUME SInv, UNCHANGED vars
  PROVE  SInv'
<1>1. KInv /\ Attended /\ ObjectsSound
  BY DEF SInv
<1>2. /\ k' = k /\ pc' = pc /\ cont' = cont /\ UNCHANGED waiting
      /\ UNCHANGED <<primask, systick, device>> /\ using' = using
      /\ UNCHANGED event /\ UNCHANGED mailbox /\ UNCHANGED queue_vars /\ UNCHANGED mempool
  BY DEF vars, waiting, event, mailbox, queue_vars, mempool
<1>3. UNCHANGED cpu /\ detached' = detached
  BY <1>2 DEF cpu, waiting
<1>4. Relaxes({}, {}, {})
  BY <1>1, <1>2, <1>3, CpuRests
<1>5. PICK X \in SUBSET Thread : X = {}
  OBVIOUS
<1>6. Relaxes(X, {}, {}) /\ Calm(X, {})
  BY <1>3, <1>4, <1>5 DEF Calm
<1>7. KInv'
  BY <1>1, <1>6, RelaxesKeeps
<1>8. Attended'
  BY <1>1, <1>2, <1>3, RestAttends
<1>9. EventSound'
  <2>1. CASE using = "event"
    <3>1. EventInv
      BY <1>1, <2>1 DEF ObjectsSound, EventSound
    <3>2. EventMoves(X, {}, {})
      BY <1>1, <1>2, <3>1, EventRests
    <3>3. EventInv'
      BY <1>1, <1>6, <3>1, <3>2, EventRelaxesKeeps
    <3>4. QED BY <1>2, <2>1, <3>3 DEF EventSound
  <2>2. CASE using # "event"
    BY <1>1, <1>2, <2>2, EventUntouched DEF ObjectsSound
  <2>3. QED BY <2>1, <2>2
<1>10. BoxSound'
  <2>1. CASE using = "mb"
    <3>1. MbInv
      BY <1>1, <2>1 DEF ObjectsSound, BoxSound
    <3>2. MbInv'
      BY <1>1, <1>2, <1>6, <2>1, <3>1, MbCalm
    <3>3. QED BY <1>2, <2>1, <3>2 DEF BoxSound
  <2>2. CASE using # "mb"
    BY <1>1, <1>2, <2>2, BoxUntouched DEF ObjectsSound
  <2>3. QED BY <2>1, <2>2
<1>11. QueueSound'
  <2>1. CASE using = "mq"
    <3>1. QueueStocked /\ mq_entry' = mq_entry
      BY <1>1, <1>2, <2>1 DEF ObjectsSound, QueueSound, queue_vars
    <3>2. QueueStocked'
      BY <1>1, <1>6, <2>1, <3>1, QueueCalm
    <3>3. QED BY <1>2, <2>1, <3>2 DEF QueueSound
  <2>2. CASE using # "mq"
    BY <1>1, <1>2, <2>2, QueueUntouched DEF ObjectsSound
  <2>3. QED BY <2>1, <2>2
<1>12. PoolSound'
  <2> SUFFICES ASSUME using = "mp" PROVE PoolStocked'
    BY <1>2 DEF PoolSound
  <2>1. /\ PoolStocked /\ block_free_count' = block_free_count
        /\ suspend_thread_count' = suspend_thread_count
    BY <1>1, <1>2 DEF ObjectsSound, PoolSound, mempool
  <2>2. suspend_thread_count' \in Nat
    BY <2>1 DEF PoolStocked
  <2>3. QED BY <1>1, <1>6, <2>1, <2>2, PoolCalm
<1>13. QED BY <1>7, <1>8, <1>9, <1>10, <1>11, <1>12 DEF SInv, ObjectsSound

LEMMA StepSInv == SInv /\ [Next]_vars => SInv'
<1> SUFFICES ASSUME SInv, [Next]_vars PROVE SInv'
  OBVIOUS
<1>1. KInv /\ Attended /\ ObjectsSound
  BY DEF SInv
<1>2. CASE using = "mb" /\ MbNext /\ UNCHANGED <<using, event, queue_vars, mempool>>
  <2>1. MbInv /\ using' = using
    BY <1>1, <1>2 DEF ObjectsSound, BoxSound
  <2>2. KInv' /\ MbInv' /\ Attended'
    BY <1>1, <1>2, <2>1, MbKeeps, MbInvKeeps, MbAttends
  <2>3. EventSound' /\ QueueSound'
    BY <1>1, <1>2, EventUntouched, QueueUntouched DEF ObjectsSound
  <2>4. QED BY <1>2, <2>2, <2>3 DEF SInv, ObjectsSound, BoxSound, PoolSound
<1>3. CASE using = "event" /\ EventNext /\ UNCHANGED <<using, mailbox, queue_vars, mempool>>
  <2>1. EventInv /\ using' = using
    BY <1>1, <1>3 DEF ObjectsSound, EventSound
  <2>2. KInv' /\ EventInv' /\ Attended'
    BY <1>1, <1>3, <2>1, EventKeeps, EventAttends
  <2>3. BoxSound' /\ QueueSound'
    BY <1>1, <1>3, BoxUntouched, QueueUntouched DEF ObjectsSound
  <2>4. QED BY <1>3, <2>2, <2>3 DEF SInv, ObjectsSound, EventSound, PoolSound
<1>4. CASE using = "mq" /\ MqNext /\ UNCHANGED <<using, mailbox, event, mempool>>
  <2>1. QueueStocked /\ using' = using
    BY <1>1, <1>4 DEF ObjectsSound, QueueSound
  <2>2. KInv' /\ QueueStocked' /\ Attended'
    BY <1>1, <1>4, <2>1, MqKeeps, MqStockKeeps
  <2>3. BoxSound' /\ EventSound'
    BY <1>1, <1>4, BoxUntouched, EventUntouched DEF ObjectsSound
  <2>4. QED BY <1>4, <2>2, <2>3 DEF SInv, ObjectsSound, QueueSound, PoolSound
<1>5. CASE using = "mp" /\ PoolNext /\ UNCHANGED <<using, mailbox, event, queue_vars>>
  <2>1. PoolStocked /\ using' = using
    BY <1>1, <1>5 DEF ObjectsSound, PoolSound
  <2>2. KInv' /\ PoolStocked' /\ Attended'
    BY <1>1, <1>5, <2>1, PoolKeeps, PoolStockKeeps
  <2>3. BoxSound' /\ EventSound' /\ QueueSound'
    BY <1>1, <1>5, BoxUntouched, EventUntouched, QueueUntouched DEF ObjectsSound
  <2>4. QED BY <1>5, <2>2, <2>3 DEF SInv, ObjectsSound, PoolSound
<1>6. CASE UNCHANGED vars
  BY <1>6, StandsStill
<1>7. QED BY <1>2, <1>3, <1>4, <1>5, <1>6 DEF Next

LEMMA Invariance == Spec => []SInv
BY InitSInv, StepSInv, PTL DEF Spec

\* However often a thread waits again for a mailbox or a queue, its timer is
\* set to the end of the time it called with (rt_mb_send_wait, rt_mb_recv,
\* rt_mq_recv).
THEOREM DeadlineIsKept == Spec => []DeadlineKept
<1>1. SInv => DeadlineKept
  BY DEF SInv, KInv
<1>2. QED BY <1>1, Invariance, PTL

\* A thread that rt_event_send woke returns flags it asked for, all of them
\* with AND and at least one with OR.
THEOREM WokenThreadsAreServed == Spec => []ServedAsAsked
<1>1. SInv => ServedAsAsked
  <2> SUFFICES ASSUME SInv, NEW t \in Thread, ServedBySend(t)
               PROVE  IF "AND" \in event_info[t] THEN event_set[t] = asked[t]
                      ELSE event_set[t] # {} /\ event_set[t] \subseteq asked[t]
    BY DEF ServedAsAsked
  <2>1. Where(t) = "event" /\ k.stat[t] = "READY" /\ k.error[t] = "EOK"
    BY DEF ServedBySend, Where
  <2>2. using = "event"
    BY <2>1 DEF SInv, KInv, WaitsForIt, WaitPoint, Waits
  <2>3. ToldOf(event_info[t], asked[t], event_set[t])
    BY <2>1, <2>2 DEF SInv, ObjectsSound, EventSound, EventInv
  <2>4. QED BY <2>3 DEF ToldOf
<1>2. QED BY <1>1, Invariance, PTL

\* One send of a flag reaches at most one receiver with RT_EVENT_FLAG_CLEAR
\* (rt_event_send, rt_event_recv).
THEOREM FlagsAreClaimedOnce == Spec => []ClearedFlagGoesToOne
<1>1. SInv => ClearedFlagGoesToOne
  <2> SUFFICES ASSUME SInv, NEW f \in Flag PROVE claims[f] <= 1
    BY DEF ClearedFlagGoesToOne
  <2>1. claims[f] \in {0, 1}
    BY DEF SInv, ObjectsSound, EventSound, EventInv, EventUnused
  <2>2. QED BY <2>1
<1>2. QED BY <1>1, Invariance, PTL

\* While an object is in use the most urgent ready thread runs, whichever
\* thread, handler, timeout or reset woke it.
THEOREM UrgentThreadRuns == Spec => []MostUrgentRuns
<1>1. SInv => MostUrgentRuns
  BY DEF SInv, Attended, Urgent, MostUrgentRuns, HighestPriorityRuns, InThread, AtHead
<1>2. QED BY <1>1, Invariance, PTL

\* No wake-up is lost on any object: for every mail, message, free slot or
\* free block there is a woken thread on its way as long as others wait, and
\* nobody waits for flags that are there.
THEOREM NoWakeUpIsLost == Spec => []NobodyWaitsInVain
<1>1. ASSUME SInv
      PROVE  NobodyWaitsInVain
  <2>1. KInv /\ EventSound /\ BoxSound /\ QueueSound /\ PoolSound
    BY <1>1 DEF SInv, ObjectsSound
  <2>2. /\ suspend_thread \in Object /\ suspend_sender_thread \in Object
        /\ pool_waiters \in Object /\ suspend_thread # suspend_sender_thread
        /\ suspend_thread # pool_waiters /\ suspend_sender_thread # pool_waiters
    BY IpcAssumption, MemPoolAssumption
  <2>3. \A o \in Object : k.waitq[o] # << >> => Waiters(o) # {}
    BY <2>1, WaitersAre
  <2>4. \A o \in Object : \A u \in Waiters(o) : WaitPoint(o, Where(u))
    BY <2>1 DEF KInv, QueuedInWait, Waiters
  <2>5. PICK D \in SUBSET Thread : D = Woken("recv")
    BY WokenIs DEF Waits
  <2>6. Cardinality(D) \in Nat
    BY FewerThreads
  <2>7. NoReceiverBesideMail
    <3>1. CASE using = "mb"
      BY <2>1, <2>2, <2>3, <3>1
         DEF BoxSound, MbInv, Stocked, Backed, NoReceiverBesideMail
    <3>2. CASE using # "mb"
      BY <2>1, <2>5, <2>6, <3>2 DEF BoxSound, NoReceiverBesideMail
    <3>3. QED BY <3>1, <3>2
  <2>8. NoSenderBesideRoom
    <3>1. CASE using = "mb"
      BY <2>1, <2>2, <2>3, <3>1
         DEF BoxSound, MbInv, Stocked, Backed, NoSenderBesideRoom
    <3>2. CASE using # "mb"
      BY <2>2, <2>3, <2>4, <3>2 DEF WaitPoint, NoSenderBesideRoom
    <3>3. QED BY <3>1, <3>2
  <2>9. NoWaiterBesideFlags
    <3>1. CASE using = "event"
      BY <2>1, <3>1 DEF EventSound, EventInv
    <3>2. CASE using # "event"
      <4> SUFFICES ASSUME NEW t \in ToSet(k.waitq[suspend_thread])
                   PROVE  ~ Satisfied(set, event_set[t], event_info[t])
        BY DEF NoWaiterBesideFlags
      <4>1. t \in Thread
        BY <2>1, <2>2, QueuedIsSuspended
      <4>2. set = {} /\ event_set[t] = {} /\ event_info[t] = {}
        BY <2>1, <3>2, <4>1 DEF EventSound, EventUnused
      <4>3. QED BY <4>2 DEF Satisfied
    <3>3. QED BY <3>1, <3>2
  <2>10. NoReceiverBesideMessage
    <3>1. CASE using = "mq"
      BY <2>1, <2>2, <2>3, <3>1
         DEF QueueSound, QueueStocked, Backed, NoReceiverBesideMessage
    <3>2. CASE using # "mq"
      BY <2>1, <2>5, <2>6, <3>2 DEF QueueSound, NoReceiverBesideMessage
    <3>3. QED BY <3>1, <3>2
  <2>11. NoWaiterBesideBlock
    <3>1. CASE using = "mp"
      BY <2>1, <2>2, <2>3, <3>1
         DEF PoolSound, PoolStocked, PoolWoken, Backed, NoWaiterBesideBlock
    <3>2. CASE using # "mp"
      BY <2>2, <2>3, <2>4, <3>2 DEF WaitPoint, NoWaiterBesideBlock
    <3>3. QED BY <3>1, <3>2
  <2>12. QED BY <2>7, <2>8, <2>9, <2>10, <2>11 DEF NobodyWaitsInVain
<1>2. QED BY <1>1, Invariance, PTL

\* The mailbox implements Channel: what rt_mb_recv hands out is the oldest
\* mail stored, and no mail twice, whoever sends, waits, times out or resets.
THEOREM MailboxImplementsChannel == Spec => ImplementsChannel
<1>1. Init => Fifo!Init
  <2> SUFFICES ASSUME Init PROVE Fifo!Init
    OBVIOUS
  <2>1. RingOK
    BY InitSInv DEF SInv, ObjectsSound, BoxSound, MbInv
  <2>2. entry = 0 /\ received = NoMail
    BY DEF Init, MbInit
  <2>3. RingOf(msg_pool, out_offset, entry) \in Seq(Mail \cup {NoMail})
        /\ Len(RingOf(msg_pool, out_offset, entry)) = 0
    BY <2>1, <2>2, RingIs DEF RingOK
  <2>4. Ring = << >>
    BY <2>3, RingsAre, EmptySeq
  <2>5. QED BY <2>2, <2>4 DEF Fifo!Init
<1>2. SInv /\ [Next]_vars => [Fifo!Next]_Fifo!vars
  <2> SUFFICES ASSUME SInv, [Next]_vars PROVE [Fifo!Next]_Fifo!vars
    OBVIOUS
  <2>1. CASE using = "mb" /\ MbNext /\ using' = using
    <3>1. KInv /\ MbInv
      BY <2>1 DEF SInv, ObjectsSound, BoxSound
    <3>2. QED BY <2>1, <3>1, MbInvKeeps
  <2>2. CASE UNCHANGED mailbox
    <3>1. UNCHANGED <<ring, received>>
      BY <2>2 DEF mailbox, ring
    <3>2. UNCHANGED Fifo!vars
      BY <3>1, RingRests
    <3>3. QED BY <3>2
  <2>3. UNCHANGED vars => UNCHANGED mailbox
    BY DEF vars, mailbox
  <2>4. QED BY <2>1, <2>2, <2>3 DEF Next
<1>3. QED BY <1>1, <1>2, Invariance, PTL DEF Spec, ImplementsChannel, Fifo!Spec
=============================================================================
