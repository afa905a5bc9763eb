---------------------------- MODULE KernelProofs ----------------------------
(***************************************************************************)
(* Every kernel function keeps the kernel's data typed and consistent.     *)
(***************************************************************************)
EXTENDS Cpu, ListLemmas, FiniteSetTheorems

KernelOK(r) == r \in KernelState /\ Consistent(r)

ListsInjective(r) ==
  /\ \A p \in Priority : IsInjective(r.table[p])
  /\ \A o \in Object : IsInjective(r.waitq[o])
  /\ IsInjective(r.defunct)

\* The thread rt_current_thread names is the one rt_schedule would choose.
AtHead(r) == r.current = Head(r.table[highest_ready_priority(r)])

\* What the fields of r are when r is a kernel record.
LEMMA Fields ==
  ASSUME NEW r \in KernelState
  PROVE  /\ r.table \in [Priority -> Seq(Thread)] /\ r.group \in SUBSET Priority
         /\ r.waitq \in [Object -> Seq(Thread)] /\ r.defunct \in Seq(Thread)
         /\ r.stat \in [Thread -> Stat] /\ r.prio \in [Thread -> Priority]
         /\ r.mask \in [Thread -> SUBSET Priority]
         /\ r.error \in [Thread -> Error] /\ r.remaining \in [Thread -> Nat \ {0}]
         /\ r.current \in Thread /\ r.lock \in Nat /\ r.tick \in Tick
         /\ r.timers \in Seq(Thread) /\ r.timeout \in [Thread -> Tick]
         /\ r.active \in SUBSET Thread
BY DEF KernelState

\* A list holds finitely many threads.
LEMMA MembersFinite ==
  ASSUME NEW S, NEW s \in Seq(S)
  PROVE  IsFiniteSet(ToSet(s)) /\ Cardinality(ToSet(s)) <= Len(s)
<1>1. s \in [1 .. Len(s) -> ToSet(s)] /\ \A x \in ToSet(s) : \E i \in 1 .. Len(s) : s[i] = x
  BY MembersOf
<1>2. s \in Surjection(1 .. Len(s), ToSet(s))
  BY <1>1 DEF Surjection
<1>3. IsFiniteSet(1 .. Len(s)) /\ Cardinality(1 .. Len(s)) = Len(s)
  <2>1. Len(s) \in Nat
    OBVIOUS
  <2>2. QED BY <2>1, FS_Interval, SMTT(60)
<1>4. QED BY <1>2, <1>3, FS_Surjection

\* There are finitely many threads: each is on the start list of a priority.
LEMMA ThreadFinite == IsFiniteSet(Thread)
<1> DEFINE f == [p \in Priority |-> ToSet(start_order[p])]
           T == {f[p] : p \in Priority}
<1>1. IsFiniteSet(Priority)
  BY KernelAssumption, FS_Interval DEF Priority
<1>2. f \in Surjection(Priority, T)
  BY DEF Surjection
<1>3. IsFiniteSet(T)
  BY <1>1, <1>2, FS_Surjection
<1>4. \A x \in T : IsFiniteSet(x)
  <2> SUFFICES ASSUME NEW p \in Priority PROVE IsFiniteSet(f[p])
    OBVIOUS
  <2>1. start_order[p] \in Seq(Thread)
    BY CpuAssumption
  <2>2. QED BY <2>1, MembersFinite
<1>5. IsFiniteSet(UNION T)
  BY <1>3, <1>4, FS_UNION
<1>6. Thread = UNION T
  <2>1. \A t \in Thread : init_prio[t] \in Priority /\ t \in f[init_prio[t]]
    BY CpuAssumption
  <2>2. \A p \in Priority : f[p] \subseteq Thread
    BY CpuAssumption
  <2> HIDE DEF f
  <2>3. QED BY <2>1, <2>2
<1>7. QED BY <1>5, <1>6

LEMMA EmptyThreadList ==
  \A s \in Seq(Thread) : s = << >> <=> ToSet(s) = {}
BY MembersOf

\* rt_list_remove takes the thread off every list and changes nothing else.
LEMMA ListRemove ==
  ASSUME NEW r \in KernelState, NEW t \in Thread, ListsInjective(r)
  PROVE  LET v == rt_list_remove(r, t)
         IN  /\ v \in KernelState
             /\ \A p \in Priority : /\ IsInjective(v.table[p])
                                    /\ ToSet(v.table[p]) = ToSet(r.table[p]) \ {t}
             /\ \A o \in Object : /\ IsInjective(v.waitq[o])
                                  /\ ToSet(v.waitq[o]) = ToSet(r.waitq[o]) \ {t}
             /\ IsInjective(v.defunct) /\ ToSet(v.defunct) = ToSet(r.defunct) \ {t}
             /\ v.group = r.group /\ v.stat = r.stat /\ v.prio = r.prio
             /\ v.mask = r.mask /\ v.timers = r.timers /\ v.active = r.active
             /\ v.current = r.current /\ v.lock = r.lock /\ v.error = r.error
<1> DEFINE v == rt_list_remove(r, t)
<1>1. \A p \in Priority :
        LET l == RemoveFirst(r.table[p], t)
        IN  l \in Seq(Thread) /\ IsInjective(l) /\ ToSet(l) = ToSet(r.table[p]) \ {t}
  BY Fields, RemoveFirstProperties DEF ListsInjective
<1>2. \A o \in Object :
        LET l == RemoveFirst(r.waitq[o], t)
        IN  l \in Seq(Thread) /\ IsInjective(l) /\ ToSet(l) = ToSet(r.waitq[o]) \ {t}
  BY Fields, RemoveFirstProperties DEF ListsInjective
<1>3. LET l == RemoveFirst(r.defunct, t)
      IN  l \in Seq(Thread) /\ IsInjective(l) /\ ToSet(l) = ToSet(r.defunct) \ {t}
  BY Fields, RemoveFirstProperties DEF ListsInjective
<1>4. /\ v.table = [p \in Priority |-> RemoveFirst(r.table[p], t)]
      /\ v.waitq = [o \in Object |-> RemoveFirst(r.waitq[o], t)]
      /\ v.defunct = RemoveFirst(r.defunct, t)
      /\ v.group = r.group /\ v.stat = r.stat /\ v.prio = r.prio
      /\ v.mask = r.mask /\ v.timers = r.timers /\ v.active = r.active
      /\ v.current = r.current /\ v.lock = r.lock /\ v.error = r.error
  BY DEF rt_list_remove, KernelState
<1>5. v \in KernelState
  BY <1>1, <1>2, <1>3 DEF rt_list_remove, KernelState
<1> HIDE DEF v
<1>6. QED BY <1>1, <1>2, <1>3, <1>4, <1>5 DEF v

\* rt_schedule_insert_thread on a thread that is not in its ready list.
LEMMA InsertThread ==
  ASSUME NEW r \in KernelState, NEW t \in Thread,
         \A p \in Priority : IsInjective(r.table[p]),
         t \notin ToSet(r.table[r.prio[t]])
  PROVE  LET v == rt_schedule_insert_thread(r, t)
         IN  /\ v \in KernelState
             /\ \A p \in Priority :
                  /\ IsInjective(v.table[p])
                  /\ ToSet(v.table[p]) =
                       IF p = r.prio[t] THEN ToSet(r.table[p]) \cup {t}
                                        ELSE ToSet(r.table[p])
             /\ v.stat = [r.stat EXCEPT ![t] = "READY"]
             /\ v.group = r.group \cup r.mask[t]
             /\ v.waitq = r.waitq /\ v.defunct = r.defunct /\ v.prio = r.prio
             /\ v.mask = r.mask /\ v.timers = r.timers /\ v.active = r.active
             /\ v.current = r.current /\ v.lock = r.lock /\ v.error = r.error
<1> DEFINE v == rt_schedule_insert_thread(r, t)
           q == r.prio[t]
<1>1. q \in Priority /\ r.table[q] \in Seq(Thread)
  BY Fields
<1>2. LET l == Append(r.table[q], t)
      IN  /\ l \in Seq(Thread) /\ IsInjective(l)
          /\ ToSet(l) = ToSet(r.table[q]) \cup {t}
  BY <1>1, AppendNew
<1>3. /\ v.table = [r.table EXCEPT ![q] = Append(@, t)]
      /\ v.stat = [r.stat EXCEPT ![t] = "READY"]
      /\ v.group = r.group \cup r.mask[t]
      /\ v.waitq = r.waitq /\ v.defunct = r.defunct /\ v.prio = r.prio
      /\ v.mask = r.mask /\ v.timers = r.timers /\ v.active = r.active
      /\ v.current = r.current /\ v.lock = r.lock /\ v.error = r.error
  BY DEF rt_schedule_insert_thread, KernelState
<1>4. v \in KernelState
  BY <1>1, <1>2 DEF rt_schedule_insert_thread, KernelState, Stat
<1> HIDE DEF v, q
<1>5. \A p \in Priority : v.table[p] = IF p = q THEN Append(r.table[q], t) ELSE r.table[p]
  BY <1>1, <1>3, Fields
<1>6. QED BY <1>1, <1>2, <1>3, <1>4, <1>5 DEF v, q

\* _rt_timer_remove takes the timer off the timer list.
LEMMA TimerRemove ==
  ASSUME NEW r \in KernelState, NEW t \in Thread,
         IsInjective(r.timers)
  PROVE  LET v == _rt_timer_remove(r, t)
         IN  /\ v \in KernelState
             /\ IsInjective(v.timers) /\ ToSet(v.timers) = ToSet(r.timers) \ {t}
             /\ v.table = r.table /\ v.group = r.group /\ v.waitq = r.waitq
             /\ v.defunct = r.defunct /\ v.stat = r.stat /\ v.prio = r.prio
             /\ v.mask = r.mask /\ v.active = r.active
             /\ v.current = r.current /\ v.lock = r.lock /\ v.error = r.error
<1> DEFINE v == _rt_timer_remove(r, t)
<1>1. LET l == RemoveFirst(r.timers, t)
      IN  l \in Seq(Thread) /\ IsInjective(l) /\ ToSet(l) = ToSet(r.timers) \ {t}
  BY Fields, RemoveFirstProperties
<1>2. /\ v.timers = RemoveFirst(r.timers, t)
      /\ v.table = r.table /\ v.group = r.group /\ v.waitq = r.waitq
      /\ v.defunct = r.defunct /\ v.stat = r.stat /\ v.prio = r.prio
      /\ v.mask = r.mask /\ v.active = r.active
      /\ v.current = r.current /\ v.lock = r.lock /\ v.error = r.error
  BY DEF _rt_timer_remove, KernelState
<1>3. 0 \in Tick
  BY KernelAssumption DEF Tick
<1>4. v \in KernelState
  BY <1>1, <1>3 DEF _rt_timer_remove, KernelState
<1>5. QED BY <1>1, <1>2, <1>4

\* rt_timer_stop: the timer is neither active nor on the list.
LEMMA TimerStop ==
  ASSUME NEW r \in KernelState, NEW t \in Thread,
         IsInjective(r.timers), ToSet(r.timers) = r.active
  PROVE  LET v == rt_timer_stop(r, t)
         IN  /\ v \in KernelState
             /\ IsInjective(v.timers) /\ ToSet(v.timers) = v.active
             /\ v.active = r.active \ {t}
             /\ v.table = r.table /\ v.group = r.group /\ v.waitq = r.waitq
             /\ v.defunct = r.defunct /\ v.stat = r.stat /\ v.prio = r.prio
             /\ v.mask = r.mask /\ v.current = r.current /\ v.lock = r.lock
             /\ v.error = r.error
<1>1. CASE t \in r.active
  <2> DEFINE u == _rt_timer_remove(r, t)
             v == [u EXCEPT !.active = @ \ {t}]
  <2>1. u \in KernelState /\ IsInjective(u.timers) /\ ToSet(u.timers) = r.active \ {t}
        /\ u.table = r.table /\ u.group = r.group /\ u.waitq = r.waitq
        /\ u.defunct = r.defunct /\ u.stat = r.stat /\ u.prio = r.prio
        /\ u.mask = r.mask /\ u.active = r.active
        /\ u.current = r.current /\ u.lock = r.lock /\ u.error = r.error
    BY TimerRemove
  <2>2. rt_timer_stop(r, t) = v
    BY <1>1 DEF rt_timer_stop
  <2> HIDE DEF u
  <2>3. v \in KernelState /\ v.active = u.active \ {t} /\ v.timers = u.timers
        /\ v.table = u.table /\ v.group = u.group /\ v.waitq = u.waitq
        /\ v.defunct = u.defunct /\ v.stat = u.stat /\ v.prio = u.prio
        /\ v.mask = u.mask /\ v.current = u.current /\ v.lock = u.lock /\ v.error = u.error
    BY <2>1 DEF KernelState
  <2> HIDE DEF v
  <2>4. QED BY <2>1, <2>2, <2>3
<1>2. CASE t \notin r.active
  BY <1>2 DEF rt_timer_stop
<1>3. QED BY <1>1, <1>2

\* Where rt_timer_start and rt_ipc_list_suspend link a node.
LEMMA FirstIndexProperties ==
  ASSUME NEW s, Len(s) \in Nat, NEW Stop(_)
  PROVE  FirstIndex(s, Stop) \in 1 .. Len(s) + 1
<1> DEFINE I == {i \in 1 .. Len(s) : Stop(s[i])}
<1>1. I \in SUBSET Nat /\ I \subseteq 1 .. Len(s)
  OBVIOUS
<1>2. I # {} => Min(I) \in I
  BY <1>1, MinProperties
<1> DEFINE n == FirstIndex(s, Stop)
<1>3. n = IF I = {} THEN Len(s) + 1 ELSE Min(I)
  BY DEF FirstIndex
<1> HIDE DEF I, n
<1>4. n \in 1 .. Len(s) + 1
  BY <1>1, <1>2, <1>3
<1>5. QED BY <1>4 DEF n

\* What Consistent says, for the lemmas that need all of it.
LEMMA ConsistentLists ==
  ASSUME NEW r \in KernelState, Consistent(r)
  PROVE  /\ ListsInjective(r) /\ IsInjective(r.timers) /\ ToSet(r.timers) = r.active
         /\ \A t \in Thread, p \in Priority :
              t \in ToSet(r.table[p]) <=> r.stat[t] = "READY" /\ r.prio[t] = p
         /\ \A t \in Thread, o \in Object :
              t \in ToSet(r.waitq[o]) => r.stat[t] = "SUSPEND"
         /\ \A t \in Thread : t \in ToSet(r.defunct) => r.stat[t] = "CLOSE"
         /\ \A t \in r.active : r.stat[t] = "SUSPEND"
BY DEF Consistent, ReadyListsMatchStat, WaitListsHoldSuspended, DefunctIsClosed,
       TimersBelongToSuspended, ListsInjective

\* rt_schedule finds a thread, which is ready, and changes nothing else.
LEMMA ScheduleOK ==
  ASSUME NEW r \in KernelState,
         ReadyListsMatchStat(r), GroupMatchesTable(r), IdleIsReady(r)
  PROVE  LET v == rt_schedule(r)
         IN  /\ v \in KernelState
             /\ r.lock = 0 => v.stat[v.current] = "READY"
             /\ r.lock = 0 => AtHead(v)
             /\ r.lock # 0 => v.current = r.current
             /\ v.table = r.table /\ v.group = r.group /\ v.waitq = r.waitq
             /\ v.defunct = r.defunct /\ v.stat = r.stat /\ v.prio = r.prio
             /\ v.mask = r.mask /\ v.timers = r.timers /\ v.active = r.active
             /\ v.lock = r.lock /\ v.error = r.error
<1> DEFINE q == highest_ready_priority(r)
           h == Head(r.table[q])
<1>1. q \in Priority /\ r.table[q] # << >>
  <2>1. r.prio[Idle] \in Priority /\ Idle \in ToSet(r.table[r.prio[Idle]])
    BY Fields, KernelAssumption DEF IdleIsReady, ReadyListsMatchStat
  <2>2. r.table[r.prio[Idle]] # << >>
    BY <2>1, Fields, MembersOf
  <2>3. r.prio[Idle] \in r.group
    BY <2>1, <2>2 DEF GroupMatchesTable
  <2>4. r.group \in SUBSET Nat
    BY KernelAssumption, Fields DEF Priority
  <2>5. q \in r.group
    BY <2>3, <2>4, MinProperties DEF highest_ready_priority
  <2>6. QED BY <2>5 DEF GroupMatchesTable
<1>2. h \in Thread /\ h \in ToSet(r.table[q])
  BY <1>1, Fields, HeadOfList DEF ReadyListsMatchStat
<1>3. r.stat[h] = "READY"
  BY <1>1, <1>2 DEF ReadyListsMatchStat
<1> HIDE DEF q
<1>4. CASE r.lock = 0
  <2> DEFINE v == [r EXCEPT !.current = h]
  <2>1. rt_schedule(r) = v
    BY <1>4 DEF rt_schedule, q
  <2> HIDE DEF h
  <2>2. v \in KernelState
    BY <1>2 DEF KernelState
  <2>3. v.current = h
        /\ v.table = r.table /\ v.group = r.group /\ v.waitq = r.waitq
        /\ v.defunct = r.defunct /\ v.stat = r.stat /\ v.prio = r.prio
        /\ v.mask = r.mask /\ v.timers = r.timers /\ v.active = r.active
        /\ v.lock = r.lock /\ v.error = r.error
    BY DEF KernelState
  <2> HIDE DEF v
  <2>4. AtHead(v)
    BY <2>3 DEF AtHead, highest_ready_priority, h, q
  <2>5. QED BY <1>3, <1>4, <2>1, <2>2, <2>3, <2>4
<1>5. CASE r.lock # 0
  BY <1>5 DEF rt_schedule
<1>6. QED BY <1>4, <1>5

\* Consistent does not read rt_current_thread and the other scalar fields.
LEMMA ConsistentReads ==
  ASSUME NEW r, Consistent(r), NEW v,
         v.table = r.table, v.group = r.group, v.waitq = r.waitq,
         v.defunct = r.defunct, v.stat = r.stat, v.prio = r.prio,
         v.mask = r.mask, v.timers = r.timers, v.active = r.active
  PROVE  Consistent(v)
<1>1. ReadyListsMatchStat(v)
  BY DEF Consistent, ReadyListsMatchStat
<1>2. GroupMatchesTable(v)
  BY DEF Consistent, GroupMatchesTable
<1>3. WaitListsHoldSuspended(v)
  BY DEF Consistent, WaitListsHoldSuspended
<1>4. TimersBelongToSuspended(v)
  BY DEF Consistent, TimersBelongToSuspended
<1>5. DefunctIsClosed(v) /\ IdleIsReady(v)
  BY DEF Consistent, DefunctIsClosed, IdleIsReady
<1>6. QED BY <1>1, <1>2, <1>3, <1>4, <1>5 DEF Consistent

\* rt_schedule keeps the kernel's data consistent.
LEMMA SchedulePreserves ==
  ASSUME NEW r, KernelOK(r)
  PROVE  LET v == rt_schedule(r)
         IN  /\ KernelOK(v) /\ v.stat = r.stat /\ v.waitq = r.waitq /\ v.lock = r.lock
             /\ v.prio = r.prio /\ v.error = r.error
             /\ r.lock = 0 => v.stat[v.current] = "READY"
             /\ r.lock = 0 => AtHead(v)
             /\ r.lock # 0 => v.current = r.current
<1> DEFINE v == rt_schedule(r)
<1>1. r \in KernelState /\ Consistent(r)
  BY DEF KernelOK
<1>2. ReadyListsMatchStat(r) /\ GroupMatchesTable(r) /\ IdleIsReady(r)
  BY <1>1 DEF Consistent
<1>3. /\ v \in KernelState
      /\ r.lock = 0 => v.stat[v.current] = "READY"
      /\ r.lock = 0 => AtHead(v)
      /\ r.lock # 0 => v.current = r.current
      /\ v.table = r.table /\ v.group = r.group /\ v.waitq = r.waitq
      /\ v.defunct = r.defunct /\ v.stat = r.stat /\ v.prio = r.prio
      /\ v.mask = r.mask /\ v.timers = r.timers /\ v.active = r.active
      /\ v.lock = r.lock /\ v.error = r.error
  BY <1>1, <1>2, ScheduleOK
<1> HIDE DEF v
<1>4. Consistent(v)
  BY <1>1, <1>3, ConsistentReads
<1>5. QED BY <1>3, <1>4 DEF KernelOK, v

-----------------------------------------------------------------------------
\* A suspended thread that leaves every waiting list, stops its timer and
\* joins the ready list of its priority: what rt_thread_resume and
\* rt_thread_timeout have in common.
MadeReady(r, t, v) ==
  /\ v.stat = [r.stat EXCEPT ![t] = "READY"] /\ v.prio = r.prio /\ v.mask = r.mask
  /\ v.group = r.group \cup r.mask[t]
  /\ \A p \in Priority :
       /\ IsInjective(v.table[p])
       /\ ToSet(v.table[p]) = IF p = r.prio[t] THEN ToSet(r.table[p]) \cup {t}
                                               ELSE ToSet(r.table[p])
  /\ \A o \in Object : /\ IsInjective(v.waitq[o])
                       /\ ToSet(v.waitq[o]) = ToSet(r.waitq[o]) \ {t}
  /\ IsInjective(v.defunct) /\ ToSet(v.defunct) = ToSet(r.defunct)

LEMMA MadeReadyScheduler ==
  ASSUME NEW r \in KernelState, Consistent(r), NEW t \in Thread,
         r.stat[t] = "SUSPEND", NEW v \in KernelState, MadeReady(r, t, v)
  PROVE  ReadyListsMatchStat(v) /\ GroupMatchesTable(v) /\ IdleIsReady(v)
<1>1. /\ r.stat \in [Thread -> Stat] /\ r.prio \in [Thread -> Priority]
      /\ r.mask \in [Thread -> SUBSET Priority]
  BY Fields
<1>2. ReadyListsMatchStat(v)
  <2>1. SUFFICES ASSUME NEW p \in Priority
                 PROVE  ToSet(v.table[p]) =
                          {u \in Thread : v.stat[u] = "READY" /\ v.prio[u] = p}
    BY DEF MadeReady, ReadyListsMatchStat
  <2>2. ToSet(r.table[p]) = {u \in Thread : r.stat[u] = "READY" /\ r.prio[u] = p}
    BY DEF Consistent, ReadyListsMatchStat
  <2>3. \A u \in Thread : /\ v.stat[u] = IF u = t THEN "READY" ELSE r.stat[u]
                         /\ v.prio[u] = r.prio[u]
    BY <1>1 DEF MadeReady
  <2>4. t \notin ToSet(r.table[p])
    BY <2>2
  <2>5. CASE p = r.prio[t]
    <3>1. ToSet(v.table[p]) = ToSet(r.table[p]) \cup {t}
      BY <2>5 DEF MadeReady
    <3>2. QED BY <2>2, <2>3, <2>5, <3>1
  <2>6. CASE p # r.prio[t]
    <3>1. ToSet(v.table[p]) = ToSet(r.table[p])
      BY <2>6 DEF MadeReady
    <3>2. QED BY <2>2, <2>3, <2>6, <3>1
  <2>7. QED BY <2>5, <2>6
<1>3. GroupMatchesTable(v)
  <2>1. r.mask[t] = {r.prio[t]} /\ r.group = {p \in Priority : r.table[p] # << >>}
    BY DEF Consistent, GroupMatchesTable
  <2>2. \A p \in Priority : /\ r.table[p] = << >> <=> ToSet(r.table[p]) = {}
                            /\ v.table[p] = << >> <=> ToSet(v.table[p]) = {}
    <3>1. \A p \in Priority : r.table[p] \in Seq(Thread) /\ v.table[p] \in Seq(Thread)
      BY Fields
    <3>2. QED BY <3>1, EmptyThreadList
  <2>3. \A p \in Priority :
          v.table[p] # << >> <=> (r.table[p] # << >> \/ p = r.prio[t])
    BY <2>2 DEF MadeReady
  <2>4. v.group = r.group \cup {r.prio[t]} /\ r.prio[t] \in Priority
    BY <1>1, <2>1 DEF MadeReady
  <2>5. v.group = {p \in Priority : v.table[p] # << >>}
    BY <2>1, <2>3, <2>4
  <2>6. QED BY <2>5 DEF MadeReady, Consistent, GroupMatchesTable
<1>4. IdleIsReady(v)
  BY <1>1 DEF MadeReady, Consistent, IdleIsReady
<1>5. QED BY <1>2, <1>3, <1>4

LEMMA MadeReadyConsistent ==
  ASSUME NEW r \in KernelState, Consistent(r), NEW t \in Thread,
         r.stat[t] = "SUSPEND", NEW v \in KernelState, MadeReady(r, t, v),
         IsInjective(v.timers), ToSet(v.timers) = v.active, v.active = r.active \ {t}
  PROVE  Consistent(v)
<1>1. r.stat \in [Thread -> Stat] /\ r.active \in SUBSET Thread
  BY Fields
<1>2. ReadyListsMatchStat(v) /\ GroupMatchesTable(v) /\ IdleIsReady(v)
  BY MadeReadyScheduler
<1>3. WaitListsHoldSuspended(v)
  <2>1. \A o \in Object : ToSet(r.waitq[o]) \subseteq Thread
    BY Fields, MembersOf
  <2>2. QED BY <1>1, <2>1 DEF MadeReady, Consistent, WaitListsHoldSuspended
<1>4. TimersBelongToSuspended(v)
  BY <1>1 DEF MadeReady, Consistent, TimersBelongToSuspended
<1>5. DefunctIsClosed(v)
  <2>1. ToSet(r.defunct) \subseteq Thread
    BY Fields, MembersOf
  <2>2. QED BY <1>1, <2>1 DEF MadeReady, Consistent, DefunctIsClosed
<1>6. QED BY <1>2, <1>3, <1>4, <1>5 DEF Consistent

\* Off the waiting lists, on the ready list.
LEMMA Relink ==
  ASSUME NEW r \in KernelState, Consistent(r), NEW t \in Thread,
         r.stat[t] = "SUSPEND",
         NEW w \in KernelState, NEW u, u = rt_list_remove(r, t),
         w.table = u.table, w.group = u.group, w.waitq = u.waitq,
         w.defunct = u.defunct, w.stat = u.stat, w.prio = u.prio, w.mask = u.mask
  PROVE  LET v == rt_schedule_insert_thread(w, t)
         IN  /\ v \in KernelState /\ MadeReady(r, t, v)
             /\ v.timers = w.timers /\ v.active = w.active
             /\ v.current = w.current /\ v.lock = w.lock /\ v.error = w.error
<1> DEFINE v == rt_schedule_insert_thread(w, t)
<1>1. /\ u \in KernelState
      /\ \A p \in Priority : /\ IsInjective(u.table[p])
                             /\ ToSet(u.table[p]) = ToSet(r.table[p]) \ {t}
      /\ \A o \in Object : /\ IsInjective(u.waitq[o])
                           /\ ToSet(u.waitq[o]) = ToSet(r.waitq[o]) \ {t}
      /\ IsInjective(u.defunct) /\ ToSet(u.defunct) = ToSet(r.defunct) \ {t}
      /\ u.group = r.group /\ u.stat = r.stat /\ u.prio = r.prio /\ u.mask = r.mask
  <2>1. ListsInjective(r)
    BY ConsistentLists
  <2>2. QED BY <2>1, ListRemove, SMTT(60)
<1>2. \A p \in Priority : t \notin ToSet(r.table[p])
  BY ConsistentLists
<1>3. t \notin ToSet(r.defunct)
  BY ConsistentLists
<1>4. t \notin ToSet(w.table[w.prio[t]]) /\ r.prio[t] \in Priority
  <2>1. r.prio[t] \in Priority
    BY Fields
  <2>2. QED BY <1>1, <2>1
<1>5. /\ v \in KernelState
      /\ \A p \in Priority :
           /\ IsInjective(v.table[p])
           /\ ToSet(v.table[p]) =
                IF p = w.prio[t] THEN ToSet(w.table[p]) \cup {t}
                                 ELSE ToSet(w.table[p])
      /\ v.stat = [w.stat EXCEPT ![t] = "READY"]
      /\ v.group = w.group \cup w.mask[t]
      /\ v.waitq = w.waitq /\ v.defunct = w.defunct /\ v.prio = w.prio
      /\ v.mask = w.mask /\ v.timers = w.timers /\ v.active = w.active
      /\ v.current = w.current /\ v.lock = w.lock /\ v.error = w.error
  BY <1>1, <1>4, InsertThread, ZenonT(60)
<1> HIDE DEF v
<1>6. MadeReady(r, t, v)
  <2>1. \A p \in Priority :
          /\ IsInjective(v.table[p])
          /\ ToSet(v.table[p]) = IF p = r.prio[t] THEN ToSet(r.table[p]) \cup {t}
                                                  ELSE ToSet(r.table[p])
    <3> TAKE p \in Priority
    <3>1. ToSet(w.table[p]) = ToSet(r.table[p])
      <4>1. t \notin ToSet(r.table[p])
        BY <1>2
      <4>2. ToSet(w.table[p]) = ToSet(r.table[p]) \ {t}
        BY <1>1
      <4>3. QED BY <4>1, <4>2
    <3>2. w.prio[t] = r.prio[t]
      BY <1>1
    <3>3. QED BY <1>5, <3>1, <3>2
  <2>2. \A o \in Object : /\ IsInjective(v.waitq[o])
                          /\ ToSet(v.waitq[o]) = ToSet(r.waitq[o]) \ {t}
    BY <1>1, <1>5
  <2>3. QED BY <1>1, <1>3, <1>5, <2>1, <2>2, SMTT(60) DEF MadeReady
<1>7. QED BY <1>5, <1>6 DEF v

\* rt_thread_resume
LEMMA ResumePreserves ==
  ASSUME NEW r, KernelOK(r), NEW t \in Thread
  PROVE  LET v == rt_thread_resume(r, t)
         IN  /\ KernelOK(v)
             /\ v.stat = IF r.stat[t] = "SUSPEND" THEN [r.stat EXCEPT ![t] = "READY"]
                                                  ELSE r.stat
             /\ \A o \in Object :
                  /\ r.waitq[o] = << >> => v.waitq[o] = << >>
                  /\ ToSet(v.waitq[o]) = IF r.stat[t] = "SUSPEND"
                                         THEN ToSet(r.waitq[o]) \ {t}
                                         ELSE ToSet(r.waitq[o])
             /\ v.prio = r.prio
             /\ v.current = r.current /\ v.lock = r.lock /\ v.error = r.error
<1>0. r \in KernelState /\ Consistent(r)
  BY DEF KernelOK
<1>1. CASE r.stat[t] # "SUSPEND"
  BY <1>1 DEF rt_thread_resume
<1>2. CASE r.stat[t] = "SUSPEND"
  <2> DEFINE u == rt_list_remove(r, t)
             w == rt_timer_stop(u, t)
             v == rt_schedule_insert_thread(w, t)
  <2>1. rt_thread_resume(r, t) = v
    BY <1>2 DEF rt_thread_resume, resume_unlink
  <2>2. u \in KernelState /\ u.timers = r.timers /\ u.active = r.active
        /\ u.current = r.current /\ u.lock = r.lock /\ u.error = r.error
    BY <1>0, ConsistentLists, ListRemove
  <2>3. IsInjective(u.timers) /\ ToSet(u.timers) = u.active
    BY <1>0, <2>2, ConsistentLists
  <2> HIDE DEF u
  <2>4. w \in KernelState /\ IsInjective(w.timers) /\ ToSet(w.timers) = w.active
        /\ w.active = r.active \ {t}
        /\ w.table = u.table /\ w.group = u.group /\ w.waitq = u.waitq
        /\ w.defunct = u.defunct /\ w.stat = u.stat /\ w.prio = u.prio
        /\ w.mask = u.mask /\ w.current = r.current /\ w.lock = r.lock /\ w.error = r.error
    BY <2>2, <2>3, TimerStop
  <2> HIDE DEF w
  <2>5. /\ v \in KernelState /\ MadeReady(r, t, v)
        /\ v.timers = w.timers /\ v.active = w.active
        /\ v.current = w.current /\ v.lock = w.lock /\ v.error = w.error
    BY <1>0, <1>2, <2>4, Relink DEF u
  <2> HIDE DEF v
  <2>6. Consistent(v)
    BY <1>0, <1>2, <2>4, <2>5, MadeReadyConsistent
  <2>7. \A o \in Object : r.waitq[o] = << >> => v.waitq[o] = << >>
    <3>1. \A o \in Object : /\ r.waitq[o] = << >> <=> ToSet(r.waitq[o]) = {}
                            /\ v.waitq[o] = << >> <=> ToSet(v.waitq[o]) = {}
      <4>1. \A o \in Object : r.waitq[o] \in Seq(Thread) /\ v.waitq[o] \in Seq(Thread)
        BY <1>0, <2>5, Fields
      <4>2. QED BY <4>1, EmptyThreadList
    <3>2. QED BY <2>5, <3>1 DEF MadeReady
  <2>8. QED BY <1>2, <2>1, <2>4, <2>5, <2>6, <2>7 DEF KernelOK, MadeReady
<1>3. QED BY <1>1, <1>2

\* One round of rt_timer_check: the thread whose timer runs out.
LEMMA ExpirePreserves ==
  ASSUME NEW r, KernelOK(r), r.timers # << >>
  PROVE  LET v == timer_expire(r)
         IN  /\ KernelOK(v)
             /\ r.stat[Head(r.timers)] = "SUSPEND"
             /\ v.stat = [r.stat EXCEPT ![Head(r.timers)] = "READY"]
             /\ \A o \in Object : r.waitq[o] = << >> => v.waitq[o] = << >>
             /\ \A o \in Object : ToSet(v.waitq[o]) = ToSet(r.waitq[o]) \ {Head(r.timers)}
             /\ v.error = [r.error EXCEPT ![Head(r.timers)] = "ETIMEOUT"]
             /\ v.lock = r.lock /\ v.prio = r.prio
             /\ r.lock = 0 => v.stat[v.current] = "READY"
             /\ r.lock = 0 => AtHead(v)
             /\ r.lock # 0 => v.current = r.current
<1> DEFINE t == Head(r.timers)
           a == _rt_timer_remove(r, t)
           b == [a EXCEPT !.error[t] = "ETIMEOUT"]
           c == rt_list_remove(b, t)
           d == rt_schedule_insert_thread(c, t)
           e == rt_schedule(d)
           v == [e EXCEPT !.active = @ \ {t}]
<1>0. r \in KernelState /\ Consistent(r)
  BY DEF KernelOK
<1>1. timer_expire(r) = v
  BY DEF timer_expire, rt_thread_timeout
<1>2. t \in Thread /\ r.stat[t] = "SUSPEND"
  <2>1. r.timers \in Seq(Thread) /\ IsInjective(r.timers) /\ ToSet(r.timers) = r.active
    BY <1>0, Fields, ConsistentLists
  <2>2. t \in Thread /\ t \in r.active
    BY <2>1, HeadOfList
  <2>3. QED BY <1>0, <2>2, ConsistentLists
<1> HIDE DEF t
<1>3. /\ a \in KernelState
      /\ IsInjective(a.timers) /\ ToSet(a.timers) = r.active \ {t}
      /\ a.table = r.table /\ a.group = r.group /\ a.waitq = r.waitq
      /\ a.defunct = r.defunct /\ a.stat = r.stat /\ a.prio = r.prio
      /\ a.mask = r.mask /\ a.active = r.active
      /\ a.current = r.current /\ a.lock = r.lock /\ a.error = r.error
  BY <1>0, <1>2, ConsistentLists, TimerRemove
<1> HIDE DEF a
<1>4. /\ b \in KernelState /\ b.timers = a.timers
      /\ b.table = r.table /\ b.group = r.group /\ b.waitq = r.waitq
      /\ b.defunct = r.defunct /\ b.stat = r.stat /\ b.prio = r.prio
      /\ b.mask = r.mask /\ b.active = r.active
      /\ b.current = r.current /\ b.lock = r.lock
      /\ b.error = [r.error EXCEPT ![t] = "ETIMEOUT"]
  BY <1>2, <1>3 DEF KernelState, Error
<1> HIDE DEF b
<1>5. /\ c \in KernelState /\ c.timers = a.timers /\ c.active = r.active
      /\ c.current = r.current /\ c.lock = r.lock /\ c.error = b.error
  <2>1. ListsInjective(b)
    BY <1>0, <1>4, ConsistentLists DEF ListsInjective
  <2>2. QED BY <1>2, <1>4, <2>1, ListRemove
<1>6. LET u == rt_list_remove(r, t)
      IN  /\ c.table = u.table /\ c.group = u.group /\ c.waitq = u.waitq
          /\ c.defunct = u.defunct /\ c.stat = u.stat /\ c.prio = u.prio
          /\ c.mask = u.mask
  BY <1>0, <1>4 DEF rt_list_remove, KernelState
<1> HIDE DEF c
<1>7. /\ d \in KernelState /\ MadeReady(r, t, d)
      /\ d.timers = a.timers /\ d.active = r.active
      /\ d.current = r.current /\ d.lock = r.lock /\ d.error = b.error
  BY <1>0, <1>2, <1>5, <1>6, Relink
<1> HIDE DEF d
<1>8. /\ e \in KernelState
      /\ d.lock = 0 => e.stat[e.current] = "READY"
      /\ d.lock = 0 => AtHead(e)
      /\ d.lock # 0 => e.current = d.current
      /\ e.table = d.table /\ e.group = d.group /\ e.waitq = d.waitq
      /\ e.defunct = d.defunct /\ e.stat = d.stat /\ e.prio = d.prio
      /\ e.mask = d.mask /\ e.timers = d.timers /\ e.active = d.active
      /\ e.lock = d.lock /\ e.error = d.error
  <2>1. ReadyListsMatchStat(d) /\ GroupMatchesTable(d) /\ IdleIsReady(d)
    BY <1>0, <1>2, <1>7, MadeReadyScheduler
  <2>2. QED BY <1>7, <2>1, ScheduleOK
<1> HIDE DEF e
<1>9. /\ v \in KernelState /\ v.active = r.active \ {t}
      /\ v.table = d.table /\ v.group = d.group /\ v.waitq = d.waitq
      /\ v.defunct = d.defunct /\ v.stat = d.stat /\ v.prio = d.prio
      /\ v.mask = d.mask /\ v.timers = a.timers
      /\ v.current = e.current /\ v.lock = r.lock /\ v.error = e.error
      /\ v.table = e.table /\ v.group = e.group
  BY <1>7, <1>8 DEF KernelState
<1> HIDE DEF v
<1>10. MadeReady(r, t, v)
  BY <1>7, <1>9 DEF MadeReady
<1>11. Consistent(v)
  BY <1>0, <1>2, <1>3, <1>9, <1>10, MadeReadyConsistent
<1>12. \A o \in Object : r.waitq[o] = << >> => v.waitq[o] = << >>
  <2>1. \A o \in Object : r.waitq[o] \in Seq(Thread) /\ v.waitq[o] \in Seq(Thread)
    BY <1>0, <1>9, Fields
  <2>2. \A o \in Object : /\ r.waitq[o] = << >> <=> ToSet(r.waitq[o]) = {}
                          /\ v.waitq[o] = << >> <=> ToSet(v.waitq[o]) = {}
    BY <2>1, EmptyThreadList
  <2>3. QED BY <1>10, <2>2 DEF MadeReady
<1>13. /\ r.lock = 0 => v.stat[v.current] = "READY"
       /\ r.lock # 0 => v.current = r.current
  BY <1>7, <1>8, <1>9
<1>14. v.stat = [r.stat EXCEPT ![t] = "READY"]
  BY <1>10 DEF MadeReady
<1>15. /\ \A o \in Object : ToSet(v.waitq[o]) = ToSet(r.waitq[o]) \ {t}
       /\ v.error = [r.error EXCEPT ![t] = "ETIMEOUT"] /\ v.prio = r.prio
  BY <1>4, <1>7, <1>8, <1>9, <1>10 DEF MadeReady
<1>16. r.lock = 0 => AtHead(v)
  BY <1>7, <1>8, <1>9 DEF AtHead, highest_ready_priority
<1>17. QED BY <1>1, <1>2, <1>9, <1>11, <1>12, <1>13, <1>14, <1>15, <1>16 DEF KernelOK, t

-----------------------------------------------------------------------------
\* What is left on the ready lists, and the bits of the lists that are left,
\* when rt_schedule_remove_thread takes a ready thread away.
LEMMA RemoveThread ==
  ASSUME NEW r, KernelOK(r), NEW t \in Thread, r.stat[t] = "READY"
  PROVE  LET v == rt_schedule_remove_thread(r, t)
         IN  /\ v \in KernelState
             /\ \A p \in Priority : /\ IsInjective(v.table[p])
                                    /\ ToSet(v.table[p]) = ToSet(r.table[p]) \ {t}
             /\ v.group = {p \in Priority : v.table[p] # << >>}
             /\ v.waitq = r.waitq /\ v.defunct = r.defunct
             /\ v.stat = r.stat /\ v.prio = r.prio /\ v.mask = r.mask
             /\ v.timers = r.timers /\ v.active = r.active
             /\ v.current = r.current /\ v.lock = r.lock /\ v.error = r.error
<1> DEFINE a == rt_list_remove(r, t)
           v == IF a.table[r.prio[t]] = << >> THEN [a EXCEPT !.group = @ \ r.mask[t]]
                                              ELSE a
<1>0. r \in KernelState /\ Consistent(r) /\ ListsInjective(r)
  BY ConsistentLists DEF KernelOK
<1>1. rt_schedule_remove_thread(r, t) = v
  BY DEF rt_schedule_remove_thread
<1>2. /\ a \in KernelState
      /\ \A p \in Priority : /\ IsInjective(a.table[p])
                             /\ ToSet(a.table[p]) = ToSet(r.table[p]) \ {t}
      /\ a.group = r.group /\ a.stat = r.stat /\ a.prio = r.prio
      /\ a.mask = r.mask /\ a.timers = r.timers /\ a.active = r.active
      /\ a.current = r.current /\ a.lock = r.lock /\ a.error = r.error
  BY <1>0, ListRemove
<1>3. a.waitq = r.waitq /\ a.defunct = r.defunct
  <2>1. /\ \A o \in Object : t \notin ToSet(r.waitq[o]) /\ r.waitq[o] \in Seq(Thread)
        /\ t \notin ToSet(r.defunct) /\ r.defunct \in Seq(Thread)
        /\ r.waitq \in [Object -> Seq(Thread)]
    BY <1>0, ConsistentLists, Fields
  <2>2. /\ \A o \in Object : RemoveFirst(r.waitq[o], t) = r.waitq[o]
        /\ RemoveFirst(r.defunct, t) = r.defunct
    BY <2>1, RemoveAbsent
  <2>3. /\ a.waitq = [o \in Object |-> RemoveFirst(r.waitq[o], t)]
        /\ a.defunct = RemoveFirst(r.defunct, t)
    BY <1>0 DEF rt_list_remove, KernelState
  <2>4. QED BY <2>1, <2>2, <2>3
<1> HIDE DEF a
<1>4. /\ v \in KernelState
      /\ v.group = IF a.table[r.prio[t]] = << >> THEN r.group \ r.mask[t] ELSE r.group
      /\ v.table = a.table /\ v.waitq = a.waitq /\ v.defunct = a.defunct
      /\ v.stat = a.stat /\ v.prio = a.prio /\ v.mask = a.mask
      /\ v.timers = a.timers /\ v.active = a.active
      /\ v.current = a.current /\ v.lock = a.lock /\ v.error = a.error
  BY <1>2 DEF KernelState
<1> HIDE DEF v
<1>5. v.group = {p \in Priority : v.table[p] # << >>}
  <2>1. /\ r.group = {p \in Priority : r.table[p] # << >>}
        /\ r.mask[t] = {r.prio[t]} /\ r.prio[t] \in Priority
    BY <1>0, Fields DEF Consistent, GroupMatchesTable
  <2>2. \A p \in Priority : /\ r.table[p] = << >> <=> ToSet(r.table[p]) = {}
                            /\ v.table[p] = << >> <=> ToSet(v.table[p]) = {}
    <3>1. \A p \in Priority : r.table[p] \in Seq(Thread) /\ v.table[p] \in Seq(Thread)
      BY <1>0, <1>4, Fields
    <3>2. QED BY <3>1, EmptyThreadList
  <2>3. \A p \in Priority : p # r.prio[t] => ToSet(v.table[p]) = ToSet(r.table[p])
    <3> SUFFICES ASSUME NEW p \in Priority, p # r.prio[t]
                 PROVE  ToSet(r.table[p]) \ {t} = ToSet(r.table[p])
      BY <1>2, <1>4
    <3>1. t \notin ToSet(r.table[p])
      BY <1>0, ConsistentLists
    <3>2. QED BY <3>1
  <2>4. r.table[r.prio[t]] # << >>
    <3>1. t \in ToSet(r.table[r.prio[t]])
      BY <1>0, <2>1, ConsistentLists
    <3>2. QED BY <2>1, <2>2, <3>1
  <2>5. CASE a.table[r.prio[t]] = << >>
    <3>1. v.group = r.group \ {r.prio[t]}
      BY <1>4, <2>1, <2>5
    <3>2. \A p \in Priority :
            v.table[p] # << >> <=> r.table[p] # << >> /\ p # r.prio[t]
      BY <1>4, <2>2, <2>3, <2>5
    <3>3. QED BY <2>1, <3>1, <3>2
  <2>6. CASE a.table[r.prio[t]] # << >>
    <3>1. \A p \in Priority : r.table[p] # << >> <=> v.table[p] # << >>
      BY <1>4, <2>2, <2>3, <2>4, <2>6
    <3>2. QED BY <1>4, <2>1, <2>6, <3>1
  <2>7. QED BY <2>5, <2>6
<1>6. QED BY <1>1, <1>2, <1>3, <1>4, <1>5

\* A change of the priority of t leaves t on the list it should be on.
LEMMA ChangePriorityPreserves ==
  ASSUME NEW r, KernelOK(r), NEW t \in Thread, NEW p \in Priority
  PROVE  LET v == change_priority(r, t, p)
         IN  /\ KernelOK(v) /\ v.stat = r.stat /\ v.waitq = r.waitq
             /\ v.prio = [r.prio EXCEPT ![t] = p]
             /\ v.current = r.current /\ v.lock = r.lock /\ v.error = r.error
<1>0. r \in KernelState /\ Consistent(r)
  BY DEF KernelOK
<1>1. /\ r.stat \in [Thread -> Stat] /\ r.prio \in [Thread -> Priority]
      /\ r.mask \in [Thread -> SUBSET Priority]
  BY <1>0, Fields
<1> DEFINE b == IF r.stat[t] = "READY" THEN rt_schedule_remove_thread(r, t) ELSE r
           c == [b EXCEPT !.prio[t] = p, !.mask[t] = {p}]
           v == change_priority(r, t, p)
<1>2. v = IF r.stat[t] = "READY" THEN rt_schedule_insert_thread(c, t) ELSE c
  <2>1. CASE r.stat[t] = "READY"
    <3>1. b = rt_schedule_remove_thread(r, t)
      BY <2>1
    <3> HIDE DEF b
    <3>2. v = rt_schedule_insert_thread(
                [rt_schedule_remove_thread(r, t) EXCEPT !.prio[t] = p,
                                                        !.mask[t] = {p}], t)
      BY <2>1, Zenon DEF change_priority
    <3>3. v = rt_schedule_insert_thread(c, t)
      BY <3>1, <3>2, Zenon
    <3>4. QED BY <2>1, <3>3, Zenon
  <2>2. CASE r.stat[t] # "READY"
    <3>1. b = r
      BY <2>2
    <3>2. v = [r EXCEPT !.prio[t] = p, !.mask[t] = {p}]
      BY <2>2, Zenon DEF change_priority
    <3> HIDE DEF b
    <3>3. v = c
      BY <3>1, <3>2, Zenon
    <3>4. QED BY <2>2, <3>3, Zenon
  <2>3. QED BY <2>1, <2>2
<1>3. /\ b \in KernelState
      /\ \A q \in Priority :
           /\ IsInjective(b.table[q])
           /\ ToSet(b.table[q]) =
                {u \in Thread : r.stat[u] = "READY" /\ r.prio[u] = q} \ {t}
      /\ b.group = {q \in Priority : b.table[q] # << >>}
      /\ b.waitq = r.waitq /\ b.defunct = r.defunct
      /\ b.stat = r.stat /\ b.prio = r.prio /\ b.mask = r.mask
      /\ b.timers = r.timers /\ b.active = r.active
      /\ b.current = r.current /\ b.lock = r.lock /\ b.error = r.error
  <2>1. \A q \in Priority :
          ToSet(r.table[q]) = {u \in Thread : r.stat[u] = "READY" /\ r.prio[u] = q}
    BY <1>0 DEF Consistent, ReadyListsMatchStat
  <2>2. CASE r.stat[t] = "READY"
    <3>1. b = rt_schedule_remove_thread(r, t)
      BY <2>2
    <3> HIDE DEF b
    <3> DEFINE x == rt_schedule_remove_thread(r, t)
    <3>2. /\ x \in KernelState
          /\ \A q \in Priority : /\ IsInjective(x.table[q])
                                 /\ ToSet(x.table[q]) = ToSet(r.table[q]) \ {t}
          /\ x.group = {q \in Priority : x.table[q] # << >>}
          /\ x.waitq = r.waitq /\ x.defunct = r.defunct
          /\ x.stat = r.stat /\ x.prio = r.prio /\ x.mask = r.mask
          /\ x.timers = r.timers /\ x.active = r.active
          /\ x.current = r.current /\ x.lock = r.lock /\ x.error = r.error
      BY <2>2, RemoveThread
    <3> HIDE DEF x
    <3>3. b = x
      BY <3>1 DEF x
    <3>4. QED BY <2>1, <3>2, <3>3
  <2>3. CASE r.stat[t] # "READY"
    <3>1. b = r
      BY <2>3
    <3>2. \A q \in Priority :
            {u \in Thread : r.stat[u] = "READY" /\ r.prio[u] = q} =
            {u \in Thread : r.stat[u] = "READY" /\ r.prio[u] = q} \ {t}
      BY <2>3
    <3>3. \A q \in Priority : IsInjective(r.table[q])
      BY <1>0 DEF Consistent, ReadyListsMatchStat
    <3>4. r.group = {q \in Priority : r.table[q] # << >>}
      BY <1>0 DEF Consistent, GroupMatchesTable
    <3> HIDE DEF b
    <3>5. QED BY <1>0, <2>1, <3>1, <3>2, <3>3, <3>4
  <2>4. QED BY <2>2, <2>3
<1> HIDE DEF b
<1>4. /\ c \in KernelState
      /\ c.prio = [r.prio EXCEPT ![t] = p] /\ c.mask = [r.mask EXCEPT ![t] = {p}]
      /\ c.table = b.table /\ c.group = b.group
      /\ c.waitq = r.waitq /\ c.defunct = r.defunct /\ c.stat = r.stat
      /\ c.timers = r.timers /\ c.active = r.active
      /\ c.current = r.current /\ c.lock = r.lock /\ c.error = r.error
  BY <1>3 DEF KernelState
<1> HIDE DEF c, v
<1>5. /\ v \in KernelState
      /\ \A q \in Priority :
           /\ IsInjective(v.table[q])
           /\ ToSet(v.table[q]) = IF r.stat[t] = "READY" /\ q = p
                                  THEN ToSet(b.table[q]) \cup {t} ELSE ToSet(b.table[q])
      /\ v.group = IF r.stat[t] = "READY" THEN b.group \cup {p} ELSE b.group
      /\ v.prio = c.prio /\ v.mask = c.mask
      /\ v.waitq = r.waitq /\ v.defunct = r.defunct /\ v.stat = r.stat
      /\ v.timers = r.timers /\ v.active = r.active
      /\ v.current = r.current /\ v.lock = r.lock /\ v.error = r.error
  <2>1. CASE r.stat[t] = "READY"
    <3>1. c.prio[t] = p /\ c.mask[t] = {p} /\ v = rt_schedule_insert_thread(c, t)
      BY <1>1, <1>2, <1>4, <2>1
    <3>2. /\ \A q \in Priority : IsInjective(c.table[q])
          /\ t \notin ToSet(c.table[c.prio[t]])
      BY <1>3, <1>4, <3>1
    <3> DEFINE x == rt_schedule_insert_thread(c, t)
    <3>3. /\ x \in KernelState
          /\ \A q \in Priority :
               /\ IsInjective(x.table[q])
               /\ ToSet(x.table[q]) = IF q = c.prio[t] THEN ToSet(c.table[q]) \cup {t}
                                                       ELSE ToSet(c.table[q])
          /\ x.stat = [c.stat EXCEPT ![t] = "READY"]
          /\ x.group = c.group \cup c.mask[t]
          /\ x.waitq = c.waitq /\ x.defunct = c.defunct /\ x.prio = c.prio
          /\ x.mask = c.mask /\ x.timers = c.timers /\ x.active = c.active
          /\ x.current = c.current /\ x.lock = c.lock /\ x.error = c.error
      BY <1>4, <3>2, InsertThread
    <3> HIDE DEF x
    <3>4. x.stat = r.stat
      BY <1>1, <1>4, <2>1, <3>3
    <3>5. v = x
      BY <3>1 DEF x
    <3>6. QED BY <1>4, <2>1, <3>1, <3>3, <3>4, <3>5
  <2>2. CASE r.stat[t] # "READY"
    BY <1>2, <1>3, <1>4, <2>2
  <2>3. QED BY <2>1, <2>2
<1>6. /\ \A u \in Thread : v.prio[u] = IF u = t THEN p ELSE r.prio[u]
      /\ \A u \in Thread : v.mask[u] = {v.prio[u]}
  BY <1>0, <1>1, <1>4, <1>5 DEF Consistent, GroupMatchesTable
<1>7. ReadyListsMatchStat(v)
  <2>1. SUFFICES ASSUME NEW q \in Priority
                 PROVE  ToSet(v.table[q]) =
                          {u \in Thread : v.stat[u] = "READY" /\ v.prio[u] = q}
    BY <1>5 DEF ReadyListsMatchStat
  <2>2. ToSet(b.table[q]) =
          {u \in Thread : r.stat[u] = "READY" /\ r.prio[u] = q} \ {t}
    BY <1>3
  <2>3. CASE r.stat[t] = "READY" /\ q = p
    BY <1>5, <1>6, <2>2, <2>3, ZenonT(60)
  <2>4. CASE ~(r.stat[t] = "READY" /\ q = p)
    <3>1. ToSet(v.table[q]) = ToSet(b.table[q])
      BY <1>5, <2>4
    <3>2. \A u \in Thread : v.stat[u] = "READY" /\ v.prio[u] = q <=>
            r.stat[u] = "READY" /\ r.prio[u] = q /\ u # t
      BY <1>5, <1>6, <2>4
    <3>3. QED BY <2>2, <3>1, <3>2
  <2>5. QED BY <2>3, <2>4
<1>8. GroupMatchesTable(v)
  <2>1. \A q \in Priority : /\ b.table[q] = << >> <=> ToSet(b.table[q]) = {}
                            /\ v.table[q] = << >> <=> ToSet(v.table[q]) = {}
    <3>1. \A q \in Priority : b.table[q] \in Seq(Thread) /\ v.table[q] \in Seq(Thread)
      BY <1>3, <1>5, Fields
    <3>2. QED BY <3>1, EmptyThreadList
  <2>2. \A q \in Priority : v.table[q] # << >> <=>
          (b.table[q] # << >> \/ (r.stat[t] = "READY" /\ q = p))
    BY <1>5, <2>1
  <2>3. v.group = {q \in Priority : v.table[q] # << >>}
    BY <1>3, <1>5, <2>2
  <2>4. QED BY <1>6, <2>3 DEF GroupMatchesTable
<1>9. WaitListsHoldSuspended(v)
  BY <1>0, <1>5 DEF Consistent, WaitListsHoldSuspended
<1>10. TimersBelongToSuspended(v)
  BY <1>0, <1>5 DEF Consistent, TimersBelongToSuspended
<1>11. DefunctIsClosed(v) /\ IdleIsReady(v)
  BY <1>0, <1>5 DEF Consistent, DefunctIsClosed, IdleIsReady
<1>12. QED BY <1>4, <1>5, <1>7, <1>8, <1>9, <1>10, <1>11 DEF Consistent, KernelOK, v

-----------------------------------------------------------------------------
\* rt_thread_suspend on a ready thread other than the idle thread.
LEMMA SuspendPreserves ==
  ASSUME NEW r, KernelOK(r), NEW t \in Thread, r.stat[t] = "READY", t # Idle
  PROVE  LET v == rt_thread_suspend(r, t)
         IN  /\ KernelOK(v)
             /\ v.stat = [r.stat EXCEPT ![t] = "SUSPEND"]
             /\ \A o \in Object : ToSet(v.waitq[o]) = ToSet(r.waitq[o])
             /\ \A o \in Object : t \notin ToSet(v.waitq[o])
             /\ v.prio = r.prio
             /\ v.current = r.current /\ v.lock = r.lock /\ v.error = r.error
<1> DEFINE a == [r EXCEPT !.stat[t] = "SUSPEND"]
           b == rt_list_remove(a, t)
           c == IF b.table[a.prio[t]] = << >> THEN [b EXCEPT !.group = @ \ a.mask[t]]
                                              ELSE b
<1>0. r \in KernelState /\ Consistent(r)
  BY DEF KernelOK
<1>1. /\ a \in KernelState /\ a.stat = [r.stat EXCEPT ![t] = "SUSPEND"]
      /\ a.table = r.table /\ a.group = r.group /\ a.waitq = r.waitq
      /\ a.defunct = r.defunct /\ a.prio = r.prio /\ a.timers = r.timers
      /\ a.mask = r.mask /\ a.active = r.active
      /\ a.current = r.current /\ a.lock = r.lock /\ a.error = r.error
  BY <1>0 DEF KernelState, Stat
<1>2. rt_thread_suspend(r, t) = rt_timer_stop(c, t)
  BY DEF rt_thread_suspend, rt_schedule_remove_thread
<1> HIDE DEF a
<1>3. /\ b \in KernelState
      /\ \A p \in Priority : /\ IsInjective(b.table[p])
                             /\ ToSet(b.table[p]) = ToSet(r.table[p]) \ {t}
      /\ \A o \in Object : /\ IsInjective(b.waitq[o])
                           /\ ToSet(b.waitq[o]) = ToSet(r.waitq[o]) \ {t}
      /\ IsInjective(b.defunct) /\ ToSet(b.defunct) = ToSet(r.defunct) \ {t}
      /\ b.group = r.group /\ b.stat = a.stat /\ b.prio = r.prio
      /\ b.mask = r.mask /\ b.timers = r.timers /\ b.active = r.active
      /\ b.current = r.current /\ b.lock = r.lock /\ b.error = r.error
  <2>1. ListsInjective(a)
    BY <1>0, <1>1, ConsistentLists DEF ListsInjective
  <2>2. /\ b \in KernelState
        /\ \A p \in Priority : /\ IsInjective(b.table[p])
                               /\ ToSet(b.table[p]) = ToSet(a.table[p]) \ {t}
        /\ \A o \in Object : /\ IsInjective(b.waitq[o])
                             /\ ToSet(b.waitq[o]) = ToSet(a.waitq[o]) \ {t}
        /\ IsInjective(b.defunct) /\ ToSet(b.defunct) = ToSet(a.defunct) \ {t}
        /\ b.group = a.group /\ b.stat = a.stat /\ b.prio = a.prio
        /\ b.mask = a.mask /\ b.timers = a.timers /\ b.active = a.active
        /\ b.current = a.current /\ b.lock = a.lock /\ b.error = a.error
    BY <1>1, <2>1, ListRemove
  <2>3. QED BY <1>1, <2>2
<1> HIDE DEF b
<1>4. /\ c \in KernelState
      /\ c.group = IF b.table[r.prio[t]] = << >> THEN r.group \ r.mask[t] ELSE r.group
      /\ c.table = b.table /\ c.waitq = b.waitq /\ c.defunct = b.defunct
      /\ c.stat = a.stat /\ c.prio = r.prio /\ c.mask = r.mask
      /\ c.timers = r.timers /\ c.active = r.active
      /\ c.current = r.current /\ c.lock = r.lock /\ c.error = r.error
  BY <1>1, <1>3 DEF KernelState
<1> HIDE DEF c
<1>5. rt_timer_stop(c, t) = c
  BY <1>0, <1>4, ConsistentLists DEF rt_timer_stop
<1>6. /\ \A u \in Thread : c.stat[u] = IF u = t THEN "SUSPEND" ELSE r.stat[u]
      /\ \A u \in Thread : r.prio[u] \in Priority /\ r.mask[u] = {r.prio[u]}
  <2>1. r.stat \in [Thread -> Stat] /\ r.prio \in [Thread -> Priority]
    BY <1>0, Fields
  <2>2. QED BY <1>0, <1>1, <1>4, <2>1 DEF Consistent, GroupMatchesTable
<1>7. ReadyListsMatchStat(c)
  <2>1. SUFFICES ASSUME NEW p \in Priority
                 PROVE  ToSet(c.table[p]) =
                          {u \in Thread : c.stat[u] = "READY" /\ c.prio[u] = p}
    BY <1>3, <1>4 DEF ReadyListsMatchStat
  <2>2. ToSet(r.table[p]) = {u \in Thread : r.stat[u] = "READY" /\ r.prio[u] = p}
    BY <1>0 DEF Consistent, ReadyListsMatchStat
  <2>3. QED BY <1>3, <1>4, <1>6, <2>2
<1>8. GroupMatchesTable(c)
  <2>1. r.group = {p \in Priority : r.table[p] # << >>}
    BY <1>0 DEF Consistent, GroupMatchesTable
  <2>2. \A p \in Priority : /\ r.table[p] = << >> <=> ToSet(r.table[p]) = {}
                            /\ c.table[p] = << >> <=> ToSet(c.table[p]) = {}
    <3>1. \A p \in Priority : r.table[p] \in Seq(Thread) /\ c.table[p] \in Seq(Thread)
      BY <1>0, <1>4, Fields
    <3>2. QED BY <3>1, EmptyThreadList
  <2>3. \A p \in Priority : p # r.prio[t] => ToSet(c.table[p]) = ToSet(r.table[p])
    <3>1. \A p \in Priority : t \in ToSet(r.table[p]) => r.prio[t] = p
      BY <1>0, ConsistentLists
    <3>2. SUFFICES ASSUME NEW p \in Priority, p # r.prio[t]
                   PROVE  ToSet(r.table[p]) \ {t} = ToSet(r.table[p])
      BY <1>3, <1>4
    <3>3. t \notin ToSet(r.table[p])
      BY <3>1, <3>2
    <3>4. QED BY <3>3
  <2>4. t \in ToSet(r.table[r.prio[t]])
    BY <1>0, <1>6, ConsistentLists
  <2>5. r.table[r.prio[t]] # << >>
    BY <1>6, <2>2, <2>4
  <2>6. c.group = {p \in Priority : c.table[p] # << >>}
    <3>1. CASE c.table[r.prio[t]] = << >>
      <4>1. c.group = r.group \ {r.prio[t]}
        BY <1>4, <1>6, <3>1
      <4>2. \A p \in Priority :
              c.table[p] # << >> <=> r.table[p] # << >> /\ p # r.prio[t]
        BY <2>2, <2>3, <3>1
      <4>3. QED BY <2>1, <4>1, <4>2
    <3>2. CASE c.table[r.prio[t]] # << >>
      <4>1. \A p \in Priority : r.table[p] # << >> <=> c.table[p] # << >>
        BY <2>2, <2>3, <2>5, <3>2
      <4>2. QED BY <1>4, <2>1, <3>2, <4>1
    <3>3. QED BY <3>1, <3>2
  <2>7. QED BY <1>4, <1>6, <2>6 DEF GroupMatchesTable
<1>9. \A o \in Object : t \notin ToSet(r.waitq[o])
  BY <1>0, ConsistentLists
<1>9a. \A o \in Object : ToSet(r.waitq[o]) \ {t} = ToSet(r.waitq[o])
  <2> TAKE o \in Object
  <2>1. t \notin ToSet(r.waitq[o])
    BY <1>9
  <2>2. QED BY <2>1
<1>10. WaitListsHoldSuspended(c)
  <2>1. \A o \in Object : ToSet(r.waitq[o]) \subseteq Thread
    <3>1. \A o \in Object : r.waitq[o] \in Seq(Thread)
      BY <1>0, Fields
    <3>2. QED BY <3>1, MembersOf
  <2>2. \A o \in Object : /\ IsInjective(c.waitq[o])
                          /\ ToSet(c.waitq[o]) = ToSet(r.waitq[o])
    BY <1>3, <1>4, <1>9a
  <2>3. \A o \in Object, u \in Thread : u \in ToSet(c.waitq[o]) => c.stat[u] = "SUSPEND"
    BY <1>0, <1>6, <2>2, ConsistentLists
  <2>4. \A o1, o2 \in Object :
          o1 # o2 => ToSet(r.waitq[o1]) \cap ToSet(r.waitq[o2]) = {}
    BY <1>0 DEF Consistent, WaitListsHoldSuspended
  <2>5. QED BY <2>1, <2>2, <2>3, <2>4 DEF WaitListsHoldSuspended
<1>11. TimersBelongToSuspended(c)
  BY <1>0, <1>4, <1>6, Fields DEF Consistent, TimersBelongToSuspended
<1>12. DefunctIsClosed(c)
  <2>1. ToSet(r.defunct) \subseteq Thread
    BY <1>0, Fields, MembersOf
  <2>2. QED BY <1>0, <1>3, <1>4, <1>6, <2>1 DEF Consistent, DefunctIsClosed
<1>13. IdleIsReady(c)
  BY <1>0, <1>6, KernelAssumption DEF Consistent, IdleIsReady
<1>14. Consistent(c)
  BY <1>7, <1>8, <1>10, <1>11, <1>12, <1>13 DEF Consistent
<1>15. \A o \in Object : /\ ToSet(c.waitq[o]) = ToSet(r.waitq[o])
                         /\ t \notin ToSet(c.waitq[o])
  BY <1>3, <1>4, <1>9, <1>9a
<1>17. QED BY <1>1, <1>2, <1>4, <1>5, <1>14, <1>15 DEF KernelOK

\* v is r with t suspended and queued on o.
QueuedOn(r, o, t, v) ==
  /\ KernelOK(v)
  /\ v.stat = [r.stat EXCEPT ![t] = "SUSPEND"]
  /\ \A x \in Object : x # o /\ r.waitq[x] = << >> => v.waitq[x] = << >>
  /\ \A x \in Object : ToSet(v.waitq[x]) =
       IF x = o THEN ToSet(r.waitq[x]) \cup {t} ELSE ToSet(r.waitq[x])
  /\ v.prio = r.prio
  /\ v.current = r.current /\ v.lock = r.lock /\ v.error = r.error

\* rt_ipc_list_suspend on a ready thread.
LEMMA IpcSuspendPreserves ==
  ASSUME NEW r, KernelOK(r), NEW t \in Thread, r.stat[t] = "READY", t # Idle,
         NEW o \in Object, NEW f
  PROVE  QueuedOn(r, o, t, rt_ipc_list_suspend(r, o, t, f))
<1> DEFINE u == rt_thread_suspend(r, t)
           i == FirstIndex(u.waitq[o], LAMBDA w : r.prio[t] < r.prio[w])
           q == IF f = "PRIO" THEN InsertAt(u.waitq[o], i, t) ELSE Append(u.waitq[o], t)
           v == [u EXCEPT !.waitq[o] = q]
<1>1. rt_ipc_list_suspend(r, o, t, f) = v
  BY DEF rt_ipc_list_suspend
<1>2. /\ u \in KernelState /\ Consistent(u)
      /\ u.stat = [r.stat EXCEPT ![t] = "SUSPEND"]
      /\ \A x \in Object : ToSet(u.waitq[x]) = ToSet(r.waitq[x])
      /\ t \notin ToSet(u.waitq[o]) /\ u.prio = r.prio
      /\ u.current = r.current /\ u.lock = r.lock /\ u.error = r.error
  BY SuspendPreserves DEF KernelOK
<1> HIDE DEF u
<1>3. u.waitq[o] \in Seq(Thread) /\ IsInjective(u.waitq[o])
  BY <1>2, Fields, ConsistentLists DEF ListsInjective
<1>4. i \in 1 .. Len(u.waitq[o]) + 1
  <2>1. Len(u.waitq[o]) \in Nat
    BY <1>3
  <2>2. QED BY <2>1, FirstIndexProperties
<1> HIDE DEF i
<1>5. /\ q \in Seq(Thread) /\ IsInjective(q)
      /\ ToSet(q) = ToSet(u.waitq[o]) \cup {t}
  <2>1. CASE f = "PRIO"
    BY <1>2, <1>3, <1>4, <2>1, InsertNew
  <2>2. CASE f # "PRIO"
    BY <1>2, <1>3, <2>2, AppendNew
  <2>3. QED BY <2>1, <2>2
<1> HIDE DEF q
<1>6. /\ v \in KernelState /\ v.waitq = [u.waitq EXCEPT ![o] = q]
      /\ v.table = u.table /\ v.group = u.group /\ v.defunct = u.defunct
      /\ v.stat = u.stat /\ v.prio = u.prio /\ v.mask = u.mask
      /\ v.timers = u.timers /\ v.active = u.active
      /\ v.current = u.current /\ v.lock = u.lock /\ v.error = u.error
  BY <1>2, <1>5 DEF KernelState
<1> HIDE DEF v
<1>7. \A x \in Object : v.waitq[x] = IF x = o THEN q ELSE u.waitq[x]
  BY <1>2, <1>6, Fields
<1>8. ReadyListsMatchStat(v)
  BY <1>2, <1>6 DEF Consistent, ReadyListsMatchStat
<1>9. GroupMatchesTable(v)
  BY <1>2, <1>6 DEF Consistent, GroupMatchesTable
<1>10. WaitListsHoldSuspended(v)
  <2>1. \A x \in Object : IsInjective(v.waitq[x])
    BY <1>2, <1>5, <1>7, ConsistentLists DEF ListsInjective
  <2>2. v.stat[t] = "SUSPEND"
    BY <1>2, <1>6, Fields DEF KernelOK
  <2>3. \A x \in Object : \A w \in ToSet(v.waitq[x]) : v.stat[w] = "SUSPEND"
    BY <1>2, <1>5, <1>6, <1>7, <2>2 DEF Consistent, WaitListsHoldSuspended
  <2>4. \A x \in Object : t \notin ToSet(u.waitq[x])
    BY SuspendPreserves DEF u
  <2>5. \A x, y \in Object : x # y => ToSet(u.waitq[x]) \cap ToSet(u.waitq[y]) = {}
    BY <1>2 DEF Consistent, WaitListsHoldSuspended
  <2>6. \A x, y \in Object : x # y => ToSet(v.waitq[x]) \cap ToSet(v.waitq[y]) = {}
    <3> SUFFICES ASSUME NEW x \in Object, NEW y \in Object, x # y,
                        NEW w, w \in ToSet(v.waitq[x]), w \in ToSet(v.waitq[y])
                 PROVE  FALSE
      OBVIOUS
    <3>1. CASE x # o /\ y # o
      BY <1>7, <2>5, <3>1
    <3>2. CASE x = o
      <4>1. w = t \/ w \in ToSet(u.waitq[o])
        BY <1>5, <1>7, <3>2
      <4>2. w \in ToSet(u.waitq[y])
        BY <1>7, <3>2
      <4>3. QED BY <2>4, <2>5, <3>2, <4>1, <4>2
    <3>3. CASE y = o
      <4>1. w = t \/ w \in ToSet(u.waitq[o])
        BY <1>5, <1>7, <3>3
      <4>2. w \in ToSet(u.waitq[x])
        BY <1>7, <3>3
      <4>3. QED BY <2>4, <2>5, <3>3, <4>1, <4>2
    <3>4. QED BY <3>1, <3>2, <3>3
  <2>7. QED BY <2>1, <2>3, <2>6 DEF WaitListsHoldSuspended
<1>11. TimersBelongToSuspended(v)
  BY <1>2, <1>6 DEF Consistent, TimersBelongToSuspended
<1>12. DefunctIsClosed(v) /\ IdleIsReady(v)
  BY <1>2, <1>6 DEF Consistent, DefunctIsClosed, IdleIsReady
<1>13. Consistent(v)
  BY <1>8, <1>9, <1>10, <1>11, <1>12 DEF Consistent
<1>14. \A x \in Object : x # o /\ r.waitq[x] = << >> => v.waitq[x] = << >>
  <2>1. \A x \in Object : r.waitq[x] \in Seq(Thread) /\ u.waitq[x] \in Seq(Thread)
    BY <1>2, Fields DEF KernelOK
  <2>2. \A x \in Object : /\ r.waitq[x] = << >> <=> ToSet(r.waitq[x]) = {}
                          /\ u.waitq[x] = << >> <=> ToSet(u.waitq[x]) = {}
    BY <2>1, EmptyThreadList
  <2>3. QED BY <1>2, <1>7, <2>2
<1>15. \A x \in Object : ToSet(v.waitq[x]) =
         IF x = o THEN ToSet(r.waitq[x]) \cup {t} ELSE ToSet(r.waitq[x])
  BY <1>2, <1>5, <1>7
<1>16. QED BY <1>1, <1>2, <1>6, <1>13, <1>14, <1>15 DEF KernelOK, QueuedOn

\* rt_timer_start on the timer of a suspended thread.
LEMMA TimerStartPreserves ==
  ASSUME NEW r, KernelOK(r), NEW t \in Thread, r.stat[t] = "SUSPEND", NEW time \in Nat
  PROVE  LET v == rt_timer_start(r, t, time)
         IN  /\ KernelOK(v) /\ v.stat = r.stat /\ v.waitq = r.waitq
             /\ v.prio = r.prio
             /\ v.current = r.current /\ v.lock = r.lock /\ v.error = r.error
<1> DEFINE u == _rt_timer_remove(r, t)
           w == (r.tick + time) % TickMod
           i == FirstIndex(u.timers, LAMBDA x : Later(r, x, w))
           q == InsertAt(u.timers, i, t)
           v == [u EXCEPT !.timeout[t] = w, !.timers = q, !.active = @ \cup {t}]
<1>0. r \in KernelState /\ Consistent(r)
  BY DEF KernelOK
<1>1. rt_timer_start(r, t, time) = v
  BY DEF rt_timer_start
<1>2. /\ u \in KernelState
      /\ IsInjective(u.timers) /\ ToSet(u.timers) = r.active \ {t}
      /\ u.table = r.table /\ u.group = r.group /\ u.waitq = r.waitq
      /\ u.defunct = r.defunct /\ u.stat = r.stat /\ u.prio = r.prio
      /\ u.mask = r.mask /\ u.active = r.active
      /\ u.current = r.current /\ u.lock = r.lock /\ u.error = r.error
  BY <1>0, ConsistentLists, TimerRemove
<1> HIDE DEF u
<1>3. w \in Tick
  BY <1>0, Fields, KernelAssumption DEF Tick
<1> HIDE DEF w
<1>4. u.timers \in Seq(Thread) /\ i \in 1 .. Len(u.timers) + 1
  <2>1. u.timers \in Seq(Thread) /\ Len(u.timers) \in Nat
    BY <1>2, Fields
  <2>2. QED BY <2>1, FirstIndexProperties
<1> HIDE DEF i
<1>5. q \in Seq(Thread) /\ IsInjective(q) /\ ToSet(q) = r.active \cup {t}
  BY <1>2, <1>4, InsertNew
<1> HIDE DEF q
<1>6. /\ v \in KernelState /\ v.timers = q /\ v.active = r.active \cup {t}
      /\ v.table = r.table /\ v.group = r.group /\ v.waitq = r.waitq
      /\ v.defunct = r.defunct /\ v.stat = r.stat /\ v.prio = r.prio
      /\ v.mask = r.mask /\ v.current = r.current /\ v.lock = r.lock /\ v.error = r.error
  BY <1>2, <1>3, <1>5 DEF KernelState
<1> HIDE DEF v
<1>7. ReadyListsMatchStat(v)
  BY <1>0, <1>6 DEF Consistent, ReadyListsMatchStat
<1>8. GroupMatchesTable(v)
  BY <1>0, <1>6 DEF Consistent, GroupMatchesTable
<1>9. WaitListsHoldSuspended(v)
  BY <1>0, <1>6 DEF Consistent, WaitListsHoldSuspended
<1>10. TimersBelongToSuspended(v)
  BY <1>0, <1>5, <1>6 DEF Consistent, TimersBelongToSuspended
<1>11. DefunctIsClosed(v) /\ IdleIsReady(v)
  BY <1>0, <1>6 DEF Consistent, DefunctIsClosed, IdleIsReady
<1>12. QED BY <1>1, <1>6, <1>7, <1>8, <1>9, <1>10, <1>11 DEF Consistent, KernelOK

-----------------------------------------------------------------------------
\* rt_thread_yield and the end of a time slice.
LEMMA YieldPreserves ==
  ASSUME NEW r, KernelOK(r), may_yield(r)
  PROVE  LET v == yield_rotate(r)
         IN  /\ KernelOK(v) /\ v.stat = r.stat
             /\ \A o \in Object : v.waitq[o] = << >> <=> r.waitq[o] = << >>
             /\ \A o \in Object : ToSet(v.waitq[o]) = ToSet(r.waitq[o])
             /\ v.prio = r.prio
             /\ v.current = r.current /\ v.lock = r.lock /\ v.error = r.error
<1> DEFINE t == r.current
           u == rt_list_remove(r, t)
           p == r.prio[t]
           q == Append(u.table[p], t)
           v == [u EXCEPT !.table[p] = q]
<1>0. /\ r \in KernelState /\ Consistent(r)
      /\ t \in Thread /\ r.stat[t] = "READY" /\ p \in Priority
  BY Fields DEF KernelOK, may_yield
<1>1. yield_rotate(r) = v
  BY DEF yield_rotate
<1> HIDE DEF t, p
<1>2. /\ u \in KernelState
      /\ \A x \in Priority : /\ IsInjective(u.table[x])
                             /\ ToSet(u.table[x]) = ToSet(r.table[x]) \ {t}
      /\ \A o \in Object : /\ IsInjective(u.waitq[o])
                           /\ ToSet(u.waitq[o]) = ToSet(r.waitq[o]) \ {t}
      /\ IsInjective(u.defunct) /\ ToSet(u.defunct) = ToSet(r.defunct) \ {t}
      /\ u.group = r.group /\ u.stat = r.stat /\ u.prio = r.prio
      /\ u.mask = r.mask /\ u.timers = r.timers /\ u.active = r.active
      /\ u.current = r.current /\ u.lock = r.lock /\ u.error = r.error
  <2>1. ListsInjective(r)
    BY <1>0, ConsistentLists
  <2>2. QED BY <1>0, <2>1, ListRemove
<1> HIDE DEF u
<1>3. q \in Seq(Thread) /\ IsInjective(q) /\ ToSet(q) = (ToSet(r.table[p]) \ {t}) \cup {t}
  <2>1. u.table[p] \in Seq(Thread)
    BY <1>0, <1>2, Fields
  <2>2. t \notin ToSet(u.table[p])
    BY <1>0, <1>2
  <2>3. QED BY <1>0, <1>2, <2>1, <2>2, AppendNew
<1> HIDE DEF q
<1>4. /\ v \in KernelState /\ v.table = [u.table EXCEPT ![p] = q]
      /\ v.group = r.group /\ v.waitq = u.waitq /\ v.defunct = u.defunct
      /\ v.stat = r.stat /\ v.prio = r.prio /\ v.mask = r.mask
      /\ v.timers = r.timers /\ v.active = r.active
      /\ v.current = r.current /\ v.lock = r.lock /\ v.error = r.error
  BY <1>0, <1>2, <1>3 DEF KernelState
<1> HIDE DEF v
<1>5. \A x \in Priority : /\ IsInjective(v.table[x])
                          /\ ToSet(v.table[x]) = ToSet(r.table[x])
  <2> TAKE x \in Priority
  <2>1. v.table[x] = IF x = p THEN q ELSE u.table[x]
    BY <1>0, <1>2, <1>4, Fields
  <2>2. CASE x = p
    <3>1. t \in ToSet(r.table[p])
      <4>1. r.prio[t] = p
        BY DEF p, t
      <4>2. QED BY <1>0, <4>1, ConsistentLists
    <3>2. QED BY <1>3, <2>1, <2>2, <3>1
  <2>3. CASE x # p
    <3>1. t \notin ToSet(r.table[x])
      <4>1. r.prio[t] = p
        BY DEF p, t
      <4>2. QED BY <1>0, <2>3, <4>1, ConsistentLists
    <3>2. ToSet(r.table[x]) \ {t} = ToSet(r.table[x])
      BY <3>1
    <3>3. QED BY <1>2, <2>1, <2>3, <3>2
  <2>4. QED BY <2>2, <2>3
<1>6. \A o \in Object : /\ IsInjective(v.waitq[o])
                        /\ ToSet(v.waitq[o]) = ToSet(r.waitq[o])
  <2> TAKE o \in Object
  <2>1. t \notin ToSet(r.waitq[o])
    BY <1>0, ConsistentLists
  <2>2. ToSet(r.waitq[o]) \ {t} = ToSet(r.waitq[o])
    BY <2>1
  <2>3. QED BY <1>2, <1>4, <2>2
<1>7. ReadyListsMatchStat(v)
  BY <1>0, <1>4, <1>5 DEF Consistent, ReadyListsMatchStat
<1>8. GroupMatchesTable(v)
  <2>1. \A x \in Priority : r.table[x] \in Seq(Thread) /\ v.table[x] \in Seq(Thread)
    BY <1>0, <1>4, Fields
  <2>2. \A x \in Priority : v.table[x] = << >> <=> r.table[x] = << >>
    BY <1>5, <2>1, EmptyThreadList
  <2>3. QED BY <1>0, <1>4, <2>2 DEF Consistent, GroupMatchesTable
<1>9. WaitListsHoldSuspended(v)
  BY <1>0, <1>4, <1>6 DEF Consistent, WaitListsHoldSuspended
<1>10. TimersBelongToSuspended(v) /\ IdleIsReady(v)
  BY <1>0, <1>4 DEF Consistent, TimersBelongToSuspended, IdleIsReady
<1>11. DefunctIsClosed(v)
  BY <1>0, <1>2, <1>4 DEF Consistent, DefunctIsClosed
<1>12. \A o \in Object : v.waitq[o] = << >> <=> r.waitq[o] = << >>
  <2>1. \A o \in Object : r.waitq[o] \in Seq(Thread) /\ v.waitq[o] \in Seq(Thread)
    BY <1>0, <1>4, Fields
  <2>2. QED BY <1>6, <2>1, EmptyThreadList
<1>13. QED BY <1>1, <1>4, <1>6, <1>7, <1>8, <1>9, <1>10, <1>11, <1>12 DEF Consistent, KernelOK

\* rt_tick_increase
LEMMA TickPreserves ==
  ASSUME NEW r, KernelOK(r)
  PROVE  LET v == tick_increase(r)
         IN  /\ KernelOK(v) /\ v.stat = r.stat
             /\ \A o \in Object : v.waitq[o] = << >> <=> r.waitq[o] = << >>
             /\ \A o \in Object : ToSet(v.waitq[o]) = ToSet(r.waitq[o])
             /\ v.prio = r.prio /\ v.lock = r.lock /\ v.error = r.error
             /\ r.lock # 0 => v.current = r.current
             /\ v.current # r.current => v.stat[v.current] = "READY"
             /\ r.lock = 0 /\ v.current # r.current => AtHead(v)
             /\ r.lock = 0 /\ AtHead(r) => AtHead(v)
<1> DEFINE t == r.current
           u == [r EXCEPT !.tick = (@ + 1) % TickMod,
                          !.remaining[t] = IF @ = 1 THEN init_tick[t] ELSE @ - 1]
           y == yield_rotate(u)
<1>0. r \in KernelState /\ Consistent(r)
  BY DEF KernelOK
<1>1. (r.tick + 1) % TickMod \in Tick
  BY <1>0, Fields, KernelAssumption DEF Tick
<1>2. (IF r.remaining[t] = 1 THEN init_tick[t] ELSE r.remaining[t] - 1) \in Nat \ {0}
  BY <1>0, Fields, KernelAssumption
<1>3. /\ u \in KernelState
      /\ u.table = r.table /\ u.group = r.group /\ u.waitq = r.waitq
      /\ u.defunct = r.defunct /\ u.stat = r.stat /\ u.prio = r.prio
      /\ u.mask = r.mask /\ u.timers = r.timers /\ u.active = r.active
      /\ u.current = r.current /\ u.lock = r.lock /\ u.error = r.error
  BY <1>0, <1>1, <1>2 DEF KernelState
<1>4. tick_increase(r) = IF r.remaining[t] = 1 /\ may_yield(r) THEN rt_schedule(y) ELSE u
  BY DEF tick_increase
<1> HIDE DEF u
<1>5. KernelOK(u)
  BY <1>0, <1>3, ConsistentReads DEF KernelOK
<1>6. AtHead(r) => AtHead(u)
  BY <1>3 DEF AtHead, highest_ready_priority
<1>7. CASE may_yield(r)
  <2>1. may_yield(u)
    BY <1>3, <1>7 DEF may_yield
  <2>2. /\ KernelOK(y) /\ y.stat = r.stat
        /\ \A o \in Object : y.waitq[o] = << >> <=> r.waitq[o] = << >>
        /\ \A o \in Object : ToSet(y.waitq[o]) = ToSet(r.waitq[o])
        /\ y.prio = r.prio
        /\ y.current = r.current /\ y.lock = r.lock /\ y.error = r.error
    BY <1>3, <1>5, <2>1, YieldPreserves
  <2> HIDE DEF y
  <2>3. LET v == rt_schedule(y)
        IN  /\ KernelOK(v) /\ v.stat = r.stat /\ v.waitq = y.waitq /\ v.lock = r.lock
            /\ v.prio = r.prio /\ v.error = r.error
            /\ r.lock = 0 => v.stat[v.current] = "READY"
            /\ r.lock = 0 => AtHead(v)
            /\ r.lock # 0 => v.current = r.current
    BY <2>2, SchedulePreserves
  <2>4. QED BY <1>3, <1>4, <1>5, <1>6, <2>2, <2>3
<1>8. CASE ~ may_yield(r)
  BY <1>3, <1>4, <1>5, <1>6, <1>8
<1>9. QED BY <1>7, <1>8

\* error is read by no part of Consistent.
LEMMA SetError ==
  ASSUME NEW r, KernelOK(r), NEW t \in Thread, NEW e \in Error
  PROVE  LET v == [r EXCEPT !.error[t] = e]
         IN  /\ KernelOK(v) /\ v.stat = r.stat /\ v.waitq = r.waitq
             /\ v.prio = r.prio /\ v.current = r.current /\ v.lock = r.lock
             /\ v.error = [r.error EXCEPT ![t] = e]
<1> DEFINE v == [r EXCEPT !.error[t] = e]
<1>1. r \in KernelState /\ Consistent(r)
  BY DEF KernelOK
<1>2. /\ v \in KernelState
      /\ v.table = r.table /\ v.group = r.group /\ v.waitq = r.waitq
      /\ v.defunct = r.defunct /\ v.stat = r.stat /\ v.prio = r.prio
      /\ v.mask = r.mask /\ v.timers = r.timers /\ v.active = r.active
      /\ v.current = r.current /\ v.lock = r.lock
      /\ v.error = [r.error EXCEPT ![t] = e]
  BY <1>1 DEF KernelState
<1> HIDE DEF v
<1>3. Consistent(v)
  BY <1>1, <1>2, ConsistentReads
<1>4. QED BY <1>2, <1>3 DEF KernelOK, v

\* The same of rt_scheduler_lock_nest.
LEMMA SetLock ==
  ASSUME NEW r, KernelOK(r), NEW n \in Nat
  PROVE  LET v == [r EXCEPT !.lock = n]
         IN  /\ KernelOK(v) /\ v.stat = r.stat /\ v.waitq = r.waitq
             /\ v.prio = r.prio /\ v.error = r.error
             /\ v.current = r.current /\ v.lock = n
<1> DEFINE v == [r EXCEPT !.lock = n]
<1>1. r \in KernelState /\ Consistent(r)
  BY DEF KernelOK
<1>2. /\ v \in KernelState
      /\ v.table = r.table /\ v.group = r.group /\ v.waitq = r.waitq
      /\ v.defunct = r.defunct /\ v.stat = r.stat /\ v.prio = r.prio
      /\ v.mask = r.mask /\ v.timers = r.timers /\ v.active = r.active
      /\ v.current = r.current /\ v.lock = n /\ v.error = r.error
  BY <1>1 DEF KernelState
<1> HIDE DEF v
<1>3. Consistent(v)
  BY <1>1, <1>2, ConsistentReads
<1>4. QED BY <1>2, <1>3 DEF KernelOK, v

-----------------------------------------------------------------------------
\* The kernel calls a thread may be suspended in.
InCall(t) ==
  \/ pc[t] \in {"take", "slept"}
  \/ pc[t] = "sched" /\ cont[t] \in {"take", "slept"}

SuspendedInCall ==
  \A t \in Thread :
    /\ k.stat[t] \in {"READY", "SUSPEND"}
    /\ k.stat[t] = "SUSPEND" => InCall(t)

\* The current thread is ready, except on its way to the rt_schedule that
\* will switch away from it.
RunningIsReady ==
  k.stat[k.current] = "SUSPEND" => pc[k.current] = "sched" /\ k.lock = 0

CpuInv ==
  /\ k \in KernelState
  /\ KernelConsistent
  /\ SuspendedInCall
  /\ RunningIsReady

\* The record before the first choice of rt_schedule is consistent.
LEMMA InitKernel == KernelOK(StartedKernel) /\ AtHead(StartedKernel)
<1> DEFINE g == [table |-> start_order, group |-> {init_prio[t] : t \in Thread},
         waitq |-> [o \in Object |-> << >>], defunct |-> << >>,
         stat |-> [t \in Thread |-> "READY"], prio |-> init_prio,
         mask |-> [t \in Thread |-> {init_prio[t]}],
         error |-> [t \in Thread |-> "EOK"], remaining |-> init_tick,
         current |-> Idle, lock |-> 0, tick |-> 0, timers |-> << >>,
         timeout |-> [t \in Thread |-> 0], active |-> {}]
<1>1. 0 \in Tick
  BY KernelAssumption DEF Tick
<1>2. g \in KernelState
  BY <1>1, KernelAssumption, CpuAssumption DEF KernelState, Stat, Error
<1>3. /\ g.table = start_order /\ g.group = {init_prio[t] : t \in Thread}
      /\ g.waitq = [o \in Object |-> << >>] /\ g.defunct = << >>
      /\ g.stat = [t \in Thread |-> "READY"] /\ g.prio = init_prio
      /\ g.mask = [t \in Thread |-> {init_prio[t]}]
      /\ g.timers = << >> /\ g.active = {} /\ g.lock = 0
  OBVIOUS
<1>4. StartedKernel = rt_schedule(g)
  BY DEF StartedKernel
<1> HIDE DEF g
<1>5. IsInjective(<< >>) /\ ToSet(<< >>) = {}
  BY DEF IsInjective, ToSet
<1>6. ReadyListsMatchStat(g)
  BY <1>3, CpuAssumption DEF ReadyListsMatchStat
<1>7. GroupMatchesTable(g)
  <2>1. \A p \in Priority : start_order[p] = << >> <=> ToSet(start_order[p]) = {}
    <3>1. \A p \in Priority : start_order[p] \in Seq(Thread)
      BY CpuAssumption
    <3>2. QED BY <3>1, EmptyThreadList
  <2>2. \A p \in Priority : start_order[p] # << >> <=> \E t \in Thread : init_prio[t] = p
    BY <2>1, CpuAssumption
  <2>3. g.group = {p \in Priority : g.table[p] # << >>}
    BY <1>3, <2>2, CpuAssumption
  <2>4. QED BY <1>3, <2>3 DEF GroupMatchesTable
<1>8. WaitListsHoldSuspended(g)
  BY <1>3, <1>5 DEF WaitListsHoldSuspended
<1>9. TimersBelongToSuspended(g)
  BY <1>3, <1>5 DEF TimersBelongToSuspended
<1>10. DefunctIsClosed(g) /\ IdleIsReady(g)
  BY <1>3, <1>5, KernelAssumption DEF DefunctIsClosed, IdleIsReady
<1>11. KernelOK(g)
  BY <1>2, <1>6, <1>7, <1>8, <1>9, <1>10 DEF KernelOK, Consistent
<1>12. QED BY <1>3, <1>4, <1>11, SchedulePreserves

LEMMA StartedFields ==
  /\ StartedKernel.stat = [t \in Thread |-> "READY"]
  /\ StartedKernel.waitq = [o \in Object |-> << >>]
  /\ StartedKernel.lock = 0
  /\ StartedKernel.prio = init_prio
BY DEF StartedKernel, rt_schedule

\* What the invariant says of the running thread.
LEMMA RunningThread ==
  ASSUME CpuInv, NEW t \in Thread, Running(t), pc[t] # "sched"
  PROVE  KernelOK(k) /\ k.current = t /\ k.stat[t] = "READY"
BY DEF CpuInv, KernelConsistent, KernelOK, Running, SuspendedInCall, RunningIsReady

\* A step of the running thread after which it is still ready.
LEMMA ThreadMoves ==
  ASSUME CpuInv, NEW t \in Thread, k.current = t, k.stat[t] = "READY",
         \A u \in Thread \ {t} : pc'[u] = pc[u] /\ cont'[u] = cont[u],
         KernelOK(k'), k'.current = t,
         \A u \in Thread : k'.stat[u] = k.stat[u] \/ k'.stat[u] = "READY"
  PROVE  KernelConsistent' /\ SuspendedInCall' /\ RunningIsReady'
<1>1. k'.stat[t] = "READY"
  OBVIOUS
<1>2. KernelConsistent'
  BY DEF KernelConsistent, KernelOK
<1>3. SuspendedInCall'
  BY <1>1 DEF CpuInv, SuspendedInCall, InCall
<1>4. RunningIsReady'
  BY <1>1 DEF RunningIsReady
<1>5. QED BY <1>2, <1>3, <1>4

\* A step of a handler.
LEMMA HandlerMoves ==
  ASSUME CpuInv, pc' = pc, cont' = cont, KernelOK(k'), k'.lock = k.lock,
         k'.current = k.current \/ k'.stat[k'.current] = "READY",
         \A u \in Thread : k'.stat[u] = k.stat[u] \/ k'.stat[u] = "READY"
  PROVE  KernelConsistent' /\ SuspendedInCall' /\ RunningIsReady'
<1>1. k.current \in Thread
  BY Fields DEF CpuInv
<1>2. KernelConsistent'
  BY DEF KernelConsistent, KernelOK
<1>3. SuspendedInCall'
  BY DEF CpuInv, SuspendedInCall, InCall
<1>4. RunningIsReady'
  BY <1>1 DEF CpuInv, RunningIsReady
<1>5. QED BY <1>2, <1>3, <1>4

\* A step in which the running thread suspends itself.
LEMMA BlockMoves ==
  ASSUME CpuInv, pc = [u \in Thread |-> pc[u]], cont = [u \in Thread |-> cont[u]],
         NEW t \in Thread, k.current = t, k.lock = 0, NEW c \in {"take", "slept"}, ThenSchedule(t, c),
         KernelOK(k'), k'.current = t, k'.lock = 0,
         k'.stat = [k.stat EXCEPT ![t] = "SUSPEND"]
  PROVE  KernelConsistent' /\ SuspendedInCall' /\ RunningIsReady'
<1>1. k.stat \in [Thread -> Stat]
  BY Fields DEF CpuInv
<1>2. /\ pc'[t] = "sched" /\ cont'[t] = c /\ k'.stat[t] = "SUSPEND"
      /\ \A u \in Thread \ {t} : pc'[u] = pc[u] /\ cont'[u] = cont[u]
                                 /\ k'.stat[u] = k.stat[u]
  BY <1>1 DEF ThenSchedule
<1>3. KernelConsistent'
  BY DEF KernelConsistent, KernelOK
<1>4. SuspendedInCall'
  BY <1>2 DEF CpuInv, SuspendedInCall, InCall
<1>5. RunningIsReady'
  BY <1>2 DEF RunningIsReady
<1>6. QED BY <1>3, <1>4, <1>5
-----------------------------------------------------------------------------
(***************************************************************************)
(* What the functions do to the waiting lists and to the timers, exactly.  *)
(***************************************************************************)

\* Behind the members of q whose priority is as urgent as that of t or more.
PlaceByPriority(prio, q, t) == FirstOf(q, Above(q, prio, prio[t]))

\* The waiting list q when t is queued on it, its order given by flag f.
QueueWith(prio, q, f, t) ==
  IF f = "PRIO" THEN InsertAt(q, PlaceByPriority(prio, q, t), t) ELSE Append(q, t)

\* Behind the timers on q that go off at tick w or before.
PlaceByTime(r, q, w) == FirstOf(q, {i \in 1 .. Len(q) : Later(r, q[i], w)})

\* Neither the list of the timers, their times nor the tick change.
SameTimers(r, v) ==
  v.tick = r.tick /\ v.timers = r.timers /\ v.active = r.active /\ v.timeout = r.timeout

\* The timer of t is off the list; the others run on.
TimerStopped(r, t, v) ==
  /\ v.tick = r.tick /\ v.timers = RemoveFirst(r.timers, t)
  /\ v.active = r.active \ {t}
  /\ \A u \in Thread \ {t} : v.timeout[u] = r.timeout[u]

\* Thread t is off every waiting list.
Unlinked(r, t, v) == v.waitq = [o \in Object |-> RemoveFirst(r.waitq[o], t)]

LEMMA AbsentFromLists ==
  ASSUME NEW r, KernelOK(r), NEW t \in Thread, r.stat[t] # "SUSPEND"
  PROVE  /\ [o \in Object |-> RemoveFirst(r.waitq[o], t)] = r.waitq
         /\ RemoveFirst(r.timers, t) = r.timers /\ t \notin r.active
<1>1. r \in KernelState /\ Consistent(r)
  BY DEF KernelOK
<1>2. /\ \A o \in Object : t \notin ToSet(r.waitq[o]) /\ r.waitq[o] \in Seq(Thread)
      /\ r.waitq \in [Object -> Seq(Thread)] /\ r.timers \in Seq(Thread)
      /\ t \notin ToSet(r.timers) /\ t \notin r.active
  BY <1>1, Fields, ConsistentLists
<1>3. \A o \in Object : RemoveFirst(r.waitq[o], t) = r.waitq[o]
  BY <1>2, RemoveAbsent
<1>4. RemoveFirst(r.timers, t) = r.timers
  BY <1>2, RemoveAbsent
<1>5. QED BY <1>2, <1>3, <1>4

LEMMA ScheduleFrame ==
  ASSUME NEW r \in KernelState
  PROVE  LET v == rt_schedule(r) IN v.waitq = r.waitq /\ SameTimers(r, v)
BY DEF rt_schedule, SameTimers, KernelState

\* rt_timer_stop
LEMMA StopFrame ==
  ASSUME NEW r \in KernelState, NEW t \in Thread, ToSet(r.timers) = r.active
  PROVE  LET v == rt_timer_stop(r, t) IN v.waitq = r.waitq /\ TimerStopped(r, t, v)
<1>1. CASE t \in r.active
  BY <1>1 DEF rt_timer_stop, _rt_timer_remove, TimerStopped, KernelState
<1>2. CASE t \notin r.active
  <2>1. r.timers \in Seq(Thread)
    BY Fields
  <2>2. RemoveFirst(r.timers, t) = r.timers
    BY <1>2, <2>1, RemoveAbsent
  <2>3. QED BY <1>2, <2>2 DEF rt_timer_stop, TimerStopped
<1>3. QED BY <1>1, <1>2

\* rt_thread_resume on a suspended thread.
LEMMA ResumeFrame ==
  ASSUME NEW r, KernelOK(r), NEW t \in Thread, r.stat[t] = "SUSPEND"
  PROVE  LET v == rt_thread_resume(r, t)
         IN  Unlinked(r, t, v) /\ TimerStopped(r, t, v)
<1> DEFINE u == rt_list_remove(r, t)
           w == rt_timer_stop(u, t)
           v == rt_schedule_insert_thread(w, t)
<1>0. r \in KernelState /\ Consistent(r)
  BY DEF KernelOK
<1>1. rt_thread_resume(r, t) = v
  BY DEF rt_thread_resume, resume_unlink
<1>2. u \in KernelState /\ SameTimers(r, u) /\ Unlinked(r, t, u)
  <2>1. u \in KernelState
    BY <1>0, ConsistentLists, ListRemove
  <2>2. QED BY <1>0, <2>1 DEF rt_list_remove, SameTimers, Unlinked, KernelState
<1>3. ToSet(u.timers) = u.active /\ IsInjective(u.timers)
  BY <1>0, <1>2, ConsistentLists DEF SameTimers
<1> HIDE DEF u
<1>4. w \in KernelState /\ w.waitq = u.waitq /\ TimerStopped(u, t, w)
  BY <1>2, <1>3, TimerStop, StopFrame
<1> HIDE DEF w
<1>5. v.waitq = w.waitq /\ SameTimers(w, v)
  BY <1>4 DEF rt_schedule_insert_thread, SameTimers, KernelState
<1> HIDE DEF v
<1>6. QED BY <1>1, <1>2, <1>4, <1>5 DEF SameTimers, TimerStopped, Unlinked

\* One round of rt_timer_check.
LEMMA ExpireFrame ==
  ASSUME NEW r, KernelOK(r), r.timers # << >>
  PROVE  LET v == timer_expire(r)
             t == Head(r.timers)
         IN  t \in Thread /\ t \in r.active /\ Unlinked(r, t, v) /\ TimerStopped(r, t, v)
<1> DEFINE t == Head(r.timers)
           a == _rt_timer_remove(r, t)
           b == [a EXCEPT !.error[t] = "ETIMEOUT"]
           d == rt_schedule_insert_thread(rt_list_remove(b, t), t)
           e == rt_schedule(d)
           v == [e EXCEPT !.active = @ \ {t}]
<1>0. r \in KernelState /\ Consistent(r)
  BY DEF KernelOK
<1>1. timer_expire(r) = v
  BY DEF timer_expire, rt_thread_timeout
<1>2. t \in Thread /\ t \in r.active
  <2>1. r.timers \in Seq(Thread) /\ IsInjective(r.timers) /\ ToSet(r.timers) = r.active
    BY <1>0, Fields, ConsistentLists
  <2>2. QED BY <2>1, HeadOfList
<1> HIDE DEF t
<1>3. /\ DOMAIN d = DOMAIN r /\ Unlinked(r, t, d)
      /\ d.tick = r.tick /\ d.timers = RemoveFirst(r.timers, t)
      /\ d.active = r.active /\ d.timeout = [r.timeout EXCEPT ![t] = 0]
  BY <1>0, <1>2 DEF _rt_timer_remove, rt_list_remove, rt_schedule_insert_thread,
                    Unlinked, KernelState
<1> HIDE DEF d
<1>4. DOMAIN e = DOMAIN r /\ e.waitq = d.waitq /\ SameTimers(d, e)
  BY <1>0, <1>3 DEF rt_schedule, SameTimers, KernelState
<1> HIDE DEF e
<1>5. v.waitq = e.waitq /\ v.tick = e.tick /\ v.timers = e.timers
      /\ v.active = e.active \ {t} /\ v.timeout = e.timeout
  BY <1>0, <1>4 DEF KernelState
<1> HIDE DEF v
<1>6. Unlinked(r, t, v)
  BY <1>3, <1>4, <1>5 DEF Unlinked
<1>7. r.timeout \in [Thread -> Tick]
  BY <1>0, Fields
<1>8. TimerStopped(r, t, v)
  BY <1>3, <1>4, <1>5, <1>7 DEF TimerStopped, SameTimers
<1>9. QED BY <1>1, <1>2, <1>6, <1>8 DEF t

\* rt_thread_suspend on a ready thread.
LEMMA SuspendFrame ==
  ASSUME NEW r, KernelOK(r), NEW t \in Thread, r.stat[t] = "READY"
  PROVE  LET v == rt_thread_suspend(r, t) IN v.waitq = r.waitq /\ SameTimers(r, v)
<1> DEFINE a == [r EXCEPT !.stat[t] = "SUSPEND"]
           c == rt_schedule_remove_thread(a, t)
<1>0. r \in KernelState /\ Consistent(r)
  BY DEF KernelOK
<1>1. /\ [o \in Object |-> RemoveFirst(r.waitq[o], t)] = r.waitq
      /\ t \notin r.active
  BY AbsentFromLists
<1>2. rt_thread_suspend(r, t) = rt_timer_stop(c, t)
  BY DEF rt_thread_suspend
<1>3. Unlinked(r, t, c) /\ SameTimers(r, c)
  BY <1>0 DEF rt_schedule_remove_thread, rt_list_remove, Unlinked, SameTimers, KernelState
<1> HIDE DEF c
<1>4. rt_timer_stop(c, t) = c
  BY <1>1, <1>3 DEF rt_timer_stop, SameTimers
<1>5. QED BY <1>1, <1>2, <1>3, <1>4 DEF Unlinked

\* rt_ipc_list_suspend on a ready thread.
LEMMA IpcSuspendFrame ==
  ASSUME NEW r, KernelOK(r), NEW t \in Thread, r.stat[t] = "READY", t # Idle,
         NEW o \in Object, NEW f
  PROVE  LET v == rt_ipc_list_suspend(r, o, t, f)
         IN  /\ v.waitq = [r.waitq EXCEPT ![o] = QueueWith(r.prio, r.waitq[o], f, t)]
             /\ SameTimers(r, v)
<1> DEFINE u == rt_thread_suspend(r, t)
           v == [u EXCEPT !.waitq[o] = QueueWith(r.prio, u.waitq[o], f, t)]
<1>1. rt_ipc_list_suspend(r, o, t, f) = v
  BY DEF rt_ipc_list_suspend, QueueWith, PlaceByPriority, Above, FirstOf, FirstIndex
<1>2. u.waitq = r.waitq /\ SameTimers(r, u) /\ u \in KernelState
  BY SuspendFrame, SuspendPreserves DEF KernelOK
<1> HIDE DEF u
<1>3. v.waitq = [u.waitq EXCEPT ![o] = QueueWith(r.prio, u.waitq[o], f, t)] /\ SameTimers(u, v)
  BY <1>2 DEF SameTimers, KernelState
<1> HIDE DEF v
<1>4. v.waitq = [r.waitq EXCEPT ![o] = QueueWith(r.prio, r.waitq[o], f, t)] /\ SameTimers(r, v)
  BY <1>2, <1>3 DEF SameTimers
<1>5. QED BY <1>1, <1>4

\* rt_timer_start on a timer that is not running.
LEMMA StartFrame ==
  ASSUME NEW r, KernelOK(r), NEW t \in Thread, t \notin r.active, NEW time \in Nat
  PROVE  LET v == rt_timer_start(r, t, time)
             w == (r.tick + time) % TickMod
         IN  /\ v.waitq = r.waitq /\ v.tick = r.tick /\ v.active = r.active \cup {t}
             /\ v.timers = InsertAt(r.timers, PlaceByTime(r, r.timers, w), t)
             /\ v.timeout = [r.timeout EXCEPT ![t] = w]
<1> DEFINE u == _rt_timer_remove(r, t)
           w == (r.tick + time) % TickMod
           q(l) == InsertAt(l, PlaceByTime(r, l, w), t)
           v == [u EXCEPT !.timeout[t] = w, !.timers = q(u.timers), !.active = @ \cup {t}]
<1>0. r \in KernelState /\ Consistent(r)
  BY DEF KernelOK
<1>1. rt_timer_start(r, t, time) = v
  BY DEF rt_timer_start, PlaceByTime, FirstOf, FirstIndex
<1>2. RemoveFirst(r.timers, t) = r.timers
  <2>1. r.timers \in Seq(Thread) /\ t \notin ToSet(r.timers)
    BY <1>0, Fields, ConsistentLists
  <2>2. QED BY <2>1, RemoveAbsent
<1>3. DOMAIN u = DOMAIN r /\ u.waitq = r.waitq /\ u.tick = r.tick
      /\ u.active = r.active /\ u.timers = r.timers
      /\ u.timeout = [r.timeout EXCEPT ![t] = 0]
  BY <1>0, <1>2 DEF _rt_timer_remove, KernelState
<1> HIDE DEF u, w, q
<1>4. v.waitq = u.waitq /\ v.tick = u.tick /\ v.active = u.active \cup {t}
      /\ v.timers = q(u.timers) /\ v.timeout = [u.timeout EXCEPT ![t] = w]
  BY <1>0, <1>3 DEF KernelState
<1> HIDE DEF v
<1>5. [u.timeout EXCEPT ![t] = w] = [r.timeout EXCEPT ![t] = w]
  BY <1>0, <1>3, Fields
<1>6. v.waitq = r.waitq /\ v.tick = r.tick /\ v.active = r.active \cup {t}
      /\ v.timers = q(r.timers) /\ v.timeout = [r.timeout EXCEPT ![t] = w]
  BY <1>3, <1>4, <1>5
<1>7. QED BY <1>1, <1>6 DEF q, w

\* rt_thread_yield
LEMMA YieldFrame ==
  ASSUME NEW r, KernelOK(r), may_yield(r)
  PROVE  LET v == yield_rotate(r) IN v.waitq = r.waitq /\ SameTimers(r, v)
<1>1. r \in KernelState /\ r.current \in Thread /\ r.stat[r.current] # "SUSPEND"
  BY Fields DEF KernelOK, may_yield
<1>2. [o \in Object |-> RemoveFirst(r.waitq[o], r.current)] = r.waitq
  BY <1>1, AbsentFromLists
<1>3. QED BY <1>1, <1>2 DEF yield_rotate, rt_list_remove, SameTimers, KernelState

\* rt_tick_increase
LEMMA TickFrame ==
  ASSUME NEW r, KernelOK(r)
  PROVE  LET v == tick_increase(r)
         IN  /\ v.waitq = r.waitq /\ v.tick = (r.tick + 1) % TickMod
             /\ v.timers = r.timers /\ v.active = r.active /\ v.timeout = r.timeout
<1> DEFINE t == r.current
           u == [r EXCEPT !.tick = (@ + 1) % TickMod,
                          !.remaining[t] = IF @ = 1 THEN init_tick[t] ELSE @ - 1]
           y == yield_rotate(u)
<1>0. r \in KernelState /\ Consistent(r)
  BY DEF KernelOK
<1>1. (r.tick + 1) % TickMod \in Tick
  BY <1>0, Fields, KernelAssumption DEF Tick
<1>2. (IF r.remaining[t] = 1 THEN init_tick[t] ELSE r.remaining[t] - 1) \in Nat \ {0}
  BY <1>0, Fields, KernelAssumption
<1>3. /\ u \in KernelState /\ u.tick = (r.tick + 1) % TickMod
      /\ u.table = r.table /\ u.group = r.group /\ u.waitq = r.waitq
      /\ u.defunct = r.defunct /\ u.stat = r.stat /\ u.prio = r.prio
      /\ u.mask = r.mask /\ u.timers = r.timers /\ u.active = r.active
      /\ u.current = r.current /\ u.timeout = r.timeout
  BY <1>0, <1>1, <1>2 DEF KernelState
<1>4. tick_increase(r) = IF r.remaining[t] = 1 /\ may_yield(r) THEN rt_schedule(y) ELSE u
  BY DEF tick_increase
<1> HIDE DEF u
<1>5. KernelOK(u)
  BY <1>0, <1>3, ConsistentReads DEF KernelOK
<1>6. CASE may_yield(r)
  <2>1. may_yield(u)
    BY <1>3, <1>6 DEF may_yield
  <2>2. y \in KernelState /\ y.waitq = u.waitq /\ SameTimers(u, y)
    BY <1>5, <2>1, YieldFrame, YieldPreserves DEF KernelOK
  <2> HIDE DEF y
  <2>3. rt_schedule(y).waitq = y.waitq /\ SameTimers(y, rt_schedule(y))
    BY <2>2, ScheduleFrame
  <2>4. QED BY <1>3, <1>4, <2>2, <2>3 DEF SameTimers
<1>7. CASE ~ may_yield(r)
  BY <1>3, <1>4, <1>7
<1>8. QED BY <1>6, <1>7
-----------------------------------------------------------------------------
(***************************************************************************)
(* The tick counter wraps, and the timers stay in the order of expiry: a   *)
(* timer in the list has less than half the tick range to go, so the       *)
(* wrapping comparisons of timer.c order two of them as they expire.       *)
(***************************************************************************)
LEMMA HalfTickIs == HalfTick \in Int /\ 2 * HalfTick < TickMod /\ HalfTick < TickMod
BY KernelAssumption DEF HalfTick

LEMMA TickDiffIs ==
  ASSUME NEW a \in Tick, NEW b \in Tick
  PROVE  /\ TickDiff(a, b) = IF b <= a THEN a - b ELSE a - b + TickMod
         /\ TickDiff(a, b) \in Tick
<1>1. TickMod \in Nat /\ TickMod > 0 /\ a \in Int /\ b \in Int
      /\ 0 <= a /\ a < TickMod /\ 0 <= b /\ b < TickMod
  BY KernelAssumption DEF Tick
<1>2. CASE b <= a
  <2>1. (a - b) % TickMod = a - b
    BY <1>1, <1>2
  <2>2. QED BY <1>1, <1>2, <2>1 DEF TickDiff, Tick
<1>3. CASE ~ (b <= a)
  <2>1. (a - b) % TickMod = a - b + TickMod
    BY <1>1, <1>3
  <2>2. QED BY <1>1, <1>3, <2>1 DEF TickDiff, Tick
<1>4. QED BY <1>2, <1>3

LEMMA TickPlusIs ==
  ASSUME NEW a \in Tick, NEW n \in Nat, n <= TickMod
  PROVE  /\ (a + n) % TickMod = IF a + n < TickMod THEN a + n ELSE a + n - TickMod
         /\ (a + n) % TickMod \in Tick
<1>1. TickMod \in Nat /\ TickMod > 0 /\ a \in Int /\ 0 <= a /\ a < TickMod
  BY KernelAssumption DEF Tick
<1>2. CASE a + n < TickMod
  <2>1. (a + n) % TickMod = a + n
    BY <1>1, <1>2
  <2>2. QED BY <1>1, <1>2, <2>1 DEF Tick
<1>3. CASE ~ (a + n < TickMod)
  <2>1. (a + n) % TickMod = a + n - TickMod
    BY <1>1, <1>3
  <2>2. QED BY <1>1, <1>3, <2>1 DEF Tick
<1>4. QED BY <1>2, <1>3

\* A tick takes one off what is left.
LEMMA TickTakesOne ==
  ASSUME NEW a \in Tick, NEW b \in Tick, TickDiff(a, b) > 0
  PROVE  TickDiff(a, (b + 1) % TickMod) = TickDiff(a, b) - 1
<1> DEFINE c == (b + 1) % TickMod
<1>1. /\ TickMod \in Nat /\ TickMod > 0 /\ a \in Int /\ b \in Int
      /\ 0 <= a /\ a < TickMod /\ 0 <= b /\ b < TickMod
  BY KernelAssumption DEF Tick
<1>2. c \in Tick /\ c = IF b + 1 < TickMod THEN b + 1 ELSE b + 1 - TickMod
  BY <1>1, TickPlusIs
<1> HIDE DEF c
<1>3. TickDiff(a, b) = IF b <= a THEN a - b ELSE a - b + TickMod
  BY TickDiffIs
<1>4. TickDiff(a, c) = IF c <= a THEN a - c ELSE a - c + TickMod
  BY <1>2, TickDiffIs
<1>5. TickDiff(a, c) = TickDiff(a, b) - 1
  BY <1>1, <1>2, <1>3, <1>4
<1>6. QED BY <1>5 DEF c

\* A timer started for time ticks has time ticks to go; the timers that go off
\* strictly later have more.
LEMMA StartedLeft ==
  ASSUME NEW b \in Tick, NEW time \in 1 .. HalfTick - 1
  PROVE  /\ (b + time) % TickMod \in Tick
         /\ TickDiff((b + time) % TickMod, b) = time
         /\ \A a \in Tick :
              TickDiff(a, b) < HalfTick =>
                LET d == TickDiff(a, (b + time) % TickMod)
                IN  (d # 0 /\ d < HalfTick) <=> time < TickDiff(a, b)
<1> DEFINE w == (b + time) % TickMod
<1>1. /\ TickMod \in Nat /\ TickMod > 0 /\ b \in Int /\ 0 <= b /\ b < TickMod
      /\ time \in Nat /\ 0 < time /\ time < HalfTick
      /\ HalfTick \in Int /\ 2 * HalfTick < TickMod
  BY KernelAssumption, HalfTickIs DEF Tick
<1>2. w \in Tick /\ w = IF b + time < TickMod THEN b + time ELSE b + time - TickMod
  <2>1. time \in Nat /\ time <= TickMod
    BY <1>1
  <2>2. QED BY <2>1, TickPlusIs
<1> HIDE DEF w
<1>3. w \in Int /\ 0 <= w /\ w < TickMod
  BY <1>1, <1>2 DEF Tick
<1>4. TickDiff(w, b) = time
  <2>1. TickDiff(w, b) = IF b <= w THEN w - b ELSE w - b + TickMod
    BY <1>2, TickDiffIs
  <2>2. QED BY <1>1, <1>2, <1>3, <2>1
<1>5. ASSUME NEW a \in Tick, TickDiff(a, b) < HalfTick
      PROVE  (TickDiff(a, w) # 0 /\ TickDiff(a, w) < HalfTick) <=> time < TickDiff(a, b)
  <2>1. a \in Int /\ 0 <= a /\ a < TickMod
    BY <1>1 DEF Tick
  <2>2. TickDiff(a, b) = IF b <= a THEN a - b ELSE a - b + TickMod
    BY TickDiffIs
  <2>3. TickDiff(a, w) = IF w <= a THEN a - w ELSE a - w + TickMod
    BY <1>2, TickDiffIs
  <2>4. QED BY <1>1, <1>2, <1>3, <1>5, <2>1, <2>2, <2>3
<1>6. QED BY <1>2, <1>4, <1>5 DEF w

\* The test of rt_timer_check: it finds exactly the timer with nothing left.
LEMMA DueLeft ==
  ASSUME NEW a \in Tick, NEW b \in Tick, TickDiff(a, b) < HalfTick
  PROVE  TickDiff(b, a) < HalfTick <=> TickDiff(a, b) = 0
<1>1. /\ TickMod \in Nat /\ TickMod > 0 /\ a \in Int /\ b \in Int
      /\ 0 <= a /\ a < TickMod /\ 0 <= b /\ b < TickMod
      /\ HalfTick \in Int /\ 2 * HalfTick < TickMod
  BY KernelAssumption, HalfTickIs DEF Tick
<1>2. /\ TickDiff(a, b) = IF b <= a THEN a - b ELSE a - b + TickMod
      /\ TickDiff(b, a) = IF a <= b THEN b - a ELSE b - a + TickMod
  BY TickDiffIs
<1>3. QED BY <1>1, <1>2

\* The ticks each timer has to go.
LeftOf(r) == [t \in Thread |-> TickDiff(r.timeout[t], r.tick)]

\* Every timer in the list has less than half the tick range to go, and when
\* no check of the list is under way (checking) more than none; the list is in
\* the order of expiry.
TimersInTime(r, checking) ==
  /\ \A t \in r.active : LeftOf(r)[t] < HalfTick /\ (LeftOf(r)[t] > 0 \/ checking)
  /\ Sorted(r.timers, LeftOf(r))

LEMMA LeftTyped ==
  ASSUME NEW r \in KernelState
  PROVE  /\ LeftOf(r) \in [Thread -> Tick] /\ LeftOf(r) \in [Thread -> Int]
         /\ r.timeout \in [Thread -> Tick] /\ r.tick \in Tick /\ r.timers \in Seq(Thread)
         /\ r.active \subseteq Thread
<1>1. /\ r.timeout \in [Thread -> Tick] /\ r.tick \in Tick /\ r.timers \in Seq(Thread)
      /\ r.active \subseteq Thread
  BY DEF KernelState
<1>2. \A t \in Thread : TickDiff(r.timeout[t], r.tick) \in Tick
  BY <1>1, TickDiffIs
<1>3. \A i \in Tick : i \in Int
  BY KernelAssumption DEF Tick
<1>4. QED BY <1>1, <1>2, <1>3 DEF LeftOf

LEMMA SameTimersInTime ==
  ASSUME NEW r, NEW v, NEW c, SameTimers(r, v), TimersInTime(r, c)
  PROVE  TimersInTime(v, c)
<1>1. LeftOf(v) = LeftOf(r)
  BY DEF SameTimers, LeftOf
<1>2. QED BY <1>1 DEF SameTimers, TimersInTime

\* A timer that is stopped, or goes off, leaves the others as they are.
LEMMA StoppedInTime ==
  ASSUME NEW r, KernelOK(r), NEW t \in Thread, NEW v, NEW c,
         TimerStopped(r, t, v), TimersInTime(r, c)
  PROVE  TimersInTime(v, c)
<1>1. /\ r.timers \in Seq(Thread) /\ r.active \subseteq Thread
      /\ IsInjective(r.timers) /\ ToSet(r.timers) = r.active
  BY LeftTyped DEF KernelOK, Consistent, TimersBelongToSuspended
<1>2. /\ v.tick = r.tick /\ v.timers = RemoveFirst(r.timers, t)
      /\ v.active = r.active \ {t} /\ \A u \in Thread \ {t} : v.timeout[u] = r.timeout[u]
  BY DEF TimerStopped
<1>3. \A u \in Thread \ {t} : LeftOf(v)[u] = LeftOf(r)[u]
  BY <1>2 DEF LeftOf
<1>4. v.timers \in Seq(Thread) /\ ToSet(v.timers) = r.active \ {t}
  BY <1>1, <1>2, RemoveFirstProperties
<1>5. Sorted(v.timers, LeftOf(r))
  BY <1>1, <1>2, SortedRemove DEF TimersInTime
<1>6. \A x, y \in ToSet(v.timers) : LeftOf(r)[x] <= LeftOf(r)[y] => LeftOf(v)[x] <= LeftOf(v)[y]
  BY <1>1, <1>3, <1>4
<1>7. Sorted(v.timers, LeftOf(v))
  BY <1>4, <1>5, <1>6, SortedMap
<1>8. \A u \in v.active : LeftOf(v)[u] < HalfTick /\ (LeftOf(v)[u] > 0 \/ c)
  BY <1>1, <1>2, <1>3 DEF TimersInTime
<1>9. QED BY <1>7, <1>8 DEF TimersInTime

\* rt_timer_start links the timer behind those that go off no later.
LEMMA StartInTime ==
  ASSUME NEW r, KernelOK(r), NEW t \in Thread, t \notin r.active,
         NEW time \in 1 .. HalfTick - 1, NEW c, TimersInTime(r, c)
  PROVE  TimersInTime(rt_timer_start(r, t, time), c)
<1> DEFINE v == rt_timer_start(r, t, time)
           w == (r.tick + time) % TickMod
           q == r.timers
           p == PlaceByTime(r, q, w)
<1>0. time \in Nat /\ time \in Int /\ time > 0 /\ time < HalfTick
  BY HalfTickIs
<1>1. /\ LeftOf(r) \in [Thread -> Int] /\ r.timeout \in [Thread -> Tick] /\ r.tick \in Tick
      /\ q \in Seq(Thread) /\ r.active \subseteq Thread
      /\ IsInjective(q) /\ ToSet(q) = r.active
  BY LeftTyped DEF KernelOK, Consistent, TimersBelongToSuspended
<1>2. /\ v.tick = r.tick /\ v.active = r.active \cup {t}
      /\ v.timers = InsertAt(q, p, t) /\ v.timeout = [r.timeout EXCEPT ![t] = w]
  BY <1>0, StartFrame
<1>3. /\ w \in Tick /\ TickDiff(w, r.tick) = time
      /\ \A a \in Tick : TickDiff(a, r.tick) < HalfTick =>
           LET d == TickDiff(a, w) IN (d # 0 /\ d < HalfTick) <=> time < TickDiff(a, r.tick)
  BY <1>1, StartedLeft
<1> HIDE DEF v, w
<1>4. \A u \in Thread : LeftOf(v)[u] = IF u = t THEN time ELSE LeftOf(r)[u]
  BY <1>1, <1>2, <1>3 DEF LeftOf
<1>5. \A i \in 1 .. Len(q) : Later(r, q[i], w) <=> time < LeftOf(r)[q[i]]
  <2> SUFFICES ASSUME NEW i \in 1 .. Len(q)
               PROVE  Later(r, q[i], w) <=> time < LeftOf(r)[q[i]]
    OBVIOUS
  <2>1. q[i] \in r.active /\ q[i] \in Thread
    BY <1>1, MembersOf
  <2>2. LeftOf(r)[q[i]] = TickDiff(r.timeout[q[i]], r.tick) /\ LeftOf(r)[q[i]] < HalfTick
    BY <2>1 DEF LeftOf, TimersInTime
  <2>3. r.timeout[q[i]] \in Tick
    BY <1>1, <2>1
  <2>4. QED BY <1>3, <2>2, <2>3 DEF Later
<1>6. p = FirstOf(q, Above(q, LeftOf(r), time))
  BY <1>5 DEF PlaceByTime, Above
<1>7. PartsAt(p, q, LeftOf(r), time)
  <2>1. Sorted(q, LeftOf(r))
    BY DEF TimersInTime
  <2>2. QED BY <1>0, <1>1, <1>6, <2>1, SortedPlace
<1> HIDE DEF p, q
<1>8. Sorted(InsertAt(q, p, t), LeftOf(v))
  <2>1. \A x, y \in ToSet(q) : LeftOf(r)[x] <= LeftOf(r)[y] => LeftOf(v)[x] <= LeftOf(v)[y]
    BY <1>1, <1>4
  <2>2. Sorted(q, LeftOf(r))
    BY DEF TimersInTime, q
  <2>3. Sorted(q, LeftOf(v))
    BY <1>1, <2>1, <2>2, SortedMap
  <2>4. \A i \in 1 .. Len(q) : q[i] \in Thread /\ q[i] # t
    BY <1>1, MembersOf
  <2>5. PartsAt(p, q, LeftOf(v), LeftOf(v)[t])
    BY <1>4, <1>7, <2>4 DEF PartsAt
  <2>6. LeftOf(v) \in [Thread -> Int]
    BY <1>0, <1>1, <1>4 DEF LeftOf
  <2>7. QED BY <1>1, <2>3, <2>5, <2>6, SortedInsert
<1>9. \A u \in v.active : LeftOf(v)[u] < HalfTick /\ (LeftOf(v)[u] > 0 \/ c)
  BY <1>0, <1>1, <1>2, <1>4 DEF TimersInTime
<1>10. TimersInTime(v, c)
  BY <1>2, <1>8, <1>9 DEF TimersInTime
<1>11. QED BY <1>10 DEF v

\* rt_tick_increase, from which on the list is to be checked.
LEMMA TickInTime ==
  ASSUME NEW r, KernelOK(r), TimersInTime(r, FALSE)
  PROVE  TimersInTime(tick_increase(r), TRUE)
<1> DEFINE v == tick_increase(r)
<1>1. /\ LeftOf(r) \in [Thread -> Int] /\ r.timeout \in [Thread -> Tick] /\ r.tick \in Tick
      /\ r.timers \in Seq(Thread) /\ r.active \subseteq Thread /\ ToSet(r.timers) = r.active
  BY LeftTyped DEF KernelOK, Consistent, TimersBelongToSuspended
<1>2. /\ v.tick = (r.tick + 1) % TickMod /\ v.timers = r.timers /\ v.active = r.active
      /\ v.timeout = r.timeout
  BY TickFrame
<1> HIDE DEF v
<1>3. \A t \in r.active : LeftOf(v)[t] = LeftOf(r)[t] - 1
  <2> SUFFICES ASSUME NEW t \in r.active PROVE LeftOf(v)[t] = LeftOf(r)[t] - 1
    OBVIOUS
  <2>1. t \in Thread /\ r.timeout[t] \in Tick
    BY <1>1
  <2>2. TickDiff(r.timeout[t], r.tick) > 0
    BY <2>1 DEF TimersInTime, LeftOf
  <2>3. TickDiff(r.timeout[t], (r.tick + 1) % TickMod) = TickDiff(r.timeout[t], r.tick) - 1
    BY <1>1, <2>1, <2>2, TickTakesOne
  <2>4. QED BY <1>2, <2>1, <2>3 DEF LeftOf
<1>4. \A t \in r.active : LeftOf(r)[t] \in Int
  BY <1>1
<1>5. \A x, y \in ToSet(r.timers) : LeftOf(r)[x] <= LeftOf(r)[y] => LeftOf(v)[x] <= LeftOf(v)[y]
  BY <1>1, <1>3, <1>4
<1>6. Sorted(r.timers, LeftOf(v))
  <2>1. Sorted(r.timers, LeftOf(r))
    BY DEF TimersInTime
  <2>2. QED BY <1>1, <1>5, <2>1, SortedMap
<1>7. \A t \in r.active : LeftOf(v)[t] < HalfTick
  BY <1>3, <1>4, HalfTickIs DEF TimersInTime
<1>8. TimersInTime(v, TRUE)
  BY <1>2, <1>6, <1>7 DEF TimersInTime
<1>9. QED BY <1>8 DEF v

\* The check ends when the head of the list has time left: all others have.
LEMMA CheckedInTime ==
  ASSUME NEW r, KernelOK(r), TimersInTime(r, TRUE), ~ Due(r)
  PROVE  TimersInTime(r, FALSE)
<1>1. /\ LeftOf(r) \in [Thread -> Int] /\ r.timeout \in [Thread -> Tick] /\ r.tick \in Tick
      /\ r.timers \in Seq(Thread) /\ r.active \subseteq Thread /\ ToSet(r.timers) = r.active
      /\ LeftOf(r) \in [Thread -> Tick]
  BY LeftTyped DEF KernelOK, Consistent, TimersBelongToSuspended
<1> SUFFICES ASSUME NEW t \in r.active PROVE LeftOf(r)[t] > 0
  BY DEF TimersInTime
<1>2. PICK i \in 1 .. Len(r.timers) : r.timers[i] = t
  BY <1>1, MembersOf
<1>3. /\ r.timers # << >> /\ Head(r.timers) = r.timers[1] /\ 1 \in 1 .. Len(r.timers)
      /\ Len(r.timers) \in Nat /\ DOMAIN r.timers = 1 .. Len(r.timers)
  BY <1>1, <1>2
<1> DEFINE h == r.timers[1]
<1>4. h \in r.active /\ h \in Thread
  BY <1>1, <1>3, MembersOf
<1>5. LeftOf(r)[h] # 0
  <2>1. ~ (TickDiff(r.tick, r.timeout[h]) < HalfTick)
    BY <1>3 DEF Due
  <2>2. TickDiff(r.timeout[h], r.tick) < HalfTick /\ r.timeout[h] \in Tick
    BY <1>1, <1>4 DEF TimersInTime, LeftOf
  <2>3. TickDiff(r.timeout[h], r.tick) # 0
    BY <1>1, <2>1, <2>2, DueLeft
  <2>4. QED BY <1>4, <2>3 DEF LeftOf
<1>6. LeftOf(r)[h] <= LeftOf(r)[t]
  <2>1. CASE i = 1
    BY <1>1, <1>2, <1>4, <2>1
  <2>2. CASE 1 < i
    BY <1>2, <1>3, <2>2 DEF TimersInTime, Sorted
  <2>3. QED BY <1>3, <2>1, <2>2
<1>7. LeftOf(r)[h] \in Nat /\ LeftOf(r)[t] \in Int
  BY <1>1, <1>4, KernelAssumption DEF Tick
<1> HIDE DEF h
<1>8. QED BY <1>5, <1>6, <1>7

\* One round of the loop of rt_timer_check.
LEMMA ExpireInTime ==
  ASSUME NEW r, KernelOK(r), r.timers # << >>, NEW c, TimersInTime(r, c)
  PROVE  TimersInTime(timer_expire(r), c)
<1>1. PICK t : t = Head(r.timers)
  OBVIOUS
<1>2. t \in Thread /\ TimerStopped(r, t, timer_expire(r))
  BY <1>1, ExpireFrame
<1>3. QED BY <1>2, StoppedInTime
-----------------------------------------------------------------------------
\* The timers between two steps of the core: SysTick_Handler leaves the list to
\* be checked, and nothing but rt_timer_check runs before it has been.
TimersKept ==
  /\ TimersInTime(k, TRUE)
  /\ ~ systick => TimersInTime(k, FALSE)

LEMMA InTimeWhenChecked == ASSUME NEW r, TimersInTime(r, FALSE) PROVE TimersInTime(r, TRUE)
BY DEF TimersInTime

\* A step of a thread or of a device handler keeps them.
LEMMA KeptByThreads ==
  ASSUME TimersKept, ~ systick, systick' = systick,
         TimersInTime(k, FALSE) => TimersInTime(k', FALSE)
  PROVE  TimersKept'
<1>1. TimersInTime(k', FALSE)
  BY DEF TimersKept
<1>2. TimersInTime(k', TRUE)
  BY <1>1, InTimeWhenChecked
<1>3. QED BY <1>1, <1>2 DEF TimersKept

\* The suspension and the timer of a call with a timeout.
LEMMA TimedInTime ==
  ASSUME NEW r, TimersInTime(r, FALSE), NEW t \in Thread,
         NEW u, KernelOK(u), SameTimers(r, u), t \notin r.active,
         NEW time \in 1 .. HalfTick - 1
  PROVE  TimersInTime(rt_timer_start(u, t, time), FALSE)
<1>1. t \notin u.active
  BY DEF SameTimers
<1>2. TimersInTime(u, FALSE)
  BY SameTimersInTime
<1>3. QED BY <1>1, <1>2, StartInTime

LEMMA SchedulerInTime ==
  ASSUME CpuInv, TimersKept, NEW t \in Thread,
         \/ Schedule(t) \/ SleepReturn(t) \/ rt_thread_yield(t)
         \/ rt_enter_critical(t) \/ rt_exit_critical(t)
         \/ \E time \in 1 .. HalfTick - 1 : rt_thread_sleep(t, time)
  PROVE  TimersKept'
<1>0. KernelOK(k) /\ k \in KernelState
  BY DEF CpuInv, KernelConsistent, KernelOK
<1>1. ~ systick /\ systick' = systick
  BY DEF Schedule, SleepReturn, rt_thread_yield, rt_enter_critical, rt_exit_critical,
         rt_thread_sleep, Running, InThread
<1> SUFFICES ASSUME TimersInTime(k, FALSE) PROVE TimersInTime(k', FALSE)
  BY <1>1, KeptByThreads
<1>2. CASE Schedule(t)
  <2>1. SameTimers(k, k')
    BY <1>0, <1>2, ScheduleFrame DEF Schedule
  <2>2. QED BY <2>1, SameTimersInTime
<1>3. CASE SleepReturn(t) \/ rt_enter_critical(t) \/ rt_exit_critical(t)
  <2>1. SameTimers(k, k')
    BY <1>0, <1>3 DEF SleepReturn, rt_enter_critical, rt_exit_critical, SameTimers, KernelState
  <2>2. QED BY <2>1, SameTimersInTime
<1>4. CASE rt_thread_yield(t)
  <2>1. k' = yield_rotate(k) /\ may_yield(k)
    BY <1>4 DEF rt_thread_yield
  <2>2. SameTimers(k, k')
    BY <1>0, <2>1, YieldFrame
  <2>3. QED BY <2>2, SameTimersInTime
<1>5. ASSUME NEW time \in 1 .. HalfTick - 1, rt_thread_sleep(t, time)
      PROVE  TimersInTime(k', FALSE)
  <2>1. PICK u : u = rt_thread_suspend(k, t)
    OBVIOUS
  <2>2. k' = rt_timer_start(u, t, time) /\ pc[t] = "run" /\ t # Idle /\ Running(t)
    BY <1>5, <2>1 DEF rt_thread_sleep
  <2>3. k.stat[t] = "READY"
    BY <2>2, RunningThread
  <2>4. KernelOK(u) /\ SameTimers(k, u) /\ t \notin k.active
    BY <1>0, <2>1, <2>2, <2>3, SuspendPreserves, SuspendFrame, AbsentFromLists
  <2>5. QED BY <2>2, <2>4, TimedInTime
<1>6. QED BY <1>2, <1>3, <1>4, <1>5

LEMMA HandlersInTime ==
  ASSUME CpuInv, TimersKept, SysTick_Handler \/ rt_timer_check \/ DeviceSchedule
  PROVE  TimersKept'
<1>0. KernelOK(k) /\ k \in KernelState
  BY DEF CpuInv, KernelConsistent, KernelOK
<1>1. CASE SysTick_Handler
  <2>1. k' = tick_increase(k) /\ systick' = TRUE /\ TimersInTime(k, FALSE)
    BY <1>1 DEF SysTick_Handler, TimersKept
  <2>2. TimersInTime(k', TRUE)
    BY <1>0, <2>1, TickInTime
  <2>3. QED BY <2>1, <2>2 DEF TimersKept
<1>2. CASE rt_timer_check /\ Due(k)
  <2>1. k' = timer_expire(k) /\ k.timers # << >> /\ systick' = systick /\ systick
    BY <1>2 DEF rt_timer_check, Due
  <2>2. TimersInTime(k', TRUE)
    BY <1>0, <2>1, ExpireInTime DEF TimersKept
  <2>3. QED BY <2>1, <2>2 DEF TimersKept
<1>3. CASE rt_timer_check /\ ~ Due(k)
  <2>1. k' = k
    BY <1>3 DEF rt_timer_check
  <2>2. TimersInTime(k, FALSE)
    BY <1>0, <1>3, CheckedInTime DEF TimersKept
  <2>3. QED BY <2>1, <2>2 DEF TimersKept
<1>4. CASE DeviceSchedule
  <2>1. k' = rt_schedule(k) /\ ~ systick /\ systick' = systick
    BY <1>4 DEF DeviceSchedule
  <2>2. SameTimers(k, k')
    BY <1>0, <2>1, ScheduleFrame
  <2>3. QED BY <2>1, <2>2, KeptByThreads, SameTimersInTime
<1>5. QED BY <1>1, <1>2, <1>3, <1>4

LEMMA StartedInTime == CpuInit => TimersKept
<1>1. StartedKernel.timers = << >> /\ StartedKernel.active = {}
  BY DEF StartedKernel, rt_schedule
<1>2. \A c \in {TRUE, FALSE} : TimersInTime(StartedKernel, c)
  BY <1>1 DEF TimersInTime, Sorted
<1>3. QED BY <1>2 DEF TimersKept, CpuInit

LEMMA InTimeIsNotOverdue == CpuInv /\ TimersKept => NoTimerOverdue
<1> SUFFICES ASSUME CpuInv, TimersKept, ~ systick
             PROVE  /\ \A t \in k.active : TickDiff(k.timeout[t], k.tick) < HalfTick
                    /\ \A i, j \in DOMAIN k.timers :
                         i < j => TickDiff(k.timeout[k.timers[i]], k.tick)
                                    <= TickDiff(k.timeout[k.timers[j]], k.tick)
  BY DEF NoTimerOverdue
<1>1. k.timers \in Seq(Thread) /\ k.active \subseteq Thread
  BY LeftTyped DEF CpuInv
<1>2. \A t \in Thread : LeftOf(k)[t] = TickDiff(k.timeout[t], k.tick)
  BY DEF LeftOf
<1>3. \A i \in DOMAIN k.timers : k.timers[i] \in Thread
  BY <1>1
<1>4. TimersInTime(k, FALSE)
  BY DEF TimersKept
<1>5. \A t \in k.active : LeftOf(k)[t] < HalfTick
  BY <1>4 DEF TimersInTime
<1>6. \A i, j \in DOMAIN k.timers : i < j => LeftOf(k)[k.timers[i]] <= LeftOf(k)[k.timers[j]]
  BY <1>4 DEF TimersInTime, Sorted
<1>7. QED BY <1>1, <1>2, <1>3, <1>5, <1>6
=============================================================================
