-------------------------- MODULE ThreadLifeProofs --------------------------
(***************************************************************************)
(* The lives of threads, for any threads and managers, in every run in     *)
(* which nobody calls the kernel on a thread whose sleep may end: states   *)
(* and lists agree, no thread is buried twice, what is freed is not        *)
(* reachable, and the dead stay dead.                                      *)
(*                                                                         *)
(* A call of thread.c has several critical sections, and what it found in  *)
(* the first must still hold in the last.  The invariant LifeInv therefore *)
(* says for each point inside a call which states its thread may be in,    *)
(* and that nobody else is inside a call on the same thread.               *)
(***************************************************************************)
EXTENDS ThreadLife, KernelProofs

-----------------------------------------------------------------------------
(***************************************************************************)
(* The lists.  While a thread is deleted it is READY on no list, so which  *)
(* threads R the ready lists hold is said beside the kernel's record.      *)
(***************************************************************************)
ListsHold(r, R) ==
  /\ \A p \in Priority :
       IsInjective(r.table[p]) /\ ToSet(r.table[p]) = {t \in R : r.prio[t] = p}
  /\ r.group = {p \in Priority : r.table[p] # << >>}
  /\ IsInjective(r.defunct)
  /\ IsInjective(r.timers) /\ ToSet(r.timers) = r.active

\* Of r and v only the lists differ, and the bitmap.
SameThreads(r, v) ==
  /\ v.stat = r.stat /\ v.prio = r.prio /\ v.mask = r.mask /\ v.lock = r.lock

LEMMA HeldInjective ==
  ASSUME NEW r \in KernelState, NEW R, ListsHold(r, R)
  PROVE  ListsInjective(r)
BY ThreadLifeAssumption DEF ListsHold, ListsInjective

\* The ready lists of v are those of r without t: so are the bits.
LEMMA HeldWithout ==
  ASSUME NEW r \in KernelState, NEW R \in SUBSET Thread, ListsHold(r, R),
         NEW t \in Thread, NEW v \in KernelState,
         \A p \in Priority : /\ IsInjective(v.table[p])
                             /\ ToSet(v.table[p]) = ToSet(r.table[p]) \ {t},
         v.prio = r.prio, IsInjective(v.defunct),
         v.timers = r.timers, v.active = r.active,
         v.group = IF v.table[r.prio[t]] = << >> THEN r.group \ {r.prio[t]} ELSE r.group
  PROVE  ListsHold(v, R \ {t})
<1>1. \A p \in Priority : r.table[p] \in Seq(Thread) /\ v.table[p] \in Seq(Thread)
  BY Fields
<1>2. \A p \in Priority : /\ r.table[p] = << >> <=> ToSet(r.table[p]) = {}
                          /\ v.table[p] = << >> <=> ToSet(v.table[p]) = {}
  BY <1>1, EmptyThreadList
<1>3. \A p \in Priority : ToSet(r.table[p]) = {u \in R : r.prio[u] = p}
  BY DEF ListsHold
<1>4. \A p \in Priority : ToSet(v.table[p]) = {u \in R \ {t} : v.prio[u] = p}
  BY <1>3
<1>5. \A p \in Priority : p # r.prio[t] => ToSet(v.table[p]) = ToSet(r.table[p])
  <2> SUFFICES ASSUME NEW p \in Priority, p # r.prio[t]
               PROVE  ToSet(r.table[p]) \ {t} = ToSet(r.table[p])
    OBVIOUS
  <2>1. t \notin ToSet(r.table[p])
    BY <1>3
  <2>2. QED BY <2>1
<1>6. r.prio[t] \in Priority /\ r.group = {p \in Priority : r.table[p] # << >>}
  BY Fields DEF ListsHold
<1>7. v.group = {p \in Priority : v.table[p] # << >>}
  <2>1. \A p \in Priority : p # r.prio[t] => (v.table[p] = << >> <=> r.table[p] = << >>)
    BY <1>2, <1>5
  <2>2. CASE v.table[r.prio[t]] = << >>
    BY <1>6, <2>1, <2>2
  <2>3. CASE v.table[r.prio[t]] # << >>
    <3>1. r.table[r.prio[t]] # << >>
      <4>1. ToSet(v.table[r.prio[t]]) # {}
        BY <1>2, <1>6, <2>3
      <4>2. ToSet(r.table[r.prio[t]]) # {}
        BY <1>6, <4>1
      <4>3. QED BY <1>2, <1>6, <4>2
    <3>2. QED BY <1>6, <2>1, <2>3, <3>1
  <2>4. QED BY <2>2, <2>3
<1>8. QED BY <1>4, <1>7 DEF ListsHold

\* rt_list_remove of a thread that is on no ready list.
LEMMA HeldUnlinked ==
  ASSUME NEW r \in KernelState, NEW R \in SUBSET Thread, ListsHold(r, R),
         NEW t \in Thread, t \notin R
  PROVE  LET v == rt_list_remove(r, t)
         IN  /\ v \in KernelState /\ ListsHold(v, R) /\ SameThreads(r, v)
             /\ v.active = r.active /\ v.current = r.current
             /\ ToSet(v.defunct) = ToSet(r.defunct) \ {t}
<1> DEFINE v == rt_list_remove(r, t)
<1>1. /\ v \in KernelState
      /\ \A p \in Priority : /\ IsInjective(v.table[p])
                             /\ ToSet(v.table[p]) = ToSet(r.table[p]) \ {t}
      /\ IsInjective(v.defunct) /\ ToSet(v.defunct) = ToSet(r.defunct) \ {t}
      /\ v.group = r.group /\ v.stat = r.stat /\ v.prio = r.prio
      /\ v.mask = r.mask /\ v.timers = r.timers /\ v.active = r.active
      /\ v.current = r.current /\ v.lock = r.lock
  BY HeldInjective, ListRemove
<1> HIDE DEF v
<1>2. \A p \in Priority : r.table[p] \in Seq(Thread) /\ v.table[p] \in Seq(Thread)
  BY <1>1, Fields
<1>3. \A p \in Priority : /\ r.table[p] = << >> <=> ToSet(r.table[p]) = {}
                          /\ v.table[p] = << >> <=> ToSet(v.table[p]) = {}
  BY <1>2, EmptyThreadList
<1>4. \A p \in Priority : ToSet(r.table[p]) = {u \in R : r.prio[u] = p}
  BY DEF ListsHold
<1>5. \A p \in Priority : ToSet(v.table[p]) = ToSet(r.table[p])
  BY <1>1, <1>4, SMTT(60)
<1>6. \A p \in Priority : v.table[p] = << >> <=> r.table[p] = << >>
  BY <1>3, <1>5
<1>7. ListsHold(v, R)
  BY <1>1, <1>5, <1>6 DEF ListsHold
<1>8. QED BY <1>1, <1>7 DEF v, SameThreads

\* rt_schedule_remove_thread.
LEMMA HeldRemoved ==
  ASSUME NEW r \in KernelState, NEW R \in SUBSET Thread, ListsHold(r, R),
         NEW t \in Thread, r.mask[t] = {r.prio[t]}
  PROVE  LET v == rt_schedule_remove_thread(r, t)
         IN  /\ v \in KernelState /\ ListsHold(v, R \ {t}) /\ SameThreads(r, v)
             /\ v.active = r.active /\ v.current = r.current
             /\ ToSet(v.defunct) = ToSet(r.defunct) \ {t}
<1> DEFINE a == rt_list_remove(r, t)
           v == IF a.table[r.prio[t]] = << >> THEN [a EXCEPT !.group = @ \ r.mask[t]]
                                              ELSE a
<1>1. /\ a \in KernelState
      /\ \A p \in Priority : /\ IsInjective(a.table[p])
                             /\ ToSet(a.table[p]) = ToSet(r.table[p]) \ {t}
      /\ IsInjective(a.defunct) /\ ToSet(a.defunct) = ToSet(r.defunct) \ {t}
      /\ a.group = r.group /\ a.stat = r.stat /\ a.prio = r.prio
      /\ a.mask = r.mask /\ a.timers = r.timers /\ a.active = r.active
      /\ a.current = r.current /\ a.lock = r.lock
  BY HeldInjective, ListRemove
<1>2. rt_schedule_remove_thread(r, t) = v
  BY DEF rt_schedule_remove_thread
<1> HIDE DEF a
<1>3. /\ v \in KernelState
      /\ v.group = IF a.table[r.prio[t]] = << >> THEN r.group \ r.mask[t] ELSE r.group
      /\ v.table = a.table /\ v.defunct = a.defunct
      /\ v.stat = a.stat /\ v.prio = a.prio /\ v.mask = a.mask
      /\ v.timers = a.timers /\ v.active = a.active
      /\ v.current = a.current /\ v.lock = a.lock
  BY <1>1 DEF KernelState
<1> HIDE DEF v
<1>4. /\ \A p \in Priority : /\ IsInjective(v.table[p])
                             /\ ToSet(v.table[p]) = ToSet(r.table[p]) \ {t}
      /\ v.prio = r.prio /\ IsInjective(v.defunct)
      /\ v.timers = r.timers /\ v.active = r.active
      /\ v.group = IF v.table[r.prio[t]] = << >> THEN r.group \ {r.prio[t]} ELSE r.group
  BY <1>1, <1>3
<1>5. ListsHold(v, R \ {t})
  BY <1>3, <1>4, HeldWithout
<1>6. QED BY <1>1, <1>2, <1>3, <1>5 DEF SameThreads

\* rt_schedule_insert_thread.
LEMMA HeldInserted ==
  ASSUME NEW r \in KernelState, NEW R \in SUBSET Thread, ListsHold(r, R),
         NEW t \in Thread, t \notin R, r.mask[t] = {r.prio[t]}
  PROVE  LET v == rt_schedule_insert_thread(r, t)
         IN  /\ v \in KernelState /\ ListsHold(v, R \cup {t})
             /\ v.stat = [r.stat EXCEPT ![t] = "READY"]
             /\ v.prio = r.prio /\ v.mask = r.mask /\ v.lock = r.lock
             /\ v.active = r.active /\ v.current = r.current /\ v.defunct = r.defunct
<1> DEFINE v == rt_schedule_insert_thread(r, t)
<1>1. r.prio[t] \in Priority /\ \A p \in Priority : IsInjective(r.table[p])
  BY Fields DEF ListsHold
<1>2. \A p \in Priority : ToSet(r.table[p]) = {u \in R : r.prio[u] = p}
  BY DEF ListsHold
<1>3. t \notin ToSet(r.table[r.prio[t]])
  BY <1>1, <1>2
<1>4. /\ v \in KernelState
      /\ \A p \in Priority :
           /\ IsInjective(v.table[p])
           /\ ToSet(v.table[p]) =
                IF p = r.prio[t] THEN ToSet(r.table[p]) \cup {t}
                                 ELSE ToSet(r.table[p])
      /\ v.stat = [r.stat EXCEPT ![t] = "READY"]
      /\ v.group = r.group \cup r.mask[t]
      /\ v.defunct = r.defunct /\ v.prio = r.prio
      /\ v.mask = r.mask /\ v.timers = r.timers /\ v.active = r.active
      /\ v.current = r.current /\ v.lock = r.lock
  <2>1. LET w == rt_schedule_insert_thread(r, t)
        IN  /\ w \in KernelState
            /\ \A p \in Priority :
                 /\ IsInjective(w.table[p])
                 /\ ToSet(w.table[p]) =
                      IF p = r.prio[t] THEN ToSet(r.table[p]) \cup {t}
                                       ELSE ToSet(r.table[p])
            /\ w.stat = [r.stat EXCEPT ![t] = "READY"]
            /\ w.group = r.group \cup r.mask[t]
            /\ w.waitq = r.waitq /\ w.defunct = r.defunct /\ w.prio = r.prio
            /\ w.mask = r.mask /\ w.timers = r.timers /\ w.active = r.active
            /\ w.current = r.current /\ w.lock = r.lock /\ w.error = r.error
    BY ONLY r \in KernelState, t \in Thread, <1>1, <1>3, InsertThread
  <2>2. QED BY <2>1
<1> HIDE DEF v
<1>5. \A p \in Priority : ToSet(v.table[p]) = {u \in R \cup {t} : v.prio[u] = p}
  <2> TAKE p \in Priority
  <2>1. CASE p = r.prio[t]
    <3>1. ToSet(v.table[p]) = ToSet(r.table[p]) \cup {t}
      BY <1>4, <2>1
    <3>2. QED BY <1>2, <1>4, <2>1, <3>1
  <2>2. CASE p # r.prio[t]
    <3>1. ToSet(v.table[p]) = ToSet(r.table[p])
      BY <1>4, <2>2
    <3>2. QED BY <1>2, <1>4, <2>2, <3>1
  <2>3. QED BY <2>1, <2>2
<1>6. \A p \in Priority : r.table[p] \in Seq(Thread) /\ v.table[p] \in Seq(Thread)
  BY <1>4, Fields
<1>7. \A p \in Priority : /\ r.table[p] = << >> <=> ToSet(r.table[p]) = {}
                          /\ v.table[p] = << >> <=> ToSet(v.table[p]) = {}
  BY <1>6, EmptyThreadList
<1>8. \A p \in Priority : v.table[p] # << >> <=> r.table[p] # << >> \/ p = r.prio[t]
  BY <1>4, <1>7
<1>9. v.group = {p \in Priority : v.table[p] # << >>}
  <2>1. r.group = {p \in Priority : r.table[p] # << >>} /\ v.group = r.group \cup {r.prio[t]}
    BY <1>4 DEF ListsHold
  <2>2. QED BY <1>1, <1>8, <2>1
<1>10. ListsHold(v, R \cup {t})
  BY <1>4, <1>5, <1>9 DEF ListsHold
<1>11. QED BY <1>4, <1>10 DEF v
-----------------------------------------------------------------------------
\* The kernel's data while the threads L are being deleted.
ReadyBut(r, L) == {t \in Thread \ L : r.stat[t] = "READY"}

LifeKernel(r, L) ==
  /\ r \in KernelState /\ ListsHold(r, ReadyBut(r, L))
  /\ \A t \in Thread : r.stat[t] \in {"READY", "SUSPEND"} => r.mask[t] = {r.prio[t]}
  /\ \A t \in r.active : r.stat[t] = "SUSPEND"
  /\ \A t \in ToSet(r.defunct) : r.stat[t] = "CLOSE"
  /\ r.stat[Idle] = "READY" /\ Idle \notin L
  /\ r.lock = 0

\* The thread that runs next is one the kernel may choose.
Chosen(r, L) == r.current \in ReadyBut(r, L)

LEMMA LifeFields ==
  ASSUME NEW r, NEW L, LifeKernel(r, L)
  PROVE  /\ r \in KernelState /\ ListsHold(r, ReadyBut(r, L))
         /\ ReadyBut(r, L) \in SUBSET Thread
         /\ r.stat \in [Thread -> Stat] /\ r.prio \in [Thread -> Priority]
         /\ r.mask \in [Thread -> SUBSET Priority]
         /\ r.active \in SUBSET Thread /\ r.current \in Thread
         /\ r.defunct \in Seq(Thread) /\ ToSet(r.defunct) \in SUBSET Thread
<1>1. r \in KernelState
  BY DEF LifeKernel
<1>2. r.defunct \in Seq(Thread)
  BY <1>1, Fields
<1>3. ToSet(r.defunct) \in SUBSET Thread
  BY <1>2, MembersOf
<1>4. QED BY <1>1, <1>2, <1>3, Fields DEF LifeKernel, ReadyBut

\* A step of the lists that changes the stat of no thread.
LEMMA SameStatLife ==
  ASSUME NEW r, NEW L, LifeKernel(r, L), NEW v \in KernelState,
         ListsHold(v, ReadyBut(r, L)), SameThreads(r, v),
         v.active \subseteq r.active, ToSet(v.defunct) \subseteq ToSet(r.defunct)
  PROVE  LifeKernel(v, L)
<1>1. ReadyBut(v, L) = ReadyBut(r, L)
  BY DEF ReadyBut, SameThreads
<1>2. QED BY <1>1 DEF LifeKernel, SameThreads

\* rt_schedule chooses a ready thread.
LEMMA LifeSchedule ==
  ASSUME NEW r, NEW L, LifeKernel(r, L)
  PROVE  LET v == rt_schedule(r)
         IN  /\ LifeKernel(v, L) /\ Chosen(v, L)
             /\ v.stat = r.stat /\ v.active = r.active /\ v.defunct = r.defunct
<1> DEFINE q == highest_ready_priority(r)
           h == Head(r.table[q])
           v == [r EXCEPT !.current = h]
<1>1. r \in KernelState /\ ListsHold(r, ReadyBut(r, L)) /\ Idle \in ReadyBut(r, L)
  BY KernelAssumption DEF LifeKernel, ReadyBut
<1>2. q \in Priority /\ r.table[q] # << >>
  <2>1. r.prio[Idle] \in Priority /\ Idle \in ToSet(r.table[r.prio[Idle]])
    BY <1>1, Fields, KernelAssumption DEF ListsHold
  <2>2. r.table[r.prio[Idle]] # << >>
    BY <1>1, <2>1, Fields, MembersOf
  <2>3. r.prio[Idle] \in r.group
    BY <1>1, <2>1, <2>2 DEF ListsHold
  <2>4. r.group \in SUBSET Nat
    BY <1>1, KernelAssumption, Fields DEF Priority
  <2>5. q \in r.group
    BY <2>3, <2>4, MinProperties DEF highest_ready_priority
  <2>6. QED BY <1>1, <2>5 DEF ListsHold
<1>3. h \in Thread /\ h \in ToSet(r.table[q])
  <2>1. r.table[q] \in Seq(Thread) /\ IsInjective(r.table[q])
    BY <1>1, <1>2, Fields DEF ListsHold
  <2>2. QED BY <1>2, <2>1, HeadOfList
<1>4. h \in ReadyBut(r, L)
  BY <1>1, <1>2, <1>3 DEF ListsHold
<1>5. rt_schedule(r) = v
  BY DEF rt_schedule, LifeKernel
<1> HIDE DEF h, q
<1>6. /\ v \in KernelState /\ v.current = h
      /\ v.table = r.table /\ v.group = r.group
      /\ v.defunct = r.defunct /\ v.stat = r.stat /\ v.prio = r.prio
      /\ v.mask = r.mask /\ v.timers = r.timers /\ v.active = r.active
      /\ v.lock = r.lock
  BY <1>1, <1>3 DEF KernelState
<1> HIDE DEF v
<1>7. ListsHold(v, ReadyBut(r, L))
  BY <1>1, <1>6 DEF ListsHold
<1>8. LifeKernel(v, L)
  BY <1>6, <1>7, SameStatLife DEF SameThreads
<1>9. Chosen(v, L)
  BY <1>4, <1>6 DEF Chosen, ReadyBut
<1>10. QED BY <1>5, <1>6, <1>8, <1>9

\* Fields that no list depends on.
LEMMA LifeReads ==
  ASSUME NEW r, NEW L, LifeKernel(r, L), NEW v \in KernelState,
         v.table = r.table, v.group = r.group, v.defunct = r.defunct,
         v.stat = r.stat, v.prio = r.prio, v.mask = r.mask,
         v.timers = r.timers, v.active = r.active, v.lock = r.lock
  PROVE  LifeKernel(v, L)
<1>1. ListsHold(v, ReadyBut(r, L))
  BY DEF LifeKernel, ListsHold
<1>2. QED BY <1>1, SameStatLife DEF SameThreads

LEMMA LifeErrorCleared ==
  ASSUME NEW r, NEW L, LifeKernel(r, L), NEW t \in Thread, NEW e \in Error
  PROVE  LET v == [r EXCEPT !.error[t] = e]
         IN  /\ LifeKernel(v, L) /\ v.current = r.current
             /\ v.stat = r.stat /\ v.active = r.active /\ v.defunct = r.defunct
<1> DEFINE v == [r EXCEPT !.error[t] = e]
<1>1. r \in KernelState
  BY LifeFields
<1>2. /\ v \in KernelState /\ v.current = r.current
      /\ v.table = r.table /\ v.group = r.group
      /\ v.defunct = r.defunct /\ v.stat = r.stat /\ v.prio = r.prio
      /\ v.mask = r.mask /\ v.timers = r.timers /\ v.active = r.active
      /\ v.lock = r.lock
  BY <1>1 DEF KernelState
<1> HIDE DEF v
<1>3. QED BY <1>2, LifeReads DEF v

\* rt_thread_yield, and the end of a time slice, of a thread on its ready list.
LEMMA LifeYield ==
  ASSUME NEW r, NEW L, LifeKernel(r, L), may_yield(r), r.current \notin L
  PROVE  LET v == yield_rotate(r)
         IN  /\ LifeKernel(v, L) /\ v.current = r.current
             /\ v.stat = r.stat /\ v.active = r.active /\ v.defunct = r.defunct
<1> DEFINE t == r.current
           u == rt_list_remove(r, t)
           p == r.prio[t]
           q == Append(u.table[p], t)
           v == [u EXCEPT !.table[p] = q]
           R == ReadyBut(r, L)
<1>0. /\ r \in KernelState /\ t \in Thread /\ t \in R /\ p \in Priority /\ R \in SUBSET Thread
      /\ ListsHold(r, R) /\ ListsInjective(r)
  BY LifeFields, HeldInjective DEF may_yield, ReadyBut
<1>1. yield_rotate(r) = v
  BY DEF yield_rotate
<1>d. t \notin ToSet(r.defunct)
  BY <1>0 DEF LifeKernel, may_yield
<1>p. r.prio[t] = p /\ r.current = t
  OBVIOUS
<1> HIDE DEF t, p, R
<1>2. /\ u \in KernelState
      /\ \A x \in Priority : /\ IsInjective(u.table[x])
                             /\ ToSet(u.table[x]) = ToSet(r.table[x]) \ {t}
      /\ u.group = r.group /\ u.stat = r.stat /\ u.prio = r.prio
      /\ u.mask = r.mask /\ u.timers = r.timers /\ u.active = r.active
      /\ u.current = r.current /\ u.lock = r.lock
  BY <1>0, ListRemove
<1>3. u.defunct = r.defunct
  <2>1. u.defunct = RemoveFirst(r.defunct, t) /\ r.defunct \in Seq(Thread)
    BY <1>0, LifeFields DEF rt_list_remove, KernelState
  <2>2. QED BY <1>d, <2>1, RemoveAbsent
<1> HIDE DEF u
<1>4. q \in Seq(Thread) /\ IsInjective(q) /\ ToSet(q) = (ToSet(r.table[p]) \ {t}) \cup {t}
  <2>1. u.table[p] \in Seq(Thread)
    BY <1>0, <1>2, Fields
  <2>2. t \notin ToSet(u.table[p])
    BY <1>0, <1>2
  <2>3. QED BY <1>0, <1>2, <2>1, <2>2, AppendNew
<1> HIDE DEF q
<1>5. /\ v \in KernelState /\ v.table = [u.table EXCEPT ![p] = q]
      /\ v.group = r.group /\ v.defunct = r.defunct
      /\ v.stat = r.stat /\ v.prio = r.prio /\ v.mask = r.mask
      /\ v.timers = r.timers /\ v.active = r.active
      /\ v.current = r.current /\ v.lock = r.lock
  BY <1>0, <1>2, <1>3, <1>4 DEF KernelState
<1> HIDE DEF v
<1>6. \A x \in Priority : ToSet(r.table[x]) = {y \in R : r.prio[y] = x}
  BY <1>0 DEF ListsHold
<1>7. \A x \in Priority : /\ IsInjective(v.table[x])
                          /\ ToSet(v.table[x]) = ToSet(r.table[x])
  <2> TAKE x \in Priority
  <2>1. v.table[x] = IF x = p THEN q ELSE u.table[x]
    BY <1>0, <1>2, <1>5, Fields
  <2>2. CASE x = p
    <3>1. t \in ToSet(r.table[p])
      BY <1>0, <1>6, <1>p
    <3>2. QED BY <1>4, <2>1, <2>2, <3>1
  <2>3. CASE x # p
    <3>1. t \notin ToSet(r.table[x])
      BY <1>6, <1>p, <2>3
    <3>2. ToSet(r.table[x]) \ {t} = ToSet(r.table[x])
      BY <3>1
    <3>3. QED BY <1>2, <2>1, <2>3, <3>2
  <2>4. QED BY <2>2, <2>3
<1>8. \A x \in Priority : v.table[x] = << >> <=> r.table[x] = << >>
  <2>1. \A x \in Priority : r.table[x] \in Seq(Thread) /\ v.table[x] \in Seq(Thread)
    BY <1>0, <1>5, Fields
  <2>2. QED BY <1>7, <2>1, EmptyThreadList
<1>9. ListsHold(v, R)
  BY <1>0, <1>5, <1>7, <1>8 DEF ListsHold
<1>10. LifeKernel(v, L)
  BY <1>5, <1>9, SameStatLife DEF SameThreads, R
<1>11. QED BY <1>1, <1>5, <1>10

\* rt_tick_increase.
LEMMA LifeTick ==
  ASSUME NEW r, NEW L, LifeKernel(r, L), r.current \notin L
  PROVE  LET v == tick_increase(r)
         IN  /\ LifeKernel(v, L) /\ (v.current = r.current \/ Chosen(v, L))
             /\ v.stat = r.stat /\ v.active = r.active /\ v.defunct = r.defunct
<1> DEFINE t == r.current
           u == [r EXCEPT !.tick = (@ + 1) % TickMod,
                          !.remaining[t] = IF @ = 1 THEN init_tick[t] ELSE @ - 1]
           y == yield_rotate(u)
<1>0. r \in KernelState
  BY LifeFields
<1>1. (r.tick + 1) % TickMod \in Tick
  BY <1>0, Fields, KernelAssumption DEF Tick
<1>2. (IF r.remaining[t] = 1 THEN init_tick[t] ELSE r.remaining[t] - 1) \in Nat \ {0}
  BY <1>0, Fields, KernelAssumption
<1>3. /\ u \in KernelState
      /\ u.table = r.table /\ u.group = r.group
      /\ u.defunct = r.defunct /\ u.stat = r.stat /\ u.prio = r.prio
      /\ u.mask = r.mask /\ u.timers = r.timers /\ u.active = r.active
      /\ u.current = r.current /\ u.lock = r.lock
  BY <1>0, <1>1, <1>2 DEF KernelState
<1>4. tick_increase(r) = IF r.remaining[t] = 1 /\ may_yield(r) THEN rt_schedule(y) ELSE u
  BY DEF tick_increase
<1> HIDE DEF u
<1>5. LifeKernel(u, L)
  BY <1>3, LifeReads
<1>6. CASE may_yield(r)
  <2>1. may_yield(u)
    BY <1>3, <1>6 DEF may_yield
  <2>2. /\ LifeKernel(y, L) /\ y.current = u.current
        /\ y.stat = u.stat /\ y.active = u.active /\ y.defunct = u.defunct
    BY <1>3, <1>5, <2>1, LifeYield
  <2> HIDE DEF y
  <2>3. LET v == rt_schedule(y)
        IN  /\ LifeKernel(v, L) /\ Chosen(v, L)
            /\ v.stat = y.stat /\ v.active = y.active /\ v.defunct = y.defunct
    BY <2>2, LifeSchedule
  <2>4. QED BY <1>3, <1>4, <1>5, <2>2, <2>3
<1>7. CASE ~ may_yield(r)
  BY <1>3, <1>4, <1>5, <1>7
<1>8. QED BY <1>6, <1>7
-----------------------------------------------------------------------------
\* [r EXCEPT !.stat[t] = s], when t is on no ready list before and after.
LEMMA SetStat ==
  ASSUME NEW r \in KernelState, NEW t \in Thread, NEW s \in Stat
  PROVE  LET v == [r EXCEPT !.stat[t] = s]
         IN  /\ v \in KernelState /\ v.stat = [r.stat EXCEPT ![t] = s]
             /\ v.table = r.table /\ v.group = r.group /\ v.defunct = r.defunct
             /\ v.prio = r.prio /\ v.mask = r.mask /\ v.timers = r.timers
             /\ v.active = r.active /\ v.current = r.current /\ v.lock = r.lock
             /\ v.error = r.error /\ v.timeout = r.timeout /\ v.tick = r.tick
             /\ v.waitq = r.waitq /\ v.remaining = r.remaining
BY DEF KernelState

\* rt_thread_suspend of a ready thread, or the critical section of it.
LEMMA LifeSuspend ==
  ASSUME NEW r, NEW L, LifeKernel(r, L), NEW t \in ReadyBut(r, L), t # Idle
  PROVE  LET v == rt_timer_stop(
                    rt_schedule_remove_thread([r EXCEPT !.stat[t] = "SUSPEND"], t), t)
         IN  /\ LifeKernel(v, L) /\ v.current = r.current
             /\ v.stat = [r.stat EXCEPT ![t] = "SUSPEND"]
             /\ v.active = r.active /\ ToSet(v.defunct) = ToSet(r.defunct)
<1> DEFINE a == [r EXCEPT !.stat[t] = "SUSPEND"]
           b == rt_schedule_remove_thread(a, t)
           R == ReadyBut(r, L)
<1>0. /\ r \in KernelState /\ ListsHold(r, R) /\ R \in SUBSET Thread
      /\ t \in Thread /\ r.stat[t] = "READY" /\ r.stat \in [Thread -> Stat]
  BY LifeFields DEF ReadyBut
<1>d. t \notin ToSet(r.defunct) /\ t \notin r.active /\ r.mask[t] = {r.prio[t]}
  BY <1>0 DEF LifeKernel
<1>1. /\ a \in KernelState /\ a.stat = [r.stat EXCEPT ![t] = "SUSPEND"]
      /\ a.table = r.table /\ a.group = r.group /\ a.defunct = r.defunct
      /\ a.prio = r.prio /\ a.mask = r.mask /\ a.timers = r.timers
      /\ a.active = r.active /\ a.current = r.current /\ a.lock = r.lock
  BY <1>0, SetStat, ZenonT(60) DEF Stat
<1> HIDE DEF a
<1>2. ListsHold(a, R)
  BY <1>0, <1>1 DEF ListsHold
<1>m. a.mask[t] = {a.prio[t]} /\ R \in SUBSET Thread
  BY <1>0, <1>1, <1>d
<1>3. /\ b \in KernelState /\ ListsHold(b, R \ {t}) /\ SameThreads(a, b)
      /\ b.active = a.active /\ b.current = a.current
      /\ ToSet(b.defunct) = ToSet(a.defunct) \ {t}
  <2> HIDE DEF R
  <2>1. QED BY ONLY <1>0, <1>1, <1>2, <1>m, HeldRemoved, ZenonT(60)
<1> HIDE DEF b
<1>4. rt_timer_stop(b, t) = b
  BY <1>1, <1>3, <1>d DEF rt_timer_stop
<1>5. R \ {t} = ReadyBut(b, L)
  BY <1>0, <1>1, <1>3 DEF ReadyBut, SameThreads, R
<1>6. \A u \in Thread : b.stat[u] = IF u = t THEN "SUSPEND" ELSE r.stat[u]
  BY <1>0, <1>1, <1>3 DEF SameThreads
<1>7. ToSet(b.defunct) = ToSet(r.defunct)
  BY <1>1, <1>3, <1>d
<1>8. LifeKernel(b, L)
  <2>1. \A u \in Thread : b.stat[u] \in {"READY", "SUSPEND"} => b.mask[u] = {b.prio[u]}
    BY <1>0, <1>1, <1>3, <1>6 DEF LifeKernel, SameThreads
  <2>2. \A u \in b.active : b.stat[u] = "SUSPEND"
    BY <1>1, <1>3, <1>6, LifeFields DEF LifeKernel
  <2>3. \A u \in ToSet(b.defunct) : b.stat[u] = "CLOSE"
    BY <1>6, <1>7, <1>d, LifeFields DEF LifeKernel
  <2>4. b.stat[Idle] = "READY" /\ Idle \notin L /\ b.lock = 0
    BY <1>1, <1>3, <1>6, KernelAssumption DEF LifeKernel, SameThreads
  <2>5. QED BY <1>3, <1>5, <2>1, <2>2, <2>3, <2>4 DEF LifeKernel
<1>9. QED BY <1>1, <1>3, <1>4, <1>7, <1>8 DEF a, b, SameThreads

LEMMA LifeSuspendCall ==
  ASSUME NEW r, NEW L, LifeKernel(r, L), NEW t \in ReadyBut(r, L), t # Idle
  PROVE  LET v == rt_thread_suspend(r, t)
         IN  /\ LifeKernel(v, L) /\ v.current = r.current
             /\ v.stat = [r.stat EXCEPT ![t] = "SUSPEND"]
             /\ v.active = r.active /\ ToSet(v.defunct) = ToSet(r.defunct)
<1>1. r.stat[t] = "READY"
  BY DEF ReadyBut
<1>2. rt_thread_suspend(r, t) =
        rt_timer_stop(
          rt_schedule_remove_thread([r EXCEPT !.stat[t] = "SUSPEND"], t), t)
  BY <1>1 DEF rt_thread_suspend
<1>3. QED BY <1>2, LifeSuspend

\* rt_list_remove of a thread that is on no ready list.
LEMMA LifeUnlist ==
  ASSUME NEW r, NEW L, LifeKernel(r, L), NEW t \in Thread, t \notin ReadyBut(r, L)
  PROVE  LET v == rt_list_remove(r, t)
         IN  /\ LifeKernel(v, L) /\ v.current = r.current
             /\ v.stat = r.stat /\ v.active = r.active
             /\ ToSet(v.defunct) = ToSet(r.defunct) \ {t}
<1> DEFINE v == rt_list_remove(r, t)
<1>1. /\ v \in KernelState /\ ListsHold(v, ReadyBut(r, L)) /\ SameThreads(r, v)
      /\ v.active = r.active /\ v.current = r.current
      /\ ToSet(v.defunct) = ToSet(r.defunct) \ {t}
  BY LifeFields, HeldUnlinked
<1> HIDE DEF v
<1>2. LifeKernel(v, L)
  BY <1>1, SameStatLife
<1>3. QED BY <1>1, <1>2 DEF v, SameThreads

\* The first half of rt_thread_resume, of a thread whose timer does not run.
LEMMA LifeUnlink ==
  ASSUME NEW r, NEW L, LifeKernel(r, L), NEW t \in Thread, r.stat[t] = "SUSPEND",
         t \notin r.active
  PROVE  LET v == resume_unlink(r, t)
         IN  /\ LifeKernel(v, L) /\ v.current = r.current
             /\ v.stat = r.stat /\ v.active = r.active
             /\ ToSet(v.defunct) = ToSet(r.defunct)
<1> DEFINE v == rt_list_remove(r, t)
<1>1. t \notin ReadyBut(r, L) /\ t \notin ToSet(r.defunct)
  BY DEF ReadyBut, LifeKernel
<1>2. /\ LifeKernel(v, L) /\ v.current = r.current
      /\ v.stat = r.stat /\ v.active = r.active
      /\ ToSet(v.defunct) = ToSet(r.defunct) \ {t}
  BY <1>1, LifeUnlist
<1> HIDE DEF v
<1>3. resume_unlink(r, t) = v
  BY <1>2 DEF resume_unlink, rt_timer_stop, v
<1>4. QED BY <1>1, <1>2, <1>3

\* The other half of it.
LEMMA LifeInsert ==
  ASSUME NEW r, NEW L, LifeKernel(r, L), NEW t \in Thread \ L, r.stat[t] = "SUSPEND",
         t \notin r.active
  PROVE  LET v == rt_schedule_insert_thread(r, t)
         IN  /\ LifeKernel(v, L) /\ v.current = r.current
             /\ v.stat = [r.stat EXCEPT ![t] = "READY"]
             /\ v.active = r.active /\ v.defunct = r.defunct
<1> DEFINE v == rt_schedule_insert_thread(r, t)
           R == ReadyBut(r, L)
<1>1. /\ r \in KernelState /\ ListsHold(r, R) /\ R \in SUBSET Thread
      /\ t \notin R /\ r.mask[t] = {r.prio[t]} /\ t \notin ToSet(r.defunct)
      /\ r.stat \in [Thread -> Stat]
  BY LifeFields DEF ReadyBut, LifeKernel
<1>2. /\ v \in KernelState /\ ListsHold(v, R \cup {t})
      /\ v.stat = [r.stat EXCEPT ![t] = "READY"]
      /\ v.prio = r.prio /\ v.mask = r.mask /\ v.lock = r.lock
      /\ v.active = r.active /\ v.current = r.current /\ v.defunct = r.defunct
  BY <1>1, HeldInserted
<1> HIDE DEF v
<1>3. \A u \in Thread : v.stat[u] = IF u = t THEN "READY" ELSE r.stat[u]
  BY <1>1, <1>2
<1>4. R \cup {t} = ReadyBut(v, L)
  BY <1>3 DEF ReadyBut, R
<1>5. LifeKernel(v, L)
  <2>1. \A u \in Thread : v.stat[u] \in {"READY", "SUSPEND"} => v.mask[u] = {v.prio[u]}
    BY <1>1, <1>2, <1>3 DEF LifeKernel
  <2>2. \A u \in v.active : v.stat[u] = "SUSPEND"
    BY <1>2, <1>3, LifeFields DEF LifeKernel
  <2>3. \A u \in ToSet(v.defunct) : v.stat[u] = "CLOSE"
    BY <1>1, <1>2, <1>3, LifeFields DEF LifeKernel
  <2>4. v.stat[Idle] = "READY" /\ Idle \notin L /\ v.lock = 0
    BY <1>2, <1>3, KernelAssumption DEF LifeKernel
  <2>5. QED BY <1>2, <1>4, <2>1, <2>2, <2>3, <2>4 DEF LifeKernel
<1>6. QED BY <1>2, <1>5 DEF v

\* rt_thread_resume called by a handler on a thread whose timer does not run.
LEMMA LifeResume ==
  ASSUME NEW r, NEW L, LifeKernel(r, L), NEW t \in Thread \ L, r.stat[t] = "SUSPEND",
         t \notin r.active
  PROVE  LET v == rt_thread_resume(r, t)
         IN  /\ LifeKernel(v, L) /\ v.current = r.current
             /\ v.stat = [r.stat EXCEPT ![t] = "READY"]
             /\ v.active = r.active /\ ToSet(v.defunct) = ToSet(r.defunct)
<1> DEFINE u == resume_unlink(r, t)
<1>1. /\ LifeKernel(u, L) /\ u.current = r.current
      /\ u.stat = r.stat /\ u.active = r.active
      /\ ToSet(u.defunct) = ToSet(r.defunct)
  BY LifeUnlink
<1>2. rt_thread_resume(r, t) = rt_schedule_insert_thread(u, t)
  BY DEF rt_thread_resume
<1> HIDE DEF u
<1>3. LET v == rt_schedule_insert_thread(u, t)
      IN  /\ LifeKernel(v, L) /\ v.current = u.current
          /\ v.stat = [u.stat EXCEPT ![t] = "READY"]
          /\ v.active = u.active /\ v.defunct = u.defunct
  BY <1>1, LifeInsert
<1>4. QED BY <1>1, <1>2, <1>3

\* _rt_timer_remove on a timer that does not run.
LEMMA LifeTimerRemove ==
  ASSUME NEW r, NEW L, LifeKernel(r, L), NEW t \in Thread, t \notin r.active
  PROVE  LET v == _rt_timer_remove(r, t)
         IN  /\ LifeKernel(v, L) /\ v.current = r.current
             /\ v.stat = r.stat /\ v.active = r.active /\ v.defunct = r.defunct
<1> DEFINE v == _rt_timer_remove(r, t)
<1>1. r \in KernelState /\ IsInjective(r.timers) /\ ToSet(r.timers) = r.active
  BY DEF LifeKernel, ListsHold
<1>2. /\ v \in KernelState
      /\ IsInjective(v.timers) /\ ToSet(v.timers) = ToSet(r.timers) \ {t}
      /\ v.table = r.table /\ v.group = r.group
      /\ v.defunct = r.defunct /\ v.stat = r.stat /\ v.prio = r.prio
      /\ v.mask = r.mask /\ v.active = r.active
      /\ v.current = r.current /\ v.lock = r.lock
  BY <1>1, TimerRemove
<1> HIDE DEF v
<1>3. ToSet(v.timers) = v.active
  BY <1>1, <1>2
<1>4. ListsHold(v, ReadyBut(r, L))
  BY <1>2, <1>3 DEF LifeKernel, ListsHold
<1>5. LifeKernel(v, L)
  BY <1>2, <1>4, SameStatLife DEF SameThreads
<1>6. QED BY <1>2, <1>5 DEF v

\* rt_timer_start on the timer of a suspended thread.
LEMMA LifeTimerStart ==
  ASSUME NEW r, NEW L, LifeKernel(r, L), NEW t \in Thread, r.stat[t] = "SUSPEND",
         NEW time \in Nat
  PROVE  LET v == rt_timer_start(r, t, time)
         IN  /\ LifeKernel(v, L) /\ v.current = r.current
             /\ v.stat = r.stat /\ v.active = r.active \cup {t}
             /\ v.defunct = r.defunct
<1> DEFINE u == _rt_timer_remove(r, t)
           w == (r.tick + time) % TickMod
           i == FirstIndex(u.timers, LAMBDA x : Later(r, x, w))
           q == InsertAt(u.timers, i, t)
           v == [u EXCEPT !.timeout[t] = w, !.timers = q, !.active = @ \cup {t}]
<1>0. r \in KernelState /\ IsInjective(r.timers) /\ ToSet(r.timers) = r.active
  BY DEF LifeKernel, ListsHold
<1>1. rt_timer_start(r, t, time) = v
  BY DEF rt_timer_start
<1>2. /\ u \in KernelState
      /\ IsInjective(u.timers) /\ ToSet(u.timers) = ToSet(r.timers) \ {t}
      /\ u.table = r.table /\ u.group = r.group
      /\ u.defunct = r.defunct /\ u.stat = r.stat /\ u.prio = r.prio
      /\ u.mask = r.mask /\ u.active = r.active
      /\ u.current = r.current /\ u.lock = r.lock
  BY <1>0, TimerRemove
<1> HIDE DEF u
<1>3. w \in Tick
  BY <1>0, Fields, KernelAssumption DEF Tick
<1> HIDE DEF w
<1>4. u.timers \in Seq(Thread) /\ i \in 1 .. Len(u.timers) + 1
  <2>1. u.timers \in Seq(Thread) /\ Len(u.timers) \in Nat
    BY <1>2, Fields
  <2>2. QED BY <2>1, FirstIndexProperties
<1> HIDE DEF i
<1>5. q \in Seq(Thread) /\ IsInjective(q) /\ ToSet(q) = r.active \cup {t}
  BY <1>0, <1>2, <1>4, InsertNew
<1> HIDE DEF q
<1>6. /\ v \in KernelState /\ v.timers = q /\ v.active = r.active \cup {t}
      /\ v.table = r.table /\ v.group = r.group
      /\ v.defunct = r.defunct /\ v.stat = r.stat /\ v.prio = r.prio
      /\ v.mask = r.mask /\ v.current = r.current /\ v.lock = r.lock
  BY <1>2, <1>3, <1>5 DEF KernelState
<1> HIDE DEF v
<1>7. ListsHold(v, ReadyBut(r, L))
  BY <1>5, <1>6 DEF LifeKernel, ListsHold
<1>8. ReadyBut(v, L) = ReadyBut(r, L)
  BY <1>6 DEF ReadyBut
<1>9. LifeKernel(v, L)
  BY <1>6, <1>7, <1>8 DEF LifeKernel
<1>10. QED BY <1>1, <1>6, <1>9

\* rt_thread_sleep: suspend and start the timer.
LEMMA LifeSleep ==
  ASSUME NEW r, NEW L, LifeKernel(r, L), NEW t \in ReadyBut(r, L), t # Idle,
         NEW time \in Nat
  PROVE  LET v == rt_timer_start(rt_thread_suspend(r, t), t, time)
         IN  /\ LifeKernel(v, L) /\ v.current = r.current
             /\ v.stat = [r.stat EXCEPT ![t] = "SUSPEND"]
             /\ v.active = r.active \cup {t} /\ ToSet(v.defunct) = ToSet(r.defunct)
<1> DEFINE u == rt_thread_suspend(r, t)
<1>1. /\ LifeKernel(u, L) /\ u.current = r.current
      /\ u.stat = [r.stat EXCEPT ![t] = "SUSPEND"]
      /\ u.active = r.active /\ ToSet(u.defunct) = ToSet(r.defunct)
  BY LifeSuspendCall
<1> HIDE DEF u
<1>2. t \in Thread /\ u.stat[t] = "SUSPEND"
  BY <1>1, LifeFields DEF ReadyBut
<1>3. LET v == rt_timer_start(u, t, time)
      IN  /\ LifeKernel(v, L) /\ v.current = u.current
          /\ v.stat = u.stat /\ v.active = u.active \cup {t}
          /\ v.defunct = u.defunct
  BY ONLY <1>1, <1>2, time \in Nat, LifeTimerStart, ZenonT(60)
<1>4. QED BY <1>1, <1>3 DEF u
-----------------------------------------------------------------------------
\* One round of rt_timer_check: a thread wakes by itself.
LEMMA LifeExpire ==
  ASSUME NEW r, NEW L, LifeKernel(r, L), r.timers # << >>, r.active \cap L = {}
  PROVE  LET v == timer_expire(r)
         IN  /\ LifeKernel(v, L) /\ Chosen(v, L)
             /\ Head(r.timers) \in r.active
             /\ v.stat = [r.stat EXCEPT ![Head(r.timers)] = "READY"]
             /\ v.active = r.active \ {Head(r.timers)}
             /\ ToSet(v.defunct) = ToSet(r.defunct)
<1> DEFINE t == Head(r.timers)
           a == _rt_timer_remove(r, t)
           b == [a EXCEPT !.error[t] = "ETIMEOUT"]
           c == rt_list_remove(b, t)
           d == rt_schedule_insert_thread(c, t)
           e == rt_schedule(d)
           v == [e EXCEPT !.active = @ \ {t}]
           R == ReadyBut(r, L)
<1>0. /\ r \in KernelState /\ IsInjective(r.timers) /\ ToSet(r.timers) = r.active
      /\ r.timers \in Seq(Thread) /\ ListsHold(r, R) /\ R \in SUBSET Thread
      /\ r.stat \in [Thread -> Stat]
  BY LifeFields, Fields DEF LifeKernel, ListsHold
<1>1. timer_expire(r) = v
  BY DEF timer_expire, rt_thread_timeout
<1>2. t \in r.active /\ t \in Thread \ L
  BY <1>0, HeadOfList
<1>3. r.stat[t] = "SUSPEND" /\ r.mask[t] = {r.prio[t]} /\ t \notin R
      /\ t \notin ToSet(r.defunct)
  BY <1>2 DEF LifeKernel, ReadyBut
<1> HIDE DEF t
<1>4. /\ a \in KernelState
      /\ IsInjective(a.timers) /\ ToSet(a.timers) = r.active \ {t}
      /\ a.table = r.table /\ a.group = r.group
      /\ a.defunct = r.defunct /\ a.stat = r.stat /\ a.prio = r.prio
      /\ a.mask = r.mask /\ a.active = r.active
      /\ a.current = r.current /\ a.lock = r.lock
  BY <1>0, <1>2, TimerRemove, ZenonT(60)
<1> HIDE DEF a
<1>5. /\ b \in KernelState /\ b.timers = a.timers
      /\ b.table = r.table /\ b.group = r.group
      /\ b.defunct = r.defunct /\ b.stat = r.stat /\ b.prio = r.prio
      /\ b.mask = r.mask /\ b.active = r.active
      /\ b.current = r.current /\ b.lock = r.lock
  BY <1>2, <1>4 DEF KernelState, Error
<1> HIDE DEF b
\* The flag of the timer is cleared last: f clears it first, so that no thread
\* with a running timer is ready in between.
<1> DEFINE f(x) == [x EXCEPT !.active = r.active \ {t}]
<1>6. /\ f(b) \in KernelState /\ LifeKernel(f(b), L) /\ f(b).current = r.current
      /\ f(b).stat = r.stat /\ f(b).active = r.active \ {t} /\ f(b).defunct = r.defunct
  <2> DEFINE g == f(b)
  <2>1. /\ g \in KernelState /\ g.timers = a.timers /\ g.active = r.active \ {t}
        /\ g.table = r.table /\ g.group = r.group
        /\ g.defunct = r.defunct /\ g.stat = r.stat /\ g.prio = r.prio
        /\ g.mask = r.mask /\ g.current = r.current /\ g.lock = r.lock
    BY <1>0, <1>5, LifeFields DEF KernelState
  <2> HIDE DEF g
  <2>2. ListsHold(g, R)
    BY <1>0, <1>4, <2>1 DEF ListsHold
  <2>3. LifeKernel(g, L)
    BY <2>1, <2>2, SameStatLife DEF SameThreads
  <2>4. QED BY <2>1, <2>3 DEF g
<1>7. /\ LifeKernel(f(c), L) /\ f(c).current = r.current
      /\ f(c).stat = r.stat /\ f(c).active = r.active \ {t}
      /\ ToSet(f(c).defunct) = ToSet(r.defunct)
  <2> DEFINE g == f(b)
  <2>1. f(c) = rt_list_remove(g, t)
    BY <1>5 DEF rt_list_remove, KernelState
  <2> HIDE DEF f, g
  <2>2. /\ LifeKernel(g, L) /\ g.stat = r.stat /\ g.current = r.current
        /\ g.active = r.active \ {t} /\ g.defunct = r.defunct
    BY <1>6 DEF g
  <2>3. t \in Thread /\ t \notin ReadyBut(g, L)
    BY <1>2, <1>3, <2>2 DEF ReadyBut
  <2>4. LET w == rt_list_remove(g, t)
        IN  /\ LifeKernel(w, L) /\ w.current = g.current
            /\ w.stat = g.stat /\ w.active = g.active
            /\ ToSet(w.defunct) = ToSet(g.defunct) \ {t}
    BY <2>2, <2>3, LifeUnlist
  <2>5. QED BY <1>3, <2>1, <2>2, <2>4
<1>c. c \in KernelState
  <2>1. ListsInjective(b)
    BY <1>0, <1>5, ThreadLifeAssumption DEF ListsHold, ListsInjective
  <2>2. QED BY <1>2, <1>5, <2>1, ListRemove
<1> HIDE DEF c
<1>8. /\ LifeKernel(f(d), L) /\ f(d).current = r.current
      /\ f(d).stat = [r.stat EXCEPT ![t] = "READY"] /\ f(d).active = r.active \ {t}
      /\ ToSet(f(d).defunct) = ToSet(r.defunct)
  <2> DEFINE g == f(c)
  <2>1. f(d) = rt_schedule_insert_thread(g, t)
    BY <1>c DEF rt_schedule_insert_thread, KernelState
  <2> HIDE DEF f
  <2>2. /\ LifeKernel(g, L) /\ g.stat = r.stat /\ g.current = r.current
        /\ g.active = r.active \ {t} /\ ToSet(g.defunct) = ToSet(r.defunct)
    BY <1>7
  <2> HIDE DEF g
  <2>3. t \in Thread \ L /\ g.stat[t] = "SUSPEND" /\ t \notin g.active
    BY <1>2, <1>3, <2>2
  <2>4. LET w == rt_schedule_insert_thread(g, t)
        IN  /\ LifeKernel(w, L) /\ w.current = g.current
            /\ w.stat = [g.stat EXCEPT ![t] = "READY"]
            /\ w.active = g.active /\ w.defunct = g.defunct
    BY <2>2, <2>3, LifeInsert
  <2>5. QED BY <2>1, <2>2, <2>4
<1>d. d \in KernelState /\ d.active = r.active
  <2>1. c.active = r.active
    BY <1>5 DEF c, rt_list_remove, KernelState
  <2>2. /\ c.prio[t] \in Priority /\ c.table[c.prio[t]] \in Seq(Thread)
        /\ c.group \cup c.mask[t] \in SUBSET Priority
    BY <1>2, <1>c, Fields
  <2> DEFINE q == Append(c.table[c.prio[t]], t)
             g == c.group \cup c.mask[t]
  <2>3. q \in Seq(Thread) /\ g \in SUBSET Priority
    BY <1>2, <2>2
  <2>4. d = [c EXCEPT !.stat[t] = "READY", !.table[c.prio[t]] = q, !.group = g]
    BY <1>c DEF rt_schedule_insert_thread, KernelState
  <2> HIDE DEF d, q, g
  <2>5. QED BY <1>c, <2>1, <2>3, <2>4 DEF KernelState, Stat
<1> HIDE DEF d
<1>9. v = rt_schedule(f(d))
  BY <1>d, <1>8 DEF rt_schedule, highest_ready_priority, KernelState
<1> HIDE DEF f
<1>10. LET w == rt_schedule(f(d))
       IN  /\ LifeKernel(w, L) /\ Chosen(w, L)
           /\ w.stat = f(d).stat /\ w.active = f(d).active /\ w.defunct = f(d).defunct
  BY <1>8, LifeSchedule
<1>11. QED BY <1>1, <1>2, <1>8, <1>9, <1>10 DEF t

-----------------------------------------------------------------------------
\* The steps of rt_thread_delete: off its list, and then closed.
LEMMA LifeTakeOff ==
  ASSUME NEW r, NEW L, LifeKernel(r, L), NEW t \in Thread, t # Idle,
         r.stat[t] \in {"READY", "SUSPEND"}
  PROVE  LET v == rt_schedule_remove_thread(r, t)
         IN  /\ LifeKernel(v, L \cup {t}) /\ v.current = r.current
             /\ v.stat = r.stat /\ v.active = r.active
             /\ ToSet(v.defunct) = ToSet(r.defunct)
<1> DEFINE v == rt_schedule_remove_thread(r, t)
           R == ReadyBut(r, L)
<1>1. /\ r \in KernelState /\ ListsHold(r, R) /\ R \in SUBSET Thread
      /\ r.mask[t] = {r.prio[t]} /\ t \notin ToSet(r.defunct)
  BY LifeFields DEF LifeKernel
<1>2. /\ v \in KernelState /\ ListsHold(v, R \ {t}) /\ SameThreads(r, v)
      /\ v.active = r.active /\ v.current = r.current
      /\ ToSet(v.defunct) = ToSet(r.defunct) \ {t}
  <2> HIDE DEF R
  <2>1. QED BY ONLY <1>1, t \in Thread, HeldRemoved
<1> HIDE DEF v
<1>3. R \ {t} = ReadyBut(v, L \cup {t})
  BY <1>2 DEF ReadyBut, R, SameThreads
<1>4. ToSet(v.defunct) = ToSet(r.defunct)
  BY <1>1, <1>2
<1>5. LifeKernel(v, L \cup {t})
  BY <1>2, <1>3, <1>4 DEF LifeKernel, SameThreads
<1>6. QED BY <1>2, <1>4, <1>5 DEF v, SameThreads

LEMMA LifeLeaves ==
  ASSUME NEW r, NEW L, LifeKernel(r, L), NEW t \in Thread, t # Idle,
         r.stat[t] = "INIT"
  PROVE  LifeKernel(r, L \cup {t})
<1>1. ReadyBut(r, L \cup {t}) = ReadyBut(r, L)
  BY DEF ReadyBut
<1>2. QED BY <1>1 DEF LifeKernel

LEMMA LifeClose ==
  ASSUME NEW r, NEW L, LifeKernel(r, L), NEW t \in Thread, t # Idle,
         t \notin ReadyBut(r, L), t \notin r.active
  PROVE  LET v == [r EXCEPT !.stat[t] = "CLOSE"]
         IN  /\ LifeKernel(v, L \ {t}) /\ v.current = r.current
             /\ v.stat = [r.stat EXCEPT ![t] = "CLOSE"]
             /\ v.active = r.active /\ v.defunct = r.defunct
<1> DEFINE v == [r EXCEPT !.stat[t] = "CLOSE"]
<1>0. r \in KernelState /\ r.stat \in [Thread -> Stat] /\ ListsHold(r, ReadyBut(r, L))
  BY LifeFields
<1>1. /\ v \in KernelState /\ v.stat = [r.stat EXCEPT ![t] = "CLOSE"]
      /\ v.table = r.table /\ v.group = r.group /\ v.defunct = r.defunct
      /\ v.prio = r.prio /\ v.mask = r.mask /\ v.timers = r.timers
      /\ v.active = r.active /\ v.current = r.current /\ v.lock = r.lock
  BY <1>0, SetStat, ZenonT(60) DEF Stat
<1> HIDE DEF v
<1>2. \A u \in Thread : v.stat[u] = IF u = t THEN "CLOSE" ELSE r.stat[u]
  BY <1>0, <1>1
<1>3. ReadyBut(v, L \ {t}) = ReadyBut(r, L)
  BY <1>2 DEF ReadyBut
<1>4. ListsHold(v, ReadyBut(r, L))
  BY <1>0, <1>1 DEF ListsHold
<1>5. LifeKernel(v, L \ {t})
  <2>1. \A u \in Thread : v.stat[u] \in {"READY", "SUSPEND"} => v.mask[u] = {v.prio[u]}
    BY <1>1, <1>2 DEF LifeKernel
  <2>2. \A u \in v.active : v.stat[u] = "SUSPEND"
    BY <1>1, <1>2, LifeFields DEF LifeKernel
  <2>3. \A u \in ToSet(v.defunct) : v.stat[u] = "CLOSE"
    BY <1>1, <1>2, LifeFields DEF LifeKernel
  <2>4. v.stat[Idle] = "READY" /\ Idle \notin L \ {t} /\ v.lock = 0
    BY <1>1, <1>2, KernelAssumption DEF LifeKernel
  <2>5. QED BY <1>1, <1>3, <1>4, <2>1, <2>2, <2>3, <2>4 DEF LifeKernel
<1>6. QED BY <1>1, <1>5 DEF v

\* A closed thread is put at the head of rt_thread_defunct.
LEMMA LifeBury ==
  ASSUME NEW r, NEW L, LifeKernel(r, L), NEW t \in Thread, r.stat[t] = "CLOSE",
         t \notin ToSet(r.defunct)
  PROVE  LET v == [r EXCEPT !.defunct = <<t>> \o @]
         IN  /\ LifeKernel(v, L) /\ v.current = r.current
             /\ v.stat = r.stat /\ v.active = r.active
             /\ ToSet(v.defunct) = ToSet(r.defunct) \cup {t}
<1> DEFINE q == <<t>> \o r.defunct
           v == [r EXCEPT !.defunct = q]
<1>0. r \in KernelState /\ r.defunct \in Seq(Thread) /\ IsInjective(r.defunct)
  BY LifeFields DEF ListsHold
<1>1. q = InsertAt(r.defunct, 1, t)
  BY <1>0 DEF InsertAt
<1>2. q \in Seq(Thread) /\ IsInjective(q) /\ ToSet(q) = ToSet(r.defunct) \cup {t}
  <2>1. 1 \in 1 .. Len(r.defunct) + 1
    BY <1>0
  <2>2. LET w == InsertAt(r.defunct, 1, t)
        IN  w \in Seq(Thread) /\ IsInjective(w) /\ ToSet(w) = ToSet(r.defunct) \cup {t}
    BY ONLY <1>0, <2>1, t \in Thread, t \notin ToSet(r.defunct), InsertNew
  <2>3. QED BY <1>1, <2>2
<1> HIDE DEF q
<1>3. /\ v \in KernelState /\ v.defunct = q /\ v.stat = r.stat
      /\ v.table = r.table /\ v.group = r.group
      /\ v.prio = r.prio /\ v.mask = r.mask /\ v.timers = r.timers
      /\ v.active = r.active /\ v.current = r.current /\ v.lock = r.lock
  BY <1>0, <1>2 DEF KernelState
<1> HIDE DEF v
<1>4. ReadyBut(v, L) = ReadyBut(r, L)
  BY <1>3 DEF ReadyBut
<1>5. ListsHold(v, ReadyBut(r, L))
  BY <1>2, <1>3 DEF LifeKernel, ListsHold
<1>6. LifeKernel(v, L)
  BY <1>2, <1>3, <1>4, <1>5 DEF LifeKernel
<1>7. QED BY <1>2, <1>3, <1>6 DEF v, q

\* v is r with t as _rt_thread_init leaves it: priority p, bits m.
Created(r, v, t, p, m) ==
  /\ v \in KernelState
  /\ v.stat = [r.stat EXCEPT ![t] = "INIT"] /\ v.prio = [r.prio EXCEPT ![t] = p]
  /\ v.mask = [r.mask EXCEPT ![t] = m] /\ v.table = r.table /\ v.group = r.group
  /\ v.defunct = r.defunct /\ v.timers = r.timers /\ v.active = r.active
  /\ v.lock = r.lock

\* rt_thread_create of a thread that is closed, and rt_thread_startup.
LEMMA LifeCreate ==
  ASSUME NEW r, NEW L, LifeKernel(r, L), NEW t \in Thread, t # Idle,
         r.stat[t] = "CLOSE", t \notin ToSet(r.defunct),
         NEW p \in Priority, NEW m \in SUBSET Priority, NEW v, Created(r, v, t, p, m)
  PROVE  LifeKernel(v, L)
<1>0. /\ v \in KernelState
      /\ v.stat = [r.stat EXCEPT ![t] = "INIT"] /\ v.prio = [r.prio EXCEPT ![t] = p]
      /\ v.mask = [r.mask EXCEPT ![t] = m] /\ v.table = r.table /\ v.group = r.group
      /\ v.defunct = r.defunct /\ v.timers = r.timers /\ v.active = r.active
      /\ v.lock = r.lock
  BY DEF Created
<1>1. /\ r \in KernelState /\ ListsHold(r, ReadyBut(r, L)) /\ t \notin r.active
      /\ r.stat \in [Thread -> Stat] /\ r.prio \in [Thread -> Priority]
      /\ r.mask \in [Thread -> SUBSET Priority]
  BY LifeFields DEF LifeKernel
<1>2. \A u \in Thread : /\ v.stat[u] = IF u = t THEN "INIT" ELSE r.stat[u]
                        /\ v.prio[u] = IF u = t THEN p ELSE r.prio[u]
                        /\ v.mask[u] = IF u = t THEN m ELSE r.mask[u]
  BY <1>0, <1>1
<1>3. ReadyBut(v, L) = ReadyBut(r, L) /\ t \notin ReadyBut(r, L)
  BY <1>2 DEF ReadyBut
<1>4. ListsHold(v, ReadyBut(r, L))
  <2>1. \A x \in Priority : {u \in ReadyBut(r, L) : v.prio[u] = x}
                              = {u \in ReadyBut(r, L) : r.prio[u] = x}
    BY <1>2, <1>3 DEF ReadyBut
  <2>2. QED BY <1>0, <1>1, <2>1 DEF ListsHold
<1>5. LifeKernel(v, L)
  <2>1. \A u \in Thread : v.stat[u] \in {"READY", "SUSPEND"} => v.mask[u] = {v.prio[u]}
    BY <1>2 DEF LifeKernel
  <2>2. \A u \in v.active : v.stat[u] = "SUSPEND"
    BY <1>0, <1>1, <1>2, LifeFields DEF LifeKernel
  <2>3. \A u \in ToSet(v.defunct) : v.stat[u] = "CLOSE"
    BY <1>0, <1>2, LifeFields DEF LifeKernel
  <2>4. v.stat[Idle] = "READY" /\ Idle \notin L /\ v.lock = 0
    BY <1>0, <1>2, KernelAssumption DEF LifeKernel
  <2>5. QED BY <1>0, <1>3, <1>4, <2>1, <2>2, <2>3, <2>4 DEF LifeKernel
<1>6. QED BY <1>5

LEMMA LifeStartup ==
  ASSUME NEW r, NEW L, LifeKernel(r, L), NEW t \in Thread, r.stat[t] = "INIT",
         NEW p \in Priority, NEW v \in KernelState,
         v.stat = [r.stat EXCEPT ![t] = "SUSPEND"], v.prio = [r.prio EXCEPT ![t] = p],
         v.mask = [r.mask EXCEPT ![t] = {p}], v.table = r.table, v.group = r.group,
         v.defunct = r.defunct, v.timers = r.timers, v.active = r.active, v.lock = r.lock
  PROVE  LifeKernel(v, L)
<1>0. /\ r \in KernelState /\ ListsHold(r, ReadyBut(r, L))
      /\ r.stat \in [Thread -> Stat] /\ r.prio \in [Thread -> Priority]
      /\ r.mask \in [Thread -> SUBSET Priority]
      /\ t # Idle /\ t \notin ToSet(r.defunct)
  BY LifeFields DEF LifeKernel
<1>2. \A u \in Thread : /\ v.stat[u] = IF u = t THEN "SUSPEND" ELSE r.stat[u]
                        /\ v.prio[u] = IF u = t THEN p ELSE r.prio[u]
                        /\ v.mask[u] = IF u = t THEN {p} ELSE r.mask[u]
  BY <1>0
<1>3. ReadyBut(v, L) = ReadyBut(r, L) /\ t \notin ReadyBut(r, L)
  BY <1>2 DEF ReadyBut
<1>4. ListsHold(v, ReadyBut(r, L))
  <2>1. \A x \in Priority : {u \in ReadyBut(r, L) : v.prio[u] = x}
                              = {u \in ReadyBut(r, L) : r.prio[u] = x}
    BY <1>2, <1>3 DEF ReadyBut
  <2>2. QED BY <1>0, <2>1 DEF ListsHold
<1>5. LifeKernel(v, L)
  <2>1. \A u \in Thread : v.stat[u] \in {"READY", "SUSPEND"} => v.mask[u] = {v.prio[u]}
    BY <1>2 DEF LifeKernel
  <2>2. \A u \in v.active : v.stat[u] = "SUSPEND"
    BY <1>2, LifeFields DEF LifeKernel
  <2>3. \A u \in ToSet(v.defunct) : v.stat[u] = "CLOSE"
    BY <1>0, <1>2, LifeFields DEF LifeKernel
  <2>4. v.stat[Idle] = "READY" /\ Idle \notin L /\ v.lock = 0
    BY <1>0, <1>2, KernelAssumption DEF LifeKernel
  <2>5. QED BY <1>3, <1>4, <2>1, <2>2, <2>3, <2>4 DEF LifeKernel
<1>6. QED BY <1>5 

\* rt_thread_exit: off the ready list, closed, and the timer taken off.
LEMMA LifeExit ==
  ASSUME NEW r, NEW L, LifeKernel(r, L), NEW t \in ReadyBut(r, L), t # Idle
  PROVE  LET v == _rt_timer_remove(
                    [rt_schedule_remove_thread(r, t) EXCEPT !.stat[t] = "CLOSE"], t)
         IN  /\ LifeKernel(v, L) /\ v.current = r.current
             /\ v.stat = [r.stat EXCEPT ![t] = "CLOSE"]
             /\ v.active = r.active /\ ToSet(v.defunct) = ToSet(r.defunct)
<1> DEFINE a == rt_schedule_remove_thread(r, t)
           b == [a EXCEPT !.stat[t] = "CLOSE"]
<1>0. t \in Thread /\ r.stat[t] = "READY" /\ t \notin L /\ t \notin r.active
  BY LifeFields DEF ReadyBut, LifeKernel
<1>1. /\ LifeKernel(a, L \cup {t}) /\ a.current = r.current
      /\ a.stat = r.stat /\ a.active = r.active
      /\ ToSet(a.defunct) = ToSet(r.defunct)
  BY <1>0, LifeTakeOff
<1> HIDE DEF a
<1>2. t \notin ReadyBut(a, L \cup {t}) /\ t \notin a.active /\ (L \cup {t}) \ {t} = L
  BY <1>0, <1>1 DEF ReadyBut
<1>3. /\ LifeKernel(b, L) /\ b.current = a.current
      /\ b.stat = [a.stat EXCEPT ![t] = "CLOSE"]
      /\ b.active = a.active /\ b.defunct = a.defunct
  <2>1. LET w == [a EXCEPT !.stat[t] = "CLOSE"]
        IN  /\ LifeKernel(w, (L \cup {t}) \ {t}) /\ w.current = a.current
            /\ w.stat = [a.stat EXCEPT ![t] = "CLOSE"]
            /\ w.active = a.active /\ w.defunct = a.defunct
    BY ONLY <1>0, <1>1, <1>2, t # Idle, LifeClose
  <2>2. QED BY <1>2, <2>1
<1> HIDE DEF b
<1>4. LET w == _rt_timer_remove(b, t)
      IN  /\ LifeKernel(w, L) /\ w.current = b.current
          /\ w.stat = b.stat /\ w.active = b.active /\ w.defunct = b.defunct
  BY <1>0, <1>1, <1>3, LifeTimerRemove
<1>5. QED BY <1>1, <1>3, <1>4 DEF a, b
-----------------------------------------------------------------------------
(***************************************************************************)
(* The inductive invariant: where a thread is inside a call on another one,*)
(* what the call relies on holds of that thread at every point of it.      *)
(***************************************************************************)
Resuming == {"startup", "resume", "insert", "start"}
Deleting == {"detach_timer", "close"}
Burying  == {"bury", "free", "delete"}
Inside   == Resuming \cup {"suspend"} \cup Deleting \cup Burying

\* A thread some call is about is inside no call and in no other call.
TargetsApart(f) ==
  /\ \A t \in Thread : f[f[t]] = f[t]
  /\ \A t, v \in Thread : f[t] # t /\ f[v] = f[t] => v = t \/ v = f[t]

\* What a call at this point still has to find.
Expects(point, stat) ==
  /\ point \in Resuming => stat = "SUSPEND"
  /\ point = "suspend" => stat = "READY"
  /\ point \in Deleting => stat # "CLOSE"
  /\ point \in Burying => stat = "CLOSE"

PointAgrees(t) ==
  /\ pc[t] \in Inside <=> target[t] # t
  /\ pc[t] \in Inside =>
       /\ target[t] # Idle /\ target[t] \notin k.active
       /\ target[t] \in registered /\ target[t] \notin ToSet(k.defunct)
       /\ Expects(pc[t], k.stat[target[t]])
  /\ pc[t] \in {"free", "delete"} => t = Idle /\ target[t] \notin Static
  /\ pc[t] = "dead" \/ cont[t] = "dead" => k.stat[t] = "CLOSE"
  /\ pc[t] # "sched" => cont[t] = "run"

\* Who is no object any more, or about to be none, is closed and in no call.
Accounted(u) ==
  /\ u \notin registered => k.stat[u] = "CLOSE" /\ u \notin ToSet(k.defunct)
  /\ u \notin registered \/ u \in ToSet(k.defunct) => target[u] = u
  /\ u \notin stack => k.stat[u] = "CLOSE"
  /\ lives[u] - buried[u] = IF u \in registered THEN 1 ELSE 0

CurrentLives ==
  /\ k.current \notin Leaving /\ k.current \in stack
  /\ pc[k.current] # "sched" => k.stat[k.current] = "READY"

LifeTypes ==
  /\ pc \in [Thread -> Points] /\ cont \in [Thread -> {"run", "slept", "dead"}]
  /\ target \in [Thread -> Thread]
  /\ registered \in SUBSET Thread /\ stack \in SUBSET Thread
  /\ lives \in [Thread -> Nat] /\ buried \in [Thread -> Nat]
  /\ \A t \in Thread : lives[t] \in 1 .. MaxLives[t]
  /\ primask \in BOOLEAN /\ systick \in BOOLEAN /\ device \in BOOLEAN

LifeInv ==
  /\ LifeTypes /\ LifeKernel(k, Leaving) /\ TargetsApart(target)
  /\ \A t \in Thread : PointAgrees(t)
  /\ \A u \in Thread : Accounted(u)
  /\ CurrentLives

-----------------------------------------------------------------------------
LEMMA TypedPoints ==
  ASSUME LifeTypes
  PROVE  /\ \A t \in Thread : pc[t] \in Points /\ target[t] \in Thread
         /\ \A t \in Thread : cont[t] \in {"run", "slept", "dead"}
         /\ Leaving \in SUBSET Thread
BY DEF LifeTypes, Leaving

LEMMA InLeaving ==
  Leaving = {target[t] : t \in {u \in Thread : pc[u] \in Deleting}}
BY DEF Leaving, Deleting

\* The thread that runs, and is not about to call rt_schedule.
LEMMA Runs ==
  ASSUME LifeInv, NEW t \in Thread, Running(t), pc[t] # "sched"
  PROVE  /\ t \in ReadyBut(k, Leaving) /\ k.stat[t] = "READY" /\ t \notin Leaving
         /\ t \in registered /\ t \in stack /\ t \notin ToSet(k.defunct)
         /\ t \notin k.active /\ k.current = t
<1>1. k.current = t /\ k.stat[t] = "READY" /\ t \notin Leaving /\ t \in stack
  BY DEF LifeInv, CurrentLives, Running
<1>2. t \in ReadyBut(k, Leaving)
  BY <1>1 DEF ReadyBut
<1>3. t \in registered
  BY <1>1 DEF LifeInv, Accounted
<1>4. t \notin ToSet(k.defunct) /\ t \notin k.active
  BY <1>1 DEF LifeInv, LifeKernel
<1>5. QED BY <1>1, <1>2, <1>3, <1>4

\* Nobody but t itself has t for a target.
LEMMA NotDisturbed ==
  ASSUME NEW u \in Thread, Undisturbed(u)
  PROVE  \A v \in Thread : target[v] = u => v = u
BY DEF Undisturbed

LEMMA AtRest ==
  ASSUME LifeInv, NEW t \in Thread, pc[t] \notin Inside
  PROVE  target[t] = t
BY DEF LifeInv, PointAgrees

\* What a call on u finds when it begins.
LEMMA CallFinds ==
  ASSUME LifeInv, ~TimedTargets, NEW t \in Thread, NEW u \in Thread, MayCall(t, u)
  PROVE  /\ u # t /\ u # Idle /\ t # Idle /\ pc[t] = "run" /\ target[t] = t /\ target[u] = u
         /\ \A v \in Thread : target[v] = u => v = u
         /\ \A v \in Thread : target[v] = t => v = t
         /\ u \in registered /\ k.stat[u] # "CLOSE"
         /\ u \notin k.active /\ u \notin ToSet(k.defunct) /\ u \notin Leaving
<1>1. /\ u # t /\ u # Idle /\ pc[t] = "run" /\ target[u] = u
      /\ u \in registered /\ k.stat[u] # "CLOSE" /\ u \notin k.active
      /\ Undisturbed(u) /\ Undisturbed(t) /\ Running(t) /\ t \in Manager
  BY DEF MayCall, Calls, Worker
<1>2. target[t] = t
  BY <1>1, AtRest DEF Inside, Resuming, Deleting, Burying
<1>3. u \notin ToSet(k.defunct)
  BY <1>1 DEF LifeInv, LifeKernel
<1>4. \A v \in Thread : target[v] = u => v = u
  BY <1>1, NotDisturbed
<1>5. \A v \in Thread : target[v] = t => v = t
  BY <1>1, NotDisturbed
<1>6. u \notin Leaving
  <2> SUFFICES ASSUME NEW v \in Thread, pc[v] \in Deleting, target[v] = u PROVE FALSE
    BY InLeaving
  <2>1. v = u
    BY <1>4
  <2>2. target[v] # v
    BY DEF LifeInv, PointAgrees, Inside
  <2>3. QED BY <1>1, <2>1, <2>2
<1>7. t # Idle
  BY <1>1, ThreadLifeAssumption DEF Worker
<1>8. QED BY <1>1, <1>2, <1>3, <1>4, <1>5, <1>6, <1>7

\* What a call on u finds on its way.
LEMMA InsideFinds ==
  ASSUME LifeInv, NEW t \in Thread, pc[t] \in Inside, NEW u, u = target[t]
  PROVE  /\ u \in Thread /\ u # t /\ u # Idle /\ target[u] = u
         /\ \A v \in Thread \ {t} : target[v] # v => target[v] # u /\ target[v] # t
         /\ u \in registered /\ u \notin k.active /\ u \notin ToSet(k.defunct)
         /\ Expects(pc[t], k.stat[u])
         /\ u \in Leaving <=> pc[t] \in Deleting
<1>1. /\ u \in Thread /\ u # t /\ u # Idle
      /\ u \in registered /\ u \notin k.active /\ u \notin ToSet(k.defunct)
      /\ Expects(pc[t], k.stat[u])
  BY TypedPoints DEF LifeInv, PointAgrees
<1>2. TargetsApart(target)
  BY DEF LifeInv
<1>3. target[u] = u
  BY <1>2 DEF TargetsApart
<1>4. \A v \in Thread \ {t} : target[v] # v => target[v] # u /\ target[v] # t
  BY <1>1, <1>2, <1>3 DEF TargetsApart
<1>5. u \in Leaving => pc[t] \in Deleting
  <2> SUFFICES ASSUME NEW v \in Thread, pc[v] \in Deleting, target[v] = u
               PROVE  pc[t] \in Deleting
    BY InLeaving
  <2>1. target[v] # v
    BY DEF LifeInv, PointAgrees, Inside
  <2>2. v = t
    BY <1>4, <2>1
  <2>3. QED BY <2>2
<1>6. pc[t] \in Deleting => u \in Leaving
  BY InLeaving
<1>7. QED BY <1>1, <1>3, <1>4, <1>5, <1>6

LEMMA EnterApart ==
  ASSUME NEW f \in [Thread -> Thread], TargetsApart(f), NEW t \in Thread, NEW u \in Thread,
         f[t] = t, f[u] = u, u # t,
         \A v \in Thread : f[v] = u => v = u, \A v \in Thread : f[v] = t => v = t
  PROVE  TargetsApart([f EXCEPT ![t] = u])
<1> DEFINE g == [f EXCEPT ![t] = u]
<1>1. \A v \in Thread : g[v] = IF v = t THEN u ELSE f[v]
  OBVIOUS
<1>2. \A v \in Thread : f[v] \in Thread
  OBVIOUS
<1> HIDE DEF g
<1>3. ASSUME NEW v \in Thread PROVE g[g[v]] = g[v]
  <2>1. CASE v = t
    BY <1>1, <2>1
  <2>2. CASE v # t
    <3>1. g[v] = f[v] /\ f[v] # t /\ f[v] \in Thread
      BY <1>1, <1>2, <2>2
    <3>2. g[f[v]] = f[f[v]]
      BY <1>1, <3>1
    <3>3. QED BY <3>1, <3>2 DEF TargetsApart
  <2>3. QED BY <2>1, <2>2
<1>4. ASSUME NEW v \in Thread, NEW w \in Thread, g[v] # v, g[w] = g[v]
      PROVE  w = v \/ w = g[v]
  <2>1. CASE v = t
    BY <1>1, <1>4, <2>1
  <2>2. CASE v # t /\ w = t
    BY <1>1, <1>4, <2>2
  <2>3. CASE v # t /\ w # t
    BY <1>1, <1>4, <2>3 DEF TargetsApart
  <2>4. QED BY <2>1, <2>2, <2>3
<1>5. QED BY <1>3, <1>4 DEF TargetsApart, g

LEMMA LeaveApart ==
  ASSUME NEW f \in [Thread -> Thread], TargetsApart(f), NEW t \in Thread
  PROVE  TargetsApart([f EXCEPT ![t] = t])
<1> DEFINE g == [f EXCEPT ![t] = t]
<1>1. \A v \in Thread : g[v] = IF v = t THEN t ELSE f[v]
  OBVIOUS
<1>2. \A v \in Thread : f[v] \in Thread
  OBVIOUS
<1> HIDE DEF g
<1>3. ASSUME NEW v \in Thread PROVE g[g[v]] = g[v]
  <2>1. CASE v = t \/ f[v] = t
    BY <1>1, <2>1
  <2>2. CASE v # t /\ f[v] # t
    BY <1>1, <1>2, <2>2 DEF TargetsApart
  <2>3. QED BY <2>1, <2>2
<1>4. ASSUME NEW v \in Thread, NEW w \in Thread, g[v] # v, g[w] = g[v]
      PROVE  w = v \/ w = g[v]
  <2>1. v # t /\ g[v] = f[v]
    BY <1>1, <1>4
  <2>2. CASE w = t
    BY <1>1, <1>4, <2>1, <2>2
  <2>3. CASE w # t
    BY <1>1, <1>4, <2>1, <2>3 DEF TargetsApart
  <2>4. QED BY <2>2, <2>3
<1>5. QED BY <1>3, <1>4 DEF TargetsApart, g
-----------------------------------------------------------------------------
\* A step in which the point of x changes and the state of w, and of nobody else.
Frame(x, w) ==
  /\ \A t \in Thread \ {x} :
       pc'[t] = pc[t] /\ cont'[t] = cont[t] /\ target'[t] = target[t]
  /\ \A t \in Thread \ {w} :
       /\ k'.stat[t] = k.stat[t]
       /\ t \in registered' <=> t \in registered
       /\ t \in stack' <=> t \in stack
       /\ lives'[t] = lives[t] /\ buried'[t] = buried[t]
       /\ t \in ToSet(k'.defunct) <=> t \in ToSet(k.defunct)
  /\ k'.active \subseteq k.active \cup {w}
  /\ \A t \in Thread \ {x} : target[t] # t => target[t] # w
  /\ x # w /\ k.stat[w] = "CLOSE" => k'.stat[w] = "CLOSE"

\* The running thread goes on, or a ready one is chosen.
GoesOnOrChosen ==
  \/ Chosen(k', Leaving')
  \/ /\ k'.current = k.current /\ k.current \notin Leaving' /\ k.current \in stack'
     /\ pc'[k.current] # "sched" => k'.stat[k.current] = "READY"

DeadStays == \A t \in Thread : k.stat[t] = "CLOSE" => k'.stat[t] \in {"CLOSE", "INIT"}

LEMMA PointStays ==
  ASSUME LifeInv, NEW x, NEW w, Frame(x, w), NEW t \in Thread \ {x}
  PROVE  PointAgrees(t)'
<1>1. PointAgrees(t) /\ target[t] \in Thread
  BY TypedPoints DEF LifeInv
<1>2. pc'[t] = pc[t] /\ cont'[t] = cont[t] /\ target'[t] = target[t]
  BY DEF Frame
<1>3. k.stat[t] = "CLOSE" => k'.stat[t] = "CLOSE"
  BY DEF Frame
<1>4. target[t] # t =>
        /\ k'.stat[target[t]] = k.stat[target[t]]
        /\ target[t] \in k'.active => target[t] \in k.active
        /\ target[t] \in registered => target[t] \in registered'
        /\ target[t] \in ToSet(k'.defunct) => target[t] \in ToSet(k.defunct)
  <2> SUFFICES ASSUME target[t] # t PROVE
        /\ k'.stat[target[t]] = k.stat[target[t]]
        /\ target[t] \in k'.active => target[t] \in k.active
        /\ target[t] \in registered => target[t] \in registered'
        /\ target[t] \in ToSet(k'.defunct) => target[t] \in ToSet(k.defunct)
    OBVIOUS
  <2>1. target[t] \in Thread \ {w}
    BY <1>1 DEF Frame
  <2>2. QED BY <2>1 DEF Frame
<1>5. QED BY <1>1, <1>2, <1>3, <1>4 DEF PointAgrees

LEMMA AccountStays ==
  ASSUME LifeInv, NEW x, NEW w, Frame(x, w), NEW u \in Thread \ {x, w}
  PROVE  Accounted(u)'
<1>1. Accounted(u)
  BY DEF LifeInv
<1>2. /\ target'[u] = target[u] /\ k'.stat[u] = k.stat[u]
      /\ u \in registered' <=> u \in registered
      /\ u \in stack' <=> u \in stack
      /\ lives'[u] = lives[u] /\ buried'[u] = buried[u]
      /\ u \in ToSet(k'.defunct) <=> u \in ToSet(k.defunct)
  BY DEF Frame
<1>3. QED BY <1>1, <1>2 DEF Accounted

LEMMA StepKeeps ==
  ASSUME LifeInv, LifeTypes', LifeKernel(k', Leaving'), TargetsApart(target'),
         GoesOnOrChosen, NEW x \in Thread, NEW w \in Thread, Frame(x, w),
         PointAgrees(x)', Accounted(x)', Accounted(w)',
         k.stat[w] = "CLOSE" => k'.stat[w] \in {"CLOSE", "INIT"}
  PROVE  LifeInv' /\ DeadStays
<1>1. \A t \in Thread : PointAgrees(t)'
  BY PointStays
<1>2. \A u \in Thread : Accounted(u)'
  BY AccountStays
<1>3. CurrentLives'
  <2>1. CASE Chosen(k', Leaving')
    <3>1. /\ k'.current \in Thread /\ k'.current \notin Leaving'
          /\ k'.stat[k'.current] = "READY"
      BY <2>1 DEF Chosen, ReadyBut
    <3>2. k'.current \in stack'
      BY <1>2, <3>1 DEF Accounted
    <3>3. QED BY <3>1, <3>2 DEF CurrentLives
  <2>2. CASE ~ Chosen(k', Leaving')
    BY <2>2 DEF GoesOnOrChosen, CurrentLives
  <2>3. QED BY <2>1, <2>2
<1>4. DeadStays
  BY DEF DeadStays, Frame
<1>5. LifeInv'
  BY <1>1, <1>2, <1>3 DEF LifeInv
<1>6. QED BY <1>4, <1>5

-----------------------------------------------------------------------------
\* Which threads are being deleted.
LEMMA LeavingStays ==
  ASSUME \A t \in Thread :
           /\ pc'[t] \in Deleting <=> pc[t] \in Deleting
           /\ pc[t] \in Deleting => target'[t] = target[t]
  PROVE  Leaving' = Leaving
<1>1. Leaving = {target[t] : t \in {u \in Thread : pc[u] \in Deleting}}
  BY InLeaving
<1>2. Leaving' = {target'[t] : t \in {u \in Thread : pc'[u] \in Deleting}}
  BY DEF Leaving, Deleting
<1>3. QED BY <1>1, <1>2

\* A step inside or outside of a call in which t neither begins nor ends the
\* deletion of another thread.
LEMMA LeavingStaysFor ==
  ASSUME LifeTypes, NEW t \in Thread,
         \A v \in Thread \ {t} : pc'[v] = pc[v] /\ target'[v] = target[v],
         pc[t] \notin Deleting, pc'[t] \notin Deleting
  PROVE  Leaving' = Leaving
BY LeavingStays

\* Steps of a thread outside of every call on another one.
Quiet(t) ==
  /\ \A v \in Thread \ {t} : pc'[v] = pc[v] /\ cont'[v] = cont[v]
  /\ pc' \in [Thread -> Points] /\ cont' \in [Thread -> {"run", "slept", "dead"}]
  /\ pc[t] \notin Inside /\ pc'[t] \notin Inside
  /\ pc'[t] # "sched" => cont'[t] = "run"

LEMMA NotInside ==
  /\ \A point \in {"run", "slept", "dead", "sched"} : point \notin Inside
  /\ \A point : point \notin Inside => point \notin Deleting
BY DEF Inside, Resuming, Deleting, Burying

\* Such a step of t that also changes its own state.
LEMMA QuietKeeps ==
  ASSUME LifeInv, NEW t \in Thread, Quiet(t),
         LifeKernel(k', Leaving), UNCHANGED <<primask, life>>, systick' \in BOOLEAN,
         device' \in BOOLEAN,
         \/ Chosen(k', Leaving)
         \/ /\ k'.current = k.current
            /\ pc'[k.current] # "sched" => k'.stat[k.current] = "READY",
         \A v \in Thread \ {t} : k'.stat[v] = k.stat[v],
         \A v \in Thread : target[v] = t => v = t,
         k.stat[t] = "CLOSE" => k'.stat[t] = "CLOSE",
         pc'[t] = "dead" \/ cont'[t] = "dead" => k'.stat[t] = "CLOSE",
         k'.active \subseteq k.active \cup {t},
         ToSet(k'.defunct) = ToSet(k.defunct)
  PROVE  LifeInv' /\ DeadStays
<1>0. LifeTypes /\ LifeTypes'
  BY DEF LifeInv, LifeTypes, Quiet, life
<1>1. Leaving' = Leaving
  BY <1>0, NotInside, LeavingStaysFor DEF Quiet, life
<1>2. LifeKernel(k', Leaving') /\ TargetsApart(target')
  BY <1>1 DEF LifeInv, life
<1>3. GoesOnOrChosen
  BY <1>1 DEF GoesOnOrChosen, LifeInv, CurrentLives, life
<1>4. target[t] = t
  BY AtRest DEF Quiet
<1>5. PointAgrees(t)'
  BY <1>4 DEF Quiet, PointAgrees, life, Inside, Burying
<1>6. Accounted(t)'
  BY DEF LifeInv, Accounted, life
<1>7. Frame(t, t)
  BY DEF Frame, Quiet, life
<1>8. QED BY ONLY LifeInv, <1>0, <1>2, <1>3, <1>5, <1>6, <1>7, t \in Thread,
                 k.stat[t] = "CLOSE" => k'.stat[t] = "CLOSE", StepKeeps
-----------------------------------------------------------------------------
LEMMA CallsAtRest ==
  ASSUME LifeInv, NEW t \in Thread, Calls(t)
  PROVE  /\ Running(t) /\ pc[t] = "run" /\ pc[t] # "sched" /\ pc[t] \notin Inside
         /\ cont[t] = "run" /\ target[t] = t
         /\ \A v \in Thread : target[v] = t => v = t
<1>1. Running(t) /\ pc[t] = "run" /\ Undisturbed(t)
  BY DEF Calls
<1>2. pc[t] \notin Inside /\ pc[t] # "sched"
  BY <1>1, NotInside
<1>3. QED BY <1>1, <1>2, AtRest, NotDisturbed DEF LifeInv, PointAgrees

\* t goes to rt_schedule, and from there to c.
LEMMA QuietSchedule ==
  ASSUME LifeInv, NEW t \in Thread, pc[t] \notin Inside, NEW c \in {"run", "slept", "dead"},
         ThenSchedule(t, c)
  PROVE  Quiet(t) /\ pc'[t] = "sched" /\ cont'[t] = c
<1>1. "sched" \in Points /\ "sched" \notin Inside
  BY NotInside DEF Points
<1>2. QED BY <1>1 DEF LifeInv, LifeTypes, Quiet, ThenSchedule
\* Such a step that changes the state of nobody: t may be the target of a call.
LEMMA RestKeeps ==
  ASSUME LifeInv, NEW t \in Thread, Quiet(t),
         LifeKernel(k', Leaving), UNCHANGED <<primask, life>>, systick' \in BOOLEAN,
         device' \in BOOLEAN,
         \/ Chosen(k', Leaving)
         \/ /\ k'.current = k.current
            /\ pc'[k.current] # "sched" => k.stat[k.current] = "READY",
         k'.stat = k.stat, k'.active = k.active,
         pc'[t] = "dead" \/ cont'[t] = "dead" => k.stat[t] = "CLOSE",
         ToSet(k'.defunct) = ToSet(k.defunct)
  PROVE  LifeInv' /\ DeadStays
<1>0. LifeTypes /\ LifeTypes'
  BY DEF LifeInv, LifeTypes, Quiet, life
<1>1. Leaving' = Leaving
  BY <1>0, NotInside, LeavingStaysFor DEF Quiet, life
<1>2. LifeKernel(k', Leaving') /\ TargetsApart(target')
  BY <1>1 DEF LifeInv, life
<1>3. GoesOnOrChosen
  BY <1>1 DEF GoesOnOrChosen, LifeInv, CurrentLives, life
<1>4. target[t] = t
  BY AtRest DEF Quiet
<1>5. PointAgrees(t)'
  BY <1>4 DEF Quiet, PointAgrees, life, Inside, Burying
<1>6. Accounted(t)' /\ Accounted(Idle)'
  BY KernelAssumption DEF LifeInv, Accounted, life
<1>7. \A v \in Thread : target[v] # v => target[v] # Idle
  BY DEF LifeInv, PointAgrees
<1>8. Frame(t, Idle)
  BY <1>7 DEF Frame, Quiet, life
<1>9. k.stat[Idle] = "CLOSE" => k'.stat[Idle] \in {"CLOSE", "INIT"}
  OBVIOUS
<1>10. Idle \in Thread
  BY KernelAssumption
<1>11. QED BY ONLY LifeInv, <1>0, <1>2, <1>3, <1>5, <1>6, <1>8, <1>9, <1>10, t \in Thread,
                 StepKeeps

\* rt_schedule called by a thread: it comes back here when it is chosen again.
LEMMA ScheduleKeeps ==
  ASSUME LifeInv, NEW t \in Thread, Schedule(t), UNCHANGED life
  PROVE  LifeInv' /\ DeadStays
<1>1. LET v == rt_schedule(k)
      IN  /\ LifeKernel(v, Leaving) /\ Chosen(v, Leaving)
          /\ v.stat = k.stat /\ v.active = k.active /\ v.defunct = k.defunct
  BY LifeSchedule DEF LifeInv
<1>2. k' = rt_schedule(k) /\ UNCHANGED <<primask, systick, device>>
      /\ pc[t] = "sched" /\ pc' = [pc EXCEPT ![t] = cont[t]]
      /\ cont' = [cont EXCEPT ![t] = "run"]
  BY DEF Schedule
<1>3. /\ LifeKernel(k', Leaving) /\ Chosen(k', Leaving)
      /\ k'.stat = k.stat /\ k'.active = k.active /\ k'.defunct = k.defunct
  BY <1>1, <1>2
<1>4. cont[t] \in {"run", "slept", "dead"} /\ cont[t] \in Points
      /\ cont[t] \notin Inside /\ pc[t] \notin Inside
  BY <1>2, TypedPoints, NotInside DEF LifeInv, Points
<1>5. Quiet(t) /\ pc'[t] = cont[t] /\ cont'[t] = "run"
  BY <1>2, <1>4 DEF Quiet, LifeInv, LifeTypes
<1>6. pc'[t] = "dead" \/ cont'[t] = "dead" => k.stat[t] = "CLOSE"
  BY <1>3, <1>5 DEF LifeInv, PointAgrees
<1>7. systick' \in BOOLEAN /\ device' \in BOOLEAN
  BY <1>2 DEF LifeInv, LifeTypes
<1>8. QED BY ONLY LifeInv, t \in Thread, UNCHANGED life, <1>2, <1>3, <1>5, <1>6, <1>7,
                 RestKeeps
-----------------------------------------------------------------------------
\* A thread that runs outside of every call is suspended, or exits, or goes on.
LEMMA RunningFinds ==
  ASSUME LifeInv, NEW t \in Thread, Calls(t)
  PROVE  /\ Running(t) /\ pc[t] = "run" /\ cont[t] = "run" /\ target[t] = t
         /\ pc[t] \notin Inside
         /\ \A v \in Thread : target[v] = t => v = t
         /\ t \in ReadyBut(k, Leaving) /\ k.stat[t] = "READY" /\ k.current = t
         /\ k.current \notin Leaving
         /\ t \in registered /\ t \in stack /\ t \notin ToSet(k.defunct)
         /\ t \notin k.active /\ LifeKernel(k, Leaving) /\ LifeTypes
<1>1. /\ Running(t) /\ pc[t] = "run" /\ cont[t] = "run" /\ target[t] = t
      /\ pc[t] \notin Inside /\ pc[t] # "sched"
      /\ \A v \in Thread : target[v] = t => v = t
  BY CallsAtRest
<1>2. /\ t \in ReadyBut(k, Leaving) /\ k.stat[t] = "READY" /\ k.current = t
      /\ t \notin Leaving /\ t \in registered /\ t \in stack
      /\ t \notin ToSet(k.defunct) /\ t \notin k.active
  BY <1>1, Runs
<1>3. QED BY <1>1, <1>2 DEF LifeInv

LEMMA YieldKeeps ==
  ASSUME LifeInv, NEW t \in Thread, Calls(t), rt_thread_yield(t), UNCHANGED life
  PROVE  LifeInv' /\ DeadStays
<1>1. /\ pc[t] \notin Inside /\ k.current = t /\ k.current \notin Leaving
      /\ k.stat[t] = "READY" /\ LifeKernel(k, Leaving) /\ LifeTypes
  BY RunningFinds
<1>2. /\ k' = yield_rotate(k) /\ may_yield(k) /\ ThenSchedule(t, "run")
      /\ UNCHANGED <<primask, systick, device>>
  BY DEF rt_thread_yield
<1>3. LET v == yield_rotate(k)
      IN  /\ LifeKernel(v, Leaving) /\ v.current = k.current
          /\ v.stat = k.stat /\ v.active = k.active /\ v.defunct = k.defunct
  BY <1>1, <1>2, LifeYield
<1>4. /\ LifeKernel(k', Leaving) /\ k'.current = k.current
      /\ k'.stat = k.stat /\ k'.active = k.active /\ k'.defunct = k.defunct
  BY <1>2, <1>3
<1>5. Quiet(t) /\ pc'[t] = "sched" /\ cont'[t] = "run"
  BY <1>1, <1>2, QuietSchedule
<1>6. systick' \in BOOLEAN /\ device' \in BOOLEAN
  BY <1>1, <1>2 DEF LifeTypes
<1>7. UNCHANGED <<primask, life>>
  BY <1>2
<1>8. pc'[t] = "dead" \/ cont'[t] = "dead" => k.stat[t] = "CLOSE"
  BY <1>5
<1>9. \/ Chosen(k', Leaving)
      \/ /\ k'.current = k.current
         /\ pc'[k.current] # "sched" => k.stat[k.current] = "READY"
  BY <1>1, <1>4
<1>10. QED BY ONLY LifeInv, t \in Thread, <1>4, <1>5, <1>6, <1>7, <1>8, <1>9, RestKeeps

LEMMA SleepReturnKeeps ==
  ASSUME LifeInv, NEW t \in Thread, SleepReturn(t), UNCHANGED life
  PROVE  LifeInv' /\ DeadStays
<1>1. /\ pc[t] = "slept" /\ pc' = [pc EXCEPT ![t] = "run"] /\ cont' = cont
      /\ k' = IF k.error[t] = "ETIMEOUT" THEN [k EXCEPT !.error[t] = "EOK"] ELSE k
      /\ UNCHANGED <<primask, systick, device>> /\ Running(t)
  BY DEF SleepReturn, Goto
<1>2. LifeKernel(k, Leaving) /\ LifeTypes /\ PointAgrees(t)
  BY DEF LifeInv
<1>3. LET v == [k EXCEPT !.error[t] = "EOK"]
      IN  /\ LifeKernel(v, Leaving) /\ v.current = k.current
          /\ v.stat = k.stat /\ v.active = k.active /\ v.defunct = k.defunct
  BY <1>2, LifeErrorCleared DEF Error
<1>4. /\ LifeKernel(k', Leaving) /\ k'.current = k.current
      /\ k'.stat = k.stat /\ k'.active = k.active /\ k'.defunct = k.defunct
  BY <1>1, <1>2, <1>3
<1>5. Quiet(t) /\ pc'[t] = "run" /\ cont'[t] = "run"
  <2>1. "slept" \notin Inside /\ "run" \notin Inside
    BY NotInside
  <2>2. QED BY <1>1, <1>2, <2>1 DEF Quiet, LifeTypes, PointAgrees, Points
<1>6. systick' \in BOOLEAN /\ device' \in BOOLEAN
  BY <1>1, <1>2 DEF LifeTypes
<1>7. UNCHANGED <<primask, life>>
  BY <1>1
<1>8. pc'[t] = "dead" \/ cont'[t] = "dead" => k.stat[t] = "CLOSE"
  BY <1>5
<1>9. \/ Chosen(k', Leaving)
      \/ /\ k'.current = k.current
         /\ pc'[k.current] # "sched" => k.stat[k.current] = "READY"
  <2>1. pc[k.current] # "sched" => k.stat[k.current] = "READY"
    BY DEF LifeInv, CurrentLives
  <2>2. k.current = t
    BY <1>1 DEF Running
  <2>3. QED BY <1>1, <1>4, <2>1, <2>2
<1>10. QED BY ONLY LifeInv, t \in Thread, <1>4, <1>5, <1>6, <1>7, <1>8, <1>9, RestKeeps

LEMMA SleepKeeps ==
  ASSUME LifeInv, NEW t \in Thread, Calls(t), NEW time \in SleepTimes,
         rt_thread_sleep(t, time), UNCHANGED life
  PROVE  LifeInv' /\ DeadStays
<1>1. /\ pc[t] \notin Inside /\ k.current = t /\ t \in ReadyBut(k, Leaving)
      /\ k.stat[t] = "READY" /\ LifeKernel(k, Leaving) /\ LifeTypes
      /\ \A v \in Thread : target[v] = t => v = t
  BY RunningFinds
<1>2. /\ k' = rt_timer_start(rt_thread_suspend(k, t), t, time) /\ t # Idle
      /\ ThenSchedule(t, "slept") /\ UNCHANGED <<primask, systick, device>>
  BY DEF rt_thread_sleep
<1>0. time \in Nat
  BY ThreadLifeAssumption
<1>3. LET v == rt_timer_start(rt_thread_suspend(k, t), t, time)
      IN  /\ LifeKernel(v, Leaving) /\ v.current = k.current
          /\ v.stat = [k.stat EXCEPT ![t] = "SUSPEND"]
          /\ v.active = k.active \cup {t} /\ ToSet(v.defunct) = ToSet(k.defunct)
  BY <1>0, <1>1, <1>2, LifeSleep
<1>4. /\ LifeKernel(k', Leaving) /\ k'.current = k.current
      /\ k'.stat = [k.stat EXCEPT ![t] = "SUSPEND"]
      /\ k'.active = k.active \cup {t} /\ ToSet(k'.defunct) = ToSet(k.defunct)
  BY <1>2, <1>3
<1>5. Quiet(t) /\ pc'[t] = "sched" /\ cont'[t] = "slept"
  BY <1>1, <1>2, QuietSchedule
<1>6. systick' \in BOOLEAN /\ device' \in BOOLEAN
  BY <1>1, <1>2 DEF LifeTypes
<1>7. UNCHANGED <<primask, life>>
  BY <1>2
<1>8. k.stat \in [Thread -> Stat]
  BY <1>1, LifeFields
<1>9. \/ Chosen(k', Leaving)
      \/ /\ k'.current = k.current
         /\ pc'[k.current] # "sched" => k'.stat[k.current] = "READY"
  BY <1>1, <1>4, <1>5
<1>10. /\ \A v \in Thread \ {t} : k'.stat[v] = k.stat[v]
       /\ k.stat[t] = "CLOSE" => k'.stat[t] = "CLOSE"
       /\ pc'[t] = "dead" \/ cont'[t] = "dead" => k'.stat[t] = "CLOSE"
       /\ k'.active \subseteq k.active \cup {t}
  BY <1>1, <1>4, <1>5, <1>8
<1>11. \A v \in Thread : target[v] = t => v = t
  BY <1>1
<1>12. QED BY ONLY LifeInv, t \in Thread, <1>4, <1>5, <1>6, <1>7, <1>9, <1>10, <1>11, QuietKeeps

LEMMA SuspendSelfKeeps ==
  ASSUME LifeInv, NEW t \in Thread, SuspendSelf(t)
  PROVE  LifeInv' /\ DeadStays
<1>2. /\ k' = rt_thread_suspend(k, t) /\ t # Idle /\ Calls(t)
      /\ ThenSchedule(t, "run") /\ UNCHANGED <<primask, systick, device, life>>
  BY DEF SuspendSelf, Worker
<1>1. /\ pc[t] \notin Inside /\ k.current = t /\ t \in ReadyBut(k, Leaving)
      /\ k.stat[t] = "READY" /\ LifeKernel(k, Leaving) /\ LifeTypes
      /\ \A v \in Thread : target[v] = t => v = t
  BY <1>2, RunningFinds
<1>3. LET v == rt_thread_suspend(k, t)
      IN  /\ LifeKernel(v, Leaving) /\ v.current = k.current
          /\ v.stat = [k.stat EXCEPT ![t] = "SUSPEND"]
          /\ v.active = k.active /\ ToSet(v.defunct) = ToSet(k.defunct)
  BY <1>1, <1>2, LifeSuspendCall
<1>4. /\ LifeKernel(k', Leaving) /\ k'.current = k.current
      /\ k'.stat = [k.stat EXCEPT ![t] = "SUSPEND"]
      /\ k'.active = k.active /\ ToSet(k'.defunct) = ToSet(k.defunct)
  BY <1>2, <1>3
<1>5. Quiet(t) /\ pc'[t] = "sched" /\ cont'[t] = "run"
  BY <1>1, <1>2, QuietSchedule
<1>6. systick' \in BOOLEAN /\ device' \in BOOLEAN
  BY <1>1, <1>2 DEF LifeTypes
<1>7. UNCHANGED <<primask, life>>
  BY <1>2
<1>8. k.stat \in [Thread -> Stat]
  BY <1>1, LifeFields
<1>9. \/ Chosen(k', Leaving)
      \/ /\ k'.current = k.current
         /\ pc'[k.current] # "sched" => k'.stat[k.current] = "READY"
  BY <1>1, <1>4, <1>5
<1>10. /\ \A v \in Thread \ {t} : k'.stat[v] = k.stat[v]
       /\ k.stat[t] = "CLOSE" => k'.stat[t] = "CLOSE"
       /\ pc'[t] = "dead" \/ cont'[t] = "dead" => k'.stat[t] = "CLOSE"
       /\ k'.active \subseteq k.active \cup {t}
  BY <1>1, <1>4, <1>5, <1>8
<1>11. \A v \in Thread : target[v] = t => v = t
  BY <1>1
<1>12. QED BY ONLY LifeInv, t \in Thread, <1>4, <1>5, <1>6, <1>7, <1>9, <1>10, <1>11, QuietKeeps
-----------------------------------------------------------------------------
\* What becomes of a thread that is closed: it is no object any more, or it
\* waits for the idle thread.
Unregistered(u) ==
  /\ u \notin registered' /\ buried'[u] = buried[u] + 1
  /\ \A v \in Thread \ {u} :
       /\ v \in registered' <=> v \in registered
       /\ buried'[v] = buried[v]
  /\ registered' \in SUBSET Thread /\ buried' \in [Thread -> Nat]

LEMMA UnregisterFinds ==
  ASSUME LifeTypes, NEW u \in Thread, Unregister(u)
  PROVE  Unregistered(u)
BY DEF LifeTypes, Unregister, Unregistered

LEMMA BuryFinds ==
  ASSUME LifeTypes, NEW n, NEW L, LifeKernel(n, L), NEW u \in Thread,
         n.stat[u] = "CLOSE", u \notin ToSet(n.defunct), Bury(n, u)
  PROVE  /\ LifeKernel(k', L) /\ k'.current = n.current
         /\ k'.stat = n.stat /\ k'.active = n.active
         /\ \A v \in Thread \ {u} : v \in ToSet(k'.defunct) <=> v \in ToSet(n.defunct)
         /\ \/ Unregistered(u) /\ u \notin ToSet(k'.defunct)
            \/ registered' = registered /\ buried' = buried
<1>1. CASE Vanishes(u)
  <2>1. k' = n /\ Unregister(u)
    BY <1>1 DEF Bury
  <2>2. Unregistered(u)
    BY <2>1, UnregisterFinds
  <2>3. QED BY <2>1, <2>2
<1>2. CASE ~ Vanishes(u)
  <2>1. /\ k' = [n EXCEPT !.defunct = <<u>> \o @]
        /\ registered' = registered /\ buried' = buried
    BY <1>2 DEF Bury
  <2>2. LET v == [n EXCEPT !.defunct = <<u>> \o @]
        IN  /\ LifeKernel(v, L) /\ v.current = n.current
            /\ v.stat = n.stat /\ v.active = n.active
            /\ ToSet(v.defunct) = ToSet(n.defunct) \cup {u}
    BY LifeBury
  <2>3. /\ LifeKernel(k', L) /\ k'.current = n.current
        /\ k'.stat = n.stat /\ k'.active = n.active
        /\ ToSet(k'.defunct) = ToSet(n.defunct) \cup {u}
    BY <2>1, <2>2
  <2>4. QED BY <2>1, <2>3
<1>3. QED BY <1>1, <1>2

LEMMA ExitKeeps ==
  ASSUME LifeInv, NEW t \in Thread, rt_thread_exit(t)
  PROVE  LifeInv' /\ DeadStays
<1> DEFINE n == _rt_timer_remove(
                  [rt_schedule_remove_thread(k, t) EXCEPT !.stat[t] = "CLOSE"], t)
<1>1. /\ Bury(n, t) /\ t # Idle /\ Calls(t)
      /\ ThenSchedule(t, "dead")
      /\ UNCHANGED <<primask, systick, device, target, stack, lives>>
  BY DEF rt_thread_exit, Worker
<1>2. /\ pc[t] \notin Inside /\ k.current = t /\ t \in ReadyBut(k, Leaving)
      /\ LifeKernel(k, Leaving) /\ LifeTypes
      /\ \A v \in Thread : target[v] = t => v = t
      /\ target[t] = t /\ t \in registered /\ t \in stack /\ t \notin ToSet(k.defunct)
  BY <1>1, RunningFinds
<1>3. /\ LifeKernel(n, Leaving) /\ n.current = k.current
      /\ n.stat = [k.stat EXCEPT ![t] = "CLOSE"]
      /\ n.active = k.active /\ ToSet(n.defunct) = ToSet(k.defunct)
  BY <1>1, <1>2, LifeExit
<1>4. k.stat \in [Thread -> Stat]
  BY <1>2, LifeFields
<1> HIDE DEF n
<1>5. /\ LifeKernel(k', Leaving) /\ k'.current = k.current
      /\ k'.stat = [k.stat EXCEPT ![t] = "CLOSE"] /\ k'.active = k.active
      /\ \A v \in Thread \ {t} : v \in ToSet(k'.defunct) <=> v \in ToSet(k.defunct)
      /\ \/ Unregistered(t) /\ t \notin ToSet(k'.defunct)
         \/ registered' = registered /\ buried' = buried
  <2>1. n.stat[t] = "CLOSE" /\ t \notin ToSet(n.defunct)
    BY <1>2, <1>3, <1>4
  <2>2. /\ LifeKernel(k', Leaving) /\ k'.current = n.current
        /\ k'.stat = n.stat /\ k'.active = n.active
        /\ \A v \in Thread \ {t} : v \in ToSet(k'.defunct) <=> v \in ToSet(n.defunct)
        /\ \/ Unregistered(t) /\ t \notin ToSet(k'.defunct)
           \/ registered' = registered /\ buried' = buried
    BY ONLY <1>1, <1>2, <1>3, <2>1, t \in Thread, BuryFinds
  <2>3. QED BY <1>3, <2>2
<1>6. Quiet(t) /\ pc'[t] = "sched" /\ cont'[t] = "dead"
  BY <1>1, <1>2, QuietSchedule
<1>7. LifeTypes'
  BY <1>1, <1>2, <1>5, <1>6 DEF LifeTypes, Unregistered, Quiet
<1>8. Leaving' = Leaving
  BY <1>1, <1>2, <1>6, NotInside, LeavingStaysFor DEF Quiet
<1>9. k'.stat[t] = "CLOSE"
  BY <1>4, <1>5
<1>10. PointAgrees(t)'
  BY <1>1, <1>2, <1>6, <1>9 DEF Quiet, PointAgrees, Inside, Burying
<1>11. Accounted(t)'
  BY <1>1, <1>2, <1>5, <1>9 DEF LifeInv, Accounted, LifeTypes, Unregistered
<1>12. Frame(t, t)
  BY <1>1, <1>2, <1>4, <1>5, <1>6 DEF Frame, Quiet, Unregistered
<1>13. GoesOnOrChosen
  BY <1>1, <1>2, <1>5, <1>6, <1>8 DEF GoesOnOrChosen, ReadyBut
<1>14. TargetsApart(target') /\ LifeKernel(k', Leaving')
  BY <1>1, <1>5, <1>8 DEF LifeInv
<1>15. QED BY ONLY LifeInv, <1>7, <1>9, <1>10, <1>11, <1>12, <1>13, <1>14, t \in Thread, StepKeeps

-----------------------------------------------------------------------------
\* The step of t that begins its call on u, at the point c.
LEMMA EnterKeeps ==
  ASSUME LifeInv, ~TimedTargets, NEW t \in Thread, NEW u \in Thread, MayCall(t, u),
         NEW c \in Inside \ {"free", "delete"}, Enter(t, u, c),
         LifeKernel(k', Leaving'), Expects(c, k'.stat[u]),
         k'.current = k.current, \A v \in Thread \ {u} : k'.stat[v] = k.stat[v],
         k'.active = k.active, ToSet(k'.defunct) = ToSet(k.defunct),
         u \in Leaving' <=> c \in Deleting,
         UNCHANGED <<primask, systick, device, registered, stack, lives, buried>>
  PROVE  LifeInv' /\ DeadStays
<1>1. /\ u # t /\ u # Idle /\ t # Idle /\ pc[t] = "run" /\ target[t] = t /\ target[u] = u
      /\ \A v \in Thread : target[v] = u => v = u
      /\ \A v \in Thread : target[v] = t => v = t
      /\ u \in registered /\ k.stat[u] # "CLOSE"
      /\ u \notin k.active /\ u \notin ToSet(k.defunct) /\ u \notin Leaving
  BY CallFinds
<1>2. /\ target' = [target EXCEPT ![t] = u] /\ pc' = [pc EXCEPT ![t] = c]
      /\ cont' = cont
  BY DEF Enter, Goto
<1>3. LifeTypes /\ LifeTypes'
  <2>1. c \in Points /\ LifeTypes
    BY DEF LifeInv, Inside, Resuming, Deleting, Burying, Points
  <2>2. QED BY <1>2, <2>1 DEF LifeTypes
<1>4. TargetsApart(target')
  BY <1>1, <1>2, <1>3, EnterApart DEF LifeInv, LifeTypes
<1>5. pc'[t] = c /\ target'[t] = u /\ cont'[t] = "run"
  BY <1>1, <1>2, <1>3 DEF LifeTypes, LifeInv, PointAgrees
<1>6. PointAgrees(t)'
  <2>1. c # "sched" /\ c # "dead" /\ c \notin {"free", "delete"} /\ c \in Inside
    BY NotInside
  <2>2. /\ u \notin k'.active /\ u \in registered' /\ u \notin ToSet(k'.defunct)
    BY <1>1
  <2>3. QED BY <1>1, <1>5, <2>1, <2>2 DEF PointAgrees
<1>7. k.current = t
  BY DEF MayCall, Calls, Running
<1>8. t \notin Leaving' /\ t \in stack'
  <2>1. t \in stack /\ t \notin Leaving
    BY <1>7 DEF LifeInv, CurrentLives
  <2>2. \A v \in Thread : target'[v] = t => FALSE
    BY <1>1, <1>2, <1>3 DEF LifeTypes
  <2>3. Leaving' = {target'[v] : v \in {w \in Thread : pc'[w] \in Deleting}}
    BY DEF Leaving, Deleting
  <2>4. QED BY <2>1, <2>2, <2>3
<1>9. GoesOnOrChosen
  <2>1. k.stat[t] = "READY"
    BY <1>1, <1>7 DEF LifeInv, CurrentLives
  <2>2. QED BY <1>1, <1>7, <1>8, <2>1 DEF GoesOnOrChosen
<1>10. Accounted(t)'
  <2>1. Accounted(t) /\ t \in registered /\ t \notin ToSet(k.defunct)
    BY <1>1, <1>7, Runs DEF LifeInv, MayCall, Calls
  <2>2. QED BY <1>1, <2>1 DEF Accounted
<1>11. Accounted(u)'
  <2>1. Accounted(u) /\ u \in stack
    BY <1>1 DEF LifeInv, Accounted
  <2>2. QED BY <1>1, <2>1 DEF Accounted
<1>12. Frame(t, u)
  BY <1>1, <1>2, <1>3 DEF Frame, LifeTypes
<1>13. QED BY ONLY LifeInv, <1>1, <1>3, <1>4, <1>6, <1>9, <1>10, <1>11, <1>12,
                  LifeKernel(k', Leaving'), t \in Thread, u \in Thread, StepKeeps
\* The calls that begin with a test, and the first part of rt_thread_startup.
LEMMA EnterLeaving ==
  ASSUME LifeInv, NEW t \in Thread, NEW u \in Thread, pc[t] = "run",
         NEW c, Enter(t, u, c)
  PROVE  Leaving' = IF c \in Deleting THEN Leaving \cup {u} ELSE Leaving
<1>1. LifeTypes /\ pc[t] \notin Deleting
  BY NotInside DEF LifeInv
<1>2. target' = [target EXCEPT ![t] = u] /\ pc' = [pc EXCEPT ![t] = c]
  BY DEF Enter, Goto
<1>3. \A v \in Thread : /\ pc'[v] = IF v = t THEN c ELSE pc[v]
                        /\ target'[v] = IF v = t THEN u ELSE target[v]
  BY <1>1, <1>2 DEF LifeTypes
<1>4. /\ Leaving = {target[v] : v \in {w \in Thread : pc[w] \in Deleting}}
      /\ Leaving' = {target'[v] : v \in {w \in Thread : pc'[w] \in Deleting}}
  BY DEF Leaving, Deleting
<1>5. CASE c \in Deleting
  <2> SUFFICES \A z : z \in Leaving' <=> z \in Leaving \/ z = u
    BY <1>5
  <2> TAKE z
  <2>1. ASSUME z \in Leaving' PROVE z \in Leaving \/ z = u
    <3>1. PICK v \in Thread : pc'[v] \in Deleting /\ z = target'[v]
      BY <1>4, <2>1
    <3>2. QED BY <1>3, <1>4, <3>1
  <2>2. ASSUME z \in Leaving PROVE z \in Leaving'
    <3>1. PICK v \in Thread : pc[v] \in Deleting /\ z = target[v]
      BY <1>4, <2>2
    <3>2. v # t
      BY <1>1, <3>1
    <3>3. QED BY <1>3, <1>4, <3>1, <3>2
  <2>3. u \in Leaving'
    BY <1>3, <1>4, <1>5
  <2>4. QED BY <2>1, <2>2, <2>3
<1>6. CASE c \notin Deleting
  <2>1. \A v \in Thread \ {t} : pc'[v] = pc[v] /\ target'[v] = target[v]
    BY <1>3
  <2>2. Leaving' = Leaving
    BY <1>1, <1>3, <1>6, <2>1, LeavingStaysFor
  <2>3. QED BY <1>6, <2>2
<1>7. QED BY <1>5, <1>6

LEMMA TestKeeps ==
  ASSUME LifeInv, ~TimedTargets, NEW t \in Thread, NEW u \in Thread,
         ResumeTest(t, u) \/ SuspendTest(t, u)
  PROVE  LifeInv' /\ DeadStays
<1>1. PICK c \in {"resume", "suspend"} :
        /\ MayCall(t, u) /\ Enter(t, u, c) /\ UNCHANGED k
        /\ c = "resume" => k.stat[u] = "SUSPEND"
        /\ c = "suspend" => k.stat[u] = "READY"
        /\ UNCHANGED <<primask, systick, device, registered, stack, lives, buried>>
  BY DEF ResumeTest, SuspendTest
<1>2. /\ c \in Inside \ {"free", "delete"} /\ c \notin Deleting /\ c \notin Burying
      /\ c \in Resuming <=> c = "resume"
  BY DEF Inside, Resuming, Deleting, Burying
<1>3. pc[t] = "run" /\ u \notin Leaving
  BY <1>1, CallFinds
<1>4. Leaving' = Leaving
  BY <1>1, <1>2, <1>3, EnterLeaving
<1>5. Expects(c, k'.stat[u])
  BY <1>1, <1>2 DEF Expects
<1>6. LifeKernel(k', Leaving') /\ (u \in Leaving' <=> c \in Deleting)
  BY <1>1, <1>2, <1>3, <1>4 DEF LifeInv
<1>7. QED BY <1>1, <1>2, <1>5, <1>6, EnterKeeps

LEMMA StartupKeeps ==
  ASSUME LifeInv, ~TimedTargets, NEW t \in Thread, NEW u \in Thread,
         rt_thread_startup(t, u)
  PROVE  LifeInv' /\ DeadStays
<1>1. /\ MayCall(t, u) /\ Enter(t, u, "startup") /\ k.stat[u] = "INIT"
      /\ k' = [k EXCEPT !.stat[u] = "SUSPEND", !.prio[u] = init_prio[u],
                        !.mask[u] = {init_prio[u]}]
      /\ UNCHANGED <<primask, systick, device, registered, stack, lives, buried>>
  BY DEF rt_thread_startup
<1>2. /\ "startup" \in Inside \ {"free", "delete"} /\ "startup" \notin Deleting
      /\ "startup" \notin Burying
  BY DEF Inside, Resuming, Deleting, Burying
<1>3. pc[t] = "run" /\ u \notin Leaving
  BY <1>1, CallFinds
<1>4. Leaving' = Leaving
  BY <1>1, <1>2, <1>3, EnterLeaving
<1>5. PICK p \in Priority : p = init_prio[u]
  BY CpuAssumption
<1>6. /\ LifeKernel(k', Leaving) /\ k'.current = k.current
      /\ k'.stat = [k.stat EXCEPT ![u] = "SUSPEND"]
      /\ k'.active = k.active /\ k'.defunct = k.defunct
  <2>1. LifeKernel(k, Leaving) /\ k.stat[u] = "INIT" /\ k \in KernelState
    BY <1>1 DEF LifeInv, LifeKernel
  <2>2. k' = [k EXCEPT !.stat[u] = "SUSPEND", !.prio[u] = p, !.mask[u] = {p}]
    BY <1>1, <1>5
  <2>3. /\ k' \in KernelState
        /\ k'.stat = [k.stat EXCEPT ![u] = "SUSPEND"] /\ k'.prio = [k.prio EXCEPT ![u] = p]
        /\ k'.mask = [k.mask EXCEPT ![u] = {p}] /\ k'.table = k.table
        /\ k'.group = k.group /\ k'.defunct = k.defunct /\ k'.timers = k.timers
        /\ k'.active = k.active /\ k'.lock = k.lock /\ k'.current = k.current
    BY <2>1, <2>2 DEF KernelState, Stat
  <2>4. LifeKernel(k', Leaving)
    BY ONLY p \in Priority, <2>1, <2>3, u \in Thread, LifeStartup
  <2>5. QED BY <2>3, <2>4
<1>7. /\ LifeKernel(k', Leaving') /\ k'.current = k.current
      /\ k'.stat = [k.stat EXCEPT ![u] = "SUSPEND"]
      /\ k'.active = k.active /\ ToSet(k'.defunct) = ToSet(k.defunct)
  BY <1>1, <1>4, <1>5, <1>6
<1>8. k.stat \in [Thread -> Stat]
  BY LifeFields DEF LifeInv
<1>9. /\ Expects("startup", k'.stat[u])
      /\ \A v \in Thread \ {u} : k'.stat[v] = k.stat[v]
  BY <1>2, <1>7, <1>8 DEF Expects
<1>10. u \in Leaving' <=> "startup" \in Deleting
  BY <1>2, <1>3, <1>4
<1>11. QED BY ONLY LifeInv, ~TimedTargets, t \in Thread, u \in Thread,
                   <1>1, <1>2, <1>7, <1>9, <1>10, EnterKeeps

LEMMA DeleteKeeps ==
  ASSUME LifeInv, ~TimedTargets, NEW t \in Thread, NEW u \in Thread,
         rt_thread_delete(t, u)
  PROVE  LifeInv' /\ DeadStays
<1>1. /\ MayCall(t, u) /\ Enter(t, u, "detach_timer")
      /\ k' = IF k.stat[u] = "INIT" THEN k ELSE rt_schedule_remove_thread(k, u)
      /\ UNCHANGED <<primask, systick, device, registered, stack, lives, buried>>
  BY DEF rt_thread_delete
<1>2. /\ "detach_timer" \in Inside \ {"free", "delete"} /\ "detach_timer" \in Deleting
      /\ "detach_timer" \notin Burying /\ "detach_timer" \notin Resuming
  BY DEF Inside, Resuming, Deleting, Burying
<1>3. pc[t] = "run" /\ u # Idle /\ k.stat[u] # "CLOSE"
  BY <1>1, CallFinds
<1>4. Leaving' = Leaving \cup {u}
  BY <1>1, <1>2, <1>3, EnterLeaving
<1>5. k.stat \in [Thread -> Stat] /\ LifeKernel(k, Leaving)
  BY LifeFields DEF LifeInv
<1>6. /\ LifeKernel(k', Leaving') /\ k'.current = k.current
      /\ k'.stat = k.stat
      /\ k'.active = k.active /\ ToSet(k'.defunct) = ToSet(k.defunct)
  <2>1. CASE k.stat[u] = "INIT"
    <3>1. LifeKernel(k, Leaving \cup {u})
      BY <1>3, <1>5, <2>1, LifeLeaves
    <3>2. QED BY <1>1, <1>4, <2>1, <3>1
  <2>2. CASE k.stat[u] # "INIT"
    <3>1. k.stat[u] \in {"READY", "SUSPEND"}
      BY <1>3, <1>5, <2>2 DEF Stat
    <3>2. LET v == rt_schedule_remove_thread(k, u)
          IN  /\ LifeKernel(v, Leaving \cup {u}) /\ v.current = k.current
              /\ v.stat = k.stat /\ v.active = k.active
              /\ ToSet(v.defunct) = ToSet(k.defunct)
      BY <1>3, <1>5, <3>1, LifeTakeOff
    <3>3. QED BY <1>1, <1>4, <2>2, <3>2
  <2>3. QED BY <2>1, <2>2
<1>7. Expects("detach_timer", k'.stat[u])
  BY <1>2, <1>3, <1>6 DEF Expects
<1>8. \A v \in Thread \ {u} : k'.stat[v] = k.stat[v]
  BY <1>6
<1>9. u \in Leaving' <=> "detach_timer" \in Deleting
  BY <1>2, <1>4
<1>10. QED BY ONLY LifeInv, ~TimedTargets, t \in Thread, u \in Thread,
                   <1>1, <1>2, <1>6, <1>7, <1>8, <1>9, EnterKeeps
-----------------------------------------------------------------------------
\* The step of t within its call on u, from here to c, u being its state.
LEMMA InsideKeeps ==
  ASSUME LifeInv, NEW t \in Thread, pc[t] \in Inside, NEW u, u = target[t],
         Running(t), NEW c \in Inside, Goto(t, c), UNCHANGED target,
         c \in {"free", "delete"} => t = Idle /\ u \notin Static,
         LifeKernel(k', Leaving'), Expects(c, k'.stat[u]),
         k'.current = k.current, \A v \in Thread \ {u} : k'.stat[v] = k.stat[v],
         k.stat[u] = "CLOSE" => k'.stat[u] = "CLOSE",
         k'.active = k.active, ToSet(k'.defunct) = ToSet(k.defunct),
         u \in Leaving' <=> c \in Deleting,
         \A v \in Thread \ {u} : v \in stack' <=> v \in stack,
         stack' \in SUBSET Thread, u \notin stack' => k'.stat[u] = "CLOSE",
         UNCHANGED <<primask, systick, device, registered, lives, buried>>
  PROVE  LifeInv' /\ DeadStays
<1>1. /\ u \in Thread /\ u # t /\ u # Idle /\ target[u] = u
      /\ \A v \in Thread \ {t} : target[v] # v => target[v] # u /\ target[v] # t
      /\ u \in registered /\ u \notin k.active /\ u \notin ToSet(k.defunct)
  BY InsideFinds
<1>2. pc' = [pc EXCEPT ![t] = c] /\ cont' = cont
  BY DEF Goto
<1>3. LifeTypes /\ LifeTypes'
  <2>1. c \in Points /\ LifeTypes
    BY DEF LifeInv, Inside, Resuming, Deleting, Burying, Points
  <2>2. QED BY <1>2, <2>1 DEF LifeTypes
<1>4. TargetsApart(target')
  BY DEF LifeInv
<1>5. pc'[t] = c /\ target'[t] = u /\ cont'[t] = "run"
  <2>1. pc[t] # "sched" /\ PointAgrees(t)
    BY NotInside DEF LifeInv
  <2>2. QED BY <1>2, <1>3, <2>1 DEF LifeTypes, PointAgrees
<1>6. PointAgrees(t)'
  <2>1. c # "sched" /\ c # "dead"
    BY NotInside
  <2>2. u \notin k'.active /\ u \in registered' /\ u \notin ToSet(k'.defunct)
    BY <1>1
  <2>3. QED BY <1>1, <1>5, <2>1, <2>2 DEF PointAgrees
<1>7. k.current = t /\ k.stat[t] = "READY" /\ t \notin Leaving /\ t \in stack /\ t \in registered
  BY NotInside, Runs
<1>8. t \notin Leaving'
  <2>1. \A v \in Thread : target'[v] = t => target'[v] = v
    BY <1>1
  <2>2. Leaving' = {target'[v] : v \in {w \in Thread : pc'[w] \in Deleting}}
    BY DEF Leaving, Deleting
  <2>3. \A v \in Thread : v # t /\ pc'[v] \in Deleting => target'[v] # v
    BY <1>2, <1>3 DEF LifeInv, LifeTypes, PointAgrees, Inside
  <2>4. QED BY <1>1, <2>1, <2>2, <2>3
<1>9. GoesOnOrChosen
  BY <1>1, <1>7, <1>8 DEF GoesOnOrChosen
<1>10. Accounted(t)'
  BY <1>1, <1>7 DEF LifeInv, Accounted
<1>11. Accounted(u)'
  BY <1>1 DEF LifeInv, Accounted
<1>12. Frame(t, u)
  BY <1>1, <1>2, <1>3 DEF Frame, LifeTypes
<1>13. k.stat[u] = "CLOSE" => k'.stat[u] \in {"CLOSE", "INIT"}
  OBVIOUS
<1>14. QED BY ONLY LifeInv, <1>1, <1>3, <1>4, <1>6, <1>9, <1>10, <1>11, <1>12, <1>13,
                  LifeKernel(k', Leaving'), t \in Thread, StepKeeps
\* The point of t moves within its call.
LEMMA InsideLeaving ==
  ASSUME LifeInv, NEW t \in Thread, pc[t] \in Inside, NEW u, u = target[t],
         NEW c, Goto(t, c), UNCHANGED target, c \in Deleting => pc[t] \in Deleting
  PROVE  /\ Leaving' = IF pc[t] \in Deleting /\ c \notin Deleting
                       THEN Leaving \ {u} ELSE Leaving
         /\ u \in Leaving' <=> c \in Deleting
<1>1. /\ u # t /\ (u \in Leaving <=> pc[t] \in Deleting)
      /\ \A v \in Thread \ {t} : target[v] # v => target[v] # u
  BY InsideFinds
<1>2. LifeTypes /\ \A v \in Thread : pc[v] \in Inside => target[v] # v
  BY DEF LifeInv, PointAgrees
<1>3. \A v \in Thread : /\ pc'[v] = IF v = t THEN c ELSE pc[v]
                        /\ target'[v] = target[v]
  BY <1>2 DEF LifeTypes, Goto
<1>4. \A v \in Thread : pc[v] \in Deleting => target[v] # v
  BY <1>2 DEF Inside
<1>5. /\ Leaving = {target[v] : v \in {w \in Thread : pc[w] \in Deleting}}
      /\ Leaving' = {target'[v] : v \in {w \in Thread : pc'[w] \in Deleting}}
  BY DEF Leaving, Deleting
<1>6. CASE pc[t] \in Deleting /\ c \notin Deleting
  <2>1. \A z : z \in Leaving' => z \in Leaving /\ z # u
    <3> TAKE z
    <3> SUFFICES ASSUME z \in Leaving' PROVE z \in Leaving /\ z # u
      OBVIOUS
    <3>1. PICK v \in Thread : pc'[v] \in Deleting /\ z = target'[v]
      BY <1>5
    <3>2. v # t /\ pc[v] \in Deleting /\ z = target[v]
      BY <1>3, <1>6, <3>1
    <3>3. QED BY <1>1, <1>4, <1>5, <3>2
  <2>2. \A z : z \in Leaving /\ z # u => z \in Leaving'
    <3> TAKE z
    <3> SUFFICES ASSUME z \in Leaving, z # u PROVE z \in Leaving'
      OBVIOUS
    <3>1. PICK v \in Thread : pc[v] \in Deleting /\ z = target[v]
      BY <1>5
    <3>2. v # t
      BY <3>1
    <3>3. QED BY <1>3, <1>5, <3>1, <3>2
  <2>3. Leaving' = Leaving \ {u}
    <3>1. \A z : z \in Leaving' <=> z \in Leaving \ {u}
      BY <2>1, <2>2
    <3>2. QED BY <3>1
  <2>4. QED BY <1>6, <2>3
<1>7. CASE ~ (pc[t] \in Deleting /\ c \notin Deleting)
  <2>1. \A v \in Thread : /\ pc'[v] \in Deleting <=> pc[v] \in Deleting
                          /\ target'[v] = target[v]
    BY <1>3, <1>7
  <2>2. Leaving' = Leaving
    BY <2>1, LeavingStays
  <2>3. QED BY <1>1, <1>7, <2>2
<1>8. QED BY <1>6, <1>7

LEMMA UnlinkKeeps ==
  ASSUME LifeInv, NEW t \in Thread, ResumeUnlink(t)
  PROVE  LifeInv' /\ DeadStays
<1> DEFINE u == target[t]
<1>1. PICK c \in {"insert", "start"} :
        /\ pc[t] \in {"resume", "startup"} /\ Running(t) /\ Goto(t, c)
        /\ k' = resume_unlink(k, u) /\ UNCHANGED <<primask, systick, device, life>>
  BY DEF ResumeUnlink, Unlink
<1>2. /\ pc[t] \in Inside /\ pc[t] \in Resuming /\ pc[t] \notin Deleting
      /\ c \in Inside /\ c \in Resuming /\ c \notin Deleting
      /\ c # "suspend" /\ c \notin Burying
  BY <1>1 DEF Inside, Resuming, Deleting, Burying
<1>3. /\ u \in Thread /\ u \notin k.active /\ Expects(pc[t], k.stat[u]) /\ u \notin Leaving
      /\ u \notin ToSet(k.defunct)
  BY <1>2, InsideFinds
<1>4. UNCHANGED <<target, registered, stack, lives, buried>>
  BY <1>1 DEF life
<1>5. Leaving' = Leaving /\ (u \in Leaving' <=> c \in Deleting)
  BY <1>1, <1>2, <1>4, InsideLeaving
<1>6. k.stat[u] = "SUSPEND"
  BY <1>2, <1>3 DEF Expects
<1>7. LET v == resume_unlink(k, u)
      IN  /\ LifeKernel(v, Leaving) /\ v.current = k.current
          /\ v.stat = k.stat /\ v.active = k.active /\ ToSet(v.defunct) = ToSet(k.defunct)
  <2>1. LifeKernel(k, Leaving)
    BY DEF LifeInv
  <2>2. QED BY ONLY <1>3, <1>6, <2>1, LifeUnlink
<1>8. /\ LifeKernel(k', Leaving') /\ k'.current = k.current
      /\ k'.stat = k.stat /\ k'.active = k.active /\ ToSet(k'.defunct) = ToSet(k.defunct)
  BY <1>1, <1>5, <1>7
<1>9. Expects(c, k'.stat[u]) /\ c \notin {"free", "delete"}
  BY <1>2, <1>6, <1>8 DEF Expects, Burying
<1>10. /\ stack' \in SUBSET Thread /\ u \in stack'
  BY <1>4, <1>6 DEF LifeInv, LifeTypes, Accounted
<1> HIDE DEF u
<1>11. u = target[t]
  BY DEF u
<1>12. QED BY <1>1, <1>2, <1>4, <1>5, <1>8, <1>9, <1>10, <1>11, InsideKeeps

LEMMA DeleteTimerKeeps ==
  ASSUME LifeInv, NEW t \in Thread, DeleteTimer(t)
  PROVE  LifeInv' /\ DeadStays
<1> DEFINE u == target[t]
<1>1. /\ pc[t] = "detach_timer" /\ Running(t) /\ Goto(t, "close")
      /\ k' = _rt_timer_remove(k, u) /\ UNCHANGED <<primask, systick, device, life>>
  BY DEF DeleteTimer
<1>2. /\ pc[t] \in Inside /\ pc[t] \in Deleting
      /\ "close" \in Inside /\ "close" \in Deleting /\ "close" \notin Resuming
      /\ "close" \notin Burying
  BY <1>1 DEF Inside, Resuming, Deleting, Burying
<1>3. /\ u \in Thread /\ u \notin k.active /\ Expects(pc[t], k.stat[u])
  BY <1>2, InsideFinds
<1>4. UNCHANGED <<target, registered, stack, lives, buried>>
  BY <1>1 DEF life
<1>5. Leaving' = Leaving /\ (u \in Leaving' <=> "close" \in Deleting)
  BY <1>1, <1>2, <1>4, InsideLeaving
<1>6. k.stat[u] # "CLOSE"
  BY <1>2, <1>3 DEF Expects
<1>7. LET v == _rt_timer_remove(k, u)
      IN  /\ LifeKernel(v, Leaving) /\ v.current = k.current
          /\ v.stat = k.stat /\ v.active = k.active /\ v.defunct = k.defunct
  <2>1. LifeKernel(k, Leaving)
    BY DEF LifeInv
  <2>2. QED BY ONLY <1>3, <2>1, LifeTimerRemove
<1>8. /\ LifeKernel(k', Leaving') /\ k'.current = k.current
      /\ k'.stat = k.stat /\ k'.active = k.active /\ k'.defunct = k.defunct
  BY <1>1, <1>5, <1>7
<1>9. Expects("close", k'.stat[u]) /\ "close" \notin {"free", "delete"}
  BY <1>2, <1>6, <1>8 DEF Expects
<1>10. /\ stack' \in SUBSET Thread /\ u \in stack'
  BY <1>3, <1>4, <1>6 DEF LifeInv, LifeTypes, Accounted
<1> HIDE DEF u
<1>11. u = target[t]
  BY DEF u
<1>12. QED BY <1>1, <1>2, <1>4, <1>5, <1>8, <1>9, <1>10, <1>11, InsideKeeps

LEMMA DeleteCloseKeeps ==
  ASSUME LifeInv, NEW t \in Thread, DeleteClose(t)
  PROVE  LifeInv' /\ DeadStays
<1> DEFINE u == target[t]
<1>1. /\ pc[t] = "close" /\ Running(t) /\ Goto(t, "bury")
      /\ k' = [k EXCEPT !.stat[u] = "CLOSE"] /\ UNCHANGED <<primask, systick, device, life>>
  BY DEF DeleteClose
<1>2. /\ pc[t] \in Inside /\ pc[t] \in Deleting
      /\ "bury" \in Inside /\ "bury" \notin Deleting /\ "bury" \notin Resuming
      /\ "bury" \in Burying
  BY <1>1 DEF Inside, Resuming, Deleting, Burying
<1>3. /\ u \in Thread /\ u \notin k.active /\ u # Idle /\ u \in Leaving
  BY <1>2, InsideFinds
<1>4. UNCHANGED <<target, registered, stack, lives, buried>>
  BY <1>1 DEF life
<1>5. Leaving' = Leaving \ {u} /\ (u \in Leaving' <=> "bury" \in Deleting)
  BY <1>1, <1>2, <1>4, InsideLeaving
<1>7. LET v == [k EXCEPT !.stat[u] = "CLOSE"]
      IN  /\ LifeKernel(v, Leaving \ {u}) /\ v.current = k.current
          /\ v.stat = [k.stat EXCEPT ![u] = "CLOSE"]
          /\ v.active = k.active /\ v.defunct = k.defunct
  <2>1. LifeKernel(k, Leaving)
    BY DEF LifeInv
  <2>2. u \notin ReadyBut(k, Leaving)
    BY <1>3 DEF ReadyBut
  <2>3. QED BY ONLY <1>3, <2>1, <2>2, LifeClose
<1>8. /\ LifeKernel(k', Leaving') /\ k'.current = k.current
      /\ k'.stat = [k.stat EXCEPT ![u] = "CLOSE"]
      /\ k'.active = k.active /\ k'.defunct = k.defunct
  BY <1>1, <1>5, <1>7
<1>9. k.stat \in [Thread -> Stat]
  BY LifeFields DEF LifeInv
<1>10. /\ Expects("bury", k'.stat[u]) /\ k'.stat[u] = "CLOSE"
       /\ "bury" \notin {"free", "delete"}
       /\ \A v \in Thread \ {u} : k'.stat[v] = k.stat[v]
  BY <1>2, <1>3, <1>8, <1>9 DEF Expects
<1>11. stack' \in SUBSET Thread /\ stack' = stack
  BY <1>4 DEF LifeInv, LifeTypes
<1> HIDE DEF u
<1>12. u = target[t]
  BY DEF u
<1>13. QED BY <1>1, <1>2, <1>4, <1>5, <1>8, <1>10, <1>11, <1>12, InsideKeeps

LEMMA FreeStackKeeps ==
  ASSUME LifeInv, FreeStack
  PROVE  LifeInv' /\ DeadStays
<1> DEFINE u == target[Idle]
<1>1. /\ pc[Idle] = "free" /\ Running(Idle) /\ Goto(Idle, "delete")
      /\ stack' = stack \ {u} /\ Idle \in Thread
      /\ UNCHANGED <<k, primask, systick, device, target, registered, lives, buried>>
  BY KernelAssumption DEF FreeStack
<1>2. /\ pc[Idle] \in Inside /\ pc[Idle] \notin Deleting /\ pc[Idle] \in Burying
      /\ "delete" \in Inside /\ "delete" \notin Deleting /\ "delete" \notin Resuming
      /\ "delete" \in Burying
  BY <1>1 DEF Inside, Resuming, Deleting, Burying
<1>3. /\ u \in Thread /\ Expects(pc[Idle], k.stat[u])
  BY <1>1, <1>2, InsideFinds
<1>4. u \notin Static
  BY <1>1 DEF LifeInv, PointAgrees
<1>5. Leaving' = Leaving /\ (u \in Leaving' <=> "delete" \in Deleting)
  BY <1>1, <1>2, InsideLeaving
<1>6. k.stat[u] = "CLOSE" /\ Expects("delete", k.stat[u])
  BY <1>2, <1>3 DEF Expects
<1>7. LifeKernel(k', Leaving') /\ stack' \in SUBSET Thread
  BY <1>1, <1>5 DEF LifeInv, LifeTypes
<1> HIDE DEF u
<1>8. u = target[Idle]
  BY DEF u
<1>9. QED BY <1>1, <1>2, <1>4, <1>5, <1>6, <1>7, <1>8, InsideKeeps
-----------------------------------------------------------------------------
\* The last step of t's call on u.
LEMMA LeaveKeeps ==
  ASSUME LifeInv, NEW t \in Thread, pc[t] \in Inside \ Deleting, NEW u, u = target[t],
         Running(t), target' = [target EXCEPT ![t] = t],
         NEW c \in {"run", "sched"}, pc' = [pc EXCEPT ![t] = c],
         cont' = [cont EXCEPT ![t] = "run"],
         LifeKernel(k', Leaving), k'.current = k.current,
         \A v \in Thread \ {u} : k'.stat[v] = k.stat[v],
         k.stat[u] = "CLOSE" => k'.stat[u] = "CLOSE", k'.active = k.active,
         \A v \in Thread \ {u} : v \in ToSet(k'.defunct) <=> v \in ToSet(k.defunct),
         \/ Unregistered(u)
         \/ registered' = registered /\ buried' = buried,
         Accounted(u)', UNCHANGED <<primask, systick, device, stack, lives>>
  PROVE  LifeInv' /\ DeadStays
<1>1. /\ u \in Thread /\ u # t /\ u # Idle /\ target[u] = u
      /\ \A v \in Thread \ {t} : target[v] # v => target[v] # u /\ target[v] # t
  BY InsideFinds
<1>2. LifeTypes /\ LifeTypes'
  <2>1. LifeTypes /\ c \in Points
    BY DEF LifeInv, Points
  <2>2. registered' \in SUBSET Thread /\ buried' \in [Thread -> Nat]
    BY <2>1 DEF Unregistered, LifeTypes
  <2>3. pc' \in [Thread -> Points] /\ cont' \in [Thread -> {"run", "slept", "dead"}]
        /\ target' \in [Thread -> Thread]
    BY <2>1 DEF LifeTypes
  <2>4. QED BY <2>1, <2>2, <2>3 DEF LifeTypes
<1>3. TargetsApart(target')
  BY <1>2, LeaveApart DEF LifeInv, LifeTypes
<1>4. pc'[t] = c /\ target'[t] = t /\ cont'[t] = "run"
  BY <1>2 DEF LifeTypes
<1>5. c \notin Inside /\ c \notin Deleting
  BY NotInside
<1>6. PointAgrees(t)'
  BY <1>4, <1>5 DEF PointAgrees, Inside, Burying
<1>7. k.current = t /\ k.stat[t] = "READY" /\ t \notin Leaving /\ t \in stack
      /\ t \in registered /\ t \notin ToSet(k.defunct)
  BY NotInside, Runs
<1>8. Leaving' = Leaving
  BY <1>2, <1>4, <1>5, LeavingStaysFor DEF LifeTypes
<1>9. GoesOnOrChosen
  BY <1>1, <1>7, <1>8 DEF GoesOnOrChosen
<1>10. \A v \in Thread \ {u} : /\ v \in registered' <=> v \in registered
                               /\ buried'[v] = buried[v]
  BY DEF Unregistered
<1>11. Accounted(t)'
  <2>1. Accounted(t)
    BY DEF LifeInv
  <2>2. QED BY <1>1, <1>7, <1>10, <2>1 DEF Accounted
<1>12. Frame(t, u)
  BY <1>1, <1>2, <1>10 DEF Frame, LifeTypes
<1>13. k.stat[u] = "CLOSE" => k'.stat[u] \in {"CLOSE", "INIT"}
  OBVIOUS
<1>14. LifeKernel(k', Leaving')
  BY <1>8
<1>15. QED BY ONLY LifeInv, <1>1, <1>2, <1>3, <1>6, <1>9, <1>11, Accounted(u)', <1>12, <1>13,
                   <1>14, t \in Thread, StepKeeps

\* Inside its call on u, t keeps its continuation.
LEMMA LeaveGoes ==
  ASSUME LifeInv, NEW t \in Thread, pc[t] \in Inside
  PROVE  cont = [cont EXCEPT ![t] = "run"]
<1>1. pc[t] # "sched" /\ cont \in [Thread -> {"run", "slept", "dead"}]
  BY NotInside DEF LifeInv, LifeTypes
<1>2. QED BY <1>1 DEF LifeInv, PointAgrees

LEMMA InsertKeeps ==
  ASSUME LifeInv, NEW t \in Thread, ResumeInsert(t)
  PROVE  LifeInv' /\ DeadStays
<1>0. PICK u \in Thread : u = target[t]
  BY TypedPoints, KernelAssumption DEF LifeInv
<1>1. /\ pc[t] \in {"insert", "start"} /\ Running(t)
      /\ k' = rt_schedule_insert_thread(k, u)
      /\ target' = [target EXCEPT ![t] = t]
      /\ UNCHANGED <<primask, systick, device, registered, stack, lives, buried>>
  BY <1>0 DEF ResumeInsert
<1>2. pc[t] \in Inside \ Deleting /\ pc[t] \in Inside /\ pc[t] \in Resuming
  BY <1>1 DEF Inside, Resuming, Deleting
<1>3. PICK c \in {"run", "sched"} : /\ pc' = [pc EXCEPT ![t] = c]
                                    /\ cont' = [cont EXCEPT ![t] = "run"]
  <2>1. cont = [cont EXCEPT ![t] = "run"]
    BY <1>2, LeaveGoes
  <2>2. CASE pc[t] = "start"
    BY <2>2 DEF ResumeInsert, ThenSchedule
  <2>3. CASE pc[t] # "start"
    <3>1. Goto(t, "run")
      BY <2>3 DEF ResumeInsert
    <3>2. pc' = [pc EXCEPT ![t] = "run"] /\ cont' = cont
      BY <3>1 DEF Goto
    <3>3. QED BY <2>1, <3>2
  <2>4. QED BY <2>2, <2>3
<1>4. /\ u \in Thread /\ u \notin k.active /\ Expects(pc[t], k.stat[u]) /\ u \notin Leaving
      /\ u \notin ToSet(k.defunct) /\ u \in registered /\ u # t /\ target[u] = u
  BY <1>2, <1>0, InsideFinds
<1>5. k.stat[u] = "SUSPEND"
  BY <1>2, <1>4 DEF Expects
<1>6. LET v == rt_schedule_insert_thread(k, u)
      IN  /\ LifeKernel(v, Leaving) /\ v.current = k.current
          /\ v.stat = [k.stat EXCEPT ![u] = "READY"]
          /\ v.active = k.active /\ v.defunct = k.defunct
  <2>1. LifeKernel(k, Leaving)
    BY DEF LifeInv
  <2>2. QED BY ONLY <1>4, <1>5, <2>1, LifeInsert
<1>7. /\ LifeKernel(k', Leaving) /\ k'.current = k.current
      /\ k'.stat = [k.stat EXCEPT ![u] = "READY"]
      /\ k'.active = k.active /\ k'.defunct = k.defunct
  BY <1>1, <1>6
<1>8. k.stat \in [Thread -> Stat]
  BY LifeFields DEF LifeInv
<1>9. /\ \A v \in Thread \ {u} : k'.stat[v] = k.stat[v]
      /\ k.stat[u] = "CLOSE" => k'.stat[u] = "CLOSE"
  BY <1>5, <1>7, <1>8
<1>10. Accounted(u)'
  <2>1. Accounted(u)
    BY <1>4 DEF LifeInv
  <2>2. target \in [Thread -> Thread]
    BY DEF LifeInv, LifeTypes
  <2>3. QED BY <1>1, <1>4, <1>5, <1>7, <2>1, <2>2 DEF Accounted
<1>12. QED BY <1>1, <1>2, <1>3, <1>7, <1>9, <1>10, <1>0, LeaveKeeps

LEMMA SuspendCutKeeps ==
  ASSUME LifeInv, NEW t \in Thread, SuspendCut(t)
  PROVE  LifeInv' /\ DeadStays
<1>0. PICK u \in Thread : u = target[t]
  BY TypedPoints, KernelAssumption DEF LifeInv
<1>1. /\ pc[t] = "suspend" /\ Running(t)
      /\ k' = rt_timer_stop(
                rt_schedule_remove_thread([k EXCEPT !.stat[u] = "SUSPEND"], u), u)
      /\ target' = [target EXCEPT ![t] = t]
      /\ pc' = [pc EXCEPT ![t] = "run"] /\ cont' = cont
      /\ UNCHANGED <<primask, systick, device, registered, stack, lives, buried>>
  BY <1>0 DEF SuspendCut, Leave, Goto
<1>2. pc[t] \in Inside \ Deleting /\ pc[t] \in Inside
  BY <1>1 DEF Inside, Resuming, Deleting
<1>3. cont' = [cont EXCEPT ![t] = "run"]
  BY <1>1, <1>2, LeaveGoes
<1>4. /\ u \in Thread /\ Expects(pc[t], k.stat[u]) /\ u # Idle
      /\ u \notin ToSet(k.defunct) /\ u \in registered /\ u # t /\ target[u] = u
      /\ (u \in Leaving <=> pc[t] \in Deleting)
  BY <1>2, <1>0, InsideFinds
<1>5. k.stat[u] = "READY" /\ u \in ReadyBut(k, Leaving)
  BY <1>1, <1>2, <1>4 DEF Expects, ReadyBut
<1>6. LET v == rt_timer_stop(
                 rt_schedule_remove_thread([k EXCEPT !.stat[u] = "SUSPEND"], u), u)
      IN  /\ LifeKernel(v, Leaving) /\ v.current = k.current
          /\ v.stat = [k.stat EXCEPT ![u] = "SUSPEND"]
          /\ v.active = k.active /\ ToSet(v.defunct) = ToSet(k.defunct)
  <2>1. LifeKernel(k, Leaving)
    BY DEF LifeInv
  <2>2. QED BY ONLY <1>4, <1>5, <2>1, LifeSuspend
<1>7. /\ LifeKernel(k', Leaving) /\ k'.current = k.current
      /\ k'.stat = [k.stat EXCEPT ![u] = "SUSPEND"]
      /\ k'.active = k.active /\ ToSet(k'.defunct) = ToSet(k.defunct)
  BY <1>1, <1>6
<1>8. k.stat \in [Thread -> Stat]
  BY LifeFields DEF LifeInv
<1>9. /\ \A v \in Thread \ {u} : k'.stat[v] = k.stat[v]
      /\ k.stat[u] = "CLOSE" => k'.stat[u] = "CLOSE"
  BY <1>5, <1>7, <1>8
<1>10. Accounted(u)'
  <2>1. Accounted(u)
    BY <1>4 DEF LifeInv
  <2>2. target \in [Thread -> Thread]
    BY DEF LifeInv, LifeTypes
  <2>3. QED BY <1>1, <1>4, <1>5, <1>7, <2>1, <2>2 DEF Accounted
<1>12. QED BY <1>1, <1>2, <1>3, <1>7, <1>9, <1>10, <1>0, LeaveKeeps

LEMMA DeleteBuryKeeps ==
  ASSUME LifeInv, NEW t \in Thread, DeleteBury(t)
  PROVE  LifeInv' /\ DeadStays
<1>0. PICK u \in Thread : u = target[t]
  BY TypedPoints, KernelAssumption DEF LifeInv
<1>1. /\ pc[t] = "bury" /\ Running(t) /\ Bury(k, u)
      /\ target' = [target EXCEPT ![t] = t]
      /\ pc' = [pc EXCEPT ![t] = "run"] /\ cont' = cont
      /\ UNCHANGED <<primask, systick, device, stack, lives>>
  BY <1>0 DEF DeleteBury, Leave, Goto
<1>2. pc[t] \in Inside \ Deleting /\ pc[t] \in Inside /\ pc[t] \in Burying
  BY <1>1 DEF Inside, Burying, Deleting
<1>3. cont' = [cont EXCEPT ![t] = "run"]
  BY <1>1, <1>2, LeaveGoes
<1>4. /\ u \in Thread /\ Expects(pc[t], k.stat[u])
      /\ u \notin ToSet(k.defunct) /\ u \in registered /\ u # t /\ target[u] = u
  BY <1>2, <1>0, InsideFinds
<1>5. k.stat[u] = "CLOSE" /\ LifeKernel(k, Leaving) /\ LifeTypes
  BY <1>2, <1>4 DEF Expects, LifeInv
<1>7. /\ LifeKernel(k', Leaving) /\ k'.current = k.current
      /\ k'.stat = k.stat /\ k'.active = k.active
      /\ \A v \in Thread \ {u} : v \in ToSet(k'.defunct) <=> v \in ToSet(k.defunct)
      /\ \/ Unregistered(u) /\ u \notin ToSet(k'.defunct)
         \/ registered' = registered /\ buried' = buried
  BY ONLY <1>1, <1>4, <1>5, BuryFinds
<1>10. Accounted(u)'
  <2>1. Accounted(u)
    BY <1>4 DEF LifeInv
  <2>2. /\ target'[u] = u /\ k'.stat[u] = "CLOSE" /\ lives'[u] = lives[u]
        /\ lives[u] \in Nat /\ buried[u] \in Nat
    BY <1>1, <1>4, <1>5, <1>7 DEF LifeTypes
  <2>3. QED BY <1>4, <1>7, <2>1, <2>2 DEF Accounted, Unregistered
<1>12. QED BY <1>1, <1>2, <1>3, <1>7, <1>10, <1>0, LeaveKeeps

LEMMA DeleteObjectKeeps ==
  ASSUME LifeInv, DeleteObject
  PROVE  LifeInv' /\ DeadStays
<1>0. PICK u \in Thread : u = target[Idle]
  BY TypedPoints, KernelAssumption DEF LifeInv
<1>1. /\ pc[Idle] = "delete" /\ Running(Idle) /\ Unregister(u)
      /\ target' = [target EXCEPT ![Idle] = Idle]
      /\ pc' = [pc EXCEPT ![Idle] = "run"] /\ cont' = cont /\ Idle \in Thread
      /\ UNCHANGED <<k, primask, systick, device, stack, lives>>
  BY <1>0, KernelAssumption DEF DeleteObject, Leave, Goto
<1>2. pc[Idle] \in Inside \ Deleting /\ pc[Idle] \in Inside /\ pc[Idle] \in Burying
  BY <1>1 DEF Inside, Burying, Deleting
<1>3. cont' = [cont EXCEPT ![Idle] = "run"]
  BY <1>1, <1>2, LeaveGoes
<1>4. /\ u \in Thread /\ Expects(pc[Idle], k.stat[u])
      /\ u \notin ToSet(k.defunct) /\ u \in registered /\ u # Idle /\ target[u] = u
  BY <1>1, <1>2, <1>0, InsideFinds
<1>5. k.stat[u] = "CLOSE" /\ LifeKernel(k', Leaving) /\ LifeTypes
  BY <1>1, <1>2, <1>4 DEF Expects, LifeInv
<1>7. Unregistered(u)
  BY <1>1, <1>4, <1>5, UnregisterFinds
<1>10. Accounted(u)'
  <2>1. Accounted(u)
    BY <1>4 DEF LifeInv
  <2>2. /\ target'[u] = u /\ k'.stat[u] = "CLOSE" /\ lives'[u] = lives[u]
        /\ lives[u] \in Nat /\ buried[u] \in Nat
    BY <1>1, <1>4, <1>5 DEF LifeTypes
  <2>3. QED BY <1>1, <1>4, <1>7, <2>1, <2>2 DEF Accounted, Unregistered
<1>12. QED BY <1>1, <1>2, <1>3, <1>5, <1>7, <1>10, <1>0, LeaveKeeps
-----------------------------------------------------------------------------
\* A step of a handler: at most w changes, and becomes ready.
LEMMA HandlerKeeps ==
  ASSUME LifeInv, NEW w \in Thread, UNCHANGED <<pc, cont, primask, life>>,
         systick' \in BOOLEAN, device' \in BOOLEAN, LifeKernel(k', Leaving),
         Chosen(k', Leaving) \/ k'.current = k.current,
         \A v \in Thread \ {w} : k'.stat[v] = k.stat[v],
         \/ k'.stat[w] = k.stat[w]
         \/ k.stat[w] = "SUSPEND" /\ k'.stat[w] = "READY",
         \A v \in Thread : target[v] = w => v = w,
         k'.active \subseteq k.active, ToSet(k'.defunct) = ToSet(k.defunct)
  PROVE  LifeInv' /\ DeadStays
<1>1. LifeTypes /\ LifeTypes' /\ TargetsApart(target')
  BY DEF LifeInv, LifeTypes, life
<1>2. Leaving' = Leaving
  BY DEF Leaving, life
<1>3. GoesOnOrChosen
  <2>1. CASE Chosen(k', Leaving)
    BY <1>2, <2>1 DEF GoesOnOrChosen
  <2>2. CASE k'.current = k.current
    <3>1. /\ k.current \notin Leaving /\ k.current \in stack /\ k.current \in Thread
          /\ pc[k.current] # "sched" => k.stat[k.current] = "READY"
      BY LifeFields DEF LifeInv, CurrentLives
    <3>2. QED BY <1>2, <2>2, <3>1 DEF GoesOnOrChosen, life
  <2>3. QED BY <2>1, <2>2
<1>4. PointAgrees(w)'
  <2>1. PointAgrees(w) /\ target[w] \in Thread
    BY <1>1 DEF LifeInv, LifeTypes
  <2>2. k.stat[w] = "CLOSE" => k'.stat[w] = "CLOSE"
    OBVIOUS
  <2>3. target[w] # w => k'.stat[target[w]] = k.stat[target[w]]
    BY <2>1
  <2>4. /\ pc' = pc /\ cont' = cont /\ target' = target /\ registered' = registered
    BY DEF life
  <2>5. QED BY <2>1, <2>2, <2>3, <2>4 DEF PointAgrees
<1>5. Accounted(w)'
  BY DEF LifeInv, Accounted, life
<1>6. Frame(w, w)
  BY DEF Frame, life
<1>7. k.stat[w] = "CLOSE" => k'.stat[w] \in {"CLOSE", "INIT"}
  OBVIOUS
<1>8. LifeKernel(k', Leaving')
  BY <1>2
<1>9. QED BY ONLY LifeInv, w \in Thread, <1>1, <1>3, <1>4, <1>5, <1>6, <1>7, <1>8, StepKeeps

\* Nobody calls the kernel on the idle thread.
LEMMA IdleUntouched ==
  ASSUME LifeInv
  PROVE  /\ Idle \in Thread /\ (\A v \in Thread : target[v] = Idle => v = Idle)
BY KernelAssumption DEF LifeInv, PointAgrees

LEMMA SysTickKeeps ==
  ASSUME LifeInv, SysTick_Handler, UNCHANGED life
  PROVE  LifeInv' /\ DeadStays
<1>1. /\ k' = tick_increase(k) /\ systick' = TRUE
      /\ UNCHANGED <<pc, cont, primask, device>>
  BY DEF SysTick_Handler
<1>2. LifeKernel(k, Leaving) /\ k.current \notin Leaving /\ LifeTypes
  BY DEF LifeInv, CurrentLives
<1>3. LET v == tick_increase(k)
      IN  /\ LifeKernel(v, Leaving) /\ (v.current = k.current \/ Chosen(v, Leaving))
          /\ v.stat = k.stat /\ v.active = k.active /\ v.defunct = k.defunct
  BY <1>2, LifeTick
<1>4. /\ LifeKernel(k', Leaving) /\ (k'.current = k.current \/ Chosen(k', Leaving))
      /\ k'.stat = k.stat /\ k'.active = k.active /\ k'.defunct = k.defunct
  BY <1>1, <1>3
<1>5. systick' \in BOOLEAN /\ device' \in BOOLEAN
  BY <1>1, <1>2 DEF LifeTypes
<1>6. QED BY <1>1, <1>4, <1>5, IdleUntouched, HandlerKeeps

LEMMA DeviceScheduleKeeps ==
  ASSUME LifeInv, DeviceSchedule, UNCHANGED life
  PROVE  LifeInv' /\ DeadStays
<1>1. /\ k' = rt_schedule(k) /\ device' = FALSE
      /\ UNCHANGED <<pc, cont, primask, systick>>
  BY DEF DeviceSchedule
<1>2. LifeKernel(k, Leaving) /\ LifeTypes
  BY DEF LifeInv
<1>3. LET v == rt_schedule(k)
      IN  /\ LifeKernel(v, Leaving) /\ Chosen(v, Leaving)
          /\ v.stat = k.stat /\ v.active = k.active /\ v.defunct = k.defunct
  BY <1>2, LifeSchedule
<1>4. /\ LifeKernel(k', Leaving) /\ Chosen(k', Leaving)
      /\ k'.stat = k.stat /\ k'.active = k.active /\ k'.defunct = k.defunct
  BY <1>1, <1>3
<1>5. systick' \in BOOLEAN /\ device' \in BOOLEAN
  BY <1>1, <1>2 DEF LifeTypes
<1>6. QED BY <1>1, <1>4, <1>5, IdleUntouched, HandlerKeeps

LEMMA TimerCheckKeeps ==
  ASSUME LifeInv, rt_timer_check, UNCHANGED life
  PROVE  LifeInv' /\ DeadStays
<1>1. UNCHANGED <<pc, cont, primask, device>>
  BY DEF rt_timer_check
<1>2. LifeKernel(k, Leaving) /\ LifeTypes
  BY DEF LifeInv
<1>3. CASE Due(k)
  <2>1. k' = timer_expire(k) /\ systick' = systick /\ k.timers # << >>
    BY <1>3 DEF rt_timer_check, Due
  <2>2. k.active \cap Leaving = {}
    <3> SUFFICES ASSUME NEW v \in Leaving, v \in k.active PROVE FALSE
      OBVIOUS
    <3>1. PICK t \in Thread : pc[t] \in Deleting /\ v = target[t]
      BY InLeaving
    <3>2. QED BY <3>1 DEF LifeInv, PointAgrees, Inside
  <2>3. LET v == timer_expire(k)
        IN  /\ LifeKernel(v, Leaving) /\ Chosen(v, Leaving)
            /\ Head(k.timers) \in k.active
            /\ v.stat = [k.stat EXCEPT ![Head(k.timers)] = "READY"]
            /\ v.active = k.active \ {Head(k.timers)}
            /\ ToSet(v.defunct) = ToSet(k.defunct)
    BY <1>2, <2>1, <2>2, LifeExpire
  <2>4. PICK w : w = Head(k.timers)
    OBVIOUS
  <2>5. /\ LifeKernel(k', Leaving) /\ Chosen(k', Leaving) /\ w \in k.active
        /\ k'.stat = [k.stat EXCEPT ![w] = "READY"]
        /\ k'.active \subseteq k.active /\ ToSet(k'.defunct) = ToSet(k.defunct)
    BY <2>1, <2>3, <2>4
  <2>6. w \in Thread /\ k.stat[w] = "SUSPEND" /\ k.stat \in [Thread -> Stat]
    BY <1>2, <2>5, LifeFields DEF LifeKernel
  <2>7. \A v \in Thread : target[v] = w => v = w
    BY <2>5 DEF LifeInv, PointAgrees
  <2>8. /\ \A v \in Thread \ {w} : k'.stat[v] = k.stat[v]
        /\ k'.stat[w] = "READY"
    BY <2>5, <2>6
  <2>9. systick' \in BOOLEAN /\ device' \in BOOLEAN
    BY <1>1, <1>2, <2>1 DEF LifeTypes
  <2>10. QED BY <1>1, <2>5, <2>6, <2>7, <2>8, <2>9, HandlerKeeps
<1>4. CASE ~ Due(k)
  <2>1. k' = k /\ systick' = FALSE
    BY <1>4 DEF rt_timer_check
  <2>2. systick' \in BOOLEAN /\ device' \in BOOLEAN
    BY <1>1, <1>2, <2>1 DEF LifeTypes
  <2>3. QED BY <1>1, <1>2, <2>1, <2>2, IdleUntouched, HandlerKeeps
<1>5. QED BY <1>3, <1>4

LEMMA DeviceResumeKeeps ==
  ASSUME LifeInv, NEW u \in Thread, DeviceResume(u)
  PROVE  LifeInv' /\ DeadStays
<1>1. /\ k' = rt_thread_resume(k, u) /\ device' = TRUE
      /\ k.stat[u] = "SUSPEND" /\ Undisturbed(u) /\ u \notin k.active
      /\ UNCHANGED <<pc, cont, primask, systick, life>>
  BY DEF DeviceResume
<1>2. LifeKernel(k, Leaving) /\ LifeTypes
  BY DEF LifeInv
<1>3. \A v \in Thread : target[v] = u => v = u
  BY <1>1, NotDisturbed
<1>4. u \in Thread \ Leaving
  <2> SUFFICES ASSUME u \in Leaving PROVE FALSE
    OBVIOUS
  <2>1. PICK t \in Thread : pc[t] \in Deleting /\ u = target[t]
    BY InLeaving
  <2>2. QED BY <1>3, <2>1 DEF LifeInv, PointAgrees, Inside
<1>5. LET v == rt_thread_resume(k, u)
      IN  /\ LifeKernel(v, Leaving) /\ v.current = k.current
          /\ v.stat = [k.stat EXCEPT ![u] = "READY"]
          /\ v.active = k.active /\ ToSet(v.defunct) = ToSet(k.defunct)
  BY <1>1, <1>2, <1>4, LifeResume
<1>6. /\ LifeKernel(k', Leaving) /\ k'.current = k.current
      /\ k'.stat = [k.stat EXCEPT ![u] = "READY"]
      /\ k'.active = k.active /\ ToSet(k'.defunct) = ToSet(k.defunct)
  BY <1>1, <1>5
<1>7. k.stat \in [Thread -> Stat]
  BY <1>2, LifeFields
<1>8. /\ \A v \in Thread \ {u} : k'.stat[v] = k.stat[v]
      /\ k'.stat[u] = "READY"
  BY <1>6, <1>7
<1>9. systick' \in BOOLEAN /\ device' \in BOOLEAN
  BY <1>1, <1>2 DEF LifeTypes
<1>10. QED BY <1>1, <1>3, <1>6, <1>8, <1>9, HandlerKeeps
-----------------------------------------------------------------------------
LEMMA ReclaimKeeps ==
  ASSUME LifeInv, Reclaim
  PROVE  LifeInv' /\ DeadStays
<1>0. PICK u : u = Head(k.defunct)
  OBVIOUS
<1>1. /\ Running(Idle) /\ pc[Idle] = "run" /\ k.defunct # << >>
      /\ k' = rt_schedule(rt_list_remove(k, u))
      /\ IF u \in Static
         THEN Unregister(u) /\ UNCHANGED <<pc, cont, target>>
         ELSE Enter(Idle, u, "free") /\ UNCHANGED <<registered, buried>>
      /\ UNCHANGED <<primask, systick, device, stack, lives>>
  BY <1>0 DEF Reclaim
<1>2. LifeKernel(k, Leaving) /\ LifeTypes
  BY DEF LifeInv
<1>3. /\ u \in ToSet(k.defunct) /\ u \in Thread
  BY <1>0, <1>1, <1>2, LifeFields, HeadOfList DEF ListsHold
<1>4. k.stat[u] = "CLOSE" /\ u # Idle /\ u \notin ReadyBut(k, Leaving) /\ u \notin k.active
  BY <1>2, <1>3 DEF LifeKernel, ReadyBut
<1>5. /\ u \in registered /\ target[u] = u /\ Idle \in Thread /\ target[Idle] = Idle
      /\ \A v \in Thread : target[v] = u => v = u
      /\ \A v \in Thread : target[v] = Idle => v = Idle
  <2>1. u \in registered /\ target[u] = u
    BY <1>3 DEF LifeInv, Accounted
  <2>2. \A v \in Thread : target[v] = u => v = u
    BY <1>3 DEF LifeInv, PointAgrees
  <2>3. pc[Idle] \notin Inside /\ Idle \in Thread
    BY <1>1, NotInside, KernelAssumption
  <2>4. QED BY <2>1, <2>2, <2>3, AtRest, IdleUntouched
<1>6. LET v == rt_list_remove(k, u)
      IN  /\ LifeKernel(v, Leaving) /\ v.current = k.current
          /\ v.stat = k.stat /\ v.active = k.active
          /\ ToSet(v.defunct) = ToSet(k.defunct) \ {u}
  BY <1>2, <1>3, <1>4, LifeUnlist
<1>7. /\ LifeKernel(k', Leaving) /\ Chosen(k', Leaving)
      /\ k'.stat = k.stat /\ k'.active = k.active
      /\ ToSet(k'.defunct) = ToSet(k.defunct) \ {u}
  <2> DEFINE r == rt_list_remove(k, u)
  <2>1. /\ LifeKernel(r, Leaving) /\ r.stat = k.stat /\ r.active = k.active
        /\ ToSet(r.defunct) = ToSet(k.defunct) \ {u}
    BY <1>6
  <2> HIDE DEF r
  <2>2. LET v == rt_schedule(r)
        IN  /\ LifeKernel(v, Leaving) /\ Chosen(v, Leaving)
            /\ v.stat = r.stat /\ v.active = r.active /\ v.defunct = r.defunct
    BY <2>1, LifeSchedule
  <2>3. k' = rt_schedule(r)
    BY <1>1 DEF r
  <2>4. QED BY <2>1, <2>2, <2>3
<1>8. k.stat[u] = "CLOSE" => k'.stat[u] \in {"CLOSE", "INIT"}
  BY <1>4, <1>7
<1>9. CASE u \in Static
  <2>1. Unregistered(u) /\ UNCHANGED <<pc, cont, target>>
    BY <1>1, <1>2, <1>3, <1>9, UnregisterFinds
  <2>2. LifeTypes'
    BY <1>1, <1>2, <1>7, <2>1 DEF LifeTypes, Unregistered, LifeKernel
  <2>3. Leaving' = Leaving
    BY <2>1 DEF Leaving
  <2>4. TargetsApart(target') /\ LifeKernel(k', Leaving') /\ GoesOnOrChosen
    BY <1>7, <2>1, <2>3 DEF LifeInv, GoesOnOrChosen
  <2>5. PointAgrees(u)'
    <3>1. PointAgrees(u) /\ u \in Thread
      BY <1>3 DEF LifeInv
    <3>2. k'.stat[u] = k.stat[u]
      BY <1>7
    <3>3. QED BY <1>5, <2>1, <3>1, <3>2 DEF PointAgrees, Inside, Burying
  <2>6. Accounted(u)'
    <3>1. Accounted(u) /\ lives[u] \in Nat /\ buried[u] \in Nat
      BY <1>2, <1>3 DEF LifeInv, LifeTypes
    <3>2. k'.stat[u] = "CLOSE" /\ u \notin ToSet(k'.defunct) /\ target'[u] = u
          /\ lives'[u] = lives[u]
      BY <1>1, <1>4, <1>5, <1>7, <2>1
    <3>3. QED BY <1>5, <2>1, <3>1, <3>2 DEF Accounted, Unregistered
  <2>7. Frame(u, u)
    BY <1>1, <1>5, <1>7, <2>1 DEF Frame, Unregistered
  <2>8. QED BY ONLY LifeInv, <1>3, <1>8, <2>2, <2>4, <2>5, <2>6, <2>7, StepKeeps
<1>10. CASE u \notin Static
  <2>1. /\ Enter(Idle, u, "free") /\ registered' = registered /\ buried' = buried
        /\ target' = [target EXCEPT ![Idle] = u]
        /\ pc' = [pc EXCEPT ![Idle] = "free"] /\ cont' = cont
    BY <1>1, <1>10 DEF Enter, Goto
  <2>2. LifeTypes'
    <3>1. "free" \in Points
      BY DEF Points
    <3>2. QED BY <1>1, <1>2, <1>3, <2>1, <3>1 DEF LifeTypes
  <2>3. Leaving' = Leaving
    <3>1. "free" \notin Deleting
      BY DEF Deleting
    <3>2. QED BY <1>1, <1>3, <1>5, <2>1, <3>1, EnterLeaving
  <2>4. TargetsApart(target')
    BY <1>2, <1>3, <1>4, <1>5, <2>1, EnterApart DEF LifeInv, LifeTypes
  <2>5. LifeKernel(k', Leaving') /\ GoesOnOrChosen
    BY <1>7, <2>3 DEF GoesOnOrChosen
  <2>6. /\ pc'[Idle] = "free" /\ target'[Idle] = u /\ cont'[Idle] = "run"
        /\ target'[u] = u
    BY <1>1, <1>2, <1>3, <1>4, <1>5, <2>1 DEF LifeTypes, LifeInv, PointAgrees
  <2>7. PointAgrees(Idle)'
    <3>1. "free" \in Inside /\ "free" \notin Resuming /\ "free" \notin Deleting
      BY DEF Inside, Burying, Resuming, Deleting
    <3>2. /\ u \notin k'.active /\ u \in registered' /\ u \notin ToSet(k'.defunct)
          /\ k'.stat[u] = "CLOSE"
      BY <1>4, <1>5, <1>7, <2>1
    <3>3. Expects("free", k'.stat[u])
      BY <3>1, <3>2 DEF Expects
    <3>4. QED BY <1>4, <1>10, <2>6, <3>1, <3>2, <3>3 DEF PointAgrees
  <2>8. Accounted(Idle)'
    <3>1. Idle \notin ToSet(k.defunct) /\ Accounted(Idle) /\ Idle \in registered
          /\ k.stat[Idle] = "READY"
      BY <1>2, <1>5 DEF LifeInv, LifeKernel, Accounted
    <3>2. QED BY <1>1, <1>4, <1>7, <2>1, <3>1 DEF Accounted
  <2>9. Accounted(u)'
    <3>1. Accounted(u)
      BY <1>3 DEF LifeInv
    <3>2. QED BY <1>1, <1>4, <1>5, <1>7, <2>1, <2>6, <3>1 DEF Accounted
  <2>10. Frame(Idle, u)
    BY <1>1, <1>2, <1>3, <1>4, <1>5, <1>7, <2>1 DEF Frame, LifeTypes
  <2>11. QED BY ONLY LifeInv, <1>3, <1>5, <1>8, <2>2, <2>4, <2>5, <2>7, <2>8, <2>9, <2>10,
                     StepKeeps
<1>11. QED BY <1>9, <1>10

LEMMA CreateKeeps ==
  ASSUME LifeInv, NEW t \in Thread, NEW u \in Thread, rt_thread_create(t, u)
  PROVE  LifeInv' /\ DeadStays
<1>1. /\ Calls(t) /\ u \notin registered /\ lives[u] < MaxLives[u]
      /\ k' = _rt_thread_init(u)
      /\ pc' = [pc EXCEPT ![u] = "run"] /\ cont' = [cont EXCEPT ![u] = "run"]
      /\ registered' = registered \cup {u} /\ stack' = stack \cup {u}
      /\ lives' = [lives EXCEPT ![u] = @ + 1]
      /\ UNCHANGED <<primask, systick, device, target, buried>>
  BY DEF rt_thread_create
<1>2. LifeKernel(k, Leaving) /\ LifeTypes
  BY DEF LifeInv
<1>3. /\ k.stat[u] = "CLOSE" /\ u \notin ToSet(k.defunct) /\ target[u] = u
      /\ lives[u] - buried[u] = 0 /\ u # Idle
  BY <1>1, <1>2 DEF LifeInv, Accounted, LifeKernel
<1>4. \A v \in Thread : target[v] = u => v = u
  BY <1>1 DEF LifeInv, PointAgrees
<1>5. pc[u] \notin Inside
  BY <1>3 DEF LifeInv, PointAgrees
<1>6. Leaving' = Leaving
  <2>1. pc'[u] = "run" /\ "run" \notin Deleting /\ pc[u] \notin Deleting
    BY <1>1, <1>2, <1>5, NotInside DEF LifeTypes
  <2>2. \A v \in Thread \ {u} : pc'[v] = pc[v] /\ target'[v] = target[v]
    BY <1>1, <1>2 DEF LifeTypes
  <2>3. QED BY <1>2, <2>1, <2>2, LeavingStaysFor
<1>7. PICK p \in Priority : p = init_prio[u]
  BY CpuAssumption
<1>m. PICK m \in SUBSET Priority : m = {}
  OBVIOUS
<1>8. /\ k' \in KernelState /\ k'.table = k.table /\ k'.group = k.group
      /\ k'.defunct = k.defunct /\ k'.timers = k.timers /\ k'.active = k.active
      /\ k'.current = k.current /\ k'.lock = k.lock
      /\ k'.stat = [k.stat EXCEPT ![u] = "INIT"]
      /\ k'.prio = [k.prio EXCEPT ![u] = p]
      /\ k'.mask = [k.mask EXCEPT ![u] = m]
  <2>1. k \in KernelState /\ init_tick[u] \in Nat \ {0} /\ 0 \in Tick
        /\ u \notin k.active
    BY <1>2, <1>3, KernelAssumption DEF LifeKernel, Tick
  <2>2. k'.active = k.active
    BY <1>1, <2>1 DEF _rt_thread_init, KernelState
  <2>3. QED BY <1>1, <1>7, <1>m, <2>1, <2>2 DEF _rt_thread_init, KernelState, Stat, Error
<1>9. LifeKernel(k', Leaving)
  <2>1. /\ k.stat[u] = "CLOSE" /\ u \notin ToSet(k.defunct) /\ u # Idle
        /\ LifeKernel(k, Leaving)
    BY <1>2, <1>3
  <2>2. Created(k, k', u, p, m)
    BY <1>8 DEF Created
  <2>3. QED BY ONLY <2>1, <2>2, p \in Priority, m \in SUBSET Priority, u \in Thread,
                    LifeCreate
<1>10. /\ k'.stat[u] = "INIT"
       /\ \A v \in Thread \ {u} : k'.stat[v] = k.stat[v]
  BY <1>2, <1>8, LifeFields
<1>11. LifeTypes'
  <2>1. "run" \in Points /\ MaxLives[u] \in Nat
    BY ThreadLifeAssumption DEF Points
  <2>2. \A v \in Thread : lives'[v] \in Nat /\ lives'[v] \in 1 .. MaxLives[v]
    BY <1>1, <1>2, <2>1, ThreadLifeAssumption DEF LifeTypes
  <2>3. lives' \in [Thread -> Nat]
    BY <1>1, <1>2, <2>2 DEF LifeTypes
  <2>4. QED BY <1>1, <1>2, <2>1, <2>2, <2>3 DEF LifeTypes
<1>12. /\ pc'[u] = "run" /\ cont'[u] = "run" /\ target'[u] = u
  BY <1>1, <1>2, <1>3 DEF LifeTypes
<1>13. PointAgrees(u)'
  BY <1>12, NotInside DEF PointAgrees, Inside, Burying
<1>14. Accounted(u)'
  <2>1. lives'[u] = lives[u] + 1 /\ buried'[u] = buried[u] /\ lives[u] \in Nat
        /\ buried[u] \in Nat /\ u \in registered' /\ u \in stack'
    BY <1>1, <1>2 DEF LifeTypes
  <2>2. QED BY <1>3, <1>12, <2>1 DEF Accounted
<1>15. Frame(u, u)
  BY <1>1, <1>2, <1>4, <1>8, <1>10 DEF Frame, LifeTypes
<1>16. GoesOnOrChosen
  <2>1. t \in registered /\ k.current = t /\ t \notin Leaving /\ k.stat[t] = "READY"
        /\ t \in stack
    BY <1>1, RunningFinds, Runs DEF ReadyBut
  <2>2. k'.stat[t] = "READY" /\ t \in stack'
    BY <1>1, <1>10, <2>1
  <2>3. QED BY <1>6, <1>8, <2>1, <2>2 DEF GoesOnOrChosen
<1>17. TargetsApart(target') /\ LifeKernel(k', Leaving')
  BY <1>1, <1>6, <1>9 DEF LifeInv
<1>18. k.stat[u] = "CLOSE" => k'.stat[u] \in {"CLOSE", "INIT"}
  BY <1>10
<1>19. QED BY ONLY LifeInv, u \in Thread, <1>11, <1>13, <1>14, <1>15, <1>16, <1>17, <1>18,
                   StepKeeps
-----------------------------------------------------------------------------
LEMMA InitialLife ==
  ASSUME Init
  PROVE  LifeInv
<1>1. /\ k = StartedKernel /\ pc = [t \in Thread |-> "run"] /\ cont = [t \in Thread |-> "run"]
      /\ primask = FALSE /\ systick = FALSE /\ device = FALSE
      /\ target = [t \in Thread |-> t]
      /\ registered = Thread /\ stack = Thread
      /\ lives = [t \in Thread |-> 1] /\ buried = [t \in Thread |-> 0]
  BY DEF Init, CpuInit
<1>2. k \in KernelState /\ Consistent(k)
  BY <1>1, InitKernel DEF KernelOK
<1>3. /\ k.stat = [t \in Thread |-> "READY"] /\ k.lock = 0
      /\ k.defunct = << >> /\ k.active = {}
  BY <1>1, StartedFields DEF StartedKernel, rt_schedule
<1>4. Idle \in Thread /\ \A t \in Thread : k.stat[t] = "READY"
  BY <1>3, KernelAssumption
<1>5. Leaving = {}
  BY <1>1, NotInside, InLeaving
<1>6. ToSet(k.defunct) = {}
  BY <1>3 DEF ToSet
<1>7. k.current \in Thread
  BY <1>2, Fields
<1>8. LifeKernel(k, Leaving)
  <2>1. ListsHold(k, ReadyBut(k, Leaving))
    <3>1. \A p \in Priority : {t \in ReadyBut(k, Leaving) : k.prio[t] = p}
                                = {t \in Thread : k.stat[t] = "READY" /\ k.prio[t] = p}
      BY <1>5 DEF ReadyBut
    <3>2. QED
      BY <1>2, <3>1 DEF Consistent, ReadyListsMatchStat, GroupMatchesTable,
                        TimersBelongToSuspended, DefunctIsClosed, ListsHold
  <2>2. \A t \in Thread : k.mask[t] = {k.prio[t]}
    BY <1>2 DEF Consistent, GroupMatchesTable
  <2>3. QED BY <1>2, <1>3, <1>4, <1>5, <1>6, <2>1, <2>2 DEF LifeKernel
<1>9. LifeTypes
  <2>1. "run" \in Points
    BY DEF Points
  <2>2. \A t \in Thread : 1 \in 1 .. MaxLives[t]
    BY ThreadLifeAssumption
  <2>3. QED BY <1>1, <2>1, <2>2 DEF LifeTypes
<1>10. TargetsApart(target)
  BY <1>1 DEF TargetsApart
<1>11. \A t \in Thread : PointAgrees(t)
  BY <1>1, NotInside DEF PointAgrees, Inside, Burying
<1>12. \A u \in Thread : Accounted(u)
  BY <1>1, <1>6 DEF Accounted
<1>13. CurrentLives
  BY <1>1, <1>4, <1>5, <1>7 DEF CurrentLives
<1>14. QED BY <1>8, <1>9, <1>10, <1>11, <1>12, <1>13 DEF LifeInv

LEMMA LifeStep ==
  ASSUME LifeInv, ~TimedTargets, Next
  PROVE  LifeInv' /\ DeadStays
<1>1. CASE IdleStep
  BY <1>1, ReclaimKeeps, FreeStackKeeps, DeleteObjectKeeps DEF IdleStep
<1>2. CASE Handler
  <2>1. \/ SysTick_Handler /\ UNCHANGED life
        \/ rt_timer_check /\ UNCHANGED life
        \/ DeviceSchedule /\ UNCHANGED life
        \/ \E u \in Thread : DeviceResume(u)
    BY <1>2 DEF Handler
  <2>2. QED BY <2>1, SysTickKeeps, TimerCheckKeeps, DeviceScheduleKeeps, DeviceResumeKeeps
<1>3. ASSUME NEW t \in Thread, ThreadStep(t) PROVE LifeInv' /\ DeadStays
  <2>1. \/ Schedule(t) /\ UNCHANGED life
        \/ SleepReturn(t) /\ UNCHANGED life
        \/ ResumeUnlink(t) \/ ResumeInsert(t) \/ SuspendCut(t)
        \/ DeleteTimer(t) \/ DeleteClose(t) \/ DeleteBury(t)
    BY <1>3 DEF ThreadStep
  <2>2. QED BY <2>1, ScheduleKeeps, SleepReturnKeeps, UnlinkKeeps, InsertKeeps,
               SuspendCutKeeps, DeleteTimerKeeps, DeleteCloseKeeps, DeleteBuryKeeps
<1>4. ASSUME NEW t \in Thread, ThreadCall(t) PROVE LifeInv' /\ DeadStays
  <2>1. \/ Calls(t) /\ rt_thread_yield(t) /\ UNCHANGED life
        \/ Calls(t) /\ (\E time \in SleepTimes : rt_thread_sleep(t, time)) /\ UNCHANGED life
        \/ SuspendSelf(t) \/ rt_thread_exit(t)
        \/ \E u \in Thread :
             \/ rt_thread_create(t, u) \/ rt_thread_startup(t, u)
             \/ ResumeTest(t, u) \/ SuspendTest(t, u) \/ rt_thread_delete(t, u)
    BY <1>4 DEF ThreadCall
  <2>2. QED BY <2>1, YieldKeeps, SleepKeeps, SuspendSelfKeeps, ExitKeeps, CreateKeeps,
               StartupKeeps, TestKeeps, DeleteKeeps
<1>5. QED BY <1>1, <1>2, <1>3, <1>4 DEF Next

LEMMA LifeStutter ==
  ASSUME LifeInv, UNCHANGED vars
  PROVE  LifeInv'
<1>1. /\ k' = k /\ pc' = pc /\ cont' = cont /\ target' = target
      /\ registered' = registered /\ stack' = stack /\ lives' = lives /\ buried' = buried
      /\ primask' = primask /\ systick' = systick /\ device' = device
  BY DEF vars
<1>2. Leaving' = Leaving
  BY <1>1 DEF Leaving
<1>3. LifeTypes' /\ LifeKernel(k', Leaving') /\ TargetsApart(target')
  BY <1>1, <1>2 DEF LifeInv, LifeTypes
<1>4. \A t \in Thread : PointAgrees(t)'
  BY <1>1 DEF LifeInv, PointAgrees
<1>5. \A u \in Thread : Accounted(u)'
  BY <1>1 DEF LifeInv, Accounted
<1>6. CurrentLives'
  BY <1>1, <1>2 DEF LifeInv, CurrentLives
<1>7. QED BY <1>3, <1>4, <1>5, <1>6 DEF LifeInv

LEMMA LifeIsKept ==
  ASSUME ~TimedTargets
  PROVE  Spec => []LifeInv
<1>1. LifeInv /\ [Next]_vars => LifeInv'
  BY LifeStep, LifeStutter
<1>2. QED BY <1>1, InitialLife, PTL DEF Spec

-----------------------------------------------------------------------------
\* Whatever threads and handlers do to a thread between the critical sections
\* of a call on it, its node stays on one list, or on none, as its stat says,
\* and the bitmap follows the lists, as long as nobody calls the kernel on a
\* thread whose sleep may end (thread.c, idle.c, scheduler.c).
THEOREM ThreadsStayConsistent == ~TimedTargets /\ Spec => []ThreadsConsistent
<1> SUFFICES ASSUME ~TimedTargets PROVE Spec => []ThreadsConsistent
  OBVIOUS
<1>1. LifeInv => ThreadsConsistent
  <2> SUFFICES ASSUME LifeInv PROVE ThreadsConsistent
    OBVIOUS
  <2>1. LifeTypes /\ LifeKernel(k, Leaving)
    BY DEF LifeInv
  <2>2. \A t \in Thread : buried[t] \in 0 .. MaxLives[t]
    <3> TAKE t \in Thread
    <3>1. lives[t] - buried[t] \in {0, 1} /\ lives[t] \in 1 .. MaxLives[t]
          /\ buried[t] \in Nat /\ MaxLives[t] \in Nat
      BY <2>1, ThreadLifeAssumption DEF LifeInv, Accounted, LifeTypes
    <3>2. QED BY <3>1
  <2>3. TypeOK
    BY <2>1, <2>2 DEF TypeOK, CpuTypeOK, LifeTypes, LifeKernel
  <2>4. \A p \in Priority :
          {t \in ReadyBut(k, Leaving) : k.prio[t] = p} =
            {t \in Thread \ Leaving : k.stat[t] = "READY" /\ k.prio[t] = p}
    BY DEF ReadyBut
  <2>5. QED BY <2>1, <2>3, <2>4 DEF ThreadsConsistent, LifeKernel, ListsHold,
               TimersBelongToSuspended, DefunctIsClosed, IdleIsReady
<1>2. QED BY <1>1, LifeIsKept, PTL

\* The running thread has a stack, and no list of the kernel holds the node of
\* a thread that is no object any more (idle.c, after rt_thread_exit and
\* rt_thread_delete).
THEOREM FreedStaysUnreachable == ~TimedTargets /\ Spec => []FreedIsUnreachable
<1> SUFFICES ASSUME ~TimedTargets PROVE Spec => []FreedIsUnreachable
  OBVIOUS
<1>1. LifeInv => FreedIsUnreachable
  <2> SUFFICES ASSUME LifeInv PROVE FreedIsUnreachable
    OBVIOUS
  <2>1. k.current \in stack
    BY DEF LifeInv, CurrentLives
  <2>2. ASSUME NEW u \in Thread \ registered
        PROVE  /\ u \notin ToSet(k.defunct) \cup k.active
               /\ \A p \in Priority : u \notin ToSet(k.table[p])
    <3>1. k.stat[u] = "CLOSE" /\ u \notin ToSet(k.defunct) /\ LifeKernel(k, Leaving)
      BY DEF LifeInv, Accounted
    <3>2. u \notin k.active /\ u \notin ReadyBut(k, Leaving)
      BY <3>1 DEF LifeKernel, ReadyBut
    <3>3. QED BY <3>1, <3>2 DEF LifeKernel, ListsHold
  <2>3. QED BY <2>1, <2>2 DEF FreedIsUnreachable
<1>2. QED BY <1>1, LifeIsKept, PTL

\* Exit, delete, detach and the idle thread never take the same thread off
\* the objects twice in one life of it.
THEOREM LivesEndOnce == ~TimedTargets /\ Spec => []BuriedOnce
<1> SUFFICES ASSUME ~TimedTargets PROVE Spec => []BuriedOnce
  OBVIOUS
<1>1. LifeInv => BuriedOnce
  BY DEF LifeInv, Accounted, BuriedOnce
<1>2. QED BY <1>1, LifeIsKept, PTL

\* No resume, suspend or timeout brings a closed thread back: only a create
\* begins its next life (thread.c).
THEOREM DeadAreNotRevived == ~TimedTargets /\ Spec => DeadStayDead
<1> SUFFICES ASSUME ~TimedTargets PROVE Spec => DeadStayDead
  OBVIOUS
<1>1. LifeInv /\ [Next]_vars =>
        [\A t \in Thread : k.stat[t] = "CLOSE" => k'.stat[t] \in {"CLOSE", "INIT"}]_vars
  BY LifeStep DEF DeadStays
<1>2. QED BY <1>1, LifeIsKept, PTL DEF Spec, DeadStayDead
====
