------------------------------ MODULE MemPool ------------------------------
(***************************************************************************)
(* One memory pool (mempool.c): blocks of one size, the free ones linked   *)
(* from block_list.  A thread that finds none waits; the pool counts the   *)
(* waiting threads in suspend_thread_count besides their list, and it is   *)
(* the count that rt_mp_free tests.                                        *)
(*                                                                         *)
(*   block_next[b]   the pointer at the head of block b: the next free     *)
(*                   block, or pool while b is allocated                   *)
(*   block_list, block_free_count, suspend_thread_count                    *)
(***************************************************************************)
EXTENDS Ipc, Chains

CONSTANTS
  pool_waiters, \* the list suspend_thread of the pool
  PoolBlock,    \* the blocks
  pool,         \* the address of the pool
  MaxPending    \* bound on suspend_thread_count

ASSUME MemPoolAssumption ==
  /\ pool_waiters \in Object \ {suspend_thread, suspend_sender_thread}
  /\ IsFiniteSet(PoolBlock) /\ PoolBlock # {}
  /\ NULL \notin PoolBlock /\ pool \notin PoolBlock \cup {NULL}
  /\ MaxPending \in Nat

VARIABLES block_next, block_list, block_free_count, suspend_thread_count
mempool == <<block_next, block_list, block_free_count, suspend_thread_count>>

block_total_count == Cardinality(PoolBlock)

PoolInit ==
  LET order == SetToSeq(PoolBlock)
  IN  /\ block_next = Linked(order) /\ block_list = First(order)
      /\ block_free_count = block_total_count
      /\ suspend_thread_count = 0

-----------------------------------------------------------------------------
\* A free block is there: take it off the list.
TakeBlock ==
  /\ block_free_count # 0
  /\ block_free_count' = block_free_count - 1
  /\ block_list' = block_next[block_list]
  /\ block_next' = [block_next EXCEPT ![block_list] = pool]
  /\ UNCHANGED suspend_thread_count

\* None is: t is suspended and becomes the first of the waiting threads.
PoolAwait(t, time) ==
  /\ block_free_count = 0 /\ time # 0 /\ suspend_thread_count < MaxPending
  /\ LET u == rt_thread_suspend([k EXCEPT !.error[t] = "EOK"], t)
     IN  Await(t, [u EXCEPT !.waitq[pool_waiters] = <<t>> \o @], "alloc", time)
  /\ suspend_thread_count' = suspend_thread_count + 1
  /\ UNCHANGED <<block_next, block_list, block_free_count>>

\* rt_mp_alloc, by a thread and by a handler that does not wait.
PoolAlloc(t) ==
  /\ Calls(t) /\ t # Idle /\ TakeBlock
  /\ UNCHANGED <<cpu, waiting>>

PoolAllocWait(t, time) ==
  Calls(t) /\ t # Idle /\ PoolAwait(t, time) /\ UNCHANGED deadline

DevicePoolAlloc ==
  /\ InThread /\ ~primask /\ ~detached /\ TakeBlock
  /\ UNCHANGED <<cpu, waiting>>

\* Back from rt_schedule, interrupts enabled: the error, or what is left of
\* the time; the loop tests for a block in a critical section again.
PoolTimeLeft(t) ==
  /\ Resumes(t, "alloc")
  /\ timeout' = [timeout EXCEPT ![t] = Left(t)]
  /\ Goto(t, "alloc_test")
  /\ UNCHANGED <<k, primask, systick, device, start, deadline, detached, mempool>>

PoolAllocAgain(t) ==
  /\ Running(t) /\ pc[t] = "alloc_test" /\ TakeBlock
  /\ Goto(t, "run") /\ Forget(t)
  /\ UNCHANGED <<k, primask, systick, device>>

PoolAllocWaitAgain(t) ==
  /\ Running(t) /\ pc[t] = "alloc_test"
  /\ PoolAwait(t, timeout[t]) /\ UNCHANGED deadline

\* rt_mp_alloc returns RT_NULL, with ETIMEOUT when no time is left.
PoolGivesUp(t) ==
  /\ \/ Fails(t, "alloc")
     \/ /\ Running(t) /\ pc[t] = "alloc_test"
        /\ block_free_count = 0 /\ timeout[t] = 0
        /\ k' = [k EXCEPT !.error[t] = "ETIMEOUT"]
        /\ Goto(t, "run") /\ Forget(t)
        /\ UNCHANGED <<primask, systick, device>>
  /\ UNCHANGED mempool

-----------------------------------------------------------------------------
\* The count says that a thread waits, and wrongly: a wait that timed out is
\* still counted.  rt_mp_free takes the list's own head for a thread.  The
\* error code it writes lies behind the pool, outside this model, and as long
\* as the word after it does not read RT_THREAD_SUSPEND it wakes nobody.
NobodyThere == suspend_thread_count > 0 /\ k.waitq[pool_waiters] = << >>

\* rt_mp_free: link block b, and wake the first waiting thread.
ReturnBlock(b) ==
  /\ block_next[b] = pool
  /\ block_free_count' = block_free_count + 1
  /\ block_next' = [block_next EXCEPT ![b] = block_list]
  /\ block_list' = b
  /\ IF suspend_thread_count > 0
     THEN /\ IF NobodyThere THEN UNCHANGED k
             ELSE LET t == Head(k.waitq[pool_waiters])
                  IN  k' = rt_thread_resume([k EXCEPT !.error[t] = "EOK"], t)
          /\ suspend_thread_count' = suspend_thread_count - 1
     ELSE UNCHANGED <<k, suspend_thread_count>>

PoolFree(t, b) ==
  /\ Calls(t) /\ ReturnBlock(b)
  /\ IF suspend_thread_count > 0 THEN ThenSchedule(t, "run") ELSE Goto(t, "run")
  /\ UNCHANGED <<primask, systick, device, waiting>>

DevicePoolFree(b) ==
  /\ InThread /\ ~primask /\ ~detached /\ ReturnBlock(b)
  /\ device' = (suspend_thread_count > 0)
  /\ UNCHANGED <<pc, cont, primask, systick, waiting>>

\* rt_mp_detach, one round of the loop.
PoolDetachResume(t) ==
  /\ DetachResume(t, pool_waiters)
  /\ suspend_thread_count' =
       IF k.waitq[pool_waiters] = << >> THEN suspend_thread_count
       ELSE suspend_thread_count - 1
  /\ UNCHANGED <<block_next, block_list, block_free_count>>

-----------------------------------------------------------------------------
PoolStep(t) ==
  \/ (IpcStep(t) \/ DetachTest(t, pool_waiters, "run")) /\ UNCHANGED mempool
  \/ PoolTimeLeft(t) \/ PoolAllocAgain(t) \/ PoolAllocWaitAgain(t)
  \/ PoolGivesUp(t) \/ PoolDetachResume(t)

PoolCall(t) ==
  \/ DetachCall(t) /\ UNCHANGED mempool
  \/ PoolAlloc(t) \/ \E time \in WaitTimes[t] : PoolAllocWait(t, time)
  \/ \E b \in PoolBlock : PoolFree(t, b)

PoolHandler ==
  \/ IpcHandler /\ UNCHANGED mempool
  \/ DevicePoolAlloc \/ \E b \in PoolBlock : DevicePoolFree(b)

PoolNext == PoolHandler \/ \E t \in Thread : PoolStep(t) \/ PoolCall(t)

-----------------------------------------------------------------------------
PoolTypeOK ==
  /\ block_next \in [PoolBlock -> PoolBlock \cup {NULL, pool}]
  /\ block_list \in PoolBlock \cup {NULL, pool}
  /\ block_free_count \in 0 .. block_total_count
  /\ suspend_thread_count \in 0 .. MaxPending

\* The free list of the pool holds every block that is not allocated, once,
\* and block_free_count counts them: whatever threads, woken threads and
\* handlers allocate and free.
PoolPartitioned ==
  LET free == Chain(block_next, block_list)
  IN  /\ free.at = NULL /\ IsInjective(free.seq)
      /\ ToSet(free.seq) = {b \in PoolBlock : block_next[b] # pool}
      /\ Len(free.seq) = block_free_count

\* No lost wake-up in rt_mp_free: while threads wait there is a woken one on
\* its way for every free block.
NoWaiterBesideBlock ==
  k.waitq[pool_waiters] # << >> =>
    block_free_count <= Cardinality(Woken("alloc") \cup Woken("alloc_test"))

\* rtdef.h on suspend_thread_count: "numbers of thread pended on this
\* resource".
CountsPending == suspend_thread_count = Len(k.waitq[pool_waiters])
=============================================================================
