# A TLA+ model of the RT-Thread Nano kernel (stm32f103c8)

The repository holds a board support package for an STM32F103C8 (one
Cortex-M3 core) and, under `stm32f103c8_nano/rt-thread`, the RT-Thread 3.1.4
kernel it runs on. This directory models the kernel and the drivers with state
of their own: TLA+ modules translated from the C source, TLC configurations
that check them on small instances, and theorems that TLAPS proves for every
value of the constants. Paths below are relative to `src/stm32f103c8_nano/`; kernel files are in `rt-thread/src/`.

## 1. The system

### What is in it, and how it interacts

One core runs threads of up to 32 priorities, the SysTick handler and device
handlers. Threads call kernel functions; each disables interrupts around its
critical sections, and what happens between two critical sections of one call
is where every other actor can step in. A handler can wake a thread but never
waits. The components, the state they keep, and what makes them correct:

| Component | State | Operations | What is hard, what must hold |
|---|---|---|---|
| Scheduler (`scheduler.c`) | ready list per priority, bitmap `rt_thread_ready_priority_group`, `rt_current_thread`, lock nest | `rt_schedule`, insert, remove, enter/exit critical | the bitmap, lists and `stat` agree after every interleaving; the most urgent ready thread runs |
| Threads (`thread.c`) | `stat`, `current_priority`, `number_mask`, `error`, `remaining_tick`, one list node, one timer, `rt_thread_defunct` | startup, exit, detach, delete, suspend, resume, yield, sleep, priority change, timeout | several critical sections per call; a wait is ended once, by one of timeout, release, reset or detach |
| Clock and timers (`clock.c`, `timer.c`) | `rt_tick`, the ordered timer list, `timeout_tick`, the activated flag | start, stop, control, check, soft timer thread | unsigned ticks that wrap, callbacks that start and stop timers, no timer overdue |
| Semaphore (`ipc.c`) | `value`, suspended threads | init, take, release, reset, detach/delete | tokens conserved across timeouts and releases; no lost wake-up; waiters in order |
| Mutex (`ipc.c`) | `value`, `owner`, `hold`, `original_priority`, suspended threads | init, take, release, detach/delete | mutual exclusion, recursion, hand-over, priority lent and given back |
| Event, mailbox, message queue (`ipc.c`) | flag set; ring of mails; list of message blocks; suspended receivers and senders | send, receive, reset, detach | waits that are retried with a shortened timeout, order of messages, full and empty |
| Memory pool (`mempool.c`) | free list of blocks, count of waiters | alloc, free, detach | a waiter that times out, a block handed to nobody |
| Small memory heap (`mem.c`) | list of blocks in an array, `lfree`, a semaphore | malloc, realloc, free | splitting and coalescing; no overlap, no lost memory |
| Idle thread (`idle.c`) | defunct list, hooks | reclaim dead threads | each reclaimed once, and not while it runs |
| Interrupt nesting (`irq.c`) | `rt_interrupt_nest` | enter, leave | the I2C driver raises it in thread context |
| Context switch (`libcpu/arm/cortex-m3`) | from/to/flag words | switch, PendSV | a second switch requested before the first is done |
| Kernel objects (`object.c`) | one list of objects per class | init, detach, allocate, delete, find | lists changed while they are searched |
| USART driver (`drivers/usart`) | DMA buffer, `data_len`, a semaphore | IDLE-line handler, serial thread | the handler overwrites the frame being read |
| I2C driver (`drivers/iic`) | pins, nest level | send, read | see interrupt nesting |
| W25Q flash (`applications/flash_w25qx`) | one shared sector buffer | read, write, erase | page splitting, read-erase-write |

Not core logic: the string and formatting library (`kservice.c`), FinSH, the
register set-up of the board, the HAL and CMSIS, the vendored FatFs and the
empty `main`. They are most of the lines of the repository. Slab, memheap,
memory pool, event, message queue and soft timers are not switched on in this
board's `rtconfig.h`; pool, event and queue are modelled all the same.

`PROJECT.json` lists every component with its status, and the main hazards with
the line where each bites and the properties that cover it; section 5 names
further ones that nothing covers.

## 2. The modules

| Module | What it stands for | How |
|---|---|---|
| `Kernel` | `scheduler.c`, `thread.c`, `timer.c`, `clock.c`, the list part of `ipc.c` | the shared data as one record `k`; each C function that runs with interrupts disabled is an operator from record to record; the consistency conditions |
| `Cpu` | the core, `SysTick_Handler`, calls every component makes | `EXTENDS Kernel`; who may take the next step, `Schedule`, yield, sleep, scheduler lock, tick and timer handler |
| `Semaphore` | semaphores of `ipc.c` | `EXTENDS Cpu` |
| `Mutex` | mutexes of `ipc.c` | `EXTENDS Cpu` |
| `Ipc` | what the next four share: waiting, waking, trying again, reset, detach | `EXTENDS Cpu` |
| `Mailbox`, `Event`, `MessageQueue`, `MemPool` | those parts of `ipc.c`, and `mempool.c` | `EXTENDS Ipc` |
| `Chains` | singly linked chains of blocks | operators for `MessageQueue` and `MemPool` |
| `Services` | the four together | one of them, of the kind `using`, in each behaviour |
| `ThreadLife` | `thread.c`, `idle.c`, the thread objects of `object.c` | `EXTENDS Cpu` |
| `SmallMem` | `mem.c` | |
| `AppTimers` | `timer.c` for the timers of the application | |
| `ContextSwitch` | `context_gcc.S`, `irq.c`, the nest level of `drv_i2c.c` | |
| `Flash` | `spi_flash_w25qx.c`, `diskio.c` | |
| `Usart` | `drv_usart.c` | |
| `Board` | the last five | one of them, `part`, in each behaviour |
| `TokenSemaphore`, `Channel`, `MessageChannel` | abstract | what a semaphore, a mailbox and a message queue promise |
| `MC...` | | instances for TLC |
| `ListLemmas`, `KernelProofs` | | lemmas on sequences and on the kernel |
| `SemaphoreProofs`, `MutexProofs`, `ThreadLifeProofs`, `ServicesProofs`, `BlockProofs`, `BoardProofs` | | theorems of the module named; `BlockProofs` has those about the blocks of the queue and the pool, `BoardProofs` those of all parts of `Board` |

`Services` and `Board` choose one component at the start: the parts of `Board`
share no state, and the objects of `Services` meet only through the kernel,
which each behaviour contains in full. One configuration then checks all of
them without a product of their states.

**State.** A list of the C code is the sequence of its members. A thread has
one list node (`tlist`), so `rt_list_remove(&thread->tlist)` takes it off
whichever list it is on: `Kernel!rt_list_remove` searches them all. The bitmap
is the set of its bits, and `number_mask` a set of its own, because the code
keeps it apart from `current_priority`. Names are those of the C code.

**Steps.** An action runs from the point where interrupts are enabled to the
next such point. A call with several critical sections has one action per
section, joined by `pc[t]`: a take that blocks is `Block` (suspend, queue,
start the timer), `Schedule` (`rt_schedule`) and `TakeReturn` (read
`thread->error`). `ThenSchedule` sends a thread to `Schedule` and `cont[t]`
says where it goes on once it is switched in again. Any handler may run between
two actions, unless `primask` says interrupts are disabled over several of
them (the loop of a RESET).

**Switching.** `rt_schedule` sets `rt_current_thread` and pends PendSV, which
runs as soon as no handler is active and interrupts are enabled. `Cpu` lets the
thread `k.current` names run when no handler is active; that the core really
does so, through the words from, to and flag and however often PendSV is pended
again, is what `ContextSwitch` shows (`CpuRunsCurrent`) for any choice
`rt_schedule` makes.

**What is abstracted.** Priorities, threads and objects are members of small
sets. `rt_tick` is kept modulo `TickMod`, with the comparisons of `timer.c` on
it. `timeout_tick` of a timer off the list is forgotten (nothing reads it).
Hooks, names and debug output are left out. A timeout of half the tick range or
more, which the code asserts against, does not occur. Waiting and sleeping with
the scheduler locked do: nothing tests for it (`RT_DEBUG_IN_THREAD_CONTEXT`
looks at the nest of interrupts alone), and `BlockLocked` says whether threads
of an instance do so. History variables (`credit`, `taken`, `asked`, `claims`,
`promised`, `deadline`, `buried`, `stops`, ...) record what callers were told;
only properties read them, and bounds on the environment.

**Semaphore.** `TokenSemaphore` has no threads, ticks or scheduler: a token is
given to the first of a waiting queue and is that waiter's from then on; a
waiter joins the queue behind all that are as urgent (PRIO) or behind everybody
(FIFO); a wait may be abandoned. `Semaphore` implements it (`ImplementsTokens`)
with `tokens <- value`, `waiting <- k.waitq`, and `granted` and `failed` the
threads that were woken by a release or otherwise and have not returned. That
PRIO waiters are in the order of urgency is part of this.

**Mailbox, queue, pool.** A woken thread is handed nothing: it competes, at
`SendAgain`, `RecvAgain`, ..., with threads that did not wait, and waits again
for what is `Left` of its time. So "no receiver waits beside a mail" is false
in the code's own terms, and the property is that for every mail in the ring
one woken receiver is on its way. A detach runs one loop of
`rt_ipc_list_resume_all` for each list (`DetachTest`, `DetachResume`), the
receivers' first. A thread that had been woken before and finds nothing queues
again (`ipc.c:1617`), during the loop or after it, and then nobody wakes it.
When a timeout empties the list between the test and the critical section, the
thread that detaches stops at `wild`: it has taken a list head for a thread
(finding 1), and what the program does from there on is not followed. `Ring`
reads the mailbox from `out_offset` on and maps it to the queue of `Channel`;
the message queue maps the chain from `msg_queue_head` to `MessageChannel`,
where urgent messages overtake. A send or a receive of the queue has its copy
outside of the critical sections: `msg[t]` is the block in the hands of `t`.

**Event.** A send goes through the waiting list in order (`Served` is a fold of
`Serve`), and flags with CLEAR are gone for those behind. `claims` counts for
each flag the receivers one send of it reached.

**Threads.** `ThreadLife` cuts startup, resume, suspend, exit, delete and detach
where the code enables interrupts. The code needs a protocol its callers keep
and nothing enforces: at most one thread is inside a call on a thread
(`Undisturbed`), and no such call is made on a thread in a timed sleep unless
`TimedTargets`. Within it the properties hold; `thread_delete` shows what
happens outside of it.

**Heap.** Each part of `mem.c` that holds `heap_sem` is one step; a realloc that
moves has three, with others in between. Addresses are counted in units, and a
header takes one.

**Timers.** A start and a stop are two critical sections each, a change of a
flag a read and a write. A callback runs in `Expire` with interrupts disabled
and may stop or start its timer. `restarts` and `lost` name the two faults of
`timer.c` that `ActivatedMeansLinked` excepts: a one-shot timer that its own
callback starts is marked inactive though it runs, and a flag read before an
expiry is written back after it. `StopHolds` needs no exception.

**Flash.** One command to the chip is one step; bytes that are programmed when
not erased become `Garbage`, and so does what is under way when the power
fails. `image` is what the caller asked for, and `given` how far `W25QXX_Write`
was told to go: `disk_write` passes a length of which 16 bits arrive
(`diskio.c:98`), so of 16 sectors it is given none. `WrittenAsGiven` holds the
write to what was given, for any mixture of erased and written bytes before.

**Serial line.** The IDLE handler is done before the next byte is, and the
callback reads the one buffer while DMA may fill it. Torn frames are possible
and are not claimed otherwise; the latest frame is read whole.

## 3. What the runs check

| Run | Instance | Result |
|---|---|---|
| `semaphore` | 3 threads (priorities 0, 1, 1) and idle, one PRIO semaphore, timed and endless waits, resets, a detach | types, consistency of the kernel data, tokens conserved, no waiter beside a token, a detach leaves nobody waiting, implements `TokenSemaphore` |
| `semaphore_live` | two threads and idle, timed waits and sleeps of 1 and 2 ticks, scheduler lock, under `FairSpec` | the most urgent ready thread runs, no timer is overdue, and every timed wait ends |
| `semaphore_detach_race` | timed waits and detach | **violated**: `rt_ipc_list_resume_all` takes a thread from an empty list |
| `semaphore_block_locked` | takes inside `rt_enter_critical` | **violated**: a take returns `RT_EOK` without a token |
| `mutex` | 3 threads of priorities 0, 1, 2 and idle, one PRIO mutex, recursion to 2, timed and endless waits, sleeping | consistency, mutual exclusion, fields agree with what callers were told, priority given back, no priority inversion |
| `mutex_nested` | two mutexes held at once | **violated**: a borrowed priority stays |
| `mutex_timeout` | timed waits only | **violated**: a release lowers the running thread's priority and does not reschedule |
| `services` | an urgent thread that waits for ever, one that waits a tick, idle, a handler; a mailbox, event, queue or pool of two; resets and a detach | no lost wake-up on any of them, blocks in one place, flags go to whom they should, deadlines kept, the most urgent thread runs, implements `Channel` and `MessageChannel` |
| `pool_timeout` | the pool alone | **violated**: a timed-out wait stays counted |
| `threads` | 4 threads (2 of one priority, one created and deleted twice), under `FairSpec` | list nodes and states agree, nothing freed is reachable, no thread is buried twice or brought back, every dead thread is reclaimed |
| `thread_delete` | the same, with calls on sleeping threads | **violated**: a timeout puts a thread that is being deleted on a ready list |
| `board` | each part of `Board` | the heap is sound and fails only when it must; timers expire in order and in time and stay stopped; the core runs the current thread and keeps every context; nest level; writes to the flash, and what a power failure may cost; the latest frame reaches the callback |

### The six findings

1. *Detach races a timeout* (`ipc.c:161`). `rt_ipc_list_resume_all` tests the
   list with interrupts enabled and takes its head in a critical section. When
   the last waiter times out in between, the head is the list itself. The same
   loop is in `rt_mp_detach` and `rt_mp_delete`.
2. *A take with the scheduler locked* (`ipc.c:395`). `rt_schedule` does not
   switch; `rt_sem_take` reads `error` = `RT_EOK` and returns success.
3. *Nested mutexes* (`ipc.c:697`). `original_priority` is recorded while the
   priority may be a borrowed one, so releasing in another order than the
   reverse of the takes leaves the borrowed one in place.
4. *Release after a timed-out waiter* (`ipc.c:831`). `need_schedule` is set
   only if a waiter is resumed, also when the priority has just been lowered.
5. *Delete of a sleeping thread* (`thread.c:417`). The timeout fires between
   the removal from the list and the detach of the timer, and the thread is
   closed while it is on a ready list.
6. *Count of waiters of a pool* (`mempool.c:337`). It is not decreased when a
   wait times out, and the next free takes the head of an empty list. In the
   model that free wakes nobody, as the word it reads as a state is not
   RT_THREAD_SUSPEND.

### Bounds, and why they are enough

- Threads: three and idle in `semaphore` and `mutex`. Two of one priority and
  one more urgent give round robin, preemption by a release and by a timeout,
  and a queue of three; three different priorities give inheritance with a
  middle thread. In `services` two threads, idle and a handler compete: one
  that was woken, one that did not wait, and one that waits.
- `TickMod = 5`: the counter wraps every five ticks; a timeout of 1 is then the
  longest below half the range. In `semaphore_live` and `board` it is 7
  and times are 1 and 2, so that a timer can be started behind, between and
  before others, on either side of the wrap. Time slices are 1 and 2.
- `MaxValue = 1`: a value of 0 and one above, which is all the code tests.
  `CanGive` bounds value and credit. `MaxNest` 0 or 1, `MaxHold` 1 or 2: none,
  one, and a nested one. Widths and their wrap are not covered.
- `size`, `Block`, `PoolBlock` of two: empty, part and full, a wrap of the ring
  and an order to get wrong. `MaxPending = 3` bounds the count finding 6 lets
  grow; a wait that would go past it does not begin.
- `MaxLives`: one thread is created anew once; the others live once.
- Heap of 11 units, a header of 1 and a smallest block of 2: three blocks that
  can be neighbours, splits with and without a rest, requests of every size
  around these and one that never fits.
- `MaxDepth = 2` handlers above PendSV, three threads: a switch that is pended,
  pended again to a third thread, or taken back, from a nested handler.
- Flash of 4 sectors of 2 pages of 2 bytes, the first sector outside of what
  `disk_write` uses, one request over every content in which each sector is
  erased, full, or has one byte written (`MCContents`; the proofs have any
  content). `Width = 8`: a `disk_write` of two sectors is cut to none, one of
  three to one, and `W25QXX_Write` takes up to 7 bytes, which cross a sector.
- `BufferSize = 8`, four frames of up to 3 bytes: DMA interrupts at half of the
  buffer, an event without a handler in this code.
- `StartIsShort`: a start is not held up between its two sections for so long
  that two timers of the list are half the tick range apart.
- `mutex` covers threads that own one mutex at a time (`Nested = FALSE`).
- `semaphore` and `services` contain the race of finding 1; what the program
  does once a list head was taken for a thread is not followed (`wild`).

No configuration turns deadlock checking off. `Board.cfg` takes symmetry of
timers and threads: its properties are invariants only, and no definition of
the parts orders these values.

### Fairness

- `semaphore_live`: `SF` on `SysTick_Handler`: interrupts are enabled again and
  again, however briefly, and a pending SysTick stays pending until it is
  taken. `WF` on `rt_timer_check` and `DeviceSchedule`: a handler that has begun
  runs. `WF` on the steps inside kernel calls: a thread that runs keeps
  executing. Application code need not call anything.
- `threads`: `SF` on `IdleStep`, and the property assumes that the idle thread
  gets the processor again and again: the code guarantees that no more than
  the other threads leave it.

## 4. What is proved

The theorems hold for any set of threads and objects, any priorities, time
slices, timeouts and tick width, under the named assumptions on constants and
the hypotheses in the table.

| Module | Theorem | States |
|---|---|---|
| `SemaphoreProofs` | `StateStaysConsistent` | `Spec /\ ~BlockLocked => []StateConsistent` |
| | `NoLostWakeup` | `Spec /\ ~BlockLocked => []NoWaiterBesideToken` |
| | `UrgentRuns` | `Spec /\ ~BlockLocked /\ Detachable = {} => []HighestPriorityRuns` |
| | `DetachLeavesNobody` | `Spec /\ ~BlockLocked => []NoWaiterAfterDetach` |
| | `TokensStayConserved` | `Spec /\ ~BlockLocked => []TokensConserved` |
| | `SemaphoresImplementTokens` | `Spec /\ ~BlockLocked => ImplementsTokens` |
| | `TimersAreKept` | `Spec /\ ~BlockLocked => []NoTimerOverdue` |
| `MutexProofs` | `MutexesExclude`, `OwnershipIsKept`, `MutexStateConsistent` | `Spec => []MutualExclusion`, `[]OwnershipAgrees`, `[]StateConsistent` |
| | `PriorityIsRestored` | `Spec /\ ~Nested => []PriorityRestored` |
| | `InversionIsBounded` | `Spec /\ ~Nested /\ SingleUrgencyMutex => []NoPriorityInversion` |
| `ThreadLifeProofs` | `ThreadsStayConsistent`, `FreedStaysUnreachable`, `LivesEndOnce`, `DeadAreNotRevived` | `~TimedTargets /\ Spec => []ThreadsConsistent`, `[]FreedIsUnreachable`, `[]BuriedOnce`, `DeadStayDead` |
| `ServicesProofs` | `UrgentThreadRuns`, `DeadlineIsKept`, `NoWakeUpIsLost` | `Spec => []MostUrgentRuns`, `[]DeadlineKept`, `[]NobodyWaitsInVain` |
| | `WokenThreadsAreServed`, `FlagsAreClaimedOnce` | `Spec => []ServedAsAsked`, `[]ClearedFlagGoesToOne` |
| | `MailboxImplementsChannel` | `Spec => ImplementsChannel` |
| `BlockProofs` | `StateStaysConsistent`, `BlocksStayInOnePlace` | `Spec => []StateConsistent`, `[]BlocksInOnePlace` |
| | `QueueImplementsMessageChannel` | `Spec => ImplementsMessageChannel` |
| `BoardProofs` | `HeapStaysSound` | `HeapSpec => []HeapSound`, and its parts as theorems of their own |
| | `FailsWhenFull` | `HeapSpec => []FailsOnlyWhenFull` |
| | `SwitchKeepsFrom`, `CoreFollowsScheduler`, `ContextsAreKept`, `NestIsCounted` | `SwitchSpec => []SwitchPending`, `[]CpuRunsCurrent`, `[]ContextsKept`, `[]NestCounts` |
| | `StopsHold`, `FlagsAreTrue`, `TimersExpireInTime` | `TimersSpec => []StopHolds`, `[]ActivatedMeansLinked`, `[]ExpireInTime` |
| | `LatestFrameArrives` | `UsartSpec => []LatestFrameDelivered` |
| | `FlashHoldsWhatWasGiven`, `PowerFailureIsLocal` | `Spec => []WrittenAsGiven`, `[]LossIsLocal` |
| | `BoardTypeCorrect` | `Spec => []TypeOK` |

**Assumptions.** `KernelAssumption` (an idle thread, at least one priority, time
slices above zero), `CpuAssumption` (each thread is on the start list of its
priority once, so that there are finitely many) and one assumption of each
component (timeouts below half the tick range, sizes above zero). The
hypotheses are what the code does not ensure by itself:

- `~BlockLocked`: no thread blocks in a take or sleeps with the scheduler
  locked. Finding 2 is about such a take; it leaves a suspended thread running,
  which may then suspend itself again.
- `Detachable = {}` in `UrgentRuns`: `rt_sem_detach` wakes the waiters and does
  not call `rt_schedule`.
- `~Nested`: no thread takes a mutex while it owns another (finding 3).
- `SingleUrgencyMutex`: one mutex, whose flag is PRIO. With FIFO the head of the
  queue that is handed the mutex may be less urgent than those behind it, and
  nobody lends it their priority. With two mutexes `rt_mutex_release` lowers the
  priority of its caller without a `rt_schedule` when the waiter that lent it
  has timed out (finding 4), and while that thread runs on, the owner of the
  other mutex, more urgent now, does not.
- `~TimedTargets`: nobody calls the kernel on a thread whose sleep may end
  (finding 5).

**Kernel.** `ListLemmas` holds the facts about removal, insertion and order in
sequences without repetition, and that a set of numbers has a least one: with
it, what a recursive definition computes follows from a least counterexample.
`KernelProofs` shows that the functions of `Kernel` preserve `KernelOK`
(well-formed and `Consistent`) and says what they do to states, error codes and
waiting lists; it also holds what the proofs share about the processor
(`CpuInv`), and about the times of timers (`TimersInTime`: the list is in the
order of what is left until expiry, each less than half the tick range).

**Semaphore.** The properties are not inductive. That a thread may be taken off
its ready list, for instance, needs that the running thread is on one, which
depends on where it is in its code. `IInv` adds that no thread is closed and a
suspended one is inside a take or a sleep (`SuspendedInCall`), and that the
thread `rt_current_thread` names is ready unless it is about to call
`rt_schedule`, and then the scheduler is not locked (`RunningIsReady`).
`UrgentRuns` needs a second layer, `UrgentInv`: also while the tick handler is
active, the current thread is the one `rt_schedule` would choose, unless it, a
device handler or a reset is on its way to `rt_schedule` (`Urgent`); and a
thread inside a reset runs with interrupts disabled (`ResetMasked`). The tokens,
the detach and the refinement rest on `WaitInv`: a queued thread is inside the
take of that semaphore with `RT_EOK` in its error code, and PRIO queues are in
the order of urgency. Every step then has one of seven effects on values,
queues and grants (`Rests`, `Takes`, `Adds`, `Resets`, `Joins`, `Wakes`,
`Returns`), and each effect is a step of `TokenSemaphore` or a stutter, and
keeps the sum of `TokensConserved`.

**Mutex.** `MutexInv` adds to `CpuInv` and `OwnershipAgrees` that a thread queued
on a mutex is inside the take of that mutex with `RT_EOK` in its error code
(`WaitersTake`: the code reads the outcome of the wait from it), and that the
priority an owner gets back is one (`OwnerRestores`). The second layer
`LendingInv` says that a thread owns one mutex at most (`OneAtATime`) and none
while it waits (`WaitersOwnNone`), so that a priority changes only while it is
lent through the one mutex, and that the priority recorded in it is the owner's
own (`OriginalIsOwn`). `InversionIsBounded` adds `Lent`, the owner is as urgent
as every waiter, and `HeadWhenAwaited`, while somebody waits for the mutex the
running thread is the one `rt_schedule` would choose.

**Threads.** `LifeInv` says for each point inside a call of `thread.c` or
`idle.c` what the sections before have established and must still hold
(`PointAgrees`), how often each thread was buried and whether it is an object
(`Accounted`), that no two threads are inside a call on the same one
(`TargetsApart`), and what the lists hold while a thread that is being deleted
is READY on no list (`LifeKernel`).

**Services.** `SInv` has three layers. `KInv` is about the kernel and the calls:
the lists are sound (`KernelSound`), a queued thread is inside a wait of that
object with `RT_EOK` in its error code (`QueuedInWait`), and a thread is inside
a wait of the object in use only (`WaitsForIt`). Every step of the four objects
has then one of two effects on threads and waiting lists: `Joins`, the caller
queues itself, or `Relaxes`, threads leave lists or waits and none enters one.
`Attended` rests on that: the current thread is the one `rt_schedule` would
choose unless a thread, a handler or a reset is on its way to it (`Urgent`), a
thread inside a reset runs with interrupts disabled (`ResetMasked`), and a
detach under way is noted (`DetachNoted`). `ObjectsSound` has the part of each object.
`NobodyWaitsInVain` follows from `Backed`: while threads wait, there are no more
mails, slots, messages or blocks than threads that were woken and have not
returned to the object; this counts the threads of `Woken`, and is kept because
a woken thread either takes what it was woken for or waits again in front of
nothing. For the pool the count includes a thread between its wake-up and its
new test of `block_free_count`. The mailbox is a ring (`RingOK`), and `Ring`,
its mails from the oldest to the newest, is the queue of `Channel`. For the
event, `EventInv` says what a woken thread was told; `rt_event_send` is a loop
over the waiting threads, a recursive function of the round (`Rounds`), and
`ServedSoFar` is what holds after each round, shown by way of the first round it
would not hold after. An object that is not in use is as it was initialised.

The lists of the message queue and of the pool are linked by addresses, and
`Chain` follows such a list by recursion. `Leads` says without recursion that
from an address on the pointers lead through a sequence of blocks without
repetition and end, and `ChainIs` that `Chain` computes that sequence: were it
false, there would be a least number of steps after which it is. Each way the
code rewrites pointers is then a lemma about the sequence (`LeadsPop`,
`LeadsPush`, `LeadsAppend`), and each critical section of the queue one about
all its lists at once (`Placed`: queue, free list and held blocks make up the
pool, `TakesBlock`, `LinksLast`, `LinksFirst`, `UnlinksFirst`, `GivesBack`,
`AllBack`). `BInv` says that such sequences exist, in `QueueInv` and `PoolInv`,
and of each thread whether it holds a block and what is in it (`Holds`): a
thread holds one exactly between its two critical sections, no two threads the
same one, and what rt_mq_recv copies is what it unlinked. `Contents`, the
messages along the queue, is the queue of `MessageChannel`: linking a block is
its `Send` or `Urgent`, unlinking one its `Receive`, and taking or giving back
a block a stutter. `BInv` needs `SInv`, for the types of the locals and for the
count of the pool that never falls below zero.

**Heap.** `HeapInv` says how the blocks tile the heap (`IsHeap`, `Chained`), that
no two neighbours are unused (`NoHoles`), that the blocks held, and a block that
`rt_realloc` moves, are in use and long enough (`Held`, `MovesApart`), and that
nothing below `lfree` is unused (`SearchStartsLowest`). `UsedCounted` compares
`used_mem` with the number of units in blocks that are in use.

**Context switch.** `SwitchPending` is what the other two rest on: while the
flag is set, from names the thread the core still holds and to names
`rt_current_thread`, and PendSV is on its way. `NestCounts` needs that the level
is counted per active handler and per transfer, also across switches of threads
within a transfer.

**Timers.** `TimersInv` adds `ListsAgree` (the list holds a timer once, and the
timers that `entered` names), `RemovedIsOff` (a timer its thread has taken off
the list stays off until it is inserted), `StartedAgain` (one that is being
started no longer counts as stopped and is not activated) and `FlagAgrees` (the
flag is right also while a stop or a control that has read it is under way).
`Timely` adds that what is left until each expiry is within a window of half
the tick range (`InWindow`) and that the list is in its order, timers of one
tick in the order of their insertion.

**Serial line.** `UsartInv` relates the counts of frames ended, announced and
read (`FramesCount`) to where the last frame is in the ring (`FrameInBuffer`,
`LastInBuffer`) and to how far the callback has read (`ReadsWithin`,
`ReadsLatest`).

**Flash.** `FlashInv` says at each command how far the write is: what of the
request is on the chip, what of the sector under way the shared buffer holds,
and that the bytes still to be programmed are erased.

**Only model-checked.** Liveness under fairness (`TimedWaitEnds`,
`DeadAreReclaimed`), which the prover cannot reason about. The runs that end in
a violation show that the hypotheses above are needed.

## 5. Not modelled

The status and reason of each component is in `PROJECT.json`. Most of the
repository is vendored: the HAL, CMSIS headers, FatFs with its code page and
register tables. Nothing in them is specific to this program, and the share of
all lines that the modules stand for is small for that reason; of the kernel
and the drivers it is most of what keeps state.

Not modelled of the kernel: memheap and slab (not configured), the soft timer
thread (not configured), object names and find, the formatting library, FinSH,
the stack check, hooks. Of the modelled parts: the width of counters; detach
of a mutex; register words and stack frames beyond who they belong to; bus
bytes and polling of the drivers. A delete is not told apart from a detach,
except for threads.

Hazards that no property covers, beside those `PROJECT.json` marks:

- A thread that is deleted while it holds `heap_sem` leaves it taken, and the
  idle thread suspends itself when it frees a stack (`idle.c:217`).
- A detach does not reschedule, unlike a reset (`ipc.c:949`).
- Inheritance is one step deep (`ipc.c:720`): `NoPriorityInversion` is stated
  for owners that are ready.
- Two threads that start one timer link its node twice (`timer.c:312`); a
  periodic timer of zero ticks never leaves `rt_timer_check` (`timer.c:532`); a
  time slice of zero lasts the whole tick range (`clock.c:77`).
- What is left of a wait for a pool block is computed with interrupts enabled
  (`mempool.c:362`), and the one that waits longest is served last
  (`mempool.c:336`). A pool too small for one block is written in front of
  (`mempool.c:116`).
- The serial interrupt is enabled before its semaphore is initialised
  (`drv_usart.c:49`).
- Two callers of the flash driver share its buffer (`spi_flash_w25qx.c:162`).
- A `disk_write` of 16 sectors writes none and returns `RES_OK`
  (`diskio.c:98`). The model has the cut; that a write is complete is not
  claimed.
- A thread that was woken before the detach of a mailbox, queue or pool and
  finds nothing waits on what is gone (`ipc.c:1617`). The model has these steps;
  that nobody is left behind is claimed of semaphores only
  (`NoWaiterAfterDetach`), whose takers do not try again.

## 6. What is left of the plan

1. An abstract lock that `Mutex` implements; detach of a mutex; an abstract
   scheduler (a set of ready threads, the most urgent one runs) that `Cpu`
   implements; an abstract allocator that `SmallMem` implements.
2. Proofs: that `Mutex`, `Cpu` and `SmallMem` implement those.
3. The soft timer thread, memheap; two callers of the flash; the widths of
   `value`, `hold` and the lock nest.
