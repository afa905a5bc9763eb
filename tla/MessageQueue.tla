---------------------------- MODULE MessageQueue ----------------------------
(***************************************************************************)
(* One message queue (ipc.c): message blocks on a list from msg_queue_head *)
(* to msg_queue_tail, or on the free list.  A send takes a free block in   *)
(* one critical section, copies the message with interrupts enabled and    *)
(* links the block in a second one; a receive unlinks the first block,     *)
(* copies it, and gives it back in a second critical section.              *)
(*                                                                         *)
(*   next, data      the next pointer and the message of each block        *)
(*   msg_queue_head, msg_queue_tail, msg_queue_free, mq_entry              *)
(*   msg[t]          the block thread t is copying into or from            *)
(*   promised[t]     history variable: the message that block held when t  *)
(*                   unlinked it, or that t sends                          *)
(*   mq_received     history variable: the message unlinked last           *)
(***************************************************************************)
EXTENDS Ipc, Chains

CONSTANTS
  Block,    \* the message blocks
  Message,  \* the messages that are sent
  UrgentMessage,  \* those that are sent with rt_mq_urgent
  NoMessage \* no message

ASSUME MessageQueueAssumption ==
  /\ IsFiniteSet(Block) /\ Block # {} /\ NULL \notin Block
  /\ NoMessage \notin Message /\ UrgentMessage \subseteq Message

VARIABLES next, data, msg_queue_head, msg_queue_tail, msg_queue_free, mq_entry,
          msg, promised, mq_received
lists == <<next, msg_queue_head, msg_queue_tail, msg_queue_free, mq_entry>>
queue_vars == <<next, data, msg_queue_head, msg_queue_tail, msg_queue_free,
                mq_entry, msg, promised, mq_received>>

max_msgs == Cardinality(Block)

\* The free list links the blocks from the last of the pool to the first.
MqInit ==
  LET order == SetToSeq(Block)
  IN  /\ next = Linked(Reverse(order)) /\ msg_queue_free = Last(order)
      /\ data = [b \in Block |-> NoMessage]
      /\ msg_queue_head = NULL /\ msg_queue_tail = NULL /\ mq_entry = 0
      /\ msg = [t \in Thread |-> NULL]
      /\ promised = [t \in Thread |-> NoMessage] /\ mq_received = NoMessage

-----------------------------------------------------------------------------
\* The first critical section of rt_mq_send and rt_mq_urgent: take a free
\* block; c is the point of the second one.  Nothing reads the next pointer
\* of a block a thread holds: it is forgotten.
MqTakeBlock(t, m, c) ==
  /\ Calls(t) /\ t # Idle /\ msg_queue_free # NULL
  /\ msg' = [msg EXCEPT ![t] = msg_queue_free]
  /\ msg_queue_free' = next[msg_queue_free]
  /\ next' = [next EXCEPT ![msg_queue_free] = NULL]
  /\ promised' = [promised EXCEPT ![t] = m]
  /\ Goto(t, c)
  /\ UNCHANGED <<k, primask, systick, device, waiting, data,
                 msg_queue_head, msg_queue_tail, mq_entry, mq_received>>

\* Mutant: the queue is a stack.
LinkAsStack(b, m) ==
  /\ next' = [next EXCEPT ![b] = msg_queue_head]
  /\ data' = [data EXCEPT ![b] = m]
  /\ msg_queue_head' = b
  /\ msg_queue_tail' = IF msg_queue_tail = NULL THEN b ELSE msg_queue_tail
  /\ mq_entry' = mq_entry + 1
  /\ Wake(suspend_thread)

\* The new last block, holding m.
LinkLast(b, m) ==
  LET n == [next EXCEPT ![b] = NULL]
  IN  /\ next' = IF msg_queue_tail = NULL THEN n ELSE [n EXCEPT ![msg_queue_tail] = b]
      /\ data' = [data EXCEPT ![b] = m]
      /\ msg_queue_tail' = b
      /\ msg_queue_head' = IF msg_queue_head = NULL THEN b ELSE msg_queue_head
      /\ mq_entry' = mq_entry + 1
      /\ Wake(suspend_thread)

\* The new first block, of rt_mq_urgent.
LinkFirst(b, m) ==
  /\ next' = [next EXCEPT ![b] = msg_queue_head]
  /\ data' = [data EXCEPT ![b] = m]
  /\ msg_queue_head' = b
  /\ msg_queue_tail' = IF msg_queue_tail = NULL THEN b ELSE msg_queue_tail
  /\ mq_entry' = mq_entry + 1
  /\ Wake(suspend_thread)

\* The copying and the second critical section.
MqLink(t) ==
  /\ Running(t)
  /\ \/ pc[t] = "mq_send" /\ LinkLast(msg[t], promised[t])
     \/ pc[t] = "mq_urgent" /\ LinkFirst(msg[t], promised[t])
  /\ ReturnAfterWake(t, suspend_thread)
  /\ msg' = [msg EXCEPT ![t] = NULL]
  /\ promised' = [promised EXCEPT ![t] = NoMessage]
  /\ UNCHANGED <<primask, systick, device, waiting, msg_queue_free, mq_received>>

\* rt_mq_send or rt_mq_urgent by a device handler: nothing comes between
\* its two critical sections that uses the queue.
DeviceMqSend(m) ==
  LET b == msg_queue_free
  IN  /\ InThread /\ ~primask /\ ~detached /\ b # NULL
      /\ msg_queue_free' = next[b]
      /\ IF m \in UrgentMessage THEN LinkFirst(b, m) ELSE LinkLast(b, m)
      /\ device' = (k.waitq[suspend_thread] # << >>)
      /\ UNCHANGED <<pc, cont, primask, systick, waiting, msg, promised, mq_received>>

-----------------------------------------------------------------------------
\* Mutant: the block is given back before it is copied.
UnlinkAndFree(t) ==
  LET b == msg_queue_head
  IN  /\ mq_entry # 0
      /\ msg_queue_head' = next[b]
      /\ msg_queue_tail' = IF msg_queue_tail = b THEN NULL ELSE msg_queue_tail
      /\ mq_entry' = mq_entry - 1
      /\ next' = [next EXCEPT ![b] = msg_queue_free] /\ msg_queue_free' = b
      /\ msg' = [msg EXCEPT ![t] = b]
      /\ promised' = [promised EXCEPT ![t] = data[b]] /\ mq_received' = data[b]
      /\ Goto(t, "mq_copy") /\ Forget(t)
      /\ UNCHANGED <<k, primask, systick, device, data>>

\* rt_mq_recv with a message: unlink the first block.
Unlink(t) ==
  LET b == msg_queue_head
  IN  /\ mq_entry # 0
      /\ msg_queue_head' = next[b]
      /\ msg_queue_tail' = IF msg_queue_tail = b THEN NULL ELSE msg_queue_tail
      /\ mq_entry' = mq_entry - 1
      /\ next' = [next EXCEPT ![b] = NULL]
      /\ msg' = [msg EXCEPT ![t] = b]
      /\ promised' = [promised EXCEPT ![t] = data[b]] /\ mq_received' = data[b]
      /\ Goto(t, "mq_copy") /\ Forget(t)
      /\ UNCHANGED <<k, primask, systick, device, data, msg_queue_free>>

MqRecv(t)      == Calls(t) /\ t # Idle /\ Unlink(t)
MqRecvAgain(t) == Resumes(t, "recv") /\ Unlink(t)

\* rt_mq_recv by a device handler, which does not wait.
DeviceMqRecv ==
  LET b == msg_queue_head
  IN  /\ InThread /\ ~primask /\ ~detached /\ mq_entry # 0
      /\ msg_queue_head' = next[b]
      /\ msg_queue_tail' = IF msg_queue_tail = b THEN NULL ELSE msg_queue_tail
      /\ mq_entry' = mq_entry - 1
      /\ next' = [next EXCEPT ![b] = msg_queue_free] /\ msg_queue_free' = b
      /\ mq_received' = data[b] /\ data' = [data EXCEPT ![b] = NoMessage]
      /\ UNCHANGED <<cpu, waiting, msg, promised>>

MqAwait(t, time) ==
  /\ mq_entry = 0 /\ time # 0
  /\ Await(t, Queued(t, suspend_thread), "recv", time)
  /\ UNCHANGED queue_vars

MqRecvWait(t, time) ==
  Calls(t) /\ t # Idle /\ MqAwait(t, time) /\ Begins(t, time)

MqRecvWaitAgain(t) ==
  Resumes(t, "recv") /\ MqAwait(t, Left(t)) /\ UNCHANGED deadline

MqRecvGivesUp(t) ==
  /\ Fails(t, "recv") \/ (mq_entry = 0 /\ GivesUp(t, "recv", "ETIMEOUT"))
  /\ UNCHANGED queue_vars

\* The copying is done: put the block on the free list, where nothing reads
\* its message.
MqFreeBlock(t) ==
  /\ Running(t) /\ pc[t] = "mq_copy"
  /\ next' = [next EXCEPT ![msg[t]] = msg_queue_free]
  /\ msg_queue_free' = msg[t]
  /\ data' = [data EXCEPT ![msg[t]] = NoMessage]
  /\ msg' = [msg EXCEPT ![t] = NULL]
  /\ promised' = [promised EXCEPT ![t] = NoMessage]
  /\ Goto(t, "run")
  /\ UNCHANGED <<k, primask, systick, device, waiting, msg_queue_head,
                 msg_queue_tail, mq_entry, mq_received>>

-----------------------------------------------------------------------------
Queue == Chain(next, msg_queue_head)
Free  == Chain(next, msg_queue_free)

\* rt_mq_control(RESET), when everybody is woken: every queued block is
\* moved to the free list.
MqReset(t) ==
  LET q    == Queue.seq
      free == Reverse(q) \o Free.seq
  IN  /\ ResetEnd(t)
      /\ next' = [b \in Block |-> IF b \in ToSet(free) THEN Linked(free)[b] ELSE next[b]]
      /\ msg_queue_free' = IF q = << >> THEN msg_queue_free ELSE Last(q)
      /\ msg_queue_head' = NULL /\ msg_queue_tail' = NULL
      /\ mq_entry' = 0
      /\ data' = [b \in Block |-> IF b \in ToSet(q) THEN NoMessage ELSE data[b]]
      /\ UNCHANGED <<msg, promised, mq_received>>

-----------------------------------------------------------------------------
MqStep(t) ==
  \/ ObjectStep(t, "run") /\ UNCHANGED queue_vars
  \/ MqLink(t) \/ MqFreeBlock(t) \/ MqReset(t)
  \/ MqRecvAgain(t) \/ MqRecvWaitAgain(t) \/ MqRecvGivesUp(t)

MqCall(t) ==
  \/ ObjectCall(t) /\ UNCHANGED queue_vars
  \/ \E m \in Message :
       MqTakeBlock(t, m, IF m \in UrgentMessage THEN "mq_urgent" ELSE "mq_send")
  \/ MqRecv(t) \/ \E time \in WaitTimes[t] : MqRecvWait(t, time)

MqHandler ==
  \/ IpcHandler /\ UNCHANGED queue_vars
  \/ DeviceMqRecv \/ \E m \in Message : DeviceMqSend(m)

MqNext == MqHandler \/ \E t \in Thread : MqStep(t) \/ MqCall(t)

-----------------------------------------------------------------------------
Link == Block \cup {NULL}

MqTypeOK ==
  /\ next \in [Block -> Link] /\ data \in [Block -> Message \cup {NoMessage}]
  /\ {msg_queue_head, msg_queue_tail, msg_queue_free} \subseteq Link
  /\ mq_entry \in 0 .. max_msgs
  /\ msg \in [Thread -> Link]
  /\ promised \in [Thread -> Message \cup {NoMessage}]
  /\ mq_received \in Message \cup {NoMessage}

\* Every block is on the queue, on the free list, or in the hands of one
\* thread that copies, and on one of them only; the queue has mq_entry
\* blocks and ends at msg_queue_tail: however sends, urgent sends, receives
\* and resets interleave between their two critical sections.
BlocksPartitioned ==
  LET held == {t \in Thread : msg[t] # NULL}
      queue == Queue
      free  == Free
      all  == queue.seq \o free.seq
  IN  /\ queue.at = NULL /\ free.at = NULL
      /\ IsInjective(all)
      /\ \A t \in held : msg[t] \notin ToSet(all)
      /\ \A t, u \in held : msg[t] = msg[u] => t = u
      /\ Len(all) + Cardinality(held) = max_msgs
      /\ Len(queue.seq) = mq_entry
      /\ msg_queue_tail = IF mq_entry = 0 THEN NULL ELSE Last(queue.seq)

\* What rt_mq_recv copies after it enabled interrupts is still the message
\* it unlinked: nobody writes into the block meanwhile.
CopiedIntact ==
  \A t \in Thread : pc[t] = "mq_copy" => data[msg[t]] = promised[t]

\* No lost wake-up in rt_mq_send and rt_mq_urgent: while receivers wait
\* there is a woken one on its way for every message in the queue.
NoReceiverBesideMessage ==
  k.waitq[suspend_thread] # << >> => mq_entry <= Cardinality(Woken("recv"))

\* The messages of the queue.
Contents == LET q == Queue.seq IN [i \in DOMAIN q |-> data[q[i]]]

\* The queue is a bounded channel that the urgent messages overtake.
Messages == INSTANCE MessageChannel
  WITH Mail <- Message, NoMail <- NoMessage, UrgentMail <- UrgentMessage,
       Capacity <- max_msgs, queue <- Contents, received <- mq_received

ImplementsMessageChannel == Messages!UrgentSpec
=============================================================================
