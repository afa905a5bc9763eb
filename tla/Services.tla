------------------------------ MODULE Services ------------------------------
(***************************************************************************)
(* The mailbox, the event, the message queue and the memory pool, each on the kernel    *)
(* and the core it shares with the others: an instance of this module      *)
(* chooses the object that the threads and handlers use.                   *)
(***************************************************************************)
EXTENDS Mailbox, Event, MessageQueue, MemPool

CONSTANT Kinds  \* the objects to choose from

ASSUME ServicesAssumption == Kinds \subseteq {"mb", "event", "mq", "mp"}

VARIABLE using
vars == <<k, pc, cont, primask, systick, device, timeout, start, deadline,
          detached, msg_pool, entry, in_offset, out_offset, mail, received, set, event_set, event_info, asked, claims,
          next, data, msg_queue_head, msg_queue_tail, msg_queue_free, mq_entry,
          msg, promised, mq_received,
          block_next, block_list, block_free_count, suspend_thread_count, using>>

Init == IpcInit /\ MbInit /\ EventInit /\ MqInit /\ PoolInit /\ using \in Kinds

Next ==
  \/ using = "mb"    /\ MbNext    /\ UNCHANGED <<using, event, queue_vars, mempool>>
  \/ using = "event" /\ EventNext /\ UNCHANGED <<using, mailbox, queue_vars, mempool>>
  \/ using = "mq"    /\ MqNext    /\ UNCHANGED <<using, mailbox, event, mempool>>
  \/ using = "mp"    /\ PoolNext  /\ UNCHANGED <<using, mailbox, event, queue_vars>>

Spec == Init /\ [][Next]_vars

TypeOK ==
  /\ IpcTypeOK
  /\ pc \in [Thread -> Point \cup {"mq_send", "mq_urgent", "mq_copy", "alloc_test"}]
  /\ MbTypeOK /\ EventTypeOK /\ MqTypeOK /\ PoolTypeOK
  /\ using \in Kinds

\* Every variable keeps its type, and the kernel's lists, bitmap, states and
\* timers agree, whatever the objects do to the threads that wait for them.
StateConsistent == TypeOK /\ KernelConsistent

\* No wake-up is lost on any object (ipc.c, mempool.c): for what is there to
\* fetch, and for the room there is to send, a woken thread is on its way to
\* it as long as others wait for it.
NobodyWaitsInVain ==
  /\ NoReceiverBesideMail /\ NoSenderBesideRoom
  /\ NoWaiterBesideFlags
  /\ NoReceiverBesideMessage
  /\ NoWaiterBesideBlock

\* A block of a queue or of a pool is in one place, and what is in the block
\* a thread copies stays there, however two-part calls interleave.
BlocksInOnePlace == BlocksPartitioned /\ CopiedIntact /\ PoolPartitioned
=============================================================================
