------------------------------ MODULE Mailbox ------------------------------
(***************************************************************************)
(* One mailbox (ipc.c): a ring of mails, threads that send and receive     *)
(* without waiting, for a time or for ever, device handlers that send and  *)
(* receive, rt_mb_control(RESET) and detach.  A thread that is woken       *)
(* competes for the mail, or the room, with threads that did not wait, and *)
(* may have to wait again for what is left of its time.                    *)
(*                                                                         *)
(*   msg_pool, entry, in_offset, out_offset                                *)
(*              the fields of the mailbox; its lists of waiting receivers  *)
(*              and senders are k.waitq                                    *)
(*   mail[t]    value of the send t is inside                              *)
(*   received   history variable: the mail rt_mb_recv returned last        *)
(***************************************************************************)
EXTENDS Ipc

CONSTANTS
  Mail,             \* the values that are sent
  NoMail,           \* what a slot that was never written holds
  size

ASSUME MailboxAssumption ==
  /\ NoMail \notin Mail
  /\ size \in Nat \ {0}

VARIABLES msg_pool, entry, in_offset, out_offset, mail, received
ring == <<msg_pool, entry, in_offset, out_offset>>
mailbox == <<msg_pool, entry, in_offset, out_offset, mail, received>>
MbInit ==
  /\ msg_pool = [i \in 0 .. size - 1 |-> NoMail]
  /\ entry = 0 /\ in_offset = 0 /\ out_offset = 0
  /\ mail = [t \in Thread |-> NoMail]
  /\ received = NoMail

-----------------------------------------------------------------------------
Advanced(i) == IF i + 1 >= size THEN 0 ELSE i + 1

\* The mail of a send that is over.
Posted(t) == mail' = [mail EXCEPT ![t] = NoMail]

-----------------------------------------------------------------------------
\* rt_mb_send_wait with room: store the mail, wake a receiver.
Store(v) ==
  /\ entry # size
  /\ msg_pool'  = [msg_pool EXCEPT ![in_offset] = v]
  /\ in_offset' = Advanced(in_offset)
  /\ entry' = entry + 1
  /\ UNCHANGED <<out_offset, received>>
  /\ Wake(suspend_thread)

Sent(t, v) ==
  /\ Store(v)
  /\ ReturnAfterWake(t, suspend_thread) /\ Forget(t) /\ Posted(t)
  /\ UNCHANGED <<primask, systick, device>>

AwaitRoom(t, v, time) ==
  /\ entry = size /\ time # 0
  /\ Await(t, Queued(t, suspend_sender_thread), "send", time)
  /\ mail' = [mail EXCEPT ![t] = v]
  /\ UNCHANGED <<ring, received>>

Send(t, v) == Calls(t) /\ t # Idle /\ Sent(t, v)

SendWait(t, v, time) ==
  Calls(t) /\ t # Idle /\ AwaitRoom(t, v, time) /\ Begins(t, time)

\* rt_mb_send_wait after rt_schedule: try again.
SendAgain(t)     == Resumes(t, "send") /\ Sent(t, mail[t])
SendWaitAgain(t) ==
  Resumes(t, "send") /\ AwaitRoom(t, mail[t], Left(t)) /\ UNCHANGED deadline

\* -RT_EFULL, or the error the thread was woken with.
SendGivesUp(t) ==
  /\ Fails(t, "send") \/ (entry = size /\ GivesUp(t, "send", "EOK"))
  /\ Posted(t)
  /\ UNCHANGED <<ring, received>>

\* rt_mb_send called by a device handler.
DeviceSend(v) ==
  /\ InThread /\ ~primask /\ ~detached
  /\ Store(v)
  /\ device' = (k.waitq[suspend_thread] # << >>)
  /\ UNCHANGED <<pc, cont, primask, systick, waiting, mail>>

-----------------------------------------------------------------------------
\* rt_mb_recv with a mail: fetch it, wake a sender.  Nothing reads a slot
\* that is free again: its mail is forgotten.
Fetch ==
  /\ entry # 0
  /\ received' = msg_pool[out_offset]
  /\ msg_pool' = [msg_pool EXCEPT ![out_offset] = NoMail]
  /\ out_offset' = Advanced(out_offset)
  /\ entry' = entry - 1
  /\ UNCHANGED in_offset
  /\ Wake(suspend_sender_thread)

Received(t) ==
  /\ Fetch
  /\ ReturnAfterWake(t, suspend_sender_thread) /\ Forget(t)
  /\ UNCHANGED <<primask, systick, device, mail>>

AwaitMail(t, time) ==
  /\ entry = 0 /\ time # 0
  /\ Await(t, Queued(t, suspend_thread), "recv", time)
  /\ UNCHANGED mailbox

\* rt_mb_recv called by a device handler, which does not wait.
DeviceRecv ==
  /\ InThread /\ ~primask /\ ~detached
  /\ Fetch
  /\ device' = (k.waitq[suspend_sender_thread] # << >>)
  /\ UNCHANGED <<pc, cont, primask, systick, waiting, mail>>

Recv(t) == Calls(t) /\ t # Idle /\ Received(t)

RecvWait(t, time) ==
  Calls(t) /\ t # Idle /\ AwaitMail(t, time) /\ Begins(t, time)

\* rt_mb_recv after rt_schedule: try again.
RecvAgain(t)     == Resumes(t, "recv") /\ Received(t)
RecvWaitAgain(t) ==
  Resumes(t, "recv") /\ AwaitMail(t, Left(t)) /\ UNCHANGED deadline

\* -RT_ETIMEOUT, or the error the thread was woken with.
RecvGivesUp(t) ==
  /\ Fails(t, "recv") \/ (entry = 0 /\ GivesUp(t, "recv", "ETIMEOUT"))
  /\ UNCHANGED mailbox

-----------------------------------------------------------------------------
\* Mutant: out_offset is not reset.
ResetInOnly(t) ==
  /\ ResetEnd(t)
  /\ entry' = 0 /\ in_offset' = 0
  /\ msg_pool' = [i \in 0 .. size - 1 |-> NoMail]
  /\ UNCHANGED <<out_offset, mail, received>>

\* rt_mb_control(RESET), when everybody is woken: empty the ring.
ResetRing(t) ==
  /\ ResetEnd(t)
  /\ entry' = 0 /\ in_offset' = 0 /\ out_offset' = 0
  /\ msg_pool' = [i \in 0 .. size - 1 |-> NoMail]
  /\ UNCHANGED <<mail, received>>

\* rt_mb_detach, the loop over the senders.
SendersDetach(t) ==
  \/ DetachTest(t, suspend_sender_thread, "run")
  \/ DetachResume(t, suspend_sender_thread)

-----------------------------------------------------------------------------
MbStep(t) ==
  \/ (ObjectStep(t, "senders_test") \/ SendersDetach(t)) /\ UNCHANGED mailbox
  \/ SendAgain(t) \/ SendWaitAgain(t) \/ SendGivesUp(t)
  \/ RecvAgain(t) \/ RecvWaitAgain(t) \/ RecvGivesUp(t)
  \/ ResetRing(t)

MbCall(t) ==
  \/ ObjectCall(t) /\ UNCHANGED mailbox
  \/ \E v \in Mail : Send(t, v) \/ \E time \in WaitTimes[t] : SendWait(t, v, time)
  \/ Recv(t) \/ \E time \in WaitTimes[t] : RecvWait(t, time)

MbHandler ==
  \/ IpcHandler /\ UNCHANGED mailbox
  \/ DeviceRecv \/ \E v \in Mail : DeviceSend(v)

MbNext == MbHandler \/ \E t \in Thread : MbStep(t) \/ MbCall(t)

-----------------------------------------------------------------------------
MbTypeOK ==
  /\ msg_pool \in [0 .. size - 1 -> Mail \cup {NoMail}]
  /\ entry \in 0 .. size
  /\ in_offset \in 0 .. size - 1 /\ out_offset \in 0 .. size - 1
  /\ mail \in [Thread -> Mail \cup {NoMail}] /\ received \in Mail \cup {NoMail}

\* No lost wake-up in rt_mb_send_wait: while receivers wait there is a woken
\* one on its way for every mail in the ring, whoever else fetches mails,
\* gives up or times out.
NoReceiverBesideMail ==
  k.waitq[suspend_thread] # << >> => entry <= Cardinality(Woken("recv"))

\* No lost wake-up in rt_mb_recv: while senders wait there is a woken one on
\* its way for every free slot.
NoSenderBesideRoom ==
  k.waitq[suspend_sender_thread] # << >> =>
    size - entry <= Cardinality(Woken("send"))

\* The ring, from out_offset on, is a bounded first-in first-out channel:
\* what rt_mb_recv returns is the oldest mail stored, never one twice.
Ring == [i \in 1 .. entry |-> msg_pool[(out_offset + i - 1) % size]]

Fifo == INSTANCE Channel WITH Capacity <- size, queue <- Ring

ImplementsChannel == Fifo!Spec
=============================================================================
