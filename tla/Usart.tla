-------------------------------- MODULE Usart --------------------------------
(***************************************************************************)
(* The receiver of the serial line (drv_usart.c): DMA stores the bytes of a*)
(* frame, the IDLE interrupt at its end notes the length, releases a       *)
(* semaphore and starts DMA at the beginning of the same buffer again, and *)
(* the thread "serial" hands buffer and length to the callback.  A byte is *)
(* modelled by the number of its frame.                                    *)
(*                                                                         *)
(*   frame      the number of the frame on the line                        *)
(*   counter    the bytes of it that have come                             *)
(*   sem        the value of the semaphore                                 *)
(*   serial     where the thread is: "take", "taken" (back from            *)
(*              rt_sem_take), or "call", inside the callback               *)
(*   ch_len     the length the callback was called with                    *)
(*   view       the bytes the callback has read                            *)
(*   last       history variable: the frame that ended last, as sent       *)
(***************************************************************************)
EXTENDS Integers, Sequences

CONSTANTS
  BufferSize,  \* of rx_buffer: 512
  MaxFrames    \* bound on the frames

ASSUME UsartAssumption == BufferSize \in Nat \ {0} /\ MaxFrames \in Nat \ {0}

VARIABLES frame, counter, rx_buffer, data_len, sem, serial, ch_len, view, last
usart_vars ==
  <<frame, counter, rx_buffer, data_len, sem, serial, ch_len, view, last>>

UsartInit ==
  /\ frame = 1 /\ counter = 0 /\ rx_buffer = [i \in 1 .. BufferSize |-> 0]
  /\ data_len = 0 /\ sem = 0
  /\ serial = "take" /\ ch_len = 0 /\ view = << >> /\ last = << >>

\* A byte comes in.  A bound: frames are shorter than half the buffer, where
\* DMA raises an interrupt that the code has no handler for.
ByteComes ==
  /\ frame <= MaxFrames /\ counter + 1 < BufferSize \div 2
  /\ counter' = counter + 1
  /\ rx_buffer' = [rx_buffer EXCEPT ![counter + 1] = frame]
  /\ UNCHANGED <<frame, data_len, sem, serial, ch_len, view, last>>

\* The line falls idle.  The handler is done before the next byte is: it has
\* the time of a byte for it.
USART1_IRQHandler ==
  /\ counter > 0
  /\ data_len' = counter
  /\ sem' = sem + 1
  /\ last' = [i \in 1 .. counter |-> frame]
  /\ frame' = frame + 1 /\ counter' = 0
  /\ UNCHANGED <<rx_buffer, serial, ch_len, view>>

SemTake ==
  /\ serial = "take" /\ sem > 0
  /\ sem' = sem - 1 /\ serial' = "taken"
  /\ UNCHANGED <<frame, counter, rx_buffer, data_len, ch_len, view, last>>

\* The arguments of UsartCallBack are read.
Call ==
  /\ serial = "taken"
  /\ serial' = "call" /\ ch_len' = data_len /\ view' = << >>
  /\ UNCHANGED <<frame, counter, rx_buffer, data_len, sem, last>>

\* The callback reads the buffer byte by byte, and returns.
CallbackReads ==
  /\ serial = "call" /\ Len(view) < ch_len
  /\ view' = Append(view, rx_buffer[Len(view) + 1])
  /\ UNCHANGED <<frame, counter, rx_buffer, data_len, sem, serial, ch_len, last>>

\* Mutant: the announcements that came meanwhile are dropped.
ReturnsAndDrains ==
  /\ serial = "call" /\ Len(view) = ch_len
  /\ serial' = "take" /\ sem' = 0
  /\ UNCHANGED <<frame, counter, rx_buffer, data_len, ch_len, view, last>>

CallbackReturns ==
  /\ serial = "call" /\ Len(view) = ch_len
  /\ serial' = "take"
  /\ UNCHANGED <<frame, counter, rx_buffer, data_len, sem, ch_len, view, last>>

\* The line is silent and the thread waits.
LineRests ==
  /\ frame > MaxFrames /\ serial = "take" /\ sem = 0
  /\ UNCHANGED usart_vars

UsartNext ==
  \/ ByteComes \/ USART1_IRQHandler
  \/ SemTake \/ Call \/ CallbackReads \/ CallbackReturns \/ LineRests

UsartSpec == UsartInit /\ [][UsartNext]_usart_vars

-----------------------------------------------------------------------------
UsartTypeOK ==
  /\ frame \in 1 .. MaxFrames + 1 /\ counter \in 0 .. BufferSize \div 2
  /\ rx_buffer \in [1 .. BufferSize -> 0 .. MaxFrames]
  /\ {data_len, ch_len} \subseteq 0 .. BufferSize \div 2
  /\ sem \in 0 .. MaxFrames /\ serial \in {"take", "taken", "call"}
  /\ view \in Seq(0 .. MaxFrames) /\ last \in Seq(1 .. MaxFrames)

\* Frames that come faster than the callback reads are overwritten in the one
\* buffer and read torn, but the latest one is not: whenever the line is
\* silent and the thread waits again, the last call of UsartCallBack read the
\* last frame whole, with its length, and nothing of an older one.
LatestFrameDelivered ==
  (counter = 0 /\ serial = "take" /\ sem = 0) => view = last
=============================================================================
