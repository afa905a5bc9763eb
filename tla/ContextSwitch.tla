---------------------------- MODULE ContextSwitch ----------------------------
(***************************************************************************)
(* How a decision of rt_schedule reaches the registers of the core         *)
(* (libcpu/arm/cortex-m3/context_gcc.S), and the count of nested           *)
(* interrupts (irq.c) that goes with it.  rt_schedule only writes the      *)
(* words from, to and flag and pends PendSV, the exception of lowest       *)
(* priority: it runs when the last other handler has returned, and until   *)
(* then handlers may call rt_schedule again.  Which thread rt_schedule     *)
(* chooses is the matter of Kernel: here it is any.                        *)
(*                                                                         *)
(*   on_cpu    the thread whose registers the core holds, NULL before the  *)
(*             first switch                                                *)
(*   sp[t]     the thread whose saved registers the word t->sp leads to,   *)
(*             NULL when they are no longer there                          *)
(*   pendsv    PendSV is "pending", "active" before its CPSID, "both" when *)
(*             a handler that preempted it there pended it again, or "none"*)
(*   handlers  the active handlers, the innermost last: "entry" before     *)
(*             rt_interrupt_enter, "body", "exit" after rt_interrupt_leave *)
(*   transfers the threads inside an I2C transfer, which call              *)
(*             rt_interrupt_enter and rt_interrupt_leave as well           *)
(***************************************************************************)
EXTENDS Integers, Sequences, FiniteSets

CONSTANTS
  Thr,      \* the threads
  NULL,
  MaxDepth  \* how deep handlers nest

ASSUME ContextAssumption == NULL \notin Thr /\ IsFiniteSet(Thr) /\ MaxDepth \in Nat

VARIABLES rt_current_thread, rt_interrupt_from_thread, rt_interrupt_to_thread,
          rt_thread_switch_interrupt_flag, pendsv, on_cpu, sp,
          rt_interrupt_nest, handlers, transfers
words == <<rt_current_thread, rt_interrupt_from_thread, rt_interrupt_to_thread,
           rt_thread_switch_interrupt_flag, pendsv>>
registers == <<on_cpu, sp>>
nesting == <<rt_interrupt_nest, handlers, transfers>>
switch_vars == <<words, registers, nesting>>

\* rt_system_scheduler_start: rt_hw_context_switch_to leaves from at 0.
SwitchInit ==
  /\ rt_current_thread \in Thr
  /\ rt_interrupt_to_thread = rt_current_thread
  /\ rt_interrupt_from_thread = NULL
  /\ rt_thread_switch_interrupt_flag = TRUE /\ pendsv = "pending"
  /\ on_cpu = NULL /\ sp = [t \in Thr |-> t]
  /\ rt_interrupt_nest = 0 /\ handlers = << >> /\ transfers = {}

\* Threads run when no handler is active and none is pending.
ThreadMode == handlers = << >> /\ pendsv = "none"

\* The bit PENDSVSET is set.
Pended == IF pendsv \in {"active", "both"} THEN "both" ELSE "pending"

Innermost(stage) == handlers # << >> /\ handlers[Len(handlers)] = stage

-----------------------------------------------------------------------------
\* rt_hw_context_switch and rt_hw_context_switch_interrupt, one routine.
rt_hw_context_switch(t1, t2) ==
  /\ rt_thread_switch_interrupt_flag' = TRUE
  /\ rt_interrupt_from_thread' =
       IF rt_thread_switch_interrupt_flag THEN rt_interrupt_from_thread ELSE t1
  /\ rt_interrupt_to_thread' = t2
  /\ pendsv' = Pended

\* rt_schedule chooses t, called by a thread or by a handler.
SwitchTo(t) ==
  /\ t # rt_current_thread
  /\ rt_current_thread' = t
  /\ rt_hw_context_switch(rt_current_thread, t)

ScheduleInThread(t) ==
  /\ ThreadMode /\ on_cpu \notin transfers
  /\ SwitchTo(t)
  /\ UNCHANGED <<registers, nesting>>

ScheduleInHandler(t) ==
  /\ Innermost("body")
  /\ SwitchTo(t)
  /\ UNCHANGED <<registers, nesting>>

\* The core enters PendSV_Handler when no other handler is left.
EnterPendSV ==
  /\ handlers = << >> /\ pendsv = "pending"
  /\ pendsv' = "active"
  /\ UNCHANGED <<rt_current_thread, rt_interrupt_from_thread, rt_interrupt_to_thread,
                 rt_thread_switch_interrupt_flag, registers, nesting>>

\* Mutants: a switch pended again is taken for one handled; the registers are
\* not saved.
PendSVDropsRepended ==
  /\ handlers = << >> /\ pendsv \in {"active", "both"}
  /\ pendsv' = IF pendsv = "both" THEN "pending" ELSE "none"
  /\ rt_thread_switch_interrupt_flag' = FALSE
  /\ \/ /\ rt_thread_switch_interrupt_flag /\ pendsv = "active"
        /\ LET saved == [t \in Thr |-> IF t = rt_interrupt_from_thread
                                       THEN on_cpu ELSE sp[t]]
           IN  /\ on_cpu' = saved[rt_interrupt_to_thread]
               /\ sp' = [saved EXCEPT ![rt_interrupt_to_thread] = NULL]
     \/ ~(rt_thread_switch_interrupt_flag /\ pendsv = "active") /\ UNCHANGED registers
  /\ UNCHANGED <<rt_current_thread, rt_interrupt_from_thread,
                 rt_interrupt_to_thread, nesting>>

PendSVWithoutSave ==
  /\ handlers = << >> /\ pendsv \in {"active", "both"}
  /\ pendsv' = IF pendsv = "both" THEN "pending" ELSE "none"
  /\ rt_thread_switch_interrupt_flag' = FALSE
  /\ \/ /\ rt_thread_switch_interrupt_flag
        /\ on_cpu' = rt_interrupt_to_thread
        /\ sp' = [sp EXCEPT ![rt_interrupt_to_thread] = NULL]
     \/ ~rt_thread_switch_interrupt_flag /\ UNCHANGED registers
  /\ UNCHANGED <<rt_current_thread, rt_interrupt_from_thread,
                 rt_interrupt_to_thread, nesting>>

\* PendSV_Handler from its CPSID to its return.  The registers are saved
\* through from, unless it is 0, and loaded through to; both may name one
\* thread.  If PendSV was pended again it comes to run with the flag clear.
PendSV_Handler ==
  /\ handlers = << >> /\ pendsv \in {"active", "both"}
  /\ pendsv' = IF pendsv = "both" THEN "pending" ELSE "none"
  /\ rt_thread_switch_interrupt_flag' = FALSE
  /\ \/ /\ rt_thread_switch_interrupt_flag
        /\ LET saved == [t \in Thr |-> IF t = rt_interrupt_from_thread
                                       THEN on_cpu ELSE sp[t]]
           IN  /\ on_cpu' = saved[rt_interrupt_to_thread]
               /\ sp' = [saved EXCEPT ![rt_interrupt_to_thread] = NULL]
     \/ ~rt_thread_switch_interrupt_flag /\ UNCHANGED registers
  /\ UNCHANGED <<rt_current_thread, rt_interrupt_from_thread,
                 rt_interrupt_to_thread, nesting>>

-----------------------------------------------------------------------------
\* An interrupt preempts the thread or the handler that runs.
Interrupt ==
  /\ Len(handlers) < MaxDepth
  /\ handlers' = Append(handlers, "entry")
  /\ UNCHANGED <<words, registers, rt_interrupt_nest, transfers>>

rt_interrupt_enter ==
  /\ Innermost("entry")
  /\ rt_interrupt_nest' = rt_interrupt_nest + 1
  /\ handlers' = [handlers EXCEPT ![Len(handlers)] = "body"]
  /\ UNCHANGED <<words, registers, transfers>>

rt_interrupt_leave ==
  /\ Innermost("body")
  /\ rt_interrupt_nest' = rt_interrupt_nest - 1
  /\ handlers' = [handlers EXCEPT ![Len(handlers)] = "exit"]
  /\ UNCHANGED <<words, registers, transfers>>

InterruptReturn ==
  /\ Innermost("exit")
  /\ handlers' = SubSeq(handlers, 1, Len(handlers) - 1)
  /\ UNCHANGED <<words, registers, rt_interrupt_nest, transfers>>

\* IIC_Send_Data and IIC_Read_Data around their bytes.
TransferBegin ==
  /\ ThreadMode /\ on_cpu \notin transfers
  /\ rt_interrupt_nest' = rt_interrupt_nest + 1
  /\ transfers' = transfers \cup {on_cpu}
  /\ UNCHANGED <<words, registers, handlers>>

\* Mutant: a transfer the slave does not acknowledge returns at once.
TransferGivesUp ==
  /\ ThreadMode /\ on_cpu \in transfers
  /\ transfers' = transfers \ {on_cpu}
  /\ UNCHANGED <<words, registers, handlers, rt_interrupt_nest>>

TransferEnd ==
  /\ ThreadMode /\ on_cpu \in transfers
  /\ rt_interrupt_nest' = rt_interrupt_nest - 1
  /\ transfers' = transfers \ {on_cpu}
  /\ UNCHANGED <<words, registers, handlers>>

SwitchNext ==
  \/ \E t \in Thr : ScheduleInThread(t) \/ ScheduleInHandler(t)
  \/ EnterPendSV \/ PendSV_Handler
  \/ Interrupt \/ rt_interrupt_enter \/ rt_interrupt_leave \/ InterruptReturn
  \/ TransferBegin \/ TransferEnd

SwitchSpec == SwitchInit /\ [][SwitchNext]_switch_vars

-----------------------------------------------------------------------------
SwitchTypeOK ==
  /\ rt_current_thread \in Thr
  /\ rt_interrupt_from_thread \in Thr \cup {NULL}
  /\ rt_interrupt_to_thread \in Thr
  /\ rt_thread_switch_interrupt_flag \in BOOLEAN
  /\ pendsv \in {"none", "pending", "active", "both"}
  /\ on_cpu \in Thr \cup {NULL}
  /\ sp \in [Thr -> Thr \cup {NULL}]
  /\ rt_interrupt_nest \in Int
  /\ handlers \in Seq({"entry", "body", "exit"})
  /\ transfers \subseteq Thr

\* When a thread runs it is the one rt_current_thread names, on its own
\* registers, however often handlers rescheduled before PendSV came to run.
CpuRunsCurrent ==
  ThreadMode => on_cpu = rt_current_thread

\* The registers of a thread that does not run are where its sp leads: no
\* switch saves them through the word of another thread.
ContextsKept ==
  \A t \in Thr : t # on_cpu => sp[t] = t

\* While the flag is set PendSV is on its way, from is the thread the core
\* runs (0 before the first switch) and to the thread chosen last.
SwitchPending ==
  rt_thread_switch_interrupt_flag =>
    /\ pendsv # "none"
    /\ rt_interrupt_from_thread = on_cpu
    /\ rt_interrupt_to_thread = rt_current_thread

\* rt_interrupt_nest counts the handlers, and also every thread in an I2C
\* transfer: another thread that preempts such a one finds the count above
\* zero, and RT_DEBUG_NOT_IN_INTERRUPT takes it for a handler.
NestCounts ==
  rt_interrupt_nest =
    Cardinality({i \in DOMAIN handlers : handlers[i] = "body"}) + Cardinality(transfers)
=============================================================================
