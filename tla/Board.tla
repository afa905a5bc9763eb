-------------------------------- MODULE Board --------------------------------
(***************************************************************************)
(* The parts of the system that lie beside the threads' services, each on  *)
(* its own: the heap, the application timers, the context switch with the  *)
(* nesting of interrupts, the flash and the serial line.  They share no    *)
(* state: an instance of this module chooses the part that runs.           *)
(***************************************************************************)
EXTENDS SmallMem, AppTimers, ContextSwitch, Flash, Usart

CONSTANT Parts  \* the parts to choose from

ASSUME BoardAssumption == Parts \subseteq {"heap", "timers", "switch", "flash", "usart"}

VARIABLE part
vars == <<heap_vars, timer_vars, switch_vars, flash_vars, usart_vars, part>>

\* The parts that do not run start in one way only.
OthersAtRest ==
  /\ part # "timers" => periodic = {} /\ init_tick = [t \in Tmr |-> Min(Times)]
  /\ part # "switch" => rt_current_thread = CHOOSE t \in Thr : TRUE
  /\ part # "flash"  => \A a \in Address : flash[a] = Erased

Init ==
  /\ part \in Parts
  /\ HeapInit /\ TimersInit /\ SwitchInit /\ FlashInit /\ UsartInit
  /\ OthersAtRest

Next ==
  /\ UNCHANGED part
  /\ \/ part = "heap"   /\ HeapNext   /\ UNCHANGED <<timer_vars, switch_vars, flash_vars, usart_vars>>
     \/ part = "timers" /\ TimersNext /\ UNCHANGED <<heap_vars, switch_vars, flash_vars, usart_vars>>
     \/ part = "switch" /\ SwitchNext /\ UNCHANGED <<heap_vars, timer_vars, flash_vars, usart_vars>>
     \/ part = "flash"  /\ FlashNext  /\ UNCHANGED <<heap_vars, timer_vars, switch_vars, usart_vars>>
     \/ part = "usart"  /\ UsartNext  /\ UNCHANGED <<heap_vars, timer_vars, switch_vars, flash_vars>>

Spec == Init /\ [][Next]_vars

TypeOK ==
  /\ HeapTypeOK /\ TimersTypeOK /\ SwitchTypeOK /\ FlashTypeOK /\ UsartTypeOK
  /\ part \in Parts
=============================================================================
