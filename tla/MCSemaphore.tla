---------------------------- MODULE MCSemaphore ----------------------------
(***************************************************************************)
(* Instances of Semaphore for TLC: one urgent thread, two threads of one   *)
(* priority and the idle thread.  The tick counter wraps at 5 or 7, so that*)
(* the longest timeout, 1 or 2, is just below half its range.              *)
(***************************************************************************)
EXTENDS Semaphore

CONSTANTS hi, a, b, idle, s1

MCThread     == {hi, a, b, idle}
MCObject     == {s1}
MCInitPrio   == (hi :> 0) @@ (a :> 1) @@ (b :> 1) @@ (idle :> 2)
MCStartOrder == (0 :> <<hi>>) @@ (1 :> <<a, b>>) @@ (2 :> <<idle>>)
MCInitTick   == (hi :> 1) @@ (a :> 2) @@ (b :> 1) @@ (idle :> 1)
MCInitValue  == s1 :> 0
\* A smaller instance, for timers and liveness.
PairThread     == {hi, a, idle}
PairInitPrio   == (hi :> 0) @@ (a :> 1) @@ (idle :> 2)
PairStartOrder == (0 :> <<hi>>) @@ (1 :> <<a>>) @@ (2 :> <<idle>>)
PairInitTick   == (hi :> 1) @@ (a :> 1) @@ (idle :> 1)

FIFO == s1 :> "FIFO"
PRIO == s1 :> "PRIO"
=============================================================================
