---------------------------- MODULE MCThreadLife ----------------------------
(***************************************************************************)
(* Instances of ThreadLife for TLC: an urgent static thread with a cleanup *)
(* function, a static one without (a), one made by rt_thread_create (b)    *)
(* and the idle thread.                                                    *)
(***************************************************************************)
EXTENDS ThreadLife

CONSTANTS hi, a, b, idle

MCThread     == {hi, a, b, idle}
MCInitPrio   == (hi :> 0) @@ (a :> 1) @@ (b :> 1) @@ (idle :> 2)
MCStartOrder == (0 :> <<hi>>) @@ (1 :> <<a, b>>) @@ (2 :> <<idle>>)
MCInitTick   == [t \in MCThread |-> 1]
MCMaxLives   == (hi :> 1) @@ (a :> 1) @@ (b :> 2) @@ (idle :> 1)
=============================================================================
