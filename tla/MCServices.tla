----------------------------- MODULE MCServices -----------------------------
(***************************************************************************)
(* An instance of Services for TLC: an urgent thread, another one and the  *)
(* idle thread, an event of two flags, a queue and a pool of two blocks.   *)
(***************************************************************************)
EXTENDS Services

CONSTANTS hi, a, idle, f1, f2

MCThread     == {hi, a, idle}
MCInitPrio   == (hi :> 0) @@ (a :> 1) @@ (idle :> 2)
MCStartOrder == (0 :> <<hi>>) @@ (1 :> <<a>>) @@ (2 :> <<idle>>)
MCInitTick   == [t \in MCThread |-> 1]
MCObject     == {"suspend_thread", "suspend_sender_thread", "pool"}
MCForever    == -1
MCWaitTimes  == (hi :> {MCForever}) @@ (a :> {1}) @@ (idle :> {})
MCAsks ==
  (hi :> {[flags |-> {f1, f2}, option |-> {"AND", "CLEAR"}],
          [flags |-> {f1}, option |-> {"OR", "CLEAR"}]}) @@
  (a :> {[flags |-> {f1, f2}, option |-> {"OR", "CLEAR"}],
         [flags |-> {f2}, option |-> {"AND"}]}) @@
  (idle :> {})
=============================================================================
