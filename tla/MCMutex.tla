------------------------------ MODULE MCMutex ------------------------------
(***************************************************************************)
(* Instances of Mutex for TLC: three threads of three priorities and the   *)
(* idle thread.                                                            *)
(***************************************************************************)
EXTENDS Mutex

CONSTANTS hi, mid, lo, idle, m1, m2

MCThread     == {hi, mid, lo, idle}
MCInitPrio   == (hi :> 0) @@ (mid :> 1) @@ (lo :> 2) @@ (idle :> 3)
MCStartOrder == (0 :> <<hi>>) @@ (1 :> <<mid>>) @@ (2 :> <<lo>>) @@ (3 :> <<idle>>)
MCInitTick   == [t \in MCThread |-> 1]

OneMutex == {m1}
TwoMutex == {m1, m2}
PRIO     == [m \in Object |-> "PRIO"]
FIFO     == [m \in Object |-> "FIFO"]
=============================================================================
