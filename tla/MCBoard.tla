------------------------------ MODULE MCBoard ------------------------------
(***************************************************************************)
(* An instance of Board for TLC: a heap of eleven units, two timers,     *)
(* three threads with two levels of handlers, and a flash of four sectors  *)
(* of two pages, each erased, full or with one byte written; a length is   *)
(* cut below two sectors.                                                  *)
(***************************************************************************)
EXTENDS Board

\* Timers and threads are interchangeable.
MCSymmetry == Permutations(Tmr) \cup Permutations(Thr)

MCContents ==
  {full \in SUBSET Address :
     \A s \in 0 .. Sectors - 1 :
       {a % SectorSize : a \in {b \in full : SectorOf(b) = s}} \in
         {{}, {1}, 0 .. SectorSize - 1}}
=============================================================================
