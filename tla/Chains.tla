------------------------------- MODULE Chains -------------------------------
(***************************************************************************)
(* Singly linked lists of blocks, as the message queue (ipc.c) and the     *)
(* memory pool (mempool.c) keep them: a pointer to the first block, and in *)
(* every block a pointer to the next.                                      *)
(***************************************************************************)
EXTENDS Integers, SequencesExt

CONSTANT NULL  \* RT_NULL

\* The blocks a list visits from b on, at most all of them: seq is the
\* visited blocks, at is where it ends, NULL unless the list is circular or
\* leaves the pool.
Chain(next, b) ==
  LET path[n \in 0 .. Cardinality(DOMAIN next)] ==
        IF n = 0 THEN [seq |-> << >>, at |-> b]
        ELSE LET p == path[n - 1]
             IN  IF p.at \notin DOMAIN next THEN p
                 ELSE [seq |-> Append(p.seq, p.at), at |-> next[p.at]]
  IN  path[Cardinality(DOMAIN next)]

\* The chain of the blocks of s in their order, and its first block.
Linked(s) ==
  [b \in ToSet(s) |->
     LET i == CHOOSE j \in DOMAIN s : s[j] = b
     IN  IF i = Len(s) THEN NULL ELSE s[i + 1]]

First(s) == IF s = << >> THEN NULL ELSE Head(s)
=============================================================================
