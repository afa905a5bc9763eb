------------------------------ MODULE SmallMem ------------------------------
(***************************************************************************)
(* The heap of mem.c: a list of headers by address, each followed by its   *)
(* data up to the next header.  Addresses and sizes count units of         *)
(* RT_ALIGN_SIZE.  rt_malloc, rt_free and the first part of rt_realloc run *)
(* under heap_sem, so each is one step; an rt_realloc that moves the block *)
(* gives heap_sem up between its parts, and other threads run in between.  *)
(*                                                                         *)
(*   heap.mem      the headers, [used, next, prev] by address; a header    *)
(*                 that plug_holes merged away is no longer in the domain  *)
(*   heap.lfree    where the search of rt_malloc starts                    *)
(*   heap.used_mem the count behind rt_memory_info                         *)
(*   asked[p]      of every block handed out, the size its owner asked for *)
(*   moving        the copies in progress: [from, to, size]                *)
(*   shrunk        the unused blocks that rt_realloc cut off               *)
(***************************************************************************)
EXTENDS Integers, FiniteSets, FiniteSetsExt, Functions

CONSTANTS
  mem_size_aligned, \* the size of the heap without its first and last header
  SIZEOF_STRUCT_MEM,
  MIN_SIZE_ALIGNED,
  Sizes             \* the sizes callers ask for

ASSUME SmallMemAssumption ==
  /\ SIZEOF_STRUCT_MEM \in Nat \ {0} /\ MIN_SIZE_ALIGNED \in Nat \ {0}
  /\ mem_size_aligned \in Nat /\ mem_size_aligned >= MIN_SIZE_ALIGNED
  /\ Sizes \subseteq Nat \ {0}

VARIABLES heap, asked, moving, shrunk
heap_vars == <<heap, asked, moving, shrunk>>

heap_end == mem_size_aligned + SIZEOF_STRUCT_MEM

\* rt_system_heap_init
HeapInit ==
  /\ heap = [mem |-> [p \in {0, heap_end} |->
                        [used |-> p = heap_end, next |-> heap_end, prev |-> p]],
             lfree |-> 0, used_mem |-> 0]
  /\ asked = << >> /\ moving = {} /\ shrunk = {}

\* The data size of block p.
DataSize(mem, p) == mem[p].next - p - SIZEOF_STRUCT_MEM

-----------------------------------------------------------------------------
\* Block p takes in the block n behind it.
Absorb(mem, p, n) ==
  LET b == mem[n].next
  IN  [q \in DOMAIN mem \ {n} |->
         IF q = p THEN [mem[p] EXCEPT !.next = b]
         ELSE IF q = b THEN [mem[b] EXCEPT !.prev = p] ELSE mem[q]]

\* Mutant: lfree stays at a header that is gone.
MergeForgetsFree(h, p, n) == [h EXCEPT !.mem = Absorb(h.mem, p, n)]

\* One half of plug_holes.
Merge(h, p, n) ==
  [h EXCEPT !.mem = Absorb(h.mem, p, n), !.lfree = IF @ = n THEN p ELSE @]

\* Mutant: only the hole behind is plugged.
PlugForward(h, p) ==
  LET n == h.mem[p].next
  IN  IF ~h.mem[n].used /\ n # heap_end THEN Merge(h, p, n) ELSE h

plug_holes(h, p) ==
  LET n == h.mem[p].next
      f == IF p # n /\ ~h.mem[n].used /\ n # heap_end THEN Merge(h, p, n) ELSE h
      q == f.mem[p].prev
  IN  IF q # p /\ ~f.mem[q].used THEN Merge(f, q, p) ELSE f

\* Cut block p behind its first size units of data.
Split(mem, p, size) ==
  LET p2 == p + SIZEOF_STRUCT_MEM + size
      b  == mem[p].next
      header == [used |-> FALSE, next |-> b, prev |-> p]
  IN  [q \in DOMAIN mem \cup {p2} |->
         IF q = p2 THEN header
         ELSE IF q = p THEN [mem[p] EXCEPT !.next = p2]
         ELSE IF q = b /\ b # heap_end THEN [mem[b] EXCEPT !.prev = p2]
         ELSE mem[q]]

-----------------------------------------------------------------------------
\* Mutant: the search stops a header short of where it does.
CandidatesStopShort(h, size) ==
  {p \in DOMAIN h.mem :
     /\ p >= h.lfree /\ p + SIZEOF_STRUCT_MEM < mem_size_aligned - size
     /\ ~h.mem[p].used /\ DataSize(h.mem, p) >= size}

\* The blocks rt_malloc stops at on its way up from lfree.
Candidates(h, size) ==
  {p \in DOMAIN h.mem :
     /\ p >= h.lfree /\ p < mem_size_aligned - size
     /\ ~h.mem[p].used /\ DataSize(h.mem, p) >= size}

AtLeastMin(size) == Max({size, MIN_SIZE_ALIGNED})

\* Take block p: split it if a smallest block is left over, and move lfree up
\* to the next unused block if it was the first.
Take(h, p, size) ==
  LET split == DataSize(h.mem, p) >= size + SIZEOF_STRUCT_MEM + MIN_SIZE_ALIGNED
      m     == IF split THEN Split(h.mem, p, size) ELSE h.mem
      taken == [m EXCEPT ![p].used = TRUE]
      above == {q \in DOMAIN taken : q >= p /\ (q = heap_end \/ ~taken[q].used)}
  IN  [mem |-> taken,
       lfree |-> IF p = h.lfree THEN Min(above) ELSE h.lfree,
       used_mem |-> h.used_mem + (taken[p].next - p)]

Found(h, size) ==
  size <= mem_size_aligned /\ Candidates(h, AtLeastMin(size)) # {}

malloc_at(h, size) == Min(Candidates(h, AtLeastMin(size)))
malloc(h, size) == Take(h, malloc_at(h, size), AtLeastMin(size))

\* rt_free of block p.
free(h, p) ==
  LET m == [h.mem EXCEPT ![p].used = FALSE]
  IN  plug_holes([mem |-> m, lfree |-> IF p < h.lfree THEN p ELSE h.lfree,
                  used_mem |-> h.used_mem - (m[p].next - p)], p)

\* What is left of shrunk when the headers are h.
StillUnused(h, blocks) == {p \in blocks \cap DOMAIN h.mem : ~h.mem[p].used}

-----------------------------------------------------------------------------
rt_malloc(size) ==
  /\ Found(heap, size)
  /\ LET p == malloc_at(heap, size)
     IN  /\ heap' = malloc(heap, size)
         /\ asked' = [q \in DOMAIN asked \cup {p} |->
                        IF q = p THEN size ELSE asked[q]]
  /\ shrunk' = StillUnused(heap', shrunk)
  /\ UNCHANGED moving

\* The blocks no rt_realloc is moving, neither from nor to.
Settled == DOMAIN asked \ ({m.from : m \in moving} \cup {m.to : m \in moving})

rt_free(p) ==
  /\ p \in Settled
  /\ heap' = free(heap, p)
  /\ asked' = Restrict(asked, DOMAIN asked \ {p})
  /\ shrunk' = StillUnused(heap', shrunk)
  /\ UNCHANGED moving

\* The part of rt_realloc that cuts a block keeps it in place.
Cuts(p, newsize) ==
  newsize + SIZEOF_STRUCT_MEM + MIN_SIZE_ALIGNED < DataSize(heap.mem, p)

rt_realloc_cut(p, newsize) ==
  /\ p \in Settled /\ Cuts(p, newsize)
  /\ LET p2 == p + SIZEOF_STRUCT_MEM + newsize
         h  == [heap EXCEPT !.mem = Split(@, p, newsize),
                            !.used_mem = @ - (DataSize(heap.mem, p) - newsize)]
     IN  /\ heap' = plug_holes(h, p2)
         /\ shrunk' = StillUnused(heap', shrunk \cup {p2})
  /\ asked' = [asked EXCEPT ![p] = newsize]
  /\ UNCHANGED moving

\* Too little is left to cut, or the block grows: the new block is allocated
\* first.  If none is found rt_realloc returns RT_NULL and the old one stays.
rt_realloc_move(p, newsize) ==
  /\ p \in Settled /\ newsize # DataSize(heap.mem, p) /\ ~Cuts(p, newsize)
  /\ Found(heap, newsize)
  /\ LET to == malloc_at(heap, newsize)
     IN  /\ moving' = moving \cup {[from |-> p, to |-> to, size |-> newsize]}
         /\ asked' = [q \in DOMAIN asked \cup {to} |->
                        IF q = to THEN newsize ELSE asked[q]]
  /\ heap' = malloc(heap, newsize)
  /\ shrunk' = StillUnused(heap', shrunk)

rt_realloc_free(m) ==
  /\ m \in moving
  /\ heap' = free(heap, m.from)
  /\ moving' = moving \ {m}
  /\ asked' = Restrict(asked, DOMAIN asked \ {m.from})
  /\ shrunk' = StillUnused(heap', shrunk)

HeapNext ==
  \/ \E size \in Sizes : rt_malloc(size)
  \/ \E p \in DOMAIN asked : rt_free(p)
  \/ \E p \in DOMAIN asked, size \in Sizes :
       rt_realloc_cut(p, size) \/ rt_realloc_move(p, size)
  \/ \E m \in moving : rt_realloc_free(m)

HeapSpec == HeapInit /\ [][HeapNext]_heap_vars

-----------------------------------------------------------------------------
HeapTypeOK ==
  /\ heap.lfree \in DOMAIN heap.mem
  /\ heap.used_mem \in 0 .. heap_end
  /\ \A p \in DOMAIN heap.mem :
       heap.mem[p] \in [used : BOOLEAN, next : 0 .. heap_end, prev : 0 .. heap_end]
  /\ DOMAIN asked \subseteq DOMAIN heap.mem
  /\ {m.from : m \in moving} \cup {m.to : m \in moving} \subseteq DOMAIN asked

\* The blocks tile the heap: next leads from every header to the one above,
\* prev back again, and no two neighbours are unused.  Whatever the order of
\* allocating, freeing, cutting and moving.
HeapTiled ==
  LET mem == heap.mem
      above(p) == Min({q \in DOMAIN mem : q > p})
  IN  \A p \in DOMAIN mem \ {heap_end} :
        /\ mem[p].next = above(p) /\ DataSize(mem, p) > 0
        /\ mem[p].next # heap_end => mem[mem[p].next].prev = p
        /\ ~mem[p].used /\ mem[p].next # heap_end => mem[mem[p].next].used

\* A block in use is one that a caller holds, and is as large as the caller
\* asked for, while others allocate, free and move theirs.
HeldIsUsed ==
  /\ {p \in DOMAIN heap.mem \ {heap_end} : heap.mem[p].used} = DOMAIN asked
  /\ \A p \in DOMAIN asked : DataSize(heap.mem, p) >= asked[p]

\* rt_memory_info: used_mem is how many units the blocks handed out and their
\* headers take.
UsedIsCounted ==
  heap.used_mem =
    Cardinality({a \in 0 .. heap_end - 1 :
                   \E p \in DOMAIN asked : p <= a /\ a < heap.mem[p].next})

\* "pointer to the lowest free block" (mem.c:118): the search of rt_malloc
\* passes by no unused block, except one that rt_realloc cut off below lfree,
\* which rt_realloc does not lower.
SearchStartsLowest ==
  /\ heap.lfree = heap_end \/ ~heap.mem[heap.lfree].used
  /\ \A p \in DOMAIN heap.mem :
       ~heap.mem[p].used /\ p < heap.lfree => p \in shrunk

\* The bookkeeping of the heap is sound in all four respects, after any order
\* of rt_malloc, rt_free and rt_realloc and between the parts of a realloc.
HeapSound == HeapTiled /\ HeldIsUsed /\ UsedIsCounted /\ SearchStartsLowest

\* A request fails only when no unused block from lfree on has the room, or
\* when the only one that has is the last block and fits exactly: the search
\* stops short of it (mem.c:293).
FailsOnlyWhenFull ==
  \A size \in Sizes \cap 0 .. mem_size_aligned : ~Found(heap, size) =>
    \A p \in DOMAIN heap.mem :
      ~heap.mem[p].used /\ p >= heap.lfree =>
        \/ DataSize(heap.mem, p) < AtLeastMin(size)
        \/ heap.mem[p].next = heap_end /\ DataSize(heap.mem, p) = AtLeastMin(size)
=============================================================================
