----------------------------- MODULE BoardProofs -----------------------------
(***************************************************************************)
(* Proofs about the parts Board puts side by side, for any value of their  *)
(* constants, a section for each: the heap, the context switch and the     *)
(* nesting of interrupts, the serial line, the application timers, the     *)
(* flash.                                                                  *)
(***************************************************************************)
EXTENDS Board, ListLemmas, FiniteSetTheorems, SequenceTheorems, WellFoundedInduction, TLAPS

-----------------------------------------------------------------------------
(***************************************************************************)
(* SmallMem, for a heap and requests of any size: the blocks tile it,      *)
(* every block handed out stays in use and large enough until it is freed, *)
(* used_mem counts them, and rt_malloc passes by no unused block that it   *)
(* need not.                                                               *)
(***************************************************************************)

Header == [used : BOOLEAN, next : 0 .. heap_end, prev : 0 .. heap_end]

\* The headers form one chain from 0 to heap_end in the order of addresses,
\* each with room for data behind it, and prev leads back along it.
Chained(mem) ==
  /\ DOMAIN mem \subseteq 0 .. heap_end /\ {0, heap_end} \subseteq DOMAIN mem
  /\ mem \in [DOMAIN mem -> Header]
  /\ mem[heap_end].used /\ mem[0].prev = 0
  /\ \A p \in DOMAIN mem \ {heap_end} :
       /\ mem[p].next \in DOMAIN mem /\ p + SIZEOF_STRUCT_MEM < mem[p].next
       /\ \A q \in DOMAIN mem : q <= p \/ q >= mem[p].next
  /\ \A p \in DOMAIN mem \ {0, heap_end} :
       mem[p].prev \in DOMAIN mem \ {heap_end} /\ mem[mem[p].prev].next = p

\* Two neighbours are unused only where one of them is p.
HolesOnlyAt(mem, p) ==
  \A q \in DOMAIN mem \ {heap_end, p} :
    ~mem[q].used /\ mem[q].next \notin {heap_end, p} => mem[mem[q].next].used

NoHoles(mem) ==
  \A q \in DOMAIN mem \ {heap_end} :
    ~mem[q].used /\ mem[q].next # heap_end => mem[mem[q].next].used

\* The headers in new that are in use are those in old, and lead where they led.
SameUse(old, new) ==
  /\ {q \in DOMAIN new : new[q].used} = {q \in DOMAIN old : old[q].used}
  /\ \A q \in DOMAIN old : old[q].used => new[q].next = old[q].next

-----------------------------------------------------------------------------
LEMMA Sizing ==
  /\ SIZEOF_STRUCT_MEM \in Nat \ {0} /\ MIN_SIZE_ALIGNED \in Nat \ {0}
  /\ mem_size_aligned \in Nat \ {0} /\ heap_end \in Nat
  /\ heap_end = mem_size_aligned + SIZEOF_STRUCT_MEM
  BY SmallMemAssumption DEF heap_end

LEMMA MinIsLeast ==
  ASSUME NEW S \in SUBSET Nat, S # {}
  PROVE  Min(S) \in S /\ \A y \in S : Min(S) <= y
<1>1. PICK x \in S : \A y \in S : ~(<<y, x>> \in OpToRel(<, Nat))
  BY NatLessThanWellFounded, WFMin, Zenon
<1>2. \A y \in S : ~(y < x)
  <2> SUFFICES ASSUME NEW y \in S, y < x PROVE FALSE
    OBVIOUS
  <2>1. <<y, x>> \in OpToRel(<, Nat)
    <3>1. /\ <<y, x>> \in Nat \X Nat /\ <<y, x>>[1] = y /\ <<y, x>>[2] = x
      OBVIOUS
    <3>2. <<y, x>>[1] < <<y, x>>[2]
      BY <3>1
    <3>3. QED BY <3>1, <3>2, Zenon DEF OpToRel
  <2>2. QED BY <1>1, <2>1, Zenon
<1>3. \A y \in S : x <= y
  BY <1>2
<1>4. QED BY <1>3 DEF Min

LEMMA MinIsThat ==
  ASSUME NEW S \in SUBSET Nat, NEW x \in S, \A y \in S : x <= y
  PROVE  Min(S) = x
<1>1. \A y \in S : (\A z \in S : y <= z) => y = x
  OBVIOUS
<1>2. QED BY <1>1 DEF Min

LEMMA AtLeastBoth ==
  ASSUME NEW size \in Nat
  PROVE  /\ AtLeastMin(size) \in Nat \ {0}
         /\ AtLeastMin(size) >= size /\ AtLeastMin(size) >= MIN_SIZE_ALIGNED
  BY Sizing DEF AtLeastMin, Max

\* The header behind a header is the one whose prev leads to it.
LEMMA PrevOfNext ==
  ASSUME NEW mem, Chained(mem), NEW p \in DOMAIN mem \ {heap_end},
         mem[p].next # heap_end
  PROVE  mem[mem[p].next].prev = p
<1> DEFINE n == mem[p].next
           r == mem[n].prev
<1>1. n \in DOMAIN mem \ {0, heap_end} /\ p \in Nat /\ p < n
  BY Sizing DEF Chained, Header
<1>2. r \in DOMAIN mem \ {heap_end} /\ mem[r].next = n /\ r \in Nat /\ r < n
  BY <1>1, Sizing DEF Chained, Header
<1>3. (r <= p \/ r >= n) /\ (p <= r \/ p >= n)
  BY <1>1, <1>2 DEF Chained
<1>4. QED BY <1>1, <1>2, <1>3 DEF Chained

\* A chain is what HeapTiled says.
LEMMA ChainedTiles ==
  ASSUME NEW mem, Chained(mem), NEW p \in DOMAIN mem \ {heap_end}
  PROVE  mem[p].next = Min({q \in DOMAIN mem : q > p})
<1>1. p \in Nat /\ mem[p].next \in Nat /\ p < mem[p].next /\ DOMAIN mem \subseteq Nat
  BY Sizing DEF Chained, Header
<1>2. \A q \in {r \in DOMAIN mem : r > p} : mem[p].next <= q
  BY <1>1 DEF Chained
<1>3. QED
  BY <1>1, <1>2, MinIsThat DEF Chained

-----------------------------------------------------------------------------
\* m is the chain mem but for the mark of p.
Marked(mem, p, u, m) ==
  /\ Chained(m) /\ DOMAIN m = DOMAIN mem
  /\ \A q \in DOMAIN mem :
       /\ m[q].next = mem[q].next
       /\ m[q].used = IF q = p THEN u ELSE mem[q].used

\* Marking a block keeps the chain.
LEMMA MarkKeepsChain ==
  ASSUME NEW mem, Chained(mem), NEW p \in DOMAIN mem \ {heap_end}, NEW u \in BOOLEAN
  PROVE  Marked(mem, p, u, [mem EXCEPT ![p].used = u])
<1> DEFINE m == [mem EXCEPT ![p].used = u]
<1>1. /\ DOMAIN m = DOMAIN mem
      /\ \A q \in DOMAIN mem : m[q] = IF q = p THEN [mem[p] EXCEPT !.used = u] ELSE mem[q]
  OBVIOUS
<1>2. \A q \in DOMAIN mem : mem[q] \in Header
  BY DEF Chained
<1>3. \A q \in DOMAIN mem : /\ m[q] \in Header /\ m[q].next = mem[q].next
                            /\ m[q].prev = mem[q].prev
                            /\ m[q].used = IF q = p THEN u ELSE mem[q].used
  BY <1>1, <1>2 DEF Header
<1>4. m \in [DOMAIN m -> Header]
  BY <1>1, <1>3
<1> HIDE DEF m
<1>5. Chained(m)
  BY <1>1, <1>3, <1>4 DEF Chained
<1>6. QED BY <1>1, <1>3, <1>5 DEF m, Marked

\* Absorbing the next block keeps the chain.
LEMMA AbsorbKeepsChain ==
  ASSUME NEW mem, Chained(mem), NEW p \in DOMAIN mem \ {heap_end}, NEW n,
         n = mem[p].next, n # heap_end
  PROVE  /\ Chained(Absorb(mem, p, n))
         /\ DOMAIN Absorb(mem, p, n) = DOMAIN mem \ {n}
         /\ \A q \in DOMAIN mem \ {n} :
              /\ Absorb(mem, p, n)[q].used = mem[q].used
              /\ Absorb(mem, p, n)[q].next = IF q = p THEN mem[n].next ELSE mem[q].next
<1> DEFINE b == mem[n].next
           m == Absorb(mem, p, n)
<1>1. /\ n \in DOMAIN mem \ {0, heap_end} /\ p < n
      /\ b \in DOMAIN mem /\ n + SIZEOF_STRUCT_MEM < b
      /\ DOMAIN mem \subseteq Nat /\ b # p /\ b # n /\ b # 0
  BY Sizing DEF Chained, Header
<1>2. \A q \in DOMAIN mem : mem[q] \in Header
  BY DEF Chained
<1>3. DOMAIN m = DOMAIN mem \ {n}
  BY DEF Absorb
<1>4. \A q \in DOMAIN mem \ {n} :
        /\ m[q] \in Header
        /\ m[q].used = mem[q].used
        /\ m[q].next = IF q = p THEN b ELSE mem[q].next
        /\ m[q].prev = IF q = b THEN p ELSE mem[q].prev
  <2> TAKE q \in DOMAIN mem \ {n}
  <2>1. CASE q = p
    <3>1. m[q] = [mem[p] EXCEPT !.next = b]
      BY <2>1 DEF Absorb
    <3>2. QED BY <1>1, <1>2, <2>1, <3>1 DEF Header, Chained
  <2>2. CASE q = b
    <3>1. m[q] = [mem[b] EXCEPT !.prev = p]
      BY <1>1, <2>2 DEF Absorb
    <3>2. QED BY <1>1, <1>2, <2>2, <3>1 DEF Header, Chained
  <2>3. CASE q # p /\ q # b
    <3>1. m[q] = mem[q]
      BY <2>3 DEF Absorb
    <3>2. QED BY <1>2, <2>3, <3>1
  <2>4. QED BY <2>1, <2>2, <2>3
<1>5. m \in [DOMAIN m -> Header]
  BY <1>3, <1>4 DEF Absorb
<1> HIDE DEF m
<1>6. \A q \in DOMAIN mem \ {n, heap_end} :
        /\ m[q].next \in DOMAIN m /\ q + SIZEOF_STRUCT_MEM < m[q].next
        /\ \A r \in DOMAIN m : r <= q \/ r >= m[q].next
  <2> TAKE q \in DOMAIN mem \ {n, heap_end}
  <2>1. CASE q = p
    <3>1. m[q].next = b /\ b \in DOMAIN m
      BY <1>1, <1>3, <1>4, <2>1
    <3>2. p + SIZEOF_STRUCT_MEM < b
      BY <1>1, Sizing
    <3>3. \A r \in DOMAIN mem \ {n} : (r <= p \/ r >= n) /\ (r <= n \/ r >= b)
      BY <1>1 DEF Chained
    <3>4. \A r \in DOMAIN mem \ {n} : r <= p \/ r >= b
      BY <1>1, <3>3
    <3>5. QED BY <1>3, <2>1, <3>1, <3>2, <3>4
  <2>2. CASE q # p
    <3>1. m[q].next = mem[q].next
      BY <1>4, <2>2
    <3>2. mem[q].next # n
      BY <1>1, <2>2, PrevOfNext
    <3>3. QED BY <1>3, <3>1, <3>2 DEF Chained
  <2>3. QED BY <2>1, <2>2
<1>7. \A q \in DOMAIN mem \ {n, 0, heap_end} :
        m[q].prev \in DOMAIN m \ {heap_end} /\ m[m[q].prev].next = q
  <2> TAKE q \in DOMAIN mem \ {n, 0, heap_end}
  <2>1. CASE q = b
    BY <1>1, <1>3, <1>4, <2>1
  <2>2. CASE q # b
    <3>1. m[q].prev = mem[q].prev
      BY <1>4, <2>2
    <3>2. mem[q].prev \in DOMAIN mem \ {heap_end} /\ mem[mem[q].prev].next = q
      BY DEF Chained
    <3>3. mem[q].prev # n /\ mem[q].prev # p
      BY <2>2, <3>2
    <3>4. QED BY <1>3, <1>4, <3>1, <3>2, <3>3
  <2>3. QED BY <2>1, <2>2
<1>8. m[heap_end].used /\ m[0].prev = 0
  BY <1>1, <1>4 DEF Chained
<1>9. Chained(m)
  BY <1>1, <1>3, <1>5, <1>6, <1>7, <1>8 DEF Chained
<1>10. QED BY <1>3, <1>4, <1>9 DEF m

\* m is the chain mem but for the unused block p2, cut off p.
HasCut(mem, p, p2, m) ==
  /\ Chained(m)
  /\ p2 \notin DOMAIN mem /\ p2 > p
  /\ DOMAIN m = DOMAIN mem \cup {p2}
  /\ \A q \in DOMAIN mem :
       /\ m[q].used = mem[q].used
       /\ m[q].next = IF q = p THEN p2 ELSE mem[q].next
  /\ ~m[p2].used /\ m[p2].next = mem[p].next

\* Cutting a block with room for a second header keeps the chain.
LEMMA SplitKeepsChain ==
  ASSUME NEW mem, Chained(mem), NEW p \in DOMAIN mem \ {heap_end},
         NEW size \in Nat \ {0}, NEW p2,
         p2 = p + SIZEOF_STRUCT_MEM + size,
         p2 + SIZEOF_STRUCT_MEM < mem[p].next
  PROVE  HasCut(mem, p, p2, Split(mem, p, size))
<1> DEFINE b == mem[p].next
           m == Split(mem, p, size)
<1>1. /\ DOMAIN mem \subseteq Nat /\ p \in Nat /\ b \in DOMAIN mem
      /\ b \in 0 .. heap_end /\ p2 \in 0 .. heap_end
      /\ p + SIZEOF_STRUCT_MEM < p2 /\ p < p2 /\ p2 < b /\ p2 # 0 /\ p2 # heap_end
  BY Sizing DEF Chained, Header
<1>2. p2 \notin DOMAIN mem
  BY <1>1 DEF Chained
<1>3. \A q \in DOMAIN mem : mem[q] \in Header
  BY DEF Chained
<1>4. DOMAIN m = DOMAIN mem \cup {p2}
  BY DEF Split
<1>5. /\ m[p2] = [used |-> FALSE, next |-> b, prev |-> p]
      /\ m[p2] \in Header
  <2>1. m[p2] = [used |-> FALSE, next |-> b, prev |-> p]
    BY <1>1 DEF Split
  <2>2. p \in 0 .. heap_end
    BY DEF Chained
  <2>3. QED BY <1>1, <2>1, <2>2 DEF Header
<1>6. \A q \in DOMAIN mem :
        /\ m[q] \in Header
        /\ m[q].used = mem[q].used
        /\ m[q].next = IF q = p THEN p2 ELSE mem[q].next
        /\ m[q].prev = IF q = b /\ b # heap_end THEN p2 ELSE mem[q].prev
  <2> TAKE q \in DOMAIN mem
  <2>1. CASE q = p
    <3>1. m[q] = [mem[p] EXCEPT !.next = p2]
      BY <1>2, <2>1 DEF Split
    <3>2. QED BY <1>1, <1>3, <2>1, <3>1 DEF Header
  <2>2. CASE q # p /\ q = b /\ b # heap_end
    <3>1. m[q] = [mem[b] EXCEPT !.prev = p2]
      BY <1>2, <2>2 DEF Split
    <3>2. QED BY <1>1, <1>3, <2>2, <3>1 DEF Header
  <2>3. CASE q # p /\ ~(q = b /\ b # heap_end)
    <3>1. m[q] = mem[q]
      BY <1>2, <2>3 DEF Split
    <3>2. QED BY <1>3, <2>3, <3>1
  <2>4. QED BY <2>1, <2>2, <2>3
<1>7. m \in [DOMAIN m -> Header]
  BY <1>4, <1>5, <1>6 DEF Split
<1> HIDE DEF m
<1>8. \A q \in DOMAIN m \ {heap_end} :
        /\ m[q].next \in DOMAIN m /\ q + SIZEOF_STRUCT_MEM < m[q].next
        /\ \A r \in DOMAIN m : r <= q \/ r >= m[q].next
  <2> TAKE q \in DOMAIN m \ {heap_end}
  <2>1. \A r \in DOMAIN mem : r <= p \/ r >= b
    BY DEF Chained
  <2>2. CASE q = p
    <3>1. m[q].next = p2
      BY <1>6, <2>2
    <3>2. \A r \in DOMAIN mem : r <= p \/ r >= p2
      BY <1>1, <2>1
    <3>3. QED BY <1>1, <1>4, <2>2, <3>1, <3>2
  <2>3. CASE q = p2
    <3>1. m[q].next = b
      BY <1>5, <2>3
    <3>2. \A r \in DOMAIN mem : r <= p2 \/ r >= b
      BY <1>1, <2>1
    <3>3. QED BY <1>1, <1>4, <2>3, <3>1, <3>2
  <2>4. CASE q # p /\ q # p2
    <3>1. q \in DOMAIN mem /\ m[q].next = mem[q].next
      BY <1>4, <1>6, <2>4
    <3>2. /\ mem[q].next \in DOMAIN mem /\ q + SIZEOF_STRUCT_MEM < mem[q].next
          /\ \A r \in DOMAIN mem : r <= q \/ r >= mem[q].next
      BY <3>1 DEF Chained
    <3>3. p2 <= q \/ p2 >= mem[q].next
      BY <1>1, <2>1, <2>4, <3>1, <3>2
    <3>4. QED BY <1>4, <3>1, <3>2, <3>3
  <2>5. QED BY <2>2, <2>3, <2>4
<1>9. \A q \in DOMAIN m \ {0, heap_end} :
        m[q].prev \in DOMAIN m \ {heap_end} /\ m[m[q].prev].next = q
  <2> TAKE q \in DOMAIN m \ {0, heap_end}
  <2>1. CASE q = p2
    <3>1. m[q].prev = p
      BY <1>5, <2>1
    <3>2. QED BY <1>4, <1>6, <2>1, <3>1
  <2>2. CASE q = b
    <3>1. m[q].prev = p2
      BY <1>1, <1>6, <2>2
    <3>2. QED BY <1>1, <1>4, <1>5, <2>2, <3>1
  <2>3. CASE q # p2 /\ q # b
    <3>1. q \in DOMAIN mem /\ m[q].prev = mem[q].prev
      BY <1>4, <1>6, <2>3
    <3>2. mem[q].prev \in DOMAIN mem \ {heap_end} /\ mem[mem[q].prev].next = q
      BY <3>1 DEF Chained
    <3>3. mem[q].prev # p
      BY <2>3, <3>2
    <3>4. QED BY <1>4, <1>6, <3>1, <3>2, <3>3
  <2>4. QED BY <2>1, <2>2, <2>3
<1>10. m[heap_end].used /\ m[0].prev = 0
  BY <1>1, <1>6 DEF Chained
<1>11. Chained(m)
  BY <1>1, <1>4, <1>7, <1>8, <1>9, <1>10, Sizing DEF Chained
<1>12. QED BY <1>1, <1>2, <1>4, <1>5, <1>6, <1>11 DEF m, HasCut

-----------------------------------------------------------------------------
IsHeap(h) ==
  /\ DOMAIN h = {"mem", "lfree", "used_mem"}
  /\ Chained(h.mem) /\ h.lfree \in DOMAIN h.mem

\* What merging unused blocks leaves alone.  An unused block below lfree' was
\* unused and below lfree before.
Merged(h, r) ==
  /\ IsHeap(r) /\ r.used_mem = h.used_mem
  /\ DOMAIN r.mem \subseteq DOMAIN h.mem
  /\ SameUse(h.mem, r.mem)
  /\ r.lfree = h.lfree \/ ~r.mem[r.lfree].used
  /\ r.lfree <= h.lfree

\* Merging an unused block into the one before it: only neighbours of the
\* merged block can be holes afterwards.
LEMMA MergeKeeps ==
  ASSUME NEW h, IsHeap(h), NEW p \in DOMAIN h.mem \ {heap_end}, NEW n,
         n = h.mem[p].next, n # heap_end, ~h.mem[p].used, ~h.mem[n].used
  PROVE  /\ Merged(h, Merge(h, p, n))
         /\ DOMAIN Merge(h, p, n).mem = DOMAIN h.mem \ {n}
         /\ Merge(h, p, n).mem[p].next = h.mem[n].next
         /\ \A q \in DOMAIN h.mem \ {n} :
              /\ Merge(h, p, n).mem[q].used = h.mem[q].used
              /\ q # p => Merge(h, p, n).mem[q].next = h.mem[q].next
<1> DEFINE r == Merge(h, p, n)
           m == Absorb(h.mem, p, n)
<1>1. /\ DOMAIN r = {"mem", "lfree", "used_mem"}
      /\ r.mem = m /\ r.used_mem = h.used_mem
      /\ r.lfree = IF h.lfree = n THEN p ELSE h.lfree
  BY DEF Merge, IsHeap
<1>2. /\ Chained(m) /\ DOMAIN m = DOMAIN h.mem \ {n}
      /\ \A q \in DOMAIN h.mem \ {n} :
           /\ m[q].used = h.mem[q].used
           /\ m[q].next = IF q = p THEN h.mem[n].next ELSE h.mem[q].next
  <2>1. Chained(h.mem)
    BY DEF IsHeap
  <2>2. QED BY <2>1, AbsorbKeepsChain
<1>4. n \in DOMAIN h.mem /\ p < n /\ p \in Nat /\ n \in Nat
  BY Sizing DEF IsHeap, Chained
<1> HIDE DEF m, r
<1>5. IsHeap(r)
  BY <1>1, <1>2, <1>4 DEF IsHeap
<1>6. SameUse(h.mem, m)
  BY <1>2, <1>4 DEF SameUse
<1>7. r.lfree = h.lfree \/ (h.lfree = n /\ r.lfree = p /\ ~m[p].used)
  BY <1>1, <1>2, <1>4
<1>8. h.lfree \in Nat
  BY Sizing DEF IsHeap, Chained
<1>9. Merged(h, r)
  BY <1>1, <1>2, <1>4, <1>5, <1>6, <1>7, <1>8 DEF Merged
<1>10. QED BY <1>1, <1>2, <1>4, <1>9 DEF r

LEMMA MergedTransitive ==
  ASSUME NEW h, NEW f, NEW r, IsHeap(h), Merged(h, f), Merged(f, r)
  PROVE  Merged(h, r)
<1>1. h.lfree \in Nat /\ f.lfree \in Nat /\ r.lfree \in Nat
  BY Sizing DEF Merged, IsHeap, Chained
<1>2. SameUse(h.mem, r.mem)
  BY DEF Merged, SameUse
<1>3. r.lfree = h.lfree \/ ~r.mem[r.lfree].used
  <2>1. CASE r.lfree = f.lfree
    BY <2>1 DEF Merged, SameUse, IsHeap
  <2>2. CASE r.lfree # f.lfree
    BY <2>2 DEF Merged
  <2>3. QED BY <2>1, <2>2
<1>4. QED BY <1>1, <1>2, <1>3 DEF Merged

LEMMA MergedReflexive ==
  ASSUME NEW h, IsHeap(h) PROVE Merged(h, h)
<1>1. h.lfree \in Nat
  BY Sizing DEF IsHeap, Chained
<1>2. QED BY <1>1 DEF Merged, SameUse

\* plug_holes leaves no two neighbours unused.
LEMMA PlugKeeps ==
  ASSUME NEW h, IsHeap(h), NEW p \in DOMAIN h.mem \ {heap_end}, ~h.mem[p].used,
         HolesOnlyAt(h.mem, p)
  PROVE  Merged(h, plug_holes(h, p)) /\ NoHoles(plug_holes(h, p).mem)
<1> DEFINE n == h.mem[p].next
           f == IF p # n /\ ~h.mem[n].used /\ n # heap_end THEN Merge(h, p, n) ELSE h
           q == f.mem[p].prev
           r == plug_holes(h, p)
<1>1. /\ n \in DOMAIN h.mem /\ p < n /\ p # n /\ p \in Nat
  BY Sizing DEF IsHeap, Chained
<1>2. /\ Merged(h, f) /\ p \in DOMAIN f.mem \ {heap_end} /\ ~f.mem[p].used
      /\ HolesOnlyAt(f.mem, p)
      /\ f.mem[p].next # heap_end => f.mem[f.mem[p].next].used
  <2>1. CASE ~h.mem[n].used /\ n # heap_end
    <3>1. f = Merge(h, p, n)
      BY <1>1, <2>1
    <3>2. /\ Merged(h, f) /\ DOMAIN f.mem = DOMAIN h.mem \ {n}
          /\ f.mem[p].next = h.mem[n].next
          /\ \A s \in DOMAIN h.mem \ {n} :
               /\ f.mem[s].used = h.mem[s].used
               /\ s # p => f.mem[s].next = h.mem[s].next
      BY <2>1, <3>1, MergeKeeps
    <3>3. /\ h.mem[n].next \in DOMAIN h.mem /\ n < h.mem[n].next
          /\ n \in Nat /\ h.mem[n].next \in Nat
      BY <1>1, <2>1, Sizing DEF IsHeap, Chained
    <3>4. h.mem[n].next # heap_end => h.mem[h.mem[n].next].used
      BY <1>1, <2>1, <3>3 DEF HolesOnlyAt
    <3>5. \A s \in DOMAIN h.mem \ {heap_end, p} : h.mem[s].next # n
      BY <1>1, <2>1, PrevOfNext DEF IsHeap
    <3>6. HolesOnlyAt(f.mem, p)
      <4> SUFFICES ASSUME NEW s \in DOMAIN f.mem \ {heap_end, p}, ~f.mem[s].used,
                          f.mem[s].next \notin {heap_end, p}
                   PROVE  f.mem[f.mem[s].next].used
        BY DEF HolesOnlyAt
      <4>1. /\ s \in DOMAIN h.mem \ {heap_end, p} /\ ~h.mem[s].used
            /\ f.mem[s].next = h.mem[s].next /\ h.mem[s].next # n
        BY <3>2, <3>5
      <4>2. h.mem[s].next \in DOMAIN h.mem /\ h.mem[h.mem[s].next].used
        BY <4>1 DEF HolesOnlyAt, IsHeap, Chained
      <4>3. QED BY <3>2, <4>1, <4>2
    <3>7. QED BY <1>1, <3>2, <3>3, <3>4, <3>6
  <2>2. CASE h.mem[n].used \/ n = heap_end
    <3>1. f = h
      BY <1>1, <2>2
    <3>2. QED BY <2>2, <3>1, MergedReflexive
  <2>3. QED BY <2>1, <2>2
<1>3. r = IF q # p /\ ~f.mem[q].used THEN Merge(f, q, p) ELSE f
  BY DEF plug_holes
<1> HIDE DEF f, r, n
<1>4. IsHeap(f)
  BY <1>2 DEF Merged
<1>5. CASE q # p /\ ~f.mem[q].used
  <2>1. p # 0
    BY <1>4, <1>5 DEF IsHeap, Chained
  <2>2. q \in DOMAIN f.mem \ {heap_end} /\ f.mem[q].next = p
    BY <1>2, <1>4, <2>1 DEF IsHeap, Chained
  <2>3. /\ Merged(f, r) /\ DOMAIN r.mem = DOMAIN f.mem \ {p}
        /\ r.mem[q].next = f.mem[p].next
        /\ \A s \in DOMAIN f.mem \ {p} :
             /\ r.mem[s].used = f.mem[s].used
             /\ s # q => r.mem[s].next = f.mem[s].next
    BY <1>2, <1>3, <1>4, <1>5, <2>2, MergeKeeps
  <2>4. f.mem[p].next \in DOMAIN f.mem /\ f.mem[p].next # p
    BY <1>2, <1>4, Sizing DEF IsHeap, Chained
  <2>5. NoHoles(r.mem)
    <3> SUFFICES ASSUME NEW s \in DOMAIN r.mem \ {heap_end}, ~r.mem[s].used,
                        r.mem[s].next # heap_end
                 PROVE  r.mem[r.mem[s].next].used
      BY DEF NoHoles
    <3>1. CASE s = q
      BY <1>2, <2>3, <2>4, <3>1
    <3>2. CASE s # q
      <4>1. f.mem[s].next # p
        BY <1>2, <1>4, <2>1, <2>2, <2>3, <3>2, PrevOfNext DEF IsHeap
      <4>2. /\ s \in DOMAIN f.mem \ {heap_end, p} /\ ~f.mem[s].used
            /\ r.mem[s].next = f.mem[s].next
        BY <2>3, <3>2
      <4>3. f.mem[s].next \in DOMAIN f.mem /\ f.mem[f.mem[s].next].used
        BY <1>2, <1>4, <4>1, <4>2 DEF HolesOnlyAt, IsHeap, Chained
      <4>4. QED BY <2>3, <4>1, <4>2, <4>3
    <3>3. QED BY <3>1, <3>2
  <2>6. QED BY <1>2, <2>3, <2>5, MergedTransitive DEF r
<1>6. CASE ~(q # p /\ ~f.mem[q].used)
  <2>1. r = f
    BY <1>3, <1>6
  <2>2. NoHoles(f.mem)
    <3> SUFFICES ASSUME NEW s \in DOMAIN f.mem \ {heap_end}, ~f.mem[s].used,
                        f.mem[s].next # heap_end
                 PROVE  f.mem[f.mem[s].next].used
      BY DEF NoHoles
    <3>1. CASE s = p
      BY <1>2, <3>1
    <3>2. CASE s # p /\ f.mem[s].next = p
      <4>1. q = s
        BY <1>2, <1>4, <3>2, PrevOfNext DEF IsHeap
      <4>2. QED BY <1>6, <3>2, <4>1
    <3>3. CASE s # p /\ f.mem[s].next # p
      BY <1>2, <3>3 DEF HolesOnlyAt
    <3>4. QED BY <3>1, <3>2, <3>3
  <2>3. QED BY <1>2, <2>1, <2>2 DEF r
<1>7. QED BY <1>5, <1>6

-----------------------------------------------------------------------------
InUse(mem) == {q \in DOMAIN mem : mem[q].used}

\* lfree is right for the search, and an unused block of r below it was one of
\* h below h.lfree, or is extra.
SearchKept(h, r, extra) ==
  /\ r.lfree = heap_end \/ ~r.mem[r.lfree].used
  /\ \A q \in DOMAIN r.mem \ extra :
       ~r.mem[q].used /\ q < r.lfree =>
         q \in DOMAIN h.mem /\ ~h.mem[q].used /\ q < h.lfree

LowestUnused(h) == h.lfree = heap_end \/ ~h.mem[h.lfree].used

\* Taking a block that the search stopped at.
LEMMA TakeKeeps ==
  ASSUME NEW h, IsHeap(h), NoHoles(h.mem), LowestUnused(h),
         NEW size \in Nat \ {0}, NEW p \in Candidates(h, size)
  PROVE  LET r == Take(h, p, size)
         IN  /\ IsHeap(r) /\ NoHoles(r.mem)
             /\ p \in DOMAIN h.mem \ {heap_end} /\ ~h.mem[p].used
             /\ InUse(r.mem) = InUse(h.mem) \cup {p}
             /\ \A q \in InUse(h.mem) : r.mem[q].next = h.mem[q].next
             /\ DataSize(r.mem, p) >= size
             /\ SearchKept(h, r, {})
             /\ r.used_mem = h.used_mem + (r.mem[p].next - p)
<1> DEFINE split == DataSize(h.mem, p) >= size + SIZEOF_STRUCT_MEM + MIN_SIZE_ALIGNED
           p2 == p + SIZEOF_STRUCT_MEM + size
           m == IF split THEN Split(h.mem, p, size) ELSE h.mem
           taken == [m EXCEPT ![p].used = TRUE]
           above == {q \in DOMAIN taken : q >= p /\ (q = heap_end \/ ~taken[q].used)}
           r == Take(h, p, size)
<1>1. /\ Chained(h.mem) /\ p \in DOMAIN h.mem \ {heap_end} /\ ~h.mem[p].used
      /\ h.lfree \in DOMAIN h.mem /\ h.lfree <= p
      /\ h.mem[p].next - p - SIZEOF_STRUCT_MEM >= size
      /\ h.mem[p].next \in DOMAIN h.mem /\ DOMAIN h.mem \subseteq Nat
  <2>1. /\ Chained(h.mem) /\ p \in DOMAIN h.mem /\ ~h.mem[p].used
        /\ h.lfree \in DOMAIN h.mem /\ p >= h.lfree
        /\ h.mem[p].next - p - SIZEOF_STRUCT_MEM >= size
    BY DEF Candidates, DataSize, IsHeap
  <2>2. p # heap_end /\ DOMAIN h.mem \subseteq Nat
    BY <2>1, Sizing DEF Chained
  <2>3. h.mem[p].next \in DOMAIN h.mem
    BY <2>1, <2>2 DEF Chained
  <2>4. h.lfree <= p
    BY <2>1, <2>2
  <2>5. QED BY <2>1, <2>2, <2>3, <2>4
<1>2. split => p2 + SIZEOF_STRUCT_MEM < h.mem[p].next
  BY <1>1, Sizing DEF DataSize
<1>3. /\ Chained(m) /\ DOMAIN h.mem \subseteq DOMAIN m
      /\ DOMAIN m \subseteq DOMAIN h.mem \cup {p2}
      /\ \A q \in DOMAIN h.mem :
           /\ m[q].used = h.mem[q].used
           /\ q # p => m[q].next = h.mem[q].next
      /\ p2 \in DOMAIN m \ DOMAIN h.mem =>
           /\ ~m[p2].used /\ m[p2].next = h.mem[p].next /\ p2 > p
      /\ m[p].next - p - SIZEOF_STRUCT_MEM >= size
  <2>1. CASE split
    <3>1. m = Split(h.mem, p, size)
      BY <2>1
    <3>2. p2 + SIZEOF_STRUCT_MEM < h.mem[p].next
      BY <1>2, <2>1
    <3>0. /\ Chained(h.mem) /\ p \in DOMAIN h.mem \ {heap_end}
          /\ p2 = p + SIZEOF_STRUCT_MEM + size
      BY <1>1
    <3> HIDE DEF split, m, p2
    <3>3. HasCut(h.mem, p, p2, m)
      BY <3>0, <3>1, <3>2, SplitKeepsChain
    <3>4. m[p].next - p - SIZEOF_STRUCT_MEM >= size
      BY <1>1, <3>0, <3>3, Sizing DEF HasCut
    <3>5. QED BY <3>3, <3>4 DEF HasCut
  <2>2. CASE ~split
    BY <1>1, <2>2
  <2>3. QED BY <2>1, <2>2
<1> HIDE DEF split, m
<1>4. /\ Chained(taken) /\ DOMAIN taken = DOMAIN m
      /\ \A q \in DOMAIN m :
           /\ taken[q].next = m[q].next
           /\ taken[q].used = IF q = p THEN TRUE ELSE m[q].used
  BY <1>1, <1>3, MarkKeepsChain DEF Marked
<1>5. /\ DOMAIN r = {"mem", "lfree", "used_mem"} /\ r.mem = taken
      /\ r.used_mem = h.used_mem + (taken[p].next - p)
      /\ r.lfree = IF p = h.lfree THEN Min(above) ELSE h.lfree
  BY DEF Take, m, split
<1> HIDE DEF taken, r
<1>6. /\ Min(above) \in above /\ Min(above) \in Nat
      /\ \A q \in above : Min(above) <= q
  <2>1. heap_end \in above /\ above \subseteq Nat
    BY <1>1, <1>4, Sizing DEF Chained
  <2> HIDE DEF above
  <2>2. QED BY <2>1, MinIsLeast
<1>7. IsHeap(r)
  BY <1>1, <1>3, <1>4, <1>5, <1>6 DEF IsHeap
<1>8. InUse(r.mem) = InUse(h.mem) \cup {p}
  <2>1. \A q \in DOMAIN m : taken[q].used <=> q = p \/ (q \in DOMAIN h.mem /\ h.mem[q].used)
    BY <1>3, <1>4
  <2>2. QED BY <1>1, <1>3, <1>4, <1>5, <2>1 DEF InUse
<1>9. \A q \in InUse(h.mem) : r.mem[q].next = h.mem[q].next
  BY <1>1, <1>3, <1>4, <1>5 DEF InUse
<1>10. DataSize(r.mem, p) >= size
  BY <1>1, <1>3, <1>4, <1>5 DEF DataSize
<1>11. NoHoles(r.mem)
  <2> SUFFICES ASSUME NEW q \in DOMAIN taken \ {heap_end}, ~taken[q].used,
                      taken[q].next # heap_end
               PROVE  taken[taken[q].next].used
    BY <1>5 DEF NoHoles
  <2>1. q # p /\ q \in DOMAIN m /\ ~m[q].used /\ taken[q].next = m[q].next
    BY <1>4
  <2>2. CASE q \in DOMAIN h.mem
    <3>1. ~h.mem[q].used /\ m[q].next = h.mem[q].next
      BY <1>3, <2>1, <2>2
    <3>2. h.mem[q].next \in DOMAIN h.mem /\ h.mem[h.mem[q].next].used
      BY <1>1, <2>1, <2>2, <3>1 DEF NoHoles, Chained
    <3>3. QED BY <1>3, <1>4, <2>1, <3>1, <3>2
  <2>3. CASE q \notin DOMAIN h.mem
    <3>1. q = p2 /\ m[q].next = h.mem[p].next
      BY <1>3, <2>1, <2>3
    <3>2. h.mem[p].next \in DOMAIN h.mem /\ h.mem[h.mem[p].next].used
      BY <1>1, <2>1, <3>1 DEF NoHoles
    <3>3. QED BY <1>3, <1>4, <2>1, <3>1, <3>2
  <2>4. QED BY <2>2, <2>3
<1>12. SearchKept(h, r, {})
  <2>1. r.lfree = heap_end \/ ~r.mem[r.lfree].used
    <3>1. CASE p = h.lfree
      BY <1>5, <1>6, <3>1
    <3>2. CASE p # h.lfree
      BY <1>1, <1>3, <1>4, <1>5, <3>2, ZenonT(60) DEF LowestUnused
    <3>3. QED BY <3>1, <3>2
  <2>2. ASSUME NEW q \in DOMAIN r.mem, ~r.mem[q].used, q < r.lfree
        PROVE  q \in DOMAIN h.mem /\ ~h.mem[q].used /\ q < h.lfree
    <3>1. q \in DOMAIN m /\ q # p /\ ~m[q].used /\ q \in Nat /\ q \in DOMAIN taken
      <4>1. q \in DOMAIN m /\ q \in DOMAIN taken /\ ~taken[q].used
        BY <1>4, <1>5, <2>2
      <4>2. q # p /\ ~m[q].used
        BY <1>4, <4>1
      <4>3. q \in Nat
        BY <1>3, <4>1, Sizing DEF Chained
      <4>4. QED BY <4>1, <4>2, <4>3
    <3>2. q < p
      <4>1. CASE p = h.lfree
        <5>1. q \notin above
          <6> HIDE DEF above
          <6>1. QED BY <1>5, <1>6, <2>2, <3>1, <4>1
        <5>2. QED BY <1>1, <1>5, <2>2, <3>1, <5>1
      <4>2. CASE p # h.lfree
        BY <1>1, <1>5, <2>2, <3>1, <4>2
      <4>3. QED BY <4>1, <4>2
    <3>3. q \in DOMAIN h.mem /\ ~h.mem[q].used
      BY <1>1, <1>3, <3>1, <3>2
    <3>4. q < h.lfree
      BY <1>1, <1>5, <2>2, <3>2, <3>3
    <3>5. QED BY <3>3, <3>4
  <2>3. QED BY <2>1, <2>2 DEF SearchKept
<1>13. r.used_mem = h.used_mem + (r.mem[p].next - p)
  BY <1>5
<1>14. QED BY <1>1, <1>7, <1>8, <1>9, <1>10, <1>11, <1>12, <1>13 DEF r

\* Freeing a block in use.
LEMMA FreeKeeps ==
  ASSUME NEW h, IsHeap(h), NoHoles(h.mem), LowestUnused(h),
         NEW p \in InUse(h.mem) \ {heap_end}
  PROVE  LET r == free(h, p)
         IN  /\ IsHeap(r) /\ NoHoles(r.mem)
             /\ InUse(r.mem) = InUse(h.mem) \ {p}
             /\ \A q \in InUse(r.mem) : r.mem[q].next = h.mem[q].next
             /\ SearchKept(h, r, {})
             /\ r.used_mem = h.used_mem - (h.mem[p].next - p)
<1> DEFINE m == [h.mem EXCEPT ![p].used = FALSE]
           g == [mem |-> m, lfree |-> IF p < h.lfree THEN p ELSE h.lfree,
                 used_mem |-> h.used_mem - (m[p].next - p)]
           r == free(h, p)
<1>1. /\ Chained(h.mem) /\ p \in DOMAIN h.mem \ {heap_end} /\ h.mem[p].used
      /\ h.lfree \in DOMAIN h.mem /\ DOMAIN h.mem \subseteq Nat
  BY Sizing DEF IsHeap, InUse, Chained
<1>2. /\ Chained(m) /\ DOMAIN m = DOMAIN h.mem
      /\ \A q \in DOMAIN h.mem :
           /\ m[q].next = h.mem[q].next
           /\ m[q].used = IF q = p THEN FALSE ELSE h.mem[q].used
  <2>1. FALSE \in BOOLEAN
    OBVIOUS
  <2>2. Marked(h.mem, p, FALSE, m)
    BY <1>1, <2>1, MarkKeepsChain
  <2> HIDE DEF m
  <2>3. QED BY <2>2 DEF Marked
<1>3. r = plug_holes(g, p)
  BY DEF free
<1>4. /\ DOMAIN g = {"mem", "lfree", "used_mem"} /\ g.mem = m
      /\ g.lfree = IF p < h.lfree THEN p ELSE h.lfree
      /\ g.used_mem = h.used_mem - (m[p].next - p)
  OBVIOUS
<1> HIDE DEF m, g, r
<1>5. IsHeap(g) /\ ~g.mem[p].used /\ p \in DOMAIN g.mem \ {heap_end}
  BY <1>1, <1>2, <1>4 DEF IsHeap
<1>6. HolesOnlyAt(g.mem, p)
  BY <1>1, <1>2, <1>4, ZenonT(60) DEF NoHoles, HolesOnlyAt, Chained
<1>7. Merged(g, r) /\ NoHoles(r.mem)
  BY <1>3, <1>5, <1>6, PlugKeeps
<1>8. IsHeap(r) /\ InUse(r.mem) = InUse(h.mem) \ {p}
  BY <1>1, <1>2, <1>4, <1>7 DEF Merged, SameUse, InUse
<1>9. \A q \in InUse(r.mem) : r.mem[q].next = h.mem[q].next
  BY <1>1, <1>2, <1>4, <1>7, <1>8 DEF Merged, SameUse, InUse
<1>10. SearchKept(h, r, {})
  <2>1. g.lfree = heap_end \/ ~g.mem[g.lfree].used
    BY <1>1, <1>2, <1>4 DEF LowestUnused
  <2>2. r.lfree = heap_end \/ ~r.mem[r.lfree].used
    BY <2>1, <1>5, <1>7 DEF Merged, SameUse, IsHeap
  <2>3. /\ r.lfree \in Nat /\ r.lfree <= g.lfree /\ g.lfree <= h.lfree /\ g.lfree <= p
        /\ h.lfree \in Nat /\ g.lfree \in Nat /\ p \in Nat
    BY <1>1, <1>4, <1>7, Sizing DEF Merged, IsHeap, Chained
  <2>4. ASSUME NEW q \in DOMAIN r.mem, ~r.mem[q].used, q < r.lfree
        PROVE  q \in DOMAIN h.mem /\ ~h.mem[q].used /\ q < h.lfree
    <3>1. q \in DOMAIN h.mem /\ q \in Nat
      BY <1>1, <1>2, <1>4, <1>7 DEF Merged
    <3>2. q # p /\ q < h.lfree
      BY <2>3, <2>4, <3>1
    <3>3. q \notin InUse(r.mem)
      BY <2>4 DEF InUse
    <3>4. QED BY <1>8, <3>1, <3>2, <3>3 DEF InUse
  <2>5. QED BY <2>2, <2>4 DEF SearchKept
<1>11. r.used_mem = h.used_mem - (h.mem[p].next - p)
  BY <1>1, <1>2, <1>4, <1>7 DEF Merged
<1>12. QED BY <1>7, <1>8, <1>9, <1>10, <1>11 DEF r

\* r is h with block p, in use, cut at p2.
IsCutTo(h, p, p2, r) ==
  /\ IsHeap(r) /\ NoHoles(r.mem)
  /\ InUse(r.mem) = InUse(h.mem)
  /\ \A q \in InUse(r.mem) \ {p} : r.mem[q].next = h.mem[q].next
  /\ r.mem[p].next = p2
  /\ SearchKept(h, r, {p2})

\* Cutting a block in use and merging what was cut off.
LEMMA CutKeeps ==
  ASSUME NEW h, IsHeap(h), NoHoles(h.mem), LowestUnused(h),
         NEW p \in InUse(h.mem) \ {heap_end}, NEW size \in Nat \ {0}, NEW p2,
         p2 = p + SIZEOF_STRUCT_MEM + size,
         p2 + SIZEOF_STRUCT_MEM < h.mem[p].next,
         NEW g, DOMAIN g = {"mem", "lfree", "used_mem"},
         g.mem = Split(h.mem, p, size), g.lfree = h.lfree
  PROVE  /\ IsCutTo(h, p, p2, plug_holes(g, p2))
         /\ plug_holes(g, p2).used_mem = g.used_mem
<1> DEFINE m == Split(h.mem, p, size)
           r == plug_holes(g, p2)
<1>1. /\ Chained(h.mem) /\ p \in DOMAIN h.mem \ {heap_end} /\ h.mem[p].used
      /\ h.lfree \in DOMAIN h.mem /\ DOMAIN h.mem \subseteq Nat
      /\ h.mem[p].next \in DOMAIN h.mem /\ heap_end \in DOMAIN h.mem
  BY Sizing DEF IsHeap, InUse, Chained
<1>2. HasCut(h.mem, p, p2, m)
  BY <1>1, SplitKeepsChain
<1> HIDE DEF m, r
<1>3. IsHeap(g) /\ ~g.mem[p2].used /\ p2 \in DOMAIN g.mem \ {heap_end}
  BY <1>1, <1>2 DEF IsHeap, HasCut, m
<1>4. HolesOnlyAt(m, p2)
  <2> SUFFICES ASSUME NEW q \in DOMAIN m \ {heap_end, p2}, ~m[q].used,
                      m[q].next \notin {heap_end, p2}
               PROVE  m[m[q].next].used
    BY DEF HolesOnlyAt
  <2>1. /\ q \in DOMAIN h.mem \ {heap_end, p} /\ ~h.mem[q].used
        /\ m[q].next = h.mem[q].next
    BY <1>1, <1>2 DEF HasCut
  <2>2. h.mem[q].next \in DOMAIN h.mem /\ h.mem[h.mem[q].next].used
    BY <1>1, <2>1 DEF NoHoles, Chained
  <2>3. QED BY <1>2, <2>1, <2>2 DEF HasCut
<1>5. Merged(g, r) /\ NoHoles(r.mem)
  BY <1>3, <1>4, PlugKeeps DEF r, m
<1>6. InUse(r.mem) = InUse(h.mem)
  <2>1. InUse(m) = InUse(h.mem)
    BY <1>2 DEF HasCut, InUse
  <2>2. InUse(r.mem) = InUse(m)
    BY <1>5 DEF Merged, SameUse, InUse, m
  <2>3. QED BY <2>1, <2>2
<1>7. \A q \in InUse(r.mem) : r.mem[q].next = IF q = p THEN p2 ELSE h.mem[q].next
  <2> TAKE q \in InUse(r.mem)
  <2>1. q \in DOMAIN h.mem /\ h.mem[q].used
    BY <1>6 DEF InUse
  <2>2. q \in DOMAIN m /\ m[q].used /\ m[q].next = IF q = p THEN p2 ELSE h.mem[q].next
    BY <1>2, <2>1 DEF HasCut
  <2>3. r.mem[q].next = m[q].next
    BY <1>5, <2>2 DEF Merged, SameUse, m
  <2>4. QED BY <2>2, <2>3
<1>8. SearchKept(h, r, {p2})
  <2>1. g.lfree = heap_end \/ ~g.mem[g.lfree].used
    BY <1>1, <1>2 DEF LowestUnused, HasCut, m
  <2>2. r.lfree = heap_end \/ ~r.mem[r.lfree].used
    BY <2>1, <1>3, <1>5 DEF Merged, SameUse, IsHeap
  <2>3. r.lfree \in Nat /\ r.lfree <= h.lfree /\ h.lfree \in Nat
    BY <1>1, <1>5, Sizing DEF Merged, IsHeap, Chained
  <2>4. ASSUME NEW q \in DOMAIN r.mem \ {p2}, ~r.mem[q].used, q < r.lfree
        PROVE  q \in DOMAIN h.mem /\ ~h.mem[q].used /\ q < h.lfree
    <3>1. q \in DOMAIN m
      BY <1>5 DEF Merged, m
    <3>2. q \in DOMAIN h.mem /\ q \in Nat
      BY <1>1, <1>2, <3>1 DEF HasCut
    <3>3. q \notin InUse(r.mem)
      BY <2>4 DEF InUse
    <3>4. QED BY <1>6, <2>3, <2>4, <3>2, <3>3 DEF InUse
  <2>5. QED BY <2>2, <2>4 DEF SearchKept
<1>9. p \in InUse(r.mem)
  BY <1>6
<1>10. QED BY <1>5, <1>6, <1>7, <1>8, <1>9 DEF r, Merged, IsCutTo

-----------------------------------------------------------------------------
\* A block in use is one a caller holds, and has the size asked for.
Held ==
  /\ InUse(heap.mem) \ {heap_end} = DOMAIN asked
  /\ \A p \in DOMAIN asked : asked[p] \in Nat /\ DataSize(heap.mem, p) >= asked[p]

\* A copy in progress has its two blocks to itself.
MovesApart ==
  /\ \A m \in moving : {m.from, m.to} \subseteq DOMAIN asked
  /\ \A m, n \in moving : m = n \/ {m.from, m.to} \cap {n.from, n.to} = {}

HeapInv ==
  /\ IsHeap(heap) /\ NoHoles(heap.mem)
  /\ Held /\ MovesApart /\ SearchStartsLowest

LEMMA HeapInitially == HeapInit => HeapInv
<1> SUFFICES ASSUME HeapInit PROVE HeapInv
  OBVIOUS
<1> DEFINE mem == [p \in {0, heap_end} |->
                     [used |-> p = heap_end, next |-> heap_end, prev |-> p]]
<1>1. /\ heap.mem = mem /\ heap.lfree = 0
      /\ DOMAIN heap = {"mem", "lfree", "used_mem"}
      /\ asked = << >> /\ moving = {}
  BY DEF HeapInit
<1>2. /\ DOMAIN mem = {0, heap_end} /\ 0 < heap_end
      /\ 0 + SIZEOF_STRUCT_MEM < heap_end
      /\ ~mem[0].used /\ mem[heap_end].used
      /\ mem[0].next = heap_end /\ mem[0].prev = 0
      /\ \A p \in {0, heap_end} : mem[p] \in Header
  <2>1. 0 < heap_end /\ 0 + SIZEOF_STRUCT_MEM < heap_end /\ 0 # heap_end
    BY Sizing
  <2>2. DOMAIN mem = {0, heap_end} /\ mem[0].next = heap_end /\ mem[0].prev = 0
    OBVIOUS
  <2>3. ~mem[0].used /\ mem[heap_end].used
    BY <2>1, Zenon
  <2>4. ASSUME NEW p \in {0, heap_end} PROVE mem[p] \in Header
    <3>1. /\ (p = heap_end) \in BOOLEAN
          /\ heap_end \in 0 .. heap_end /\ p \in 0 .. heap_end
      BY Sizing
    <3>2. mem[p] = [used |-> p = heap_end, next |-> heap_end, prev |-> p]
      BY Zenon
    <3>3. QED BY <3>1, <3>2, Zenon DEF Header
  <2>5. QED BY <2>1, <2>2, <2>3, <2>4
<1>3. mem \in [DOMAIN mem -> Header]
  BY <1>2
<1> HIDE DEF mem
<1>4. Chained(mem)
  BY <1>2, <1>3, Sizing DEF Chained
<1>5. IsHeap(heap) /\ NoHoles(heap.mem)
  BY <1>1, <1>2, <1>4 DEF IsHeap, NoHoles
<1>6. DOMAIN asked = {}
  BY <1>1
<1>7. Held /\ MovesApart
  BY <1>1, <1>2, <1>6 DEF Held, MovesApart, InUse
<1>8. SearchStartsLowest
  BY <1>1, <1>2, Sizing DEF SearchStartsLowest
<1>9. QED BY <1>5, <1>7, <1>8 DEF HeapInv

\* A request of a size in Sizes that is found takes a block nobody holds.
LEMMA MallocKeeps ==
  ASSUME HeapInv, NEW size \in Sizes, Found(heap, size)
  PROVE  LET p == malloc_at(heap, size)
             r == malloc(heap, size)
         IN  /\ IsHeap(r) /\ NoHoles(r.mem)
             /\ p \in DOMAIN heap.mem \ {heap_end} /\ p \notin DOMAIN asked
             /\ InUse(r.mem) = InUse(heap.mem) \cup {p}
             /\ \A q \in InUse(heap.mem) : r.mem[q].next = heap.mem[q].next
             /\ DataSize(r.mem, p) >= size
             /\ SearchKept(heap, r, {})
             /\ r.used_mem = heap.used_mem + (r.mem[p].next - p)
<1> DEFINE p == malloc_at(heap, size)
           n == AtLeastMin(size)
<1>1. size \in Nat /\ n \in Nat \ {0} /\ n >= size
  BY SmallMemAssumption, AtLeastBoth
<1>2. Candidates(heap, n) \subseteq Nat /\ Candidates(heap, n) # {}
  BY Sizing DEF Found, Candidates, HeapInv, IsHeap, Chained
<1>3. p \in Candidates(heap, n)
  BY <1>2, MinIsLeast DEF malloc_at
<1> HIDE DEF n, p
<1>4. LowestUnused(heap)
  BY DEF HeapInv, SearchStartsLowest, LowestUnused
<1>5. malloc(heap, size) = Take(heap, p, n)
  BY DEF malloc, p, n
<1>6. p \notin DOMAIN asked
  BY <1>3 DEF Candidates, HeapInv, Held, InUse
<1> DEFINE r == Take(heap, p, n)
<1>7. /\ IsHeap(r) /\ NoHoles(r.mem)
      /\ p \in DOMAIN heap.mem \ {heap_end}
      /\ InUse(r.mem) = InUse(heap.mem) \cup {p}
      /\ \A q \in InUse(heap.mem) : r.mem[q].next = heap.mem[q].next
      /\ DataSize(r.mem, p) >= n
      /\ SearchKept(heap, r, {})
      /\ r.used_mem = heap.used_mem + (r.mem[p].next - p)
  BY <1>1, <1>3, <1>4, TakeKeeps DEF HeapInv
<1> HIDE DEF r
<1>8. DataSize(r.mem, p) >= size
  <2>1. p \in Nat /\ r.mem[p].next \in Nat
    BY <1>7, Sizing DEF IsHeap, Chained, InUse, Header
  <2>2. QED BY <1>1, <1>7, <2>1, Sizing DEF DataSize
<1>9. QED BY <1>5, <1>6, <1>7, <1>8 DEF r, p

-----------------------------------------------------------------------------
\* The unused blocks below lfree stay among the blocks cut off.
LEMMA SearchStays ==
  ASSUME SearchStartsLowest, NEW r, NEW extra, SearchKept(heap, r, extra),
         NEW cut, shrunk \cup extra \subseteq cut
  PROVE  /\ r.lfree = heap_end \/ ~r.mem[r.lfree].used
         /\ \A p \in DOMAIN r.mem :
              ~r.mem[p].used /\ p < r.lfree => p \in StillUnused(r, cut)
  BY DEF SearchStartsLowest, SearchKept, StillUnused

LEMMA LowestNow == HeapInv => LowestUnused(heap)
  BY DEF HeapInv, SearchStartsLowest, LowestUnused

LEMMA MallocStep ==
  ASSUME HeapInv, NEW size \in Sizes, rt_malloc(size) PROVE HeapInv'
<1> DEFINE p == malloc_at(heap, size)
           r == malloc(heap, size)
<1>1. /\ heap' = r /\ moving' = moving /\ shrunk' = StillUnused(r, shrunk)
      /\ DOMAIN asked' = DOMAIN asked \cup {p} /\ asked'[p] = size
      /\ \A q \in DOMAIN asked \ {p} : asked'[q] = asked[q]
  BY DEF rt_malloc
<1>2. /\ IsHeap(r) /\ NoHoles(r.mem)
      /\ p \in DOMAIN heap.mem \ {heap_end} /\ p \notin DOMAIN asked
      /\ InUse(r.mem) = InUse(heap.mem) \cup {p}
      /\ \A q \in InUse(heap.mem) : r.mem[q].next = heap.mem[q].next
      /\ DataSize(r.mem, p) >= size
      /\ SearchKept(heap, r, {})
  BY MallocKeeps DEF rt_malloc
<1> HIDE DEF p, r
<1>3. Held'
  BY <1>1, <1>2, SmallMemAssumption DEF HeapInv, Held, DataSize
<1>4. MovesApart'
  BY <1>1 DEF HeapInv, MovesApart
<1>5. SearchStartsLowest'
  BY <1>1, <1>2, SearchStays DEF HeapInv, SearchStartsLowest
<1>6. QED BY <1>1, <1>2, <1>3, <1>4, <1>5 DEF HeapInv

\* Freeing block p, by rt_free or at the end of an rt_realloc.
LEMMA FreeStep ==
  ASSUME HeapInv, NEW p \in DOMAIN asked, heap' = free(heap, p),
         asked' = Restrict(asked, DOMAIN asked \ {p}),
         shrunk' = StillUnused(heap', shrunk), MovesApart'
  PROVE  HeapInv'
<1> DEFINE r == free(heap, p)
<1>1. /\ DOMAIN asked' = DOMAIN asked \ {p}
      /\ \A q \in DOMAIN asked \ {p} : asked'[q] = asked[q]
  BY DEF Restrict
<1>2. p \in InUse(heap.mem) \ {heap_end}
  BY DEF HeapInv, Held
<1>3. /\ IsHeap(r) /\ NoHoles(r.mem)
      /\ InUse(r.mem) = InUse(heap.mem) \ {p}
      /\ \A q \in InUse(r.mem) : r.mem[q].next = heap.mem[q].next
      /\ SearchKept(heap, r, {})
  BY <1>2, FreeKeeps, LowestNow DEF HeapInv
<1>4. heap' = r
  OBVIOUS
<1> HIDE DEF r
<1>5. Held'
  BY <1>1, <1>3, <1>4 DEF HeapInv, Held, DataSize
<1>6. SearchStartsLowest'
  BY <1>3, <1>4, SearchStays DEF HeapInv, SearchStartsLowest
<1>7. QED BY <1>3, <1>4, <1>5, <1>6 DEF HeapInv

LEMMA RtFreeStep ==
  ASSUME HeapInv, NEW p \in DOMAIN asked, rt_free(p) PROVE HeapInv'
<1>1. DOMAIN asked' = DOMAIN asked \ {p}
  BY DEF rt_free, Restrict
<1>2. MovesApart'
  BY <1>1 DEF HeapInv, MovesApart, rt_free, Settled
<1>3. QED BY <1>2, FreeStep DEF rt_free

LEMMA ReallocFreeStep ==
  ASSUME HeapInv, NEW m \in moving, rt_realloc_free(m) PROVE HeapInv'
<1>1. DOMAIN asked' = DOMAIN asked \ {m.from}
  BY DEF rt_realloc_free, Restrict
<1>2. m.from \in DOMAIN asked
  BY DEF HeapInv, MovesApart
<1>3. MovesApart'
  BY <1>1 DEF HeapInv, MovesApart, rt_realloc_free
<1>4. QED BY <1>2, <1>3, FreeStep DEF rt_realloc_free

LEMMA ReallocCutStep ==
  ASSUME HeapInv, NEW p \in DOMAIN asked, NEW size \in Sizes, rt_realloc_cut(p, size)
  PROVE  HeapInv'
<1> DEFINE p2 == p + SIZEOF_STRUCT_MEM + size
           g == [heap EXCEPT !.mem = Split(heap.mem, p, size),
                             !.used_mem = heap.used_mem - (DataSize(heap.mem, p) - size)]
           r == plug_holes(g, p2)
<1>1. /\ heap' = r /\ moving' = moving
      /\ shrunk' = StillUnused(r, shrunk \cup {p2})
      /\ DOMAIN asked' = DOMAIN asked /\ asked'[p] = size
      /\ \A q \in DOMAIN asked \ {p} : asked'[q] = asked[q]
  BY DEF rt_realloc_cut
<1>2. /\ DOMAIN g = {"mem", "lfree", "used_mem"}
      /\ g.mem = Split(heap.mem, p, size) /\ g.lfree = heap.lfree
  BY DEF HeapInv, IsHeap
<1>3. /\ p \in InUse(heap.mem) \ {heap_end} /\ p \in Nat
      /\ size \in Nat \ {0} /\ heap.mem[p].next \in Nat
  BY Sizing, SmallMemAssumption DEF HeapInv, Held, InUse, IsHeap, Chained
<1>4. p2 + SIZEOF_STRUCT_MEM < heap.mem[p].next
  BY <1>3, Sizing DEF rt_realloc_cut, Cuts, DataSize
<1>5. p2 = p + SIZEOF_STRUCT_MEM + size
  OBVIOUS
<1> HIDE DEF g, p2
<1>6. IsCutTo(heap, p, p2, r)
  BY <1>2, <1>3, <1>4, <1>5, CutKeeps, LowestNow DEF HeapInv
<1> HIDE DEF r
<1>7. DataSize(r.mem, p) = size
  BY <1>3, <1>5, <1>6, Sizing DEF DataSize, IsCutTo
<1>8. Held'
  BY <1>1, <1>3, <1>6, <1>7 DEF HeapInv, Held, DataSize, IsCutTo
<1>9. MovesApart'
  BY <1>1 DEF HeapInv, MovesApart
<1>10. SearchStartsLowest'
  BY <1>1, <1>6, SearchStays DEF HeapInv, SearchStartsLowest, IsCutTo
<1>11. QED BY <1>1, <1>6, <1>8, <1>9, <1>10 DEF HeapInv, IsCutTo

LEMMA ReallocMoveStep ==
  ASSUME HeapInv, NEW p \in DOMAIN asked, NEW size \in Sizes, rt_realloc_move(p, size)
  PROVE  HeapInv'
<1> DEFINE to == malloc_at(heap, size)
           r == malloc(heap, size)
           move == [from |-> p, to |-> to, size |-> size]
<1>1. /\ heap' = r /\ moving' = moving \cup {move}
      /\ shrunk' = StillUnused(r, shrunk)
      /\ DOMAIN asked' = DOMAIN asked \cup {to} /\ asked'[to] = size
      /\ \A q \in DOMAIN asked \ {to} : asked'[q] = asked[q]
  BY DEF rt_realloc_move
<1>2. /\ IsHeap(r) /\ NoHoles(r.mem)
      /\ to \in DOMAIN heap.mem \ {heap_end} /\ to \notin DOMAIN asked
      /\ InUse(r.mem) = InUse(heap.mem) \cup {to}
      /\ \A q \in InUse(heap.mem) : r.mem[q].next = heap.mem[q].next
      /\ DataSize(r.mem, to) >= size
      /\ SearchKept(heap, r, {})
  BY MallocKeeps DEF rt_realloc_move
<1>3. /\ move.from = p /\ move.to = to /\ p \in DOMAIN asked
      /\ \A m \in moving : p # m.from /\ p # m.to
  BY DEF rt_realloc_move, Settled
<1> HIDE DEF to, r, move
<1>4. Held'
  BY <1>1, <1>2, SmallMemAssumption DEF HeapInv, Held, DataSize
<1>5. MovesApart'
  BY <1>1, <1>2, <1>3 DEF HeapInv, MovesApart
<1>6. SearchStartsLowest'
  BY <1>1, <1>2, SearchStays DEF HeapInv, SearchStartsLowest
<1>7. QED BY <1>1, <1>2, <1>4, <1>5, <1>6 DEF HeapInv

LEMMA HeapInductive == HeapInv /\ [HeapNext]_heap_vars => HeapInv'
<1> SUFFICES ASSUME HeapInv, [HeapNext]_heap_vars PROVE HeapInv'
  OBVIOUS
<1>1. CASE HeapNext
  BY <1>1, MallocStep, RtFreeStep, ReallocFreeStep, ReallocCutStep, ReallocMoveStep
     DEF HeapNext
<1>2. CASE UNCHANGED heap_vars
  BY <1>2 DEF heap_vars, HeapInv, Held, MovesApart, SearchStartsLowest
<1>3. QED BY <1>1, <1>2

LEMMA HeapAlways == HeapSpec => []HeapInv
  BY HeapInitially, HeapInductive, PTL DEF HeapSpec

-----------------------------------------------------------------------------
\* The units that blocks in use and their headers take.
Units(mem) ==
  {a \in 0 .. heap_end - 1 :
     \E p \in InUse(mem) \ {heap_end} : p <= a /\ a < mem[p].next}

UsedCounted == heap.used_mem = Cardinality(Units(heap.mem))

\* A set of units that grows by an interval it did not meet.
LEMMA GrowsByInterval ==
  ASSUME NEW U, IsFiniteSet(U), NEW a \in Int, NEW b \in Int, a <= b,
         U \cap (a .. b - 1) = {}
  PROVE  Cardinality(U \cup (a .. b - 1)) = Cardinality(U) + (b - a)
<1>1. IsFiniteSet(a .. b - 1) /\ Cardinality(a .. b - 1) = b - a
  <2>1. PICK c \in Int : c = b - 1
    OBVIOUS
  <2>2. IsFiniteSet(a .. c) /\ Cardinality(a .. c) = IF a > c THEN 0 ELSE c - a + 1
    BY FS_Interval
  <2>3. QED BY <2>1, <2>2
<1>2. Cardinality(U \cap (a .. b - 1)) = 0
  BY FS_EmptySet
<1>3. Cardinality(U) \in Nat
  BY FS_CardinalityType
<1>4. Cardinality(U \cup (a .. b - 1))
        = Cardinality(U) + Cardinality(a .. b - 1) - Cardinality(U \cap (a .. b - 1))
  BY <1>1, FS_Union
<1>5. QED BY <1>1, <1>2, <1>3, <1>4

LEMMA UnitsFinite ==
  ASSUME NEW mem
  PROVE  /\ IsFiniteSet(Units(mem))
         /\ Cardinality(Units(mem)) \in 0 .. heap_end
<1>1. IsFiniteSet(0 .. heap_end - 1) /\ Cardinality(0 .. heap_end - 1) = heap_end
  BY FS_Interval, Sizing
<1>2. Units(mem) \in SUBSET (0 .. heap_end - 1)
  BY DEF Units
<1>3. IsFiniteSet(Units(mem)) /\ Cardinality(Units(mem)) <= heap_end
  BY <1>1, <1>2, FS_Subset, ZenonT(60)
<1>4. QED BY <1>3, FS_CardinalityType, Sizing

\* Where a block in use lies between the headers of the heap.
LEMMA BlockBounds ==
  ASSUME NEW mem, Chained(mem), NEW p \in InUse(mem) \ {heap_end}
  PROVE  /\ p \in Nat /\ mem[p].next \in Nat
         /\ p < mem[p].next /\ mem[p].next <= heap_end
         /\ \A q \in InUse(mem) \ {heap_end, p} :
              \/ q \in Nat /\ mem[q].next \in Nat /\ mem[q].next <= p
              \/ q \in Nat /\ mem[q].next \in Nat /\ q >= mem[p].next
<1>2. \A q \in InUse(mem) \ {heap_end} :
        /\ q \in DOMAIN mem \ {heap_end} /\ q \in Nat
        /\ mem[q].next \in DOMAIN mem /\ mem[q].next \in Nat
        /\ mem[q].next <= heap_end /\ q < mem[q].next
  BY Sizing DEF Chained, InUse
<1>3. \A q \in InUse(mem) \ {heap_end, p} :
        mem[q].next <= p \/ q >= mem[p].next
  <2> TAKE q \in InUse(mem) \ {heap_end, p}
  <2>1. p <= q \/ p >= mem[q].next
    BY <1>2 DEF Chained
  <2>2. q <= p \/ q >= mem[p].next
    BY <1>2 DEF Chained
  <2>3. QED BY <1>2, <2>1, <2>2
<1>4. QED BY <1>2, <1>3

\* Block p is in use in new and not in old; the others are as they were.
OneMore(old, new, p) ==
  /\ p \in InUse(new) \ {heap_end} /\ InUse(old) = InUse(new) \ {p}
  /\ \A q \in InUse(old) : new[q].next = old[q].next

LEMMA UnitsWithOneMore ==
  ASSUME NEW old, NEW new, Chained(new), NEW p, OneMore(old, new, p)
  PROVE  Cardinality(Units(new)) = Cardinality(Units(old)) + (new[p].next - p)
<1> USE DEF OneMore
<1> DEFINE b == new[p].next
<1>1. p \in Nat /\ b \in Nat /\ p <= b /\ b <= heap_end
  BY BlockBounds
<1>2. \A q \in InUse(old) \ {heap_end} :
        /\ q \in Nat /\ old[q].next \in Nat
        /\ old[q].next <= p \/ q >= b
  BY BlockBounds
<1> HIDE DEF b
<1>3. Units(old) \cap (p .. b - 1) = {}
  <2> SUFFICES ASSUME NEW a \in Units(old), a \in p .. b - 1 PROVE FALSE
    OBVIOUS
  <2>1. PICK q \in InUse(old) \ {heap_end} : q <= a /\ a < old[q].next
    BY DEF Units
  <2>2. a \in Nat /\ p <= a /\ a < b
    BY <1>1
  <2>3. /\ q \in Nat /\ old[q].next \in Nat
        /\ old[q].next <= p \/ q >= b
    BY <1>2
  <2>4. QED BY ONLY <1>1, <2>1, <2>2, <2>3
<1>4. Units(new) = Units(old) \cup (p .. b - 1)
  <2>1. Units(old) \subseteq Units(new)
    BY DEF Units
  <2>2. p .. b - 1 \subseteq Units(new)
    BY <1>1, Sizing DEF Units, b
  <2>3. ASSUME NEW a \in Units(new), a \notin p .. b - 1
        PROVE  a \in Units(old)
    <3>1. a \in 0 .. heap_end - 1
      BY DEF Units
    <3>2. PICK q \in InUse(new) \ {heap_end} : q <= a /\ a < new[q].next
      BY DEF Units
    <3>3. q # p
      BY <1>1, <2>3, <3>1, <3>2, Sizing DEF b
    <3>4. QED BY <3>1, <3>2, <3>3 DEF Units
  <2>4. QED BY <2>1, <2>2, <2>3
<1>5. IsFiniteSet(Units(old))
  BY UnitsFinite
<1>6. Cardinality(Units(old) \cup (p .. b - 1)) = Cardinality(Units(old)) + (b - p)
  BY <1>1, <1>3, <1>5, GrowsByInterval
<1>7. QED BY <1>4, <1>6 DEF b

\* Block p of old ends at p2 in new; the others are as they were.
CutAt(old, new, p, p2) ==
  /\ p \in InUse(old) \ {heap_end} /\ InUse(new) = InUse(old)
  /\ p < p2 /\ p2 <= old[p].next /\ new[p].next = p2
  /\ \A q \in InUse(new) \ {p} : new[q].next = old[q].next

LEMMA UnitsCut ==
  ASSUME NEW old, NEW new, Chained(old), NEW p, NEW p2 \in Nat, CutAt(old, new, p, p2)
  PROVE  Cardinality(Units(old)) = Cardinality(Units(new)) + (old[p].next - p2)
<1> USE DEF CutAt
<1> DEFINE b == old[p].next
<1>1. p \in Nat /\ b \in Nat /\ p2 <= b /\ b <= heap_end
  BY BlockBounds
<1>2. \A q \in InUse(old) \ {heap_end, p} :
        /\ q \in Nat /\ old[q].next \in Nat
        /\ old[q].next <= p \/ q >= b
  BY BlockBounds
<1> HIDE DEF b
<1>3. Units(new) \cap (p2 .. b - 1) = {}
  <2> SUFFICES ASSUME NEW a \in Units(new), a \in p2 .. b - 1 PROVE FALSE
    OBVIOUS
  <2>1. PICK q \in InUse(new) \ {heap_end} : q <= a /\ a < new[q].next
    BY DEF Units
  <2>2. CASE q = p
    BY <1>1, <2>1, <2>2
  <2>3. CASE q # p
    BY <1>1, <1>2, <2>1, <2>3
  <2>4. QED BY <2>2, <2>3
<1>4. Units(old) = Units(new) \cup (p2 .. b - 1)
  <2>1. ASSUME NEW a \in Units(new) PROVE a \in Units(old)
    <3>1. PICK q \in InUse(new) \ {heap_end} : q <= a /\ a < new[q].next
      BY DEF Units
    <3>2. a \in 0 .. heap_end - 1
      BY DEF Units
    <3>3. a < old[q].next
      BY <1>1, <3>1, <3>2, Sizing DEF b
    <3>4. QED BY <3>1, <3>2, <3>3 DEF Units
  <2>2. p2 .. b - 1 \subseteq Units(old)
    BY <1>1, Sizing DEF Units, b
  <2>3. ASSUME NEW a \in Units(old), a \notin p2 .. b - 1
        PROVE  a \in Units(new)
    <3>1. a \in 0 .. heap_end - 1
      BY DEF Units
    <3>2. PICK q \in InUse(old) \ {heap_end} : q <= a /\ a < old[q].next
      BY DEF Units
    <3>3. a < new[q].next
      BY <1>1, <2>3, <3>1, <3>2, Sizing DEF b
    <3>4. QED BY <3>1, <3>2, <3>3 DEF Units
  <2>4. QED BY <2>1, <2>2, <2>3
<1>5. IsFiniteSet(Units(new))
  BY UnitsFinite
<1>6. Cardinality(Units(new) \cup (p2 .. b - 1)) = Cardinality(Units(new)) + (b - p2)
  BY <1>1, <1>3, <1>5, GrowsByInterval
<1>7. QED BY <1>4, <1>6 DEF b

-----------------------------------------------------------------------------
\* rt_malloc, alone or in an rt_realloc, counts the block it takes.
LEMMA MallocCounts ==
  ASSUME HeapInv, UsedCounted, NEW size \in Sizes, Found(heap, size),
         heap' = malloc(heap, size)
  PROVE  UsedCounted'
<1> DEFINE p == malloc_at(heap, size)
           r == malloc(heap, size)
<1>1. /\ IsHeap(r) /\ p \in DOMAIN heap.mem \ {heap_end} /\ p \notin DOMAIN asked
      /\ InUse(r.mem) = InUse(heap.mem) \cup {p}
      /\ \A q \in InUse(heap.mem) : r.mem[q].next = heap.mem[q].next
      /\ r.used_mem = heap.used_mem + (r.mem[p].next - p)
  BY MallocKeeps
<1>2. heap' = r
  OBVIOUS
<1> HIDE DEF p, r
<1>3. p \notin InUse(heap.mem)
  BY <1>1 DEF HeapInv, Held
<1>4. OneMore(heap.mem, r.mem, p) /\ Chained(r.mem)
  BY <1>1, <1>3 DEF OneMore, IsHeap
<1>5. Cardinality(Units(r.mem)) = Cardinality(Units(heap.mem)) + (r.mem[p].next - p)
  BY <1>4, UnitsWithOneMore
<1>6. QED BY <1>1, <1>2, <1>5 DEF UsedCounted

\* rt_free, alone or in an rt_realloc, takes off the block it frees.
LEMMA FreeCounts ==
  ASSUME HeapInv, UsedCounted, NEW p \in DOMAIN asked, heap' = free(heap, p)
  PROVE  UsedCounted'
<1> DEFINE r == free(heap, p)
<1>1. p \in InUse(heap.mem) \ {heap_end} /\ IsHeap(heap)
  BY DEF HeapInv, Held
<1>2. /\ InUse(r.mem) = InUse(heap.mem) \ {p}
      /\ \A q \in InUse(r.mem) : r.mem[q].next = heap.mem[q].next
      /\ r.used_mem = heap.used_mem - (heap.mem[p].next - p)
  BY <1>1, FreeKeeps, LowestNow DEF HeapInv
<1>3. heap' = r
  OBVIOUS
<1> HIDE DEF r
<1>4. OneMore(r.mem, heap.mem, p) /\ Chained(heap.mem)
  BY <1>1, <1>2 DEF OneMore, IsHeap
<1>5. Cardinality(Units(heap.mem)) = Cardinality(Units(r.mem)) + (heap.mem[p].next - p)
  BY <1>4, UnitsWithOneMore
<1>6. /\ Cardinality(Units(r.mem)) \in Nat
      /\ heap.mem[p].next \in Nat /\ p \in Nat
  BY <1>1, <1>4, UnitsFinite, BlockBounds, Sizing
<1>7. QED BY <1>2, <1>3, <1>5, <1>6 DEF UsedCounted

\* rt_realloc takes off what it cuts.
LEMMA CutCounts ==
  ASSUME HeapInv, UsedCounted, NEW p \in DOMAIN asked, NEW size \in Sizes,
         rt_realloc_cut(p, size)
  PROVE  UsedCounted'
<1> DEFINE p2 == p + SIZEOF_STRUCT_MEM + size
           n == heap.used_mem - (DataSize(heap.mem, p) - size)
           g == [heap EXCEPT !.mem = Split(heap.mem, p, size), !.used_mem = n]
           r == plug_holes(g, p2)
<1>1. heap' = r
  BY DEF rt_realloc_cut
<1>2. /\ DOMAIN g = {"mem", "lfree", "used_mem"}
      /\ g.mem = Split(heap.mem, p, size) /\ g.lfree = heap.lfree
      /\ g.used_mem = n
  BY DEF HeapInv, IsHeap
<1>3. p \in InUse(heap.mem) \ {heap_end} /\ size \in Nat \ {0} /\ IsHeap(heap)
  BY SmallMemAssumption DEF HeapInv, Held
<1>4. p \in Nat /\ heap.mem[p].next \in Nat
  BY <1>3, BlockBounds DEF IsHeap
<1>5. p2 + SIZEOF_STRUCT_MEM < heap.mem[p].next /\ p2 \in Nat /\ p < p2
  BY <1>3, <1>4, Sizing DEF rt_realloc_cut, Cuts, DataSize
<1>6. n = heap.used_mem - (heap.mem[p].next - p2)
  <2>1. DataSize(heap.mem, p) - size = heap.mem[p].next - p2
    BY <1>3, <1>4, Sizing DEF DataSize
  <2>2. QED BY <2>1
<1>7. p2 = p + SIZEOF_STRUCT_MEM + size
  OBVIOUS
<1> HIDE DEF g, p2, n
<1>8. IsCutTo(heap, p, p2, r) /\ r.used_mem = n
  BY <1>2, <1>3, <1>5, <1>7, CutKeeps, LowestNow DEF HeapInv
<1> HIDE DEF r
<1>9. p2 <= heap.mem[p].next
  BY <1>4, <1>5, Sizing
<1>10. Cardinality(Units(heap.mem)) = Cardinality(Units(r.mem)) + (heap.mem[p].next - p2)
  <2>1. CutAt(heap.mem, r.mem, p, p2) /\ Chained(heap.mem)
    BY <1>3, <1>5, <1>8, <1>9 DEF IsCutTo, CutAt, IsHeap
  <2>2. QED BY <1>5, <2>1, UnitsCut
<1>11. Cardinality(Units(r.mem)) \in Nat
  BY UnitsFinite, Sizing
<1>12. QED BY <1>1, <1>4, <1>5, <1>6, <1>8, <1>10, <1>11 DEF UsedCounted

LEMMA CountInductive ==
  HeapInv /\ UsedCounted /\ [HeapNext]_heap_vars => UsedCounted'
<1> SUFFICES ASSUME HeapInv, UsedCounted, [HeapNext]_heap_vars PROVE UsedCounted'
  OBVIOUS
<1>1. ASSUME NEW size \in Sizes, rt_malloc(size) PROVE UsedCounted'
  BY <1>1, MallocCounts DEF rt_malloc
<1>2. ASSUME NEW p \in DOMAIN asked, rt_free(p) PROVE UsedCounted'
  BY <1>2, FreeCounts DEF rt_free
<1>3. ASSUME NEW p \in DOMAIN asked, NEW size \in Sizes, rt_realloc_move(p, size)
      PROVE  UsedCounted'
  BY <1>3, MallocCounts DEF rt_realloc_move
<1>4. ASSUME NEW m \in moving, rt_realloc_free(m) PROVE UsedCounted'
  <2>1. m.from \in DOMAIN asked
    BY DEF HeapInv, MovesApart
  <2>2. QED BY <1>4, <2>1, FreeCounts DEF rt_realloc_free
<1>5. CASE UNCHANGED heap_vars
  BY <1>5 DEF heap_vars, UsedCounted
<1>6. QED BY <1>1, <1>2, <1>3, <1>4, <1>5, CutCounts DEF HeapNext

LEMMA CountInitially == HeapInit => UsedCounted
<1> SUFFICES ASSUME HeapInit PROVE UsedCounted
  OBVIOUS
<1>1. InUse(heap.mem) = {heap_end} /\ heap.used_mem = 0
  BY DEF HeapInit, InUse
<1>2. Units(heap.mem) = {}
  BY <1>1 DEF Units
<1>3. QED BY <1>1, <1>2, FS_EmptySet DEF UsedCounted

\* For a heap and requests of any size: the blocks tile the heap, and no two
\* neighbours are unused, whatever is allocated, freed, cut and moved.
THEOREM HeapStaysTiled == HeapSpec => []HeapTiled
<1>1. ASSUME HeapInv PROVE HeapTiled
  <2>1. Chained(heap.mem) /\ NoHoles(heap.mem)
    BY <1>1 DEF HeapInv, IsHeap
  <2> SUFFICES ASSUME NEW p \in DOMAIN heap.mem \ {heap_end}
               PROVE  /\ heap.mem[p].next = Min({q \in DOMAIN heap.mem : q > p})
                      /\ DataSize(heap.mem, p) > 0
                      /\ heap.mem[p].next # heap_end =>
                           heap.mem[heap.mem[p].next].prev = p
                      /\ ~heap.mem[p].used /\ heap.mem[p].next # heap_end =>
                           heap.mem[heap.mem[p].next].used
    BY DEF HeapTiled
  <2>2. heap.mem[p].next = Min({q \in DOMAIN heap.mem : q > p})
    BY <2>1, ChainedTiles
  <2>3. DataSize(heap.mem, p) > 0
    BY <2>1, Sizing DEF Chained, DataSize
  <2>4. heap.mem[p].next # heap_end => heap.mem[heap.mem[p].next].prev = p
    BY <2>1, PrevOfNext
  <2>5. ~heap.mem[p].used /\ heap.mem[p].next # heap_end =>
          heap.mem[heap.mem[p].next].used
    BY <2>1 DEF NoHoles
  <2>6. QED BY <2>2, <2>3, <2>4, <2>5
<1>2. QED BY <1>1, HeapAlways, PTL

\* For a heap and requests of any size: a block handed out stays in use, and
\* as large as was asked, until its owner frees it, while others allocate,
\* free, cut and move theirs; and no other block is in use.
THEOREM HeldStaysUsed == HeapSpec => []HeldIsUsed
<1>1. HeapInv => HeldIsUsed
  BY DEF HeapInv, Held, HeldIsUsed, InUse
<1>2. QED BY <1>1, HeapAlways, PTL

\* For a heap and requests of any size: used_mem counts the units of the blocks
\* handed out and of their headers, whatever is allocated, freed, cut and moved.
THEOREM UsedStaysCounted == HeapSpec => []UsedIsCounted
<1>1. HeapInv /\ UsedCounted => UsedIsCounted
  <2> SUFFICES ASSUME HeapInv, UsedCounted PROVE UsedIsCounted
    OBVIOUS
  <2>1. InUse(heap.mem) \ {heap_end} = DOMAIN asked
    BY DEF HeapInv, Held
  <2>2. QED BY <2>1 DEF UsedCounted, Units, UsedIsCounted
<1>2. QED BY <1>1, HeapAlways, CountInitially, CountInductive, PTL DEF HeapSpec

\* For a heap and requests of any size: the search of rt_malloc starts at the
\* lowest unused block, but for blocks that rt_realloc cut off.
THEOREM SearchStaysLow == HeapSpec => []SearchStartsLowest
<1>1. HeapInv => SearchStartsLowest
  BY DEF HeapInv
<1>2. QED BY <1>1, HeapAlways, PTL

\* For a heap and requests of any size: a request fails only when no unused
\* block from lfree on has the room, or only the last one has and fits exactly.
THEOREM FailsWhenFull == HeapSpec => []FailsOnlyWhenFull
<1>1. ASSUME HeapInv PROVE FailsOnlyWhenFull
  <2> SUFFICES ASSUME NEW size \in Sizes, size \in 0 .. mem_size_aligned,
                      ~Found(heap, size), NEW p \in DOMAIN heap.mem,
                      ~heap.mem[p].used, p >= heap.lfree,
                      ~(DataSize(heap.mem, p) < AtLeastMin(size))
               PROVE  /\ heap.mem[p].next = heap_end
                      /\ DataSize(heap.mem, p) = AtLeastMin(size)
    BY DEF FailsOnlyWhenFull
  <2> DEFINE n == AtLeastMin(size)
             b == heap.mem[p].next
  <2>1. /\ n \in Nat \ {0} /\ p # heap_end /\ p \in Nat
        /\ b \in Nat /\ b <= heap_end
    BY <1>1, AtLeastBoth, Sizing, SmallMemAssumption DEF HeapInv, IsHeap, Chained, Header
  <2>2. b - p - SIZEOF_STRUCT_MEM >= n
    BY <2>1, Sizing DEF DataSize
  <2>3. p \notin Candidates(heap, n)
    BY Sizing DEF Found
  <2>4. ~(p < mem_size_aligned - n)
    BY <2>1, <2>2, <2>3, Sizing DEF Candidates, DataSize
  <2>5. QED BY <2>1, <2>2, <2>4, Sizing DEF DataSize
<1>2. QED BY <1>1, HeapAlways, PTL

LEMMA HeapTypes == HeapInv /\ UsedCounted => HeapTypeOK
<1> SUFFICES ASSUME HeapInv, UsedCounted PROVE HeapTypeOK
  OBVIOUS
<1>1. IsHeap(heap) /\ heap.used_mem \in 0 .. heap_end
  BY UnitsFinite DEF HeapInv, UsedCounted
<1>2. \A p \in DOMAIN heap.mem : heap.mem[p] \in Header
  BY <1>1 DEF IsHeap, Chained
<1>3. DOMAIN asked \subseteq DOMAIN heap.mem
  BY DEF HeapInv, Held, InUse
<1>4. {m.from : m \in moving} \cup {m.to : m \in moving} \subseteq DOMAIN asked
  BY DEF HeapInv, MovesApart
<1>5. QED BY <1>1, <1>2, <1>3, <1>4 DEF HeapTypeOK, IsHeap, Header

LEMMA HeapTypeCorrect == HeapSpec => []HeapTypeOK
  BY HeapTypes, HeapAlways, CountInitially, CountInductive, PTL DEF HeapSpec

\* For a heap and requests of any size, all the bookkeeping is sound: the
\* blocks tile the heap, those handed out are in use and large enough,
\* used_mem counts them, and the search starts at the lowest unused block.
THEOREM HeapStaysSound == HeapSpec => []HeapSound
<1>1. HeapTiled /\ HeldIsUsed /\ UsedIsCounted /\ SearchStartsLowest => HeapSound
  BY DEF HeapSound
<1>2. QED
  BY <1>1, HeapStaysTiled, HeldStaysUsed, UsedStaysCounted, SearchStaysLow, PTL

-----------------------------------------------------------------------------
(***************************************************************************)
(* ContextSwitch, for any number of threads and any depth of nested        *)
(* handlers.  The invariant says how the core lags behind rt_schedule:     *)
(* while the flag is clear it runs rt_current_thread, while it is set from *)
(* is the thread it runs.  NestCounts is inductive with the types.         *)
(***************************************************************************)

\* The core runs the thread chosen last unless a switch is pending.
CoreSettled == ~rt_thread_switch_interrupt_flag => on_cpu = rt_current_thread

SwitchInv == SwitchTypeOK /\ SwitchPending /\ CoreSettled /\ ContextsKept

-----------------------------------------------------------------------------
LEMMA SwitchInitially == SwitchInit => SwitchInv /\ NestCounts
<1> SUFFICES ASSUME SwitchInit PROVE SwitchInv /\ NestCounts
  OBVIOUS
<1>1. SwitchTypeOK
  BY DEF SwitchInit, SwitchTypeOK
<1>2. SwitchPending /\ CoreSettled /\ ContextsKept
  BY DEF SwitchInit, SwitchPending, CoreSettled, ContextsKept
<1>3. {i \in DOMAIN handlers : handlers[i] = "body"} = {}
  BY DEF SwitchInit
<1>4. NestCounts
  BY <1>3, FS_EmptySet DEF SwitchInit, NestCounts
<1>5. QED BY <1>1, <1>2, <1>4 DEF SwitchInv

\* In thread mode the core runs a thread.
LEMMA CurrentInThreadMode ==
  ASSUME SwitchInv, ThreadMode
  PROVE  on_cpu = rt_current_thread /\ ~rt_thread_switch_interrupt_flag
  BY DEF SwitchInv, SwitchPending, CoreSettled, ThreadMode, SwitchTypeOK

\* The list of handlers keeps its type when its innermost one changes.
LEMMA InnermostChanges ==
  ASSUME NEW S, NEW s \in Seq(S), s # << >>, NEW x \in S
  PROVE  /\ Len(s) \in DOMAIN s
         /\ [s EXCEPT ![Len(s)] = x] \in Seq(S)
         /\ SubSeq(s, 1, Len(s) - 1) \in Seq(S)
  OBVIOUS

-----------------------------------------------------------------------------
\* rt_schedule: from keeps the thread the core runs, to the one chosen.
LEMMA ScheduleStep ==
  ASSUME SwitchInv, NEW t \in Thr, SwitchTo(t), UNCHANGED <<registers, nesting>>
  PROVE  SwitchInv'
<1> USE DEF SwitchTo, rt_hw_context_switch, Pended, registers, nesting
<1>1. SwitchTypeOK'
  BY DEF SwitchInv, SwitchTypeOK
<1>2. SwitchPending'
  BY DEF SwitchInv, SwitchTypeOK, SwitchPending, CoreSettled
<1>3. CoreSettled' /\ ContextsKept'
  BY DEF SwitchInv, CoreSettled, ContextsKept
<1>4. QED BY <1>1, <1>2, <1>3 DEF SwitchInv

\* PendSV: what it saves through from are the registers of from's thread.
LEMMA PendSVStep ==
  ASSUME SwitchInv, PendSV_Handler
  PROVE  SwitchInv'
<1> DEFINE saved == [t \in Thr |-> IF t = rt_interrupt_from_thread
                                  THEN on_cpu ELSE sp[t]]
<1>1. CASE rt_thread_switch_interrupt_flag
  <2>1. /\ rt_interrupt_from_thread = on_cpu
        /\ rt_interrupt_to_thread = rt_current_thread
        /\ rt_current_thread \in Thr
    BY <1>1 DEF SwitchInv, SwitchPending, SwitchTypeOK
  <2>2. \A t \in Thr : saved[t] = t
    BY <2>1 DEF SwitchInv, ContextsKept
  <2>3. /\ on_cpu' = saved[rt_interrupt_to_thread]
        /\ sp' = [saved EXCEPT ![rt_interrupt_to_thread] = NULL]
        /\ rt_thread_switch_interrupt_flag' = FALSE
        /\ UNCHANGED <<rt_current_thread, rt_interrupt_from_thread,
                       rt_interrupt_to_thread, rt_interrupt_nest, handlers, transfers>>
        /\ pendsv' \in {"none", "pending"}
    BY <1>1 DEF PendSV_Handler, nesting
  <2>4. on_cpu' = rt_current_thread'
    BY <2>1, <2>2, <2>3
  <2>5. \A t \in Thr : t # on_cpu' => sp'[t] = t
    BY <2>1, <2>2, <2>3
  <2>6. sp' \in [Thr -> Thr \cup {NULL}]
    BY <2>2, <2>3
  <2>7. SwitchTypeOK'
    BY <2>1, <2>3, <2>4, <2>6 DEF SwitchInv, SwitchTypeOK
  <2>8. SwitchPending' /\ CoreSettled' /\ ContextsKept'
    BY <2>3, <2>4, <2>5 DEF SwitchPending, CoreSettled, ContextsKept
  <2>9. QED BY <2>7, <2>8 DEF SwitchInv
<1>2. CASE ~rt_thread_switch_interrupt_flag
  <2>1. SwitchTypeOK'
    BY <1>2 DEF PendSV_Handler, SwitchInv, SwitchTypeOK, registers, nesting
  <2>2. SwitchPending' /\ CoreSettled' /\ ContextsKept'
    BY <1>2 DEF PendSV_Handler, SwitchInv, SwitchPending, CoreSettled, ContextsKept, registers
  <2>3. QED BY <2>1, <2>2 DEF SwitchInv
<1>3. QED BY <1>1, <1>2

\* Steps that change only the handlers, the count and the transfers.
LEMMA NestingStep ==
  ASSUME SwitchInv, UNCHANGED <<words, registers>>,
         handlers' \in Seq({"entry", "body", "exit"}),
         rt_interrupt_nest' \in Int, transfers' \subseteq Thr
  PROVE  SwitchInv'
<1>1. SwitchTypeOK'
  BY DEF SwitchInv, SwitchTypeOK, words, registers
<1>2. SwitchPending' /\ CoreSettled' /\ ContextsKept'
  BY DEF SwitchInv, SwitchPending, CoreSettled, ContextsKept, words, registers
<1>3. QED BY <1>1, <1>2 DEF SwitchInv

LEMMA SwitchStep == SwitchInv /\ [SwitchNext]_switch_vars => SwitchInv'
<1> SUFFICES ASSUME SwitchInv, [SwitchNext]_switch_vars PROVE SwitchInv'
  OBVIOUS
<1>t. SwitchTypeOK
  BY DEF SwitchInv
<1>1. ASSUME NEW t \in Thr, ScheduleInThread(t) \/ ScheduleInHandler(t)
      PROVE  SwitchInv'
  BY <1>1, ScheduleStep DEF ScheduleInThread, ScheduleInHandler
<1>2. CASE EnterPendSV
  <2>1. SwitchTypeOK'
    BY <1>2, <1>t DEF EnterPendSV, SwitchTypeOK, registers, nesting
  <2>2. SwitchPending' /\ CoreSettled' /\ ContextsKept'
    BY <1>2 DEF EnterPendSV, SwitchInv, SwitchPending, CoreSettled, ContextsKept, registers
  <2>3. QED BY <2>1, <2>2 DEF SwitchInv
<1>3. CASE PendSV_Handler
  BY <1>3, PendSVStep
<1>4. CASE Interrupt
  BY <1>4, <1>t, NestingStep DEF Interrupt, SwitchTypeOK
<1>5. CASE rt_interrupt_enter
  BY <1>5, <1>t, NestingStep, InnermostChanges DEF rt_interrupt_enter, Innermost, SwitchTypeOK
<1>6. CASE rt_interrupt_leave
  BY <1>6, <1>t, NestingStep, InnermostChanges DEF rt_interrupt_leave, Innermost, SwitchTypeOK
<1>7. CASE InterruptReturn
  BY <1>7, <1>t, NestingStep, InnermostChanges DEF InterruptReturn, Innermost, SwitchTypeOK
<1>8. CASE TransferBegin \/ TransferEnd
  <2>1. on_cpu \in Thr
    BY <1>8, <1>t, CurrentInThreadMode DEF TransferBegin, TransferEnd, SwitchTypeOK
  <2>2. QED BY <1>8, <1>t, <2>1, NestingStep DEF TransferBegin, TransferEnd, SwitchTypeOK
<1>9. CASE UNCHANGED switch_vars
  BY <1>9, <1>t, NestingStep DEF switch_vars, nesting, SwitchTypeOK
<1>10. QED
  BY <1>1, <1>2, <1>3, <1>4, <1>5, <1>6, <1>7, <1>8, <1>9 DEF SwitchNext

-----------------------------------------------------------------------------
\* The handlers that rt_interrupt_nest counts.
Counted(s) == {i \in DOMAIN s : s[i] = "body"}

LEMMA CountedFinite ==
  ASSUME NEW s \in Seq({"entry", "body", "exit"})
  PROVE  IsFiniteSet(Counted(s)) /\ Cardinality(Counted(s)) \in Nat
<1>1. IsFiniteSet(1 .. Len(s))
  BY FS_Interval
<1>2. Counted(s) \in SUBSET (1 .. Len(s))
  BY DEF Counted
<1>3. QED BY <1>1, <1>2, FS_Subset, FS_CardinalityType

\* What the four steps of a handler do to the set of counted ones.
LEMMA CountedChanges ==
  ASSUME NEW s \in Seq({"entry", "body", "exit"})
  PROVE  /\ Counted(Append(s, "entry")) = Counted(s)
         /\ s # << >> /\ s[Len(s)] = "entry" =>
              /\ Counted([s EXCEPT ![Len(s)] = "body"]) = Counted(s) \cup {Len(s)}
              /\ Len(s) \notin Counted(s)
         /\ s # << >> /\ s[Len(s)] = "body" =>
              /\ Counted([s EXCEPT ![Len(s)] = "exit"]) = Counted(s) \ {Len(s)}
              /\ Len(s) \in Counted(s)
         /\ s # << >> /\ s[Len(s)] = "exit" =>
              Counted(SubSeq(s, 1, Len(s) - 1)) = Counted(s)
<1>1. Counted(Append(s, "entry")) = Counted(s)
  BY DEF Counted
<1>2. ASSUME s # << >> PROVE Len(s) \in DOMAIN s
  BY <1>2
<1>3. ASSUME s # << >>, s[Len(s)] = "exit"
      PROVE  Counted(SubSeq(s, 1, Len(s) - 1)) = Counted(s)
  BY <1>3 DEF Counted
<1>4. ASSUME s # << >>, s[Len(s)] = "entry"
      PROVE  /\ Counted([s EXCEPT ![Len(s)] = "body"]) = Counted(s) \cup {Len(s)}
             /\ Len(s) \notin Counted(s)
  BY <1>2, <1>4 DEF Counted
<1>5. ASSUME s # << >>, s[Len(s)] = "body"
      PROVE  /\ Counted([s EXCEPT ![Len(s)] = "exit"]) = Counted(s) \ {Len(s)}
             /\ Len(s) \in Counted(s)
  BY <1>2, <1>5 DEF Counted
<1>6. QED BY <1>1, <1>3, <1>4, <1>5

LEMMA NestStep ==
  SwitchInv /\ NestCounts /\ [SwitchNext]_switch_vars => NestCounts'
<1> SUFFICES ASSUME SwitchInv, NestCounts, [SwitchNext]_switch_vars
             PROVE  NestCounts'
  OBVIOUS
<1>t. /\ handlers \in Seq({"entry", "body", "exit"})
      /\ rt_interrupt_nest \in Int /\ transfers \in SUBSET Thr
  BY DEF SwitchInv, SwitchTypeOK
<1>n. rt_interrupt_nest = Cardinality(Counted(handlers)) + Cardinality(transfers)
  BY DEF NestCounts, Counted
<1>f. /\ IsFiniteSet(Counted(handlers)) /\ Cardinality(Counted(handlers)) \in Nat
      /\ IsFiniteSet(transfers) /\ Cardinality(transfers) \in Nat
  BY <1>t, CountedFinite, FS_Subset, FS_CardinalityType, ContextAssumption
<1>g. SUFFICES rt_interrupt_nest' =
        Cardinality(Counted(handlers')) + Cardinality(transfers')
  BY DEF NestCounts, Counted
<1>1. CASE UNCHANGED nesting
  BY <1>1, <1>n DEF nesting
<1>2. CASE Interrupt
  BY <1>2, <1>t, <1>n, CountedChanges DEF Interrupt
<1>3. CASE rt_interrupt_enter
  <2>1. /\ Counted(handlers') = Counted(handlers) \cup {Len(handlers)}
        /\ Len(handlers) \notin Counted(handlers)
    BY <1>3, <1>t, CountedChanges DEF rt_interrupt_enter, Innermost
  <2>2. Cardinality(Counted(handlers')) = Cardinality(Counted(handlers)) + 1
    BY <2>1, <1>f, FS_AddElement
  <2>3. QED BY <1>3, <1>n, <1>f, <2>2 DEF rt_interrupt_enter
<1>4. CASE rt_interrupt_leave
  <2>1. /\ Counted(handlers') = Counted(handlers) \ {Len(handlers)}
        /\ Len(handlers) \in Counted(handlers)
    BY <1>4, <1>t, CountedChanges DEF rt_interrupt_leave, Innermost
  <2>2. Cardinality(Counted(handlers')) = Cardinality(Counted(handlers)) - 1
    BY <2>1, <1>f, FS_RemoveElement
  <2>3. QED BY <1>4, <1>n, <1>f, <2>2 DEF rt_interrupt_leave
<1>5. CASE InterruptReturn
  BY <1>5, <1>t, <1>n, CountedChanges DEF InterruptReturn, Innermost
<1>6. CASE TransferBegin
  <2>1. Cardinality(transfers') = Cardinality(transfers) + 1
    BY <1>6, <1>f, FS_AddElement DEF TransferBegin
  <2>2. QED BY <1>6, <1>n, <1>f, <2>1 DEF TransferBegin
<1>7. CASE TransferEnd
  <2>1. Cardinality(transfers') = Cardinality(transfers) - 1
    BY <1>7, <1>f, FS_RemoveElement DEF TransferEnd
  <2>2. QED BY <1>7, <1>n, <1>f, <2>1 DEF TransferEnd
<1>8. QED
  BY <1>1, <1>2, <1>3, <1>4, <1>5, <1>6, <1>7
  DEF SwitchNext, ScheduleInThread, ScheduleInHandler, EnterPendSV, PendSV_Handler,
      switch_vars

-----------------------------------------------------------------------------
\* Every word keeps naming a thread, whoever preempts whom, and while a switch
\* is pending from is the thread the core runs (context_gcc.S).
THEOREM SwitchKeepsFrom == SwitchSpec => [](SwitchTypeOK /\ SwitchPending)
<1>1. SwitchInv => SwitchTypeOK /\ SwitchPending
  BY DEF SwitchInv
<1>2. QED BY <1>1, SwitchInitially, SwitchStep, PTL DEF SwitchSpec

\* A thread that runs is the one rt_schedule chose last, however many handlers
\* rescheduled before PendSV ran.
THEOREM CoreFollowsScheduler == SwitchSpec => []CpuRunsCurrent
<1>1. SwitchInv => CpuRunsCurrent
  BY CurrentInThreadMode DEF CpuRunsCurrent
<1>2. QED BY <1>1, SwitchInitially, SwitchStep, PTL DEF SwitchSpec

\* No thread's registers are lost or saved through another thread's word.
THEOREM ContextsAreKept == SwitchSpec => []ContextsKept
<1>1. SwitchInv => ContextsKept
  BY DEF SwitchInv
<1>2. QED BY <1>1, SwitchInitially, SwitchStep, PTL DEF SwitchSpec

\* rt_interrupt_nest is the number of handlers between rt_interrupt_enter and
\* rt_interrupt_leave and of threads inside an I2C transfer (irq.c,
\* drv_i2c.c): above zero with no handler active as soon as there is one.
THEOREM NestIsCounted == SwitchSpec => []NestCounts
<1>1. SwitchInv /\ NestCounts /\ [SwitchNext]_switch_vars => SwitchInv' /\ NestCounts'
  BY SwitchStep, NestStep
<1>2. QED BY <1>1, SwitchInitially, PTL DEF SwitchSpec

-----------------------------------------------------------------------------
(***************************************************************************)
(* Usart, for any length of the buffer and number of frames: the latest    *)
(* frame reaches the callback whole, however many frames the interrupts    *)
(* announce while the callback reads.                                      *)
(***************************************************************************)

\* The semaphore counts frames that have ended, and a byte belongs to a frame.
FramesCount == sem < frame /\ (counter > 0 => frame <= MaxFrames)

\* DMA has filled the buffer from its beginning with the frame that comes.
FrameInBuffer == \A i \in 1 .. counter : rx_buffer[i] = frame

\* Between frames the buffer begins with the one that ended last.
LastInBuffer ==
  /\ Len(last) = data_len
  /\ counter = 0 => \A i \in 1 .. data_len : rx_buffer[i] = last[i]

\* A callback reads no further than it was told.
ReadsWithin == serial = "call" => Len(view) <= ch_len

\* If no frame has been announced and no byte has come since the callback was
\* called, it reads the frame that ended last, with its length.
ReadsLatest ==
  (serial = "call" /\ sem = 0 /\ counter = 0) =>
    /\ ch_len = data_len
    /\ \A i \in 1 .. Len(view) : view[i] = last[i]

UsartInv ==
  /\ UsartTypeOK /\ FramesCount /\ FrameInBuffer /\ LastInBuffer
  /\ ReadsWithin /\ ReadsLatest /\ LatestFrameDelivered

-----------------------------------------------------------------------------
LEMMA HalfFits == BufferSize \div 2 \in 0 .. BufferSize
  BY UsartAssumption

LEMMA UsartInitially == UsartInit => UsartInv
<1> SUFFICES ASSUME UsartInit PROVE UsartInv
  OBVIOUS
<1>1. UsartTypeOK
  BY HalfFits, UsartAssumption DEF UsartInit, UsartTypeOK
<1>2. QED
  BY <1>1 DEF UsartInit, UsartInv, FramesCount, FrameInBuffer, LastInBuffer,
     ReadsWithin, ReadsLatest, LatestFrameDelivered

\* A byte goes to the buffer behind the bytes of its frame.
LEMMA ByteKeeps == UsartInv /\ ByteComes => UsartInv'
<1> SUFFICES ASSUME UsartInv, ByteComes PROVE UsartInv'
  OBVIOUS
<1> USE DEF UsartInv
<1>1. counter + 1 \in 1 .. BufferSize /\ counter + 1 \in 0 .. BufferSize \div 2
  BY HalfFits, UsartAssumption DEF ByteComes, UsartTypeOK
<1>2. UsartTypeOK'
  BY <1>1, UsartAssumption DEF ByteComes, UsartTypeOK
<1>3. FrameInBuffer'
  BY <1>1 DEF ByteComes, UsartTypeOK, FrameInBuffer
<1>4. QED
  BY <1>1, <1>2, <1>3 DEF ByteComes, UsartTypeOK, FramesCount, LastInBuffer,
     ReadsWithin, ReadsLatest, LatestFrameDelivered

\* The frame in the buffer is announced before the next one overwrites it.
LEMMA IdleLineKeeps == UsartInv /\ USART1_IRQHandler => UsartInv'
<1> SUFFICES ASSUME UsartInv, USART1_IRQHandler PROVE UsartInv'
  OBVIOUS
<1> USE DEF UsartInv
<1>1. /\ frame \in 1 .. MaxFrames /\ counter \in Nat
      /\ sem + 1 \in 1 .. MaxFrames /\ sem + 1 < frame + 1
  BY UsartAssumption DEF USART1_IRQHandler, UsartTypeOK, FramesCount
<1>2. /\ last' \in Seq(1 .. MaxFrames) /\ Len(last') = counter
      /\ \A i \in 1 .. counter : last'[i] = frame
  BY <1>1 DEF USART1_IRQHandler
<1>3. UsartTypeOK'
  BY <1>1, <1>2, UsartAssumption, HalfFits DEF USART1_IRQHandler, UsartTypeOK
<1>4. LastInBuffer'
  BY <1>2 DEF USART1_IRQHandler, FrameInBuffer, LastInBuffer
<1>5. FramesCount' /\ FrameInBuffer'
  BY <1>1 DEF USART1_IRQHandler, FramesCount, FrameInBuffer
<1>6. QED
  BY <1>1, <1>3, <1>4, <1>5
     DEF USART1_IRQHandler, ReadsWithin, ReadsLatest, LatestFrameDelivered

LEMMA SemTakeKeeps == UsartInv /\ SemTake => UsartInv'
<1> SUFFICES ASSUME UsartInv, SemTake PROVE UsartInv'
  OBVIOUS
<1> USE DEF UsartInv
<1>1. UsartTypeOK'
  BY UsartAssumption DEF SemTake, UsartTypeOK
<1>2. QED
  BY <1>1 DEF SemTake, UsartTypeOK, FramesCount, FrameInBuffer, LastInBuffer,
     ReadsWithin, ReadsLatest, LatestFrameDelivered

LEMMA CallKeeps == UsartInv /\ Call => UsartInv'
<1> SUFFICES ASSUME UsartInv, Call PROVE UsartInv'
  OBVIOUS
<1> USE DEF UsartInv
<1>1. UsartTypeOK'
  BY DEF Call, UsartTypeOK
<1>2. QED
  BY <1>1 DEF Call, UsartTypeOK, FramesCount, FrameInBuffer, LastInBuffer,
     ReadsWithin, ReadsLatest, LatestFrameDelivered

\* A byte the callback reads while the line is silent is one of the last frame.
LEMMA ReadKeeps == UsartInv /\ CallbackReads => UsartInv'
<1> SUFFICES ASSUME UsartInv, CallbackReads PROVE UsartInv'
  OBVIOUS
<1> USE DEF UsartInv
<1>1. Len(view) + 1 \in 1 .. ch_len /\ Len(view) + 1 \in 1 .. BufferSize
  BY HalfFits, UsartAssumption DEF CallbackReads, UsartTypeOK
<1>2. rx_buffer[Len(view) + 1] \in 0 .. MaxFrames
  BY <1>1 DEF UsartTypeOK
<1>3. /\ view' \in Seq(0 .. MaxFrames) /\ Len(view') = Len(view) + 1
      /\ view'[Len(view) + 1] = rx_buffer[Len(view) + 1]
      /\ \A i \in 1 .. Len(view) : view'[i] = view[i]
  BY <1>2 DEF CallbackReads, UsartTypeOK
<1>4. UsartTypeOK'
  BY <1>3 DEF CallbackReads, UsartTypeOK
<1>5. ReadsWithin'
  BY <1>1, <1>3 DEF CallbackReads, ReadsWithin
<1>6. ReadsLatest'
  <2> SUFFICES ASSUME sem = 0, counter = 0
               PROVE  /\ ch_len = data_len
                      /\ \A i \in 1 .. Len(view') : view'[i] = last[i]
    BY DEF CallbackReads, ReadsLatest
  <2>1. ch_len = data_len /\ \A i \in 1 .. Len(view) : view[i] = last[i]
    BY DEF CallbackReads, ReadsLatest
  <2>2. rx_buffer[Len(view) + 1] = last[Len(view) + 1]
    BY <1>1, <2>1 DEF LastInBuffer
  <2>3. \A i \in 1 .. Len(view) + 1 : i \in 1 .. Len(view) \/ i = Len(view) + 1
    BY DEF UsartTypeOK
  <2>4. QED BY <1>3, <2>1, <2>2, <2>3
<1>7. QED
  BY <1>4, <1>5, <1>6 DEF CallbackReads, FramesCount, FrameInBuffer,
     LastInBuffer, LatestFrameDelivered

\* A callback that returns to a silent line has read the last frame whole.
LEMMA ReturnKeeps == UsartInv /\ CallbackReturns => UsartInv'
<1> SUFFICES ASSUME UsartInv, CallbackReturns PROVE UsartInv'
  OBVIOUS
<1> USE DEF UsartInv
<1>1. UsartTypeOK'
  BY DEF CallbackReturns, UsartTypeOK
<1>2. LatestFrameDelivered'
  <2> SUFFICES ASSUME sem = 0, counter = 0 PROVE view = last
    BY DEF CallbackReturns, LatestFrameDelivered
  <2>1. Len(view) = Len(last) /\ \A i \in 1 .. Len(view) : view[i] = last[i]
    BY DEF CallbackReturns, ReadsLatest, LastInBuffer
  <2>2. view \in Seq(0 .. MaxFrames) /\ last \in Seq(0 .. MaxFrames)
    BY UsartAssumption, SeqMonotonic DEF UsartTypeOK
  <2>3. QED BY <2>1, <2>2, SeqEqual
<1>3. QED
  BY <1>1, <1>2 DEF CallbackReturns, FramesCount, FrameInBuffer, LastInBuffer,
     ReadsWithin, ReadsLatest

LEMMA UsartSilent == UsartInv /\ UNCHANGED usart_vars => UsartInv'
  BY DEF UsartInv, usart_vars, UsartTypeOK, FramesCount, FrameInBuffer,
     LastInBuffer, ReadsWithin, ReadsLatest, LatestFrameDelivered

LEMMA UsartInductive == UsartInv /\ [UsartNext]_usart_vars => UsartInv'
  BY ByteKeeps, IdleLineKeeps, SemTakeKeeps, CallKeeps, ReadKeeps, ReturnKeeps,
     UsartSilent DEF UsartNext, LineRests

LEMMA UsartAlways == UsartSpec => []UsartInv
  BY UsartInitially, UsartInductive, PTL DEF UsartSpec

\* For any buffer the variables of the driver keep their types: DMA stays in
\* the buffer, and the semaphore never counts more frames than have ended.
THEOREM UsartTypeCorrect == UsartSpec => []UsartTypeOK
<1>1. UsartInv => UsartTypeOK
  BY DEF UsartInv
<1>2. QED BY <1>1, UsartAlways, PTL

\* For any buffer and any number of frames, arriving at any moment of the
\* serial thread: when the line is silent and the thread waits again, the last
\* call of the callback read the last frame whole and nothing of an older one.
THEOREM LatestFrameArrives == UsartSpec => []LatestFrameDelivered
<1>1. UsartInv => LatestFrameDelivered
  BY DEF UsartInv
<1>2. QED BY <1>1, UsartAlways, PTL

-----------------------------------------------------------------------------
(***************************************************************************)
(* AppTimers, for any timers, delays and range of the tick: what a flag and*)
(* a stop promise while a thread is interrupted anywhere between its       *)
(* critical sections.                                                      *)
(***************************************************************************)

\* A timer that its thread has taken off the list stays off until inserted.
RemovedIsOff ==
  \A t \in Tmr : doing[t] \in {"start", "insert", "stopped", "gone"} => t \notin Linked

\* A timer being started no longer counts as stopped, and is not ACTIVATED.
StartedAgain ==
  \A t \in Tmr : doing[t] \in {"start", "insert"} => t \notin stops /\ t \notin activated

\* The flag says which timers run also while the thread is about to stop one,
\* and the flag read by rt_timer_control is the one it will write over.
FlagAgrees ==
  \A t \in Tmr \ (restarts \cup lost) :
    /\ doing[t] \in {"none", "stop", "on", "off"} => (t \in activated <=> t \in Linked)
    /\ doing[t] = "on" => t \in activated
    /\ doing[t] = "off" => t \notin activated

\* The list and its ghost hold the same timers, each once.
ListsAgree ==
  /\ IsInjective(rt_timer_list) /\ IsInjective(entered)
  /\ Linked = ToSet(entered)

TimersInv ==
  /\ TimersTypeOK /\ ListsAgree
  /\ RemovedIsOff /\ StartedAgain /\ StopHolds /\ FlagAgrees

-----------------------------------------------------------------------------
LEMMA TimesAreTicks == Times \subseteq Nat /\ TickMod \in Nat \ {0}
  BY AppTimersAssumption

LEMMA TimersInitially == TimersInit => TimersInv
<1> SUFFICES ASSUME TimersInit PROVE TimersInv
  OBVIOUS
<1>1. TimersTypeOK
  <2>1. 0 \in 0 .. TickMod - 1
    BY TimesAreTicks
  <2>2. rt_timer_list \in Seq(Tmr) /\ entered \in Seq(Tmr)
    BY DEF TimersInit
  <2>3. rt_tick \in 0 .. TickMod - 1 /\ timeout_tick \in [Tmr -> 0 .. TickMod - 1]
    BY <2>1 DEF TimersInit
  <2>4. QED BY <2>2, <2>3 DEF TimersInit, TimersTypeOK
<1>2. ToSet(rt_timer_list) = {} /\ ToSet(entered) = {}
  BY DEF TimersInit, ToSet
<1>3. ListsAgree
  BY <1>2 DEF ListsAgree, Linked, TimersInit, IsInjective
<1>4. RemovedIsOff /\ StartedAgain /\ StopHolds /\ FlagAgrees
  BY <1>2 DEF TimersInit, RemovedIsOff, StartedAgain, StopHolds, FlagAgrees, Linked
<1>5. QED BY <1>1, <1>3, <1>4 DEF TimersInv

\* The search of rt_timer_start ends at a place on the list.
LEMMA PlaceOnList ==
  ASSUME NEW list \in Seq(Tmr), NEW timeout, NEW t
  PROVE  Place(list, timeout, t) \in 1 .. Len(list) + 1
<1> DEFINE later == {i \in 1 .. Len(list) : Sooner(timeout, t, list[i])}
<1>0. Len(list) \in Nat
  OBVIOUS
<1>1. later \in SUBSET Nat /\ later \subseteq 1 .. Len(list)
  BY <1>0
<1>2. Place(list, timeout, t) = IF later = {} THEN Len(list) + 1 ELSE Min(later)
  BY DEF Place
<1> HIDE DEF later
<1>3. CASE later = {}
  BY <1>0, <1>2, <1>3
<1>4. CASE later # {}
  <2>1. Min(later) \in later
    BY <1>1, <1>4, MinProperties
  <2>2. Min(later) \in 1 .. Len(list)
    BY <1>1, <2>1
  <2>3. QED BY <1>0, <1>2, <1>4, <2>2
<1>5. QED BY <1>3, <1>4

LEMMA InsertedProperties ==
  ASSUME NEW list \in Seq(Tmr), IsInjective(list), NEW timeout,
         NEW t \in Tmr, t \notin ToSet(list)
  PROVE  /\ Inserted(list, timeout, t) \in Seq(Tmr)
         /\ IsInjective(Inserted(list, timeout, t))
         /\ ToSet(Inserted(list, timeout, t)) = ToSet(list) \cup {t}
  BY PlaceOnList, InsertNew DEF Inserted

\* The part of the types and of the invariant that is about the lists.
ListsOK ==
  /\ rt_timer_list \in Seq(Tmr) /\ entered \in Seq(Tmr) /\ ListsAgree
  /\ timeout_tick \in [Tmr -> 0 .. TickMod - 1]

LEMMA UnlinkStep ==
  ASSUME TimersInv, NEW t \in Tmr, Unlink(t)
  PROVE  ListsOK' /\ Linked' = Linked \ {t} /\ fresh' \subseteq Tmr
<1>1. /\ rt_timer_list \in Seq(Tmr) /\ entered \in Seq(Tmr)
      /\ IsInjective(rt_timer_list) /\ IsInjective(entered)
      /\ ToSet(rt_timer_list) = ToSet(entered)
  BY DEF TimersInv, TimersTypeOK, ListsAgree, Linked
<1>2. timeout_tick' \in [Tmr -> 0 .. TickMod - 1]
  <2>1. 0 \in 0 .. TickMod - 1
    BY TimesAreTicks
  <2>2. QED BY <2>1 DEF Unlink, TimersInv, TimersTypeOK
<1>3. /\ rt_timer_list' \in Seq(Tmr) /\ IsInjective(rt_timer_list')
      /\ ToSet(rt_timer_list') = ToSet(rt_timer_list) \ {t}
  BY <1>1, RemoveFirstProperties DEF Unlink
<1>4. /\ entered' \in Seq(Tmr) /\ IsInjective(entered')
      /\ ToSet(entered') = ToSet(entered) \ {t}
  BY <1>1, RemoveFirstProperties DEF Unlink
<1>5. fresh' \subseteq Tmr
  BY DEF Unlink, TimersInv, TimersTypeOK
<1>6. QED BY <1>1, <1>2, <1>3, <1>4, <1>5 DEF ListsOK, ListsAgree, Linked

\* What a round of rt_timer_check does to the lists and to the flag.
ExpireOn(t, callback) == callback = "start" \/ (callback = "return" /\ t \in activated)
ExpireLinks(t, callback) == callback = "start" \/ GoesOn(t, ExpireOn(t, callback))

LEMMA ExpireLists ==
  ASSUME TimersInv, NEW callback, Expire(callback)
  PROVE  LET t == Head(rt_timer_list)
         IN  /\ ListsOK'
             /\ t \in Linked /\ t \in Tmr
             /\ Linked' = IF ExpireLinks(t, callback) THEN Linked ELSE Linked \ {t}
<1> DEFINE t    == Head(rt_timer_list)
           rest == RemoveFirst(rt_timer_list, t)
           next == [timeout_tick EXCEPT ![t] = (rt_tick + init_tick[t]) % TickMod]
           old  == RemoveFirst(entered, t)
<1>1. /\ rt_timer_list \in Seq(Tmr) /\ entered \in Seq(Tmr)
      /\ IsInjective(rt_timer_list) /\ IsInjective(entered)
      /\ ToSet(rt_timer_list) = ToSet(entered)
      /\ timeout_tick \in [Tmr -> 0 .. TickMod - 1]
      /\ init_tick \in [Tmr -> Times] /\ rt_tick \in 0 .. TickMod - 1
  BY DEF TimersInv, TimersTypeOK, ListsAgree, Linked
<1>2. t \in ToSet(rt_timer_list) /\ t \in Tmr
  BY <1>1, HeadOfList DEF Expire
<1>3. IF ExpireLinks(t, callback)
      THEN /\ timeout_tick' = next
           /\ rt_timer_list' = Inserted(rest, next, t)
           /\ entered' = Append(old, t)
      ELSE /\ rt_timer_list' = rest
           /\ entered' = old
           /\ timeout_tick' = [timeout_tick EXCEPT ![t] = 0]
  BY DEF Expire, ExpireLinks, ExpireOn
<1> HIDE DEF t
<1>4. /\ rest \in Seq(Tmr) /\ IsInjective(rest) /\ ToSet(rest) = ToSet(rt_timer_list) \ {t}
      /\ old \in Seq(Tmr) /\ IsInjective(old) /\ ToSet(old) = ToSet(entered) \ {t}
  BY <1>1, RemoveFirstProperties
<1>5. 0 \in 0 .. TickMod - 1 /\ (rt_tick + init_tick[t]) % TickMod \in 0 .. TickMod - 1
  <2>1. rt_tick + init_tick[t] \in Int
    <3>1. init_tick[t] \in Nat
      BY <1>1, <1>2, TimesAreTicks
    <3>2. rt_tick \in Nat
      BY <1>1, TimesAreTicks
    <3>3. QED BY <3>1, <3>2
  <2>2. QED BY <2>1, TimesAreTicks
<1> HIDE DEF rest, old
<1>6. timeout_tick' \in [Tmr -> 0 .. TickMod - 1]
  BY <1>1, <1>2, <1>3, <1>5
<1> HIDE DEF next
<1>7. CASE ExpireLinks(t, callback)
  <2>1. /\ rt_timer_list' \in Seq(Tmr) /\ IsInjective(rt_timer_list')
        /\ ToSet(rt_timer_list') = ToSet(rt_timer_list)
    <3>1. t \notin ToSet(rest)
      BY <1>4
    <3>2. /\ Inserted(rest, next, t) \in Seq(Tmr) /\ IsInjective(Inserted(rest, next, t))
          /\ ToSet(Inserted(rest, next, t)) = ToSet(rest) \cup {t}
      BY <1>2, <1>4, <3>1, InsertedProperties
    <3>3. ToSet(rest) \cup {t} = ToSet(rt_timer_list)
      BY <1>2, <1>4
    <3>4. QED BY <1>3, <1>7, <3>2, <3>3
  <2>2. /\ entered' \in Seq(Tmr) /\ IsInjective(entered')
        /\ ToSet(entered') = ToSet(entered)
    <3>1. t \notin ToSet(old)
      BY <1>4
    <3>2. /\ Append(old, t) \in Seq(Tmr) /\ IsInjective(Append(old, t))
          /\ ToSet(Append(old, t)) = ToSet(old) \cup {t}
      BY <1>2, <1>4, <3>1, AppendNew
    <3>3. ToSet(old) \cup {t} = ToSet(entered)
      BY <1>1, <1>2, <1>4
    <3>4. QED BY <1>3, <1>7, <3>2, <3>3
  <2>3. QED BY <1>1, <1>2, <1>6, <1>7, <2>1, <2>2 DEF ListsOK, ListsAgree, Linked, t
<1>8. CASE ~ExpireLinks(t, callback)
  BY <1>1, <1>2, <1>3, <1>4, <1>6, <1>8 DEF ListsOK, ListsAgree, Linked, t
<1>9. QED BY <1>7, <1>8

\* The rest of the invariant speaks of the lists through Linked only.
Points == {"none", "start", "insert", "stop", "stopped", "on", "off", "gone"}

FlagsOK ==
  /\ rt_tick \in 0 .. TickMod - 1 /\ init_tick \in [Tmr -> Times]
  /\ activated \subseteq Tmr /\ periodic \subseteq Tmr /\ checking \in BOOLEAN
  /\ doing \in [Tmr -> Points]
  /\ fresh \cup stops \cup restarts \cup lost \subseteq Tmr
  /\ RemovedIsOff /\ StartedAgain /\ StopHolds /\ FlagAgrees

LEMMA InvInParts == TimersInv <=> ListsOK /\ FlagsOK
  BY DEF TimersInv, TimersTypeOK, ListsOK, FlagsOK, Points

LEMMA InvFromParts == ListsOK' /\ FlagsOK' => TimersInv'
  BY DEF TimersInv, TimersTypeOK, ListsOK, FlagsOK, Points

-----------------------------------------------------------------------------
\* The steps of a thread that leave the list alone.
LEMMA ThreadStepOffList ==
  ASSUME TimersInv, NEW t \in Tmr,
         \/ StopTest(t) \/ StopClear(t) \/ ControlRead(t) \/ ControlWrite(t)
         \/ InitAgain(t) \/ \E time \in Times : SetTime(t, time)
  PROVE  TimersInv'
<1> USE DEF At, Goes, history
<1>0. ListsOK /\ FlagsOK
  BY InvInParts
<1>1. /\ UNCHANGED <<rt_tick, rt_timer_list, timeout_tick, entered, fresh, checking>>
      /\ Linked' = Linked
  BY DEF StopTest, StopClear, ControlRead, ControlWrite, InitAgain, SetTime, Linked
<1>2. ListsOK'
  BY <1>0, <1>1 DEF ListsOK, ListsAgree, Linked
<1>3. CASE StopTest(t)
  <2>1. FlagsOK'
    BY <1>0, <1>1, <1>2, <1>3
    DEF StopTest, FlagsOK, Points, RemovedIsOff, StartedAgain, StopHolds, FlagAgrees
  <2>2. QED BY <1>2, <2>1, InvFromParts
<1>4. CASE StopClear(t)
  <2>1. FlagsOK'
    BY <1>0, <1>1, <1>2, <1>4
    DEF StopClear, FlagsOK, Points, RemovedIsOff, StartedAgain, StopHolds, FlagAgrees
  <2>2. QED BY <1>2, <2>1, InvFromParts
<1>5. CASE ControlRead(t)
  <2>1. FlagsOK'
    BY <1>0, <1>1, <1>2, <1>5
    DEF ControlRead, FlagsOK, Points, RemovedIsOff, StartedAgain, StopHolds, FlagAgrees
  <2>2. QED BY <1>2, <2>1, InvFromParts
<1>6. CASE ControlWrite(t)
  <2>1. FlagsOK'
    BY <1>0, <1>1, <1>2, <1>6
    DEF ControlWrite, FlagsOK, Points, RemovedIsOff, StartedAgain, StopHolds, FlagAgrees
  <2>2. QED BY <1>2, <2>1, InvFromParts
<1>7. CASE InitAgain(t)
  <2>1. FlagsOK'
    BY <1>0, <1>1, <1>2, <1>7
    DEF InitAgain, FlagsOK, Points, RemovedIsOff, StartedAgain, StopHolds, FlagAgrees
  <2>2. QED BY <1>2, <2>1, InvFromParts
<1>8. ASSUME NEW time \in Times, SetTime(t, time) PROVE TimersInv'
  <2>1. FlagsOK'
    BY <1>0, <1>1, <1>2, <1>8
    DEF SetTime, FlagsOK, Points, RemovedIsOff, StartedAgain, StopHolds, FlagAgrees
  <2>2. QED BY <1>2, <2>1, InvFromParts
<1>9. QED BY <1>3, <1>4, <1>5, <1>6, <1>7, <1>8

\* The steps of a thread that unlink its timer.
LEMMA ThreadStepUnlinks ==
  ASSUME TimersInv, NEW t \in Tmr, StartRemove(t) \/ StopRemove(t) \/ Detach(t)
  PROVE  TimersInv'
<1> USE DEF At, Goes
<1>0. FlagsOK
  BY InvInParts
<1>1. ListsOK' /\ Linked' = Linked \ {t} /\ fresh' \subseteq Tmr
  BY UnlinkStep DEF StartRemove, StopRemove, Detach
<1>2. CASE StartRemove(t)
  <2>1. FlagsOK'
    BY <1>0, <1>1, <1>2
    DEF StartRemove, FlagsOK, Points, RemovedIsOff, StartedAgain, StopHolds, FlagAgrees
  <2>2. QED BY <1>1, <2>1, InvFromParts
<1>3. CASE StopRemove(t)
  <2>1. FlagsOK'
    BY <1>0, <1>1, <1>3
    DEF StopRemove, FlagsOK, Points, RemovedIsOff, StartedAgain, StopHolds, FlagAgrees
  <2>2. QED BY <1>1, <2>1, InvFromParts
<1>4. CASE Detach(t)
  <2>1. FlagsOK'
    BY <1>0, <1>1, <1>4
    DEF Detach, FlagsOK, Points, RemovedIsOff, StartedAgain, StopHolds, FlagAgrees
  <2>2. QED BY <1>1, <2>1, InvFromParts
<1>5. QED BY <1>2, <1>3, <1>4

LEMMA StartComputeStep ==
  ASSUME TimersInv, NEW t \in Tmr, StartCompute(t)
  PROVE  TimersInv'
<1> USE DEF StartCompute, At, Goes, history
<1>0. ListsOK /\ FlagsOK
  BY InvInParts
<1>1. (rt_tick + init_tick[t]) % TickMod \in 0 .. TickMod - 1
  <2>1. init_tick[t] \in Times /\ rt_tick \in 0 .. TickMod - 1
    BY <1>0 DEF FlagsOK
  <2>2. init_tick[t] \in Nat
    BY <2>1, TimesAreTicks
  <2>3. rt_tick \in Nat
    BY <2>1, TimesAreTicks
  <2>4. QED BY <2>2, <2>3, TimesAreTicks
<1>2. ListsOK' /\ Linked' = Linked
  BY <1>0, <1>1 DEF ListsOK, ListsAgree, Linked
<1>3. FlagsOK'
  BY <1>0, <1>2 DEF FlagsOK, Points, RemovedIsOff, StartedAgain, StopHolds, FlagAgrees
<1>4. QED BY <1>2, <1>3, InvFromParts

LEMMA StartInsertStep ==
  ASSUME TimersInv, NEW t \in Tmr, StartInsert(t)
  PROVE  TimersInv'
<1> USE DEF StartInsert, At, Goes
<1>0. ListsOK /\ FlagsOK
  BY InvInParts
<1>1. t \notin ToSet(rt_timer_list) /\ t \notin ToSet(entered)
  BY <1>0 DEF ListsOK, ListsAgree, FlagsOK, RemovedIsOff, Linked
<1>2. /\ rt_timer_list' \in Seq(Tmr) /\ IsInjective(rt_timer_list')
      /\ ToSet(rt_timer_list') = ToSet(rt_timer_list) \cup {t}
  BY <1>0, <1>1, InsertedProperties DEF ListsOK, ListsAgree
<1>3. /\ entered' \in Seq(Tmr) /\ IsInjective(entered')
      /\ ToSet(entered') = ToSet(entered) \cup {t}
  BY <1>0, <1>1, AppendNew DEF ListsOK, ListsAgree
<1>4. ListsOK' /\ Linked' = Linked \cup {t}
  BY <1>0, <1>2, <1>3 DEF ListsOK, ListsAgree, Linked
<1>5. FlagsOK'
  BY <1>0, <1>4 DEF FlagsOK, Points, RemovedIsOff, StartedAgain, StopHolds, FlagAgrees
<1>6. QED BY <1>4, <1>5, InvFromParts

LEMMA ExpireStep ==
  ASSUME TimersInv, NEW callback \in {"return", "stop", "start"}, Expire(callback)
  PROVE  TimersInv'
<1> DEFINE t == Head(rt_timer_list)
<1>0. ListsOK /\ FlagsOK
  BY InvInParts
<1>1. /\ ListsOK' /\ t \in Linked /\ t \in Tmr
      /\ Linked' = IF ExpireLinks(t, callback) THEN Linked ELSE Linked \ {t}
  BY ExpireLists
<1>2. /\ activated' = FlagAfter(t, ExpireOn(t, callback))
      /\ stops' = IF callback = "stop" THEN stops \cup {t} ELSE stops
      /\ restarts' = IF callback = "start" /\ t \notin periodic
                     THEN restarts \cup {t} ELSE restarts \ {t}
      /\ lost' = IF doing[t] \in {"on", "off"} THEN lost \cup {t} ELSE lost
      /\ fresh' = fresh \ {t}
      /\ UNCHANGED <<rt_tick, init_tick, periodic, doing, checking>>
  BY DEF Expire, ExpireOn
<1> HIDE DEF t
<1>3. doing[t] \in {"none", "stop", "on", "off"}
  BY <1>0, <1>1 DEF FlagsOK, Points, RemovedIsOff
<1>4. FlagsOK'
  BY <1>0, <1>1, <1>2, <1>3
  DEF FlagsOK, RemovedIsOff, StartedAgain, StopHolds, FlagAgrees,
      FlagAfter, GoesOn, ExpireLinks, ExpireOn
<1>5. QED BY <1>1, <1>4, InvFromParts

\* SysTick_Handler before and after the loop of rt_timer_check.
LEMMA TickStep ==
  ASSUME TimersInv, SysTick \/ CheckEnds
  PROVE  TimersInv'
<1>0. ListsOK /\ FlagsOK
  BY InvInParts
<1>1. ListsOK' /\ Linked' = Linked
  BY <1>0 DEF SysTick, CheckEnds, history, ListsOK, ListsAgree, Linked
<1>2. rt_tick' \in 0 .. TickMod - 1
  BY <1>0, TimesAreTicks DEF SysTick, CheckEnds, FlagsOK
<1>3. FlagsOK'
  BY <1>0, <1>1, <1>2
  DEF SysTick, CheckEnds, history, FlagsOK, RemovedIsOff, StartedAgain, StopHolds, FlagAgrees
<1>4. QED BY <1>1, <1>3, InvFromParts

LEMMA TimersStep == TimersInv /\ [TimersNext]_timer_vars => TimersInv'
<1> SUFFICES ASSUME TimersInv, [TimersNext]_timer_vars PROVE TimersInv'
  OBVIOUS
<1>1. CASE SysTick \/ CheckEnds
  BY <1>1, TickStep
<1>2. ASSUME NEW callback \in {"return", "stop", "start"}, Expire(callback)
      PROVE  TimersInv'
  BY <1>2, ExpireStep
<1>3. ASSUME NEW t \in Tmr,
             \/ StartRemove(t) \/ StartCompute(t) \/ StartInsert(t)
             \/ StopTest(t) \/ StopRemove(t) \/ StopClear(t)
             \/ ControlRead(t) \/ ControlWrite(t) \/ \E time \in Times : SetTime(t, time)
             \/ Detach(t) \/ InitAgain(t)
      PROVE  TimersInv'
  <2>1. CASE StartRemove(t) \/ StopRemove(t) \/ Detach(t)
    BY <2>1, ThreadStepUnlinks
  <2>2. CASE StartCompute(t)
    BY <2>2, StartComputeStep
  <2>3. CASE StartInsert(t)
    BY <2>3, StartInsertStep
  <2>4. CASE \/ StopTest(t) \/ StopClear(t) \/ ControlRead(t) \/ ControlWrite(t)
             \/ InitAgain(t) \/ \E time \in Times : SetTime(t, time)
    BY <2>4, ThreadStepOffList
  <2>5. QED BY <1>3, <2>1, <2>2, <2>3, <2>4
<1>4. CASE UNCHANGED timer_vars
  <2>1. UNCHANGED <<ListsOK, FlagsOK>>
    BY <1>4 DEF timer_vars, history, ListsOK, ListsAgree, FlagsOK, Linked, RemovedIsOff,
                StartedAgain, StopHolds, FlagAgrees
  <2>2. QED BY <2>1, InvInParts, InvFromParts
<1>5. QED BY <1>1, <1>2, <1>3, <1>4 DEF TimersNext

\* The variables of the timers keep their types.
THEOREM TimersTypeCorrect == TimersSpec => []TimersTypeOK
<1>1. TimersInv => TimersTypeOK
  BY DEF TimersInv
<1>2. QED BY <1>1, TimersInitially, TimersStep, PTL DEF TimersSpec

\* A timer stopped with RT_EOK, by its thread (rt_timer_stop, timer.c:422) or
\* by its own callback, is off the list until it is started, wherever its
\* thread is interrupted between the critical sections.
THEOREM StopsHold == TimersSpec => []StopHolds
<1>1. TimersInv => StopHolds
  BY DEF TimersInv
<1>2. QED BY <1>1, TimersInitially, TimersStep, PTL DEF TimersSpec

\* RT_TIMER_FLAG_ACTIVATED is true to the list between the operations on a
\* timer, outside of the two faults that restarts and lost record.
THEOREM FlagsAreTrue == TimersSpec => []ActivatedMeansLinked
<1>1. TimersInv => ActivatedMeansLinked
  BY DEF TimersInv, FlagAgrees, ActivatedMeansLinked
<1>2. QED BY <1>1, TimersInitially, TimersStep, PTL DEF TimersSpec
-----------------------------------------------------------------------------
(***************************************************************************)
(* The times of the timers.  rt_tick wraps, and rt_timer_start orders two  *)
(* timers by the difference of their ticks, which is right only as long as *)
(* less than half the range lies between them: InWindow says that it does, *)
(* and with it the search of rt_timer_start finds the place in the order.  *)
(***************************************************************************)
\* The timers on the list have less than half the range of the tick between
\* them: how late the first may be, and how far the last may be away.
LateMost == Max(Times) - HalfTick

InWindow ==
  /\ \A t \in Linked :
       /\ ToGo(t) <= Max(Times)
       /\ ToGo(t) >= IF checking THEN LateMost ELSE IF t \in fresh THEN LateMost + 1 ELSE 1
  /\ \A t \in Tmr : doing[t] = "insert" => LateMost + 1 <= ToGo(t) /\ ToGo(t) <= Max(Times)

\* How long a timer has to go that expires at a when the tick is k.
Until(k, a) == TickDiff(a - k + HalfTick, 0) - HalfTick

LEMMA ToGoIs == \A t : ToGo(t) = Until(rt_tick, timeout_tick[t])
  BY DEF ToGo, Until

LEMMA ToGoWillBe == \A t : ToGo(t)' = Until(rt_tick', timeout_tick'[t])
  BY DEF ToGo, Until

LEMMA MaxTime ==
  /\ Max(Times) \in Times /\ \A x \in Times : x <= Max(Times)
  /\ Max(Times) \in Nat /\ 1 <= Max(Times) /\ Max(Times) < HalfTick
  /\ \A x \in Times : x \in Nat /\ 1 <= x
<1>0. HalfTick \in Nat
  BY AppTimersAssumption DEF HalfTick
<1>1. Times # {} /\ \A x \in Times : x \in Nat /\ 1 <= x /\ x < HalfTick
  <2>1. Times # {} /\ Times \subseteq 1 .. HalfTick - 1
    BY AppTimersAssumption
  <2>2. QED BY <1>0, <2>1
<1> DEFINE I == {HalfTick - x : x \in Times}
<1>2. I \in SUBSET Nat /\ I # {}
  BY <1>0, <1>1
<1>3. Min(I) \in I /\ \A j \in I : Min(I) <= j
  BY <1>2, MinProperties
<1>4. PICK m \in Times : Min(I) = HalfTick - m
  BY <1>3
<1>5. \A x \in Times : x <= m
  <2> TAKE x \in Times
  <2>1. HalfTick - x \in I
    OBVIOUS
  <2>2. HalfTick - m <= HalfTick - x
    BY <1>3, <1>4, <2>1
  <2>3. QED BY <1>0, <1>1, <2>2
<1>6. \E y \in Times : \A x \in Times : y >= x
  BY <1>0, <1>1, <1>5
<1>7. Max(Times) \in Times /\ \A x \in Times : Max(Times) >= x
  BY <1>6 DEF Max
<1>8. QED BY <1>0, <1>1, <1>7

LEMMA HalfBounds ==
  /\ TickMod \in Nat \ {0} /\ HalfTick \in Nat
  /\ 2 * HalfTick + 1 <= TickMod /\ TickMod <= 2 * HalfTick + 2
<1>1. TickMod \in Nat \ {0}
  BY AppTimersAssumption
<1>2. QED BY <1>1 DEF HalfTick

LEMMA ModNear ==
  ASSUME NEW d \in Nat \ {0}, NEW x \in Int, -d <= x, x < 2 * d
  PROVE  x % d = IF x < 0 THEN x + d ELSE IF x >= d THEN x - d ELSE x
  OBVIOUS

LEMMA TickNear ==
  ASSUME NEW x \in Int, 0 - TickMod <= x, x < 2 * TickMod
  PROVE  x % TickMod = IF x < 0 THEN x + TickMod ELSE IF x >= TickMod THEN x - TickMod ELSE x
<1>1. TickMod \in Nat \ {0} /\ -TickMod <= x
  BY HalfBounds
<1>2. QED BY <1>1, ModNear

\* Half the range of the tick lies before the tick and half after it.
LEMMA UntilIs ==
  ASSUME NEW k \in 0 .. TickMod - 1, NEW a \in 0 .. TickMod - 1
  PROVE  Until(k, a) = IF a - k < 0 - HalfTick THEN a - k + TickMod
                       ELSE IF a - k >= TickMod - HalfTick THEN a - k - TickMod
                       ELSE a - k
<1>1. PICK x \in Int : x = a - k + HalfTick
  BY HalfBounds
<1>2. 0 - TickMod <= x /\ x < 2 * TickMod
  BY <1>1, HalfBounds
<1>3. x % TickMod = IF x < 0 THEN x + TickMod ELSE IF x >= TickMod THEN x - TickMod ELSE x
  BY <1>2, TickNear
<1>4. Until(k, a) = (x % TickMod) - HalfTick
  BY <1>1 DEF Until, TickDiff
<1>5. QED BY <1>1, <1>3, <1>4, HalfBounds

\* A timer that is started expires when its delay has gone by.
LEMMA UntilStarted ==
  ASSUME NEW k \in 0 .. TickMod - 1, NEW x \in Times
  PROVE  (k + x) % TickMod \in 0 .. TickMod - 1 /\ Until(k, (k + x) % TickMod) = x
<1>1. x \in Nat /\ 1 <= x /\ x < HalfTick
  BY MaxTime, HalfBounds
<1>2. PICK y \in Int : y = k + x
  BY <1>1, HalfBounds
<1>3. y % TickMod = IF y < 0 THEN y + TickMod ELSE IF y >= TickMod THEN y - TickMod ELSE y
  <2>1. 0 - TickMod <= y /\ y < 2 * TickMod
    BY <1>1, <1>2, HalfBounds
  <2>2. QED BY <2>1, TickNear
<1>4. PICK a : a = y % TickMod
  OBVIOUS
<1>5. a \in 0 .. TickMod - 1
  BY <1>1, <1>2, <1>3, <1>4, HalfBounds
<1>6. Until(k, a) = x
  <2>1. Until(k, a) = IF a - k < 0 - HalfTick THEN a - k + TickMod
                      ELSE IF a - k >= TickMod - HalfTick THEN a - k - TickMod
                      ELSE a - k
    BY <1>5, UntilIs
  <2>2. QED BY <1>1, <1>2, <1>3, <1>4, <1>5, <2>1, HalfBounds
<1>7. QED BY <1>2, <1>4, <1>5, <1>6

\* A tick takes one off, but where the range ends.
LEMMA UntilAfterTick ==
  ASSUME NEW k \in 0 .. TickMod - 1, NEW a \in 0 .. TickMod - 1, Until(k, a) > LateMost
  PROVE  (k + 1) % TickMod \in 0 .. TickMod - 1 /\ Until((k + 1) % TickMod, a) = Until(k, a) - 1
<1>1. (k + 1) % TickMod = IF k + 1 >= TickMod THEN k + 1 - TickMod ELSE k + 1
  <2>1. PICK y \in Int : y = k + 1
    OBVIOUS
  <2>2. y % TickMod = IF y < 0 THEN y + TickMod ELSE IF y >= TickMod THEN y - TickMod ELSE y
    <3>1. 0 - TickMod <= y /\ y < 2 * TickMod
      BY <2>1, HalfBounds
    <3>2. QED BY <3>1, TickNear
  <2>3. QED BY <2>1, <2>2, HalfBounds
<1>2. PICK j : j = (k + 1) % TickMod
  OBVIOUS
<1>3. j \in 0 .. TickMod - 1
  BY <1>1, <1>2, HalfBounds
<1>4. /\ Until(k, a) = IF a - k < 0 - HalfTick THEN a - k + TickMod
                       ELSE IF a - k >= TickMod - HalfTick THEN a - k - TickMod ELSE a - k
      /\ Until(j, a) = IF a - j < 0 - HalfTick THEN a - j + TickMod
                       ELSE IF a - j >= TickMod - HalfTick THEN a - j - TickMod ELSE a - j
  BY <1>3, UntilIs
<1>5. Until(j, a) = Until(k, a) - 1
  <2>1. PICK l \in Int : l = LateMost /\ 1 - HalfTick <= l
    BY MaxTime, HalfBounds DEF LateMost
  <2>2. QED BY <1>1, <1>2, <1>3, <1>4, <2>1, HalfBounds
<1>6. QED BY <1>2, <1>3, <1>5

\* Sooner compares what two timers have to go if less than half the range lies
\* between them.
LEMMA SoonerIsLess ==
  ASSUME NEW k \in 0 .. TickMod - 1, NEW timeout, NEW t, NEW u,
         timeout[t] \in 0 .. TickMod - 1, timeout[u] \in 0 .. TickMod - 1,
         Until(k, timeout[u]) - Until(k, timeout[t]) < HalfTick,
         Until(k, timeout[t]) - Until(k, timeout[u]) <= HalfTick
  PROVE  Sooner(timeout, t, u) <=> Until(k, timeout[t]) < Until(k, timeout[u])
<1>1. PICK a \in 0 .. TickMod - 1, b \in 0 .. TickMod - 1 : a = timeout[t] /\ b = timeout[u]
  OBVIOUS
<1>2. PICK y \in Int : y = b - a
  BY <1>1, HalfBounds
<1>3. y % TickMod = IF y < 0 THEN y + TickMod ELSE IF y >= TickMod THEN y - TickMod ELSE y
  <2>1. 0 - TickMod <= y /\ y < 2 * TickMod
    BY <1>2, HalfBounds
  <2>2. QED BY <2>1, TickNear
<1>4. Sooner(timeout, t, u) <=> y % TickMod # 0 /\ y % TickMod < HalfTick
  BY <1>1, <1>2 DEF Sooner, TickDiff
<1>5. /\ Until(k, a) = IF a - k < 0 - HalfTick THEN a - k + TickMod
                       ELSE IF a - k >= TickMod - HalfTick THEN a - k - TickMod ELSE a - k
      /\ Until(k, b) = IF b - k < 0 - HalfTick THEN b - k + TickMod
                       ELSE IF b - k >= TickMod - HalfTick THEN b - k - TickMod ELSE b - k
  BY UntilIs
<1>6. QED BY <1>1, <1>2, <1>3, <1>4, <1>5, HalfBounds

\* TimerDue is about the timers with nothing left to go.
LEMMA DueIs ==
  ASSUME rt_tick \in 0 .. TickMod - 1, NEW t, timeout_tick[t] \in 0 .. TickMod - 1,
         LateMost <= ToGo(t), ToGo(t) <= Max(Times)
  PROVE  TimerDue(t) <=> ToGo(t) <= 0
<1>1. PICK a \in 0 .. TickMod - 1 : a = timeout_tick[t]
  OBVIOUS
<1>2. PICK y \in Int : y = rt_tick - a
  BY HalfBounds
<1>3. y % TickMod = IF y < 0 THEN y + TickMod ELSE IF y >= TickMod THEN y - TickMod ELSE y
  <2>1. 0 - TickMod <= y /\ y < 2 * TickMod
    BY <1>2, HalfBounds
  <2>2. QED BY <2>1, TickNear
<1>4. TimerDue(t) <=> y % TickMod < HalfTick
  BY <1>1, <1>2 DEF TimerDue, TickDiff
<1>5. ToGo(t) = IF a - rt_tick < 0 - HalfTick THEN a - rt_tick + TickMod
                ELSE IF a - rt_tick >= TickMod - HalfTick THEN a - rt_tick - TickMod
                ELSE a - rt_tick
  BY <1>1, UntilIs, ToGoIs
<1>6. QED BY <1>1, <1>2, <1>3, <1>4, <1>5, HalfBounds, MaxTime DEF LateMost

\* Removing a timer from a list keeps the order of the others.
LEMMA RemoveKeepsBefore ==
  ASSUME NEW S, NEW s \in Seq(S), NEW x, NEW m \in DOMAIN s, NEW n \in DOMAIN s, m < n,
         s[m] # x, s[n] # x
  PROVE  \E i, j \in DOMAIN RemoveFirst(s, x) :
           i < j /\ RemoveFirst(s, x)[i] = s[m] /\ RemoveFirst(s, x)[j] = s[n]
<1>1. CASE \A i \in 1 .. Len(s) : s[i] # x
  BY <1>1 DEF RemoveFirst
<1>2. CASE \E i \in 1 .. Len(s) : s[i] = x
  <2> DEFINE I == {i \in 1 .. Len(s) : s[i] = x}
  <2>1. I \in SUBSET Nat /\ I # {}
    BY <1>2
  <2>2. PICK p \in I : p = Min(I)
    BY <2>1, MinProperties
  <2>3. RemoveFirst(s, x) = RemoveAt(s, p) /\ p \in 1 .. Len(s) /\ s[p] = x
    <3>1. RemoveFirst(s, x) = RemoveAt(s, Min(I))
      BY <1>2, <2>1 DEF RemoveFirst, SelectInSeq
    <3>2. QED BY <2>2, <3>1
  <2> HIDE DEF I
  <2>4. /\ RemoveAt(s, p) \in Seq(S) /\ Len(RemoveAt(s, p)) = Len(s) - 1
        /\ \A j \in 1 .. Len(s) - 1 : RemoveAt(s, p)[j] = IF j < p THEN s[j] ELSE s[j + 1]
    BY <2>3, RemoveAtProperties
  <2>5. PICK r \in Seq(S) : r = RemoveAt(s, p)
    BY <2>4
  <2>6. DOMAIN r = 1 .. Len(s) - 1 /\ DOMAIN s = 1 .. Len(s) /\ Len(s) \in Nat
    BY <2>4, <2>5
  <2>7. PICK i \in Int : i = IF m < p THEN m ELSE m - 1
    BY <2>6
  <2>8. PICK j \in Int : j = IF n < p THEN n ELSE n - 1
    BY <2>6
  <2>9. m # p /\ n # p
    BY <2>3
  <2>10. i \in DOMAIN r /\ j \in DOMAIN r /\ i < j
    BY <2>3, <2>6, <2>7, <2>8, <2>9
  <2>11. r[i] = s[m] /\ r[j] = s[n]
    BY <2>3, <2>4, <2>5, <2>6, <2>7, <2>8, <2>9, <2>10
  <2>12. QED BY <2>3, <2>5, <2>10, <2>11
<1>3. QED BY <1>1, <1>2

-----------------------------------------------------------------------------
\* A list in the order of a set of pairs.
InOrder(s, R) == \A i, j \in DOMAIN s : i < j => <<s[i], s[j]>> \in R

LEMMA OrderOfRest ==
  ASSUME NEW S, NEW s \in Seq(S), IsInjective(s), NEW x, NEW R, NEW Q, InOrder(s, R),
         \A t, u \in ToSet(s) \ {x} : <<t, u>> \in R => <<t, u>> \in Q
  PROVE  InOrder(RemoveFirst(s, x), Q)
<1> DEFINE r == RemoveFirst(s, x)
<1>1. r \in Seq(S) /\ ToSet(r) = ToSet(s) \ {x}
  BY RemoveFirstProperties
<1> SUFFICES ASSUME NEW i \in DOMAIN r, NEW j \in DOMAIN r, i < j
             PROVE  <<r[i], r[j]>> \in Q
  BY DEF InOrder
<1>2. PICK m \in DOMAIN s, n \in DOMAIN s : m < n /\ r[i] = s[m] /\ r[j] = s[n]
  BY RemoveFirstOrder
<1> HIDE DEF r
<1>3. r[i] \in ToSet(s) \ {x} /\ r[j] \in ToSet(s) \ {x}
  <2>1. r[i] \in ToSet(r) /\ r[j] \in ToSet(r)
    BY DEF ToSet
  <2>2. QED BY <1>1, <2>1
<1>4. <<r[i], r[j]>> \in R
  BY <1>2 DEF InOrder
<1>5. QED BY <1>3, <1>4

LEMMA OrderOfInserted ==
  ASSUME NEW S, NEW s \in Seq(S), NEW R, InOrder(s, R), NEW t \in S,
         NEW n \in 1 .. Len(s) + 1,
         \A j \in 1 .. Len(s) : j < n => <<s[j], t>> \in R,
         \A j \in 1 .. Len(s) : j >= n => <<t, s[j]>> \in R
  PROVE  InOrder(InsertAt(s, n, t), R)
<1> DEFINE w == InsertAt(s, n, t)
<1>1. /\ w \in Seq(S) /\ Len(w) = Len(s) + 1
      /\ \A j \in 1 .. Len(s) + 1 :
           w[j] = IF j < n THEN s[j] ELSE IF j = n THEN t ELSE s[j - 1]
  BY InsertAtProperties
<1> HIDE DEF w
<1>2. DOMAIN w = 1 .. Len(s) + 1 /\ DOMAIN s = 1 .. Len(s) /\ Len(s) \in Nat
  BY <1>1
<1> SUFFICES ASSUME NEW i \in DOMAIN w, NEW j \in DOMAIN w, i < j
             PROVE  <<w[i], w[j]>> \in R
  BY DEF InOrder, w
<1>3. i \in 1 .. Len(s) + 1 /\ j \in 1 .. Len(s) + 1
  BY <1>2
<1>4. CASE i < n /\ j < n
  BY <1>1, <1>2, <1>3, <1>4 DEF InOrder
<1>5. CASE i < n /\ j = n
  BY <1>1, <1>2, <1>3, <1>5
<1>6. CASE i < n /\ j > n
  <2>1. PICK k \in 1 .. Len(s) : k = j - 1
    BY <1>2, <1>3, <1>6
  <2>2. w[i] = s[i] /\ w[j] = s[k] /\ i < k /\ i \in DOMAIN s /\ k \in DOMAIN s
    BY <1>1, <1>2, <1>3, <1>6, <2>1
  <2>3. QED BY <2>2 DEF InOrder
<1>7. CASE i = n
  <2>1. PICK k \in 1 .. Len(s) : k = j - 1
    BY <1>2, <1>3, <1>7
  <2>2. w[i] = t /\ w[j] = s[k] /\ k >= n
    BY <1>1, <1>2, <1>3, <1>7, <2>1
  <2>3. QED BY <2>2
<1>8. CASE i > n
  <2>1. PICK k \in 1 .. Len(s) : k = j - 1
    BY <1>2, <1>3, <1>8
  <2>2. PICK l \in 1 .. Len(s) : l = i - 1
    BY <1>2, <1>3, <1>8
  <2>3. w[i] = s[l] /\ w[j] = s[k] /\ l < k /\ l \in DOMAIN s /\ k \in DOMAIN s
    BY <1>1, <1>2, <1>3, <1>8, <2>1, <2>2
  <2>4. QED BY <2>3 DEF InOrder
<1>9. QED BY <1>2, <1>3, <1>4, <1>5, <1>6, <1>7, <1>8

\* Who comes before whom on a list of timers.
Earlier(s, t, u) == \E m, n \in DOMAIN s : m < n /\ s[m] = t /\ s[n] = u

\* The timers t and u that expire in this order when the tick is k: by what
\* they have to go, and by their places on e if that is the same.
Before(k, timeout, e) ==
  {p \in Tmr \X Tmr :
     \/ Until(k, timeout[p[1]]) < Until(k, timeout[p[2]])
     \/ Until(k, timeout[p[1]]) = Until(k, timeout[p[2]]) /\ Earlier(e, p[1], p[2])}

LEMMA BeforeMeans ==
  ASSUME NEW k, NEW timeout, NEW e, NEW t \in Tmr, NEW u \in Tmr
  PROVE  <<t, u>> \in Before(k, timeout, e) <=>
           \/ Until(k, timeout[t]) < Until(k, timeout[u])
           \/ Until(k, timeout[t]) = Until(k, timeout[u]) /\ Earlier(e, t, u)
  BY Zenon DEF Before

Timely == InOrder(rt_timer_list, Before(rt_tick, timeout_tick, entered)) /\ InWindow

LEMMA EarlierWithout ==
  ASSUME NEW s \in Seq(Tmr), NEW x, NEW t, NEW u, t # x, u # x, Earlier(s, t, u)
  PROVE  Earlier(RemoveFirst(s, x), t, u)
<1>1. PICK m \in DOMAIN s, n \in DOMAIN s : m < n /\ s[m] = t /\ s[n] = u
  BY DEF Earlier
<1>2. \E i, j \in DOMAIN RemoveFirst(s, x) :
        i < j /\ RemoveFirst(s, x)[i] = s[m] /\ RemoveFirst(s, x)[j] = s[n]
  BY <1>1, RemoveKeepsBefore
<1>3. QED BY <1>1, <1>2 DEF Earlier

LEMMA EarlierAppended ==
  ASSUME NEW s \in Seq(Tmr), NEW x \in Tmr
  PROVE  /\ \A t, u : Earlier(s, t, u) => Earlier(Append(s, x), t, u)
         /\ \A t \in ToSet(s) : Earlier(Append(s, x), t, x)
<1> DEFINE a == Append(s, x)
<1>1. /\ Len(s) \in Nat /\ DOMAIN s = 1 .. Len(s) /\ DOMAIN a = 1 .. Len(s) + 1
      /\ \A i \in 1 .. Len(s) : a[i] = s[i]
      /\ a[Len(s) + 1] = x
  OBVIOUS
<1> HIDE DEF a
<1>2. \A i \in DOMAIN s : i \in DOMAIN a /\ a[i] = s[i]
  BY <1>1
<1>3. ASSUME NEW t, NEW u, Earlier(s, t, u) PROVE Earlier(a, t, u)
  BY <1>2, <1>3 DEF Earlier
<1>4. ASSUME NEW t \in ToSet(s) PROVE Earlier(a, t, x)
  <2>1. PICK m \in DOMAIN s : s[m] = t
    BY DEF ToSet
  <2>2. m < Len(s) + 1 /\ Len(s) + 1 \in DOMAIN a /\ a[Len(s) + 1] = x
    BY <1>1
  <2>3. QED BY <1>2, <2>1, <2>2 DEF Earlier
<1>5. QED BY <1>3, <1>4 DEF a

\* Place is the place by what the timers have to go.
LEMMA PlaceIsByToGo ==
  ASSUME NEW k \in 0 .. TickMod - 1, NEW timeout \in [Tmr -> 0 .. TickMod - 1],
         NEW s \in Seq(Tmr), NEW t \in Tmr, NEW f \in [Tmr -> Int],
         \A u \in Tmr : f[u] = Until(k, timeout[u]),
         Sorted(s, f),
         \A u \in ToSet(s) : f[u] - f[t] < HalfTick /\ f[t] - f[u] <= HalfTick
  PROVE  PartsAt(Place(s, timeout, t), s, f, f[t])
<1>1. \A i \in 1 .. Len(s) : s[i] \in Tmr /\ s[i] \in ToSet(s)
  BY DEF ToSet
<1>2. \A i \in 1 .. Len(s) : Sooner(timeout, t, s[i]) <=> f[t] < f[s[i]]
  <2> TAKE i \in 1 .. Len(s)
  <2>1. PICK u \in Tmr : u = s[i] /\ u \in ToSet(s)
    BY <1>1
  <2>2. /\ timeout[t] \in 0 .. TickMod - 1 /\ timeout[u] \in 0 .. TickMod - 1
        /\ f[t] = Until(k, timeout[t]) /\ f[u] = Until(k, timeout[u])
        /\ f[u] - f[t] < HalfTick /\ f[t] - f[u] <= HalfTick
    BY <2>1
  <2>3. Sooner(timeout, t, u) <=> Until(k, timeout[t]) < Until(k, timeout[u])
    BY <2>2, SoonerIsLess
  <2>4. QED BY <2>1, <2>2, <2>3
<1>3. {i \in 1 .. Len(s) : Sooner(timeout, t, s[i])} = Above(s, f, f[t])
  BY <1>2 DEF Above
<1>4. Place(s, timeout, t) = FirstOf(s, Above(s, f, f[t]))
  BY <1>3 DEF Place, FirstOf
<1>5. f[t] \in Int
  OBVIOUS
<1>6. QED BY <1>4, <1>5, SortedPlace

LEMMA UntilType ==
  ASSUME NEW k \in 0 .. TickMod - 1, NEW a \in 0 .. TickMod - 1
  PROVE  Until(k, a) \in Int
<1>1. /\ Until(k, a) = IF a - k < 0 - HalfTick THEN a - k + TickMod
                       ELSE IF a - k >= TickMod - HalfTick THEN a - k - TickMod ELSE a - k
      /\ TickMod \in Int /\ a \in Int /\ k \in Int
  BY UntilIs, HalfBounds
<1>2. QED BY <1>1

\* Unlinking a timer leaves the others in order,
LEMMA RestInOrder ==
  ASSUME NEW k, NEW timeout, NEW other, NEW s \in Seq(Tmr), IsInjective(s),
         NEW e \in Seq(Tmr), NEW x, InOrder(s, Before(k, timeout, e)),
         \A u \in Tmr \ {x} : other[u] = timeout[u]
  PROVE  InOrder(RemoveFirst(s, x), Before(k, other, RemoveFirst(e, x)))
<1>1. ASSUME NEW t \in ToSet(s) \ {x}, NEW u \in ToSet(s) \ {x},
             <<t, u>> \in Before(k, timeout, e)
      PROVE  <<t, u>> \in Before(k, other, RemoveFirst(e, x))
  <2>1. t \in Tmr /\ u \in Tmr
    BY MembersOf
  <2>2. \/ Until(k, timeout[t]) < Until(k, timeout[u])
        \/ Until(k, timeout[t]) = Until(k, timeout[u]) /\ Earlier(e, t, u)
    BY <1>1, <2>1, BeforeMeans
  <2>3. other[t] = timeout[t] /\ other[u] = timeout[u]
    BY <2>1
  <2>4. Earlier(e, t, u) => Earlier(RemoveFirst(e, x), t, u)
    BY <2>1, EarlierWithout
  <2>5. \/ Until(k, other[t]) < Until(k, other[u])
        \/ Until(k, other[t]) = Until(k, other[u]) /\ Earlier(RemoveFirst(e, x), t, u)
    BY <2>2, <2>3, <2>4
  <2>6. QED BY <2>1, <2>5, BeforeMeans
<1>2. PICK R, Q : R = Before(k, timeout, e) /\ Q = Before(k, other, RemoveFirst(e, x))
  OBVIOUS
<1>3. InOrder(s, R) /\ \A t, u \in ToSet(s) \ {x} : <<t, u>> \in R => <<t, u>> \in Q
  BY <1>1, <1>2
<1>4. InOrder(RemoveFirst(s, x), Q)
  BY <1>3, OrderOfRest
<1>5. QED BY <1>2, <1>4

\* inserting one keeps them in order,
LEMMA InsertedInOrder ==
  ASSUME NEW k \in 0 .. TickMod - 1, NEW timeout \in [Tmr -> 0 .. TickMod - 1],
         NEW s \in Seq(Tmr), NEW e \in Seq(Tmr), ToSet(s) \subseteq ToSet(e),
         NEW t \in Tmr, InOrder(s, Before(k, timeout, e)),
         \A u \in ToSet(s) : /\ Until(k, timeout[u]) - Until(k, timeout[t]) < HalfTick
                             /\ Until(k, timeout[t]) - Until(k, timeout[u]) <= HalfTick
  PROVE  InOrder(Inserted(s, timeout, t), Before(k, timeout, Append(e, t)))
<1>1. PICK f \in [Tmr -> Int] : \A u \in Tmr : f[u] = Until(k, timeout[u])
  <2>1. \A u \in Tmr : Until(k, timeout[u]) \in Int
    BY UntilType
  <2>2. [u \in Tmr |-> Until(k, timeout[u])] \in [Tmr -> Int]
    BY <2>1
  <2>3. \A u \in Tmr : [v \in Tmr |-> Until(k, timeout[v])][u] = Until(k, timeout[u])
    OBVIOUS
  <2>4. QED BY <2>2, <2>3
<1>2. \A i \in DOMAIN s : s[i] \in Tmr /\ s[i] \in ToSet(s)
  BY DEF ToSet
<1>3. ASSUME NEW i \in DOMAIN s, NEW j \in DOMAIN s, i < j
      PROVE  /\ \/ f[s[i]] < f[s[j]]
                \/ f[s[i]] = f[s[j]] /\ Earlier(e, s[i], s[j])
             /\ f[s[i]] <= f[s[j]]
  <2>1. PICK u \in Tmr, v \in Tmr : u = s[i] /\ v = s[j]
    BY <1>2
  <2>2. <<u, v>> \in Before(k, timeout, e)
    BY <1>3, <2>1 DEF InOrder
  <2>3. \/ Until(k, timeout[u]) < Until(k, timeout[v])
        \/ Until(k, timeout[u]) = Until(k, timeout[v]) /\ Earlier(e, u, v)
    BY <2>2, BeforeMeans
  <2>4. f[u] \in Int /\ f[v] \in Int /\ f[u] = Until(k, timeout[u]) /\ f[v] = Until(k, timeout[v])
    BY <1>1
  <2>5. QED BY <2>1, <2>3, <2>4
<1>4. Sorted(s, f)
  BY <1>3 DEF Sorted
<1>5. PICK n : n = Place(s, timeout, t)
  OBVIOUS
<1>6. PartsAt(n, s, f, f[t])
  <2>1. \A u \in ToSet(s) : f[u] - f[t] < HalfTick /\ f[t] - f[u] <= HalfTick
    <3>1. ToSet(s) \subseteq Tmr
      BY MembersOf
    <3>2. QED BY <1>1, <3>1
  <2>2. QED BY <1>1, <1>4, <1>5, <2>1, PlaceIsByToGo
<1>7. /\ n \in 1 .. Len(s) + 1
      /\ \A j \in 1 .. Len(s) : j < n => f[s[j]] <= f[t]
      /\ \A j \in 1 .. Len(s) : j >= n => f[t] < f[s[j]]
  BY <1>6 DEF PartsAt
<1>8. PICK a \in Seq(Tmr) :
        /\ a = Append(e, t)
        /\ \A u, v : Earlier(e, u, v) => Earlier(a, u, v)
        /\ \A u \in ToSet(e) : Earlier(a, u, t)
  <2>1. PICK a : a = Append(e, t)
    OBVIOUS
  <2>2. a \in Seq(Tmr)
    BY <2>1
  <2>3. /\ \A u, v : Earlier(e, u, v) => Earlier(a, u, v)
        /\ \A u \in ToSet(e) : Earlier(a, u, t)
    BY <2>1, EarlierAppended
  <2>4. QED BY <2>1, <2>2, <2>3
<1>9. PICK R : R = Before(k, timeout, a)
  OBVIOUS
<1>10. \A u, v \in Tmr : <<u, v>> \in R <=> \/ f[u] < f[v]
                                            \/ f[u] = f[v] /\ Earlier(a, u, v)
  <2> TAKE u, v \in Tmr
  <2>1. f[u] = Until(k, timeout[u]) /\ f[v] = Until(k, timeout[v])
    BY <1>1
  <2>2. QED BY <1>9, <2>1, BeforeMeans
<1>11. InOrder(s, R)
  BY <1>2, <1>3, <1>8, <1>10 DEF InOrder
<1>12. \A j \in 1 .. Len(s) : j < n => <<s[j], t>> \in R
  <2> SUFFICES ASSUME NEW j \in 1 .. Len(s), j < n PROVE <<s[j], t>> \in R
    OBVIOUS
  <2>1. PICK u \in Tmr : u = s[j] /\ u \in ToSet(e)
    BY <1>2
  <2>2. f[u] <= f[t] /\ f[u] \in Int /\ f[t] \in Int
    BY <1>7, <2>1
  <2>3. Earlier(a, u, t)
    BY <1>8, <2>1
  <2>4. \/ f[u] < f[t]
        \/ f[u] = f[t] /\ Earlier(a, u, t)
    BY <2>2, <2>3
  <2>5. QED BY <1>10, <2>1, <2>4
<1>13. \A j \in 1 .. Len(s) : j >= n => <<t, s[j]>> \in R
  <2> SUFFICES ASSUME NEW j \in 1 .. Len(s), j >= n PROVE <<t, s[j]>> \in R
    OBVIOUS
  <2>1. PICK u \in Tmr : u = s[j]
    BY <1>2
  <2>2. f[t] < f[u]
    BY <1>7, <2>1
  <2>3. QED BY <1>10, <2>1, <2>2
<1>14. InOrder(InsertAt(s, n, t), R)
  BY <1>7, <1>11, <1>12, <1>13, OrderOfInserted
<1>15. QED BY <1>5, <1>8, <1>9, <1>14 DEF Inserted

\* and so does a tick.
LEMMA TickInOrder ==
  ASSUME NEW k \in 0 .. TickMod - 1, NEW timeout \in [Tmr -> 0 .. TickMod - 1],
         NEW s \in Seq(Tmr), NEW e, InOrder(s, Before(k, timeout, e)),
         \A u \in ToSet(s) : Until(k, timeout[u]) > LateMost
  PROVE  InOrder(s, Before((k + 1) % TickMod, timeout, e))
<1>1. PICK l : l = (k + 1) % TickMod
  OBVIOUS
<1>2. ASSUME NEW i \in DOMAIN s, NEW j \in DOMAIN s, i < j
      PROVE  <<s[i], s[j]>> \in Before(l, timeout, e)
  <2>1. PICK u \in Tmr, v \in Tmr : u = s[i] /\ v = s[j] /\ u \in ToSet(s) /\ v \in ToSet(s)
    BY DEF ToSet
  <2>2. \/ Until(k, timeout[u]) < Until(k, timeout[v])
        \/ Until(k, timeout[u]) = Until(k, timeout[v]) /\ Earlier(e, u, v)
    <3>1. <<u, v>> \in Before(k, timeout, e)
      BY <1>2, <2>1 DEF InOrder
    <3>2. QED BY <3>1, BeforeMeans
  <2>3. timeout[u] \in 0 .. TickMod - 1 /\ timeout[v] \in 0 .. TickMod - 1
    OBVIOUS
  <2>4. Until(l, timeout[u]) = Until(k, timeout[u]) - 1
    BY <1>1, <2>1, <2>3, UntilAfterTick
  <2>5. Until(l, timeout[v]) = Until(k, timeout[v]) - 1
    BY <1>1, <2>1, <2>3, UntilAfterTick
  <2>6. Until(k, timeout[u]) \in Int /\ Until(k, timeout[v]) \in Int
    BY <2>3, UntilType
  <2>7. \/ Until(l, timeout[u]) < Until(l, timeout[v])
        \/ Until(l, timeout[u]) = Until(l, timeout[v]) /\ Earlier(e, u, v)
    BY <2>2, <2>4, <2>5, <2>6
  <2>8. <<u, v>> \in Before(l, timeout, e)
    BY <2>7, BeforeMeans
  <2>9. QED BY <2>1, <2>8
<1>3. QED BY <1>1, <1>2 DEF InOrder

\* The types the order of the list is about.
LEMMA TimesOfTimers ==
  ASSUME TimersInv
  PROVE  /\ rt_tick \in 0 .. TickMod - 1 /\ timeout_tick \in [Tmr -> 0 .. TickMod - 1]
         /\ init_tick \in [Tmr -> Times] /\ fresh \subseteq Tmr /\ checking \in BOOLEAN
         /\ rt_timer_list \in Seq(Tmr) /\ entered \in Seq(Tmr)
         /\ IsInjective(rt_timer_list) /\ Linked = ToSet(entered)
         /\ Linked = ToSet(rt_timer_list) /\ Linked \subseteq Tmr
         /\ \A t \in Tmr : ToGo(t) \in Int /\ ToGo(t) = Until(rt_tick, timeout_tick[t])
         /\ LateMost \in Int /\ LateMost + HalfTick = Max(Times)
         /\ HalfTick \in Nat /\ Max(Times) \in Nat /\ Max(Times) < HalfTick
<1>1. /\ rt_tick \in 0 .. TickMod - 1 /\ timeout_tick \in [Tmr -> 0 .. TickMod - 1]
      /\ init_tick \in [Tmr -> Times] /\ fresh \subseteq Tmr /\ checking \in BOOLEAN
      /\ rt_timer_list \in Seq(Tmr) /\ entered \in Seq(Tmr)
      /\ IsInjective(rt_timer_list) /\ Linked = ToSet(entered)
  BY DEF TimersInv, TimersTypeOK, ListsAgree
<1>2. Linked = ToSet(rt_timer_list) /\ Linked \subseteq Tmr
  BY <1>1, MembersOf DEF Linked
<1>3. \A t \in Tmr : ToGo(t) \in Int /\ ToGo(t) = Until(rt_tick, timeout_tick[t])
  BY <1>1, UntilType, ToGoIs
<1>4. /\ LateMost \in Int /\ LateMost + HalfTick = Max(Times)
      /\ HalfTick \in Nat /\ Max(Times) \in Nat /\ Max(Times) < HalfTick
  BY MaxTime, HalfBounds DEF LateMost
<1>5. QED BY <1>1, <1>2, <1>3, <1>4

LEMMA TimelyInitially == TimersInit => Timely
<1> SUFFICES ASSUME TimersInit PROVE Timely
  OBVIOUS
<1>1. rt_timer_list = << >> /\ Linked = {} /\ \A t \in Tmr : doing[t] = "none"
  BY DEF TimersInit, Linked, ToSet
<1>2. QED BY <1>1 DEF Timely, InWindow, InOrder

\* A step that neither moves a timer nor the tick, and begins no insertion.
LEMMA QuietInTime ==
  ASSUME TimersInv, Timely,
         UNCHANGED <<rt_tick, rt_timer_list, timeout_tick, entered, fresh, checking>>,
         \A t \in Tmr : doing'[t] = "insert" => doing[t] = "insert"
  PROVE  Timely'
<1>1. Linked' = Linked /\ LateMost' = LateMost /\ Max(Times)' = Max(Times)
      /\ \A t : ToGo(t)' = ToGo(t)
  BY ToGoIs, ToGoWillBe DEF Linked, LateMost, HalfTick
<1>2. InWindow'
  BY <1>1 DEF Timely, InWindow
<1>3. InOrder(rt_timer_list, Before(rt_tick, timeout_tick, entered))'
  BY DEF Timely, InOrder, Before, Earlier, Until, TickDiff, HalfTick
<1>4. QED BY <1>2, <1>3 DEF Timely

\* A step that unlinks a timer that is not being inserted.
LEMMA UnlinkInTime ==
  ASSUME TimersInv, Timely, NEW t \in Tmr, Unlink(t), UNCHANGED <<rt_tick, checking>>,
         \A u \in Tmr : doing'[u] = "insert" => doing[u] = "insert" /\ u # t
  PROVE  Timely'
<1>1. Linked' = Linked \ {t} /\ fresh' = fresh \ {t}
  BY UnlinkStep DEF Unlink
<1>2. \A u \in Tmr \ {t} : timeout_tick'[u] = timeout_tick[u]
  BY TimesOfTimers DEF Unlink
<1>3. \A u \in Tmr \ {t} : ToGo(u)' = ToGo(u)
  BY <1>2, ToGoIs, ToGoWillBe
<1>4. InWindow'
  <2>1. \A u \in Linked' :
          /\ ToGo(u)' <= Max(Times)
          /\ ToGo(u)' >= IF checking' THEN LateMost ELSE IF u \in fresh' THEN LateMost + 1 ELSE 1
    BY <1>1, <1>3, TimesOfTimers DEF Timely, InWindow
  <2>2. \A u \in Tmr : doing'[u] = "insert" => LateMost + 1 <= ToGo(u)' /\ ToGo(u)' <= Max(Times)
    BY <1>3 DEF Timely, InWindow
  <2>3. QED BY <2>1, <2>2 DEF InWindow, LateMost, HalfTick
<1>5. InOrder(rt_timer_list, Before(rt_tick, timeout_tick, entered))'
  <2>1. InOrder(RemoveFirst(rt_timer_list, t), Before(rt_tick, timeout_tick', RemoveFirst(entered, t)))
    <3>1. PICK other : other = timeout_tick'
      OBVIOUS
    <3>2. InOrder(RemoveFirst(rt_timer_list, t), Before(rt_tick, other, RemoveFirst(entered, t)))
      BY <1>2, <3>1, TimesOfTimers, RestInOrder DEF Timely
    <3>3. QED BY <3>1, <3>2
  <2>2. QED BY <2>1 DEF Unlink
<1>6. QED BY <1>4, <1>5 DEF Timely

LEMMA ComputeInTime ==
  ASSUME TimersInv, Timely, NEW t \in Tmr, StartCompute(t)
  PROVE  Timely'
<1>1. /\ timeout_tick' = [timeout_tick EXCEPT ![t] = (rt_tick + init_tick[t]) % TickMod]
      /\ doing' = [doing EXCEPT ![t] = "insert"] /\ doing[t] = "start"
      /\ UNCHANGED <<rt_tick, rt_timer_list, entered, fresh, checking>>
  BY DEF StartCompute, At, Goes, history
<1>2. t \notin Linked
  BY <1>1 DEF TimersInv, RemovedIsOff
<1>3. \A u \in Tmr \ {t} : ToGo(u)' = ToGo(u)
  <2>1. \A u \in Tmr \ {t} : timeout_tick'[u] = timeout_tick[u]
    BY <1>1, TimesOfTimers
  <2>2. QED BY <1>1, <2>1, ToGoIs, ToGoWillBe
<1>4. ToGo(t)' = init_tick[t] /\ init_tick[t] \in Times
  <2>1. rt_tick \in 0 .. TickMod - 1 /\ init_tick[t] \in Times /\ timeout_tick'[t] = (rt_tick + init_tick[t]) % TickMod
    BY <1>1, TimesOfTimers
  <2>2. Until(rt_tick, (rt_tick + init_tick[t]) % TickMod) = init_tick[t]
    BY <2>1, UntilStarted
  <2>3. QED BY <1>1, <2>1, <2>2, ToGoWillBe
<1>5. LateMost + 1 <= init_tick[t] /\ init_tick[t] <= Max(Times)
  BY <1>4, MaxTime, TimesOfTimers
<1>6. Linked' = Linked
  BY <1>1 DEF Linked
<1>7. InWindow'
  <2>1. \A u \in Linked' :
          /\ ToGo(u)' <= Max(Times)
          /\ ToGo(u)' >= IF checking' THEN LateMost ELSE IF u \in fresh' THEN LateMost + 1 ELSE 1
    BY <1>1, <1>2, <1>3, <1>6, TimesOfTimers DEF Timely, InWindow
  <2>2. \A u \in Tmr : doing'[u] = "insert" => LateMost + 1 <= ToGo(u)' /\ ToGo(u)' <= Max(Times)
    <3> SUFFICES ASSUME NEW u \in Tmr, doing'[u] = "insert"
                 PROVE  LateMost + 1 <= ToGo(u)' /\ ToGo(u)' <= Max(Times)
      OBVIOUS
    <3>1. CASE u = t
      BY <1>4, <1>5, <3>1
    <3>2. CASE u # t
      <4>1. doing[u] = "insert"
        BY <1>1, <3>2 DEF TimersInv, TimersTypeOK
      <4>2. QED BY <1>3, <3>2, <4>1 DEF Timely, InWindow
    <3>3. QED BY <3>1, <3>2
  <2>3. QED BY <2>1, <2>2 DEF InWindow, LateMost, HalfTick
<1>8. InOrder(rt_timer_list, Before(rt_tick, timeout_tick, entered))'
  <2>1. PICK other : other = timeout_tick'
    OBVIOUS
  <2>2. InOrder(rt_timer_list, Before(rt_tick, other, entered))
    <3>1. \A u \in Tmr \ {t} : other[u] = timeout_tick[u]
      BY <1>1, <2>1, TimesOfTimers
    <3>2. ASSUME NEW i \in DOMAIN rt_timer_list, NEW j \in DOMAIN rt_timer_list, i < j
          PROVE  <<rt_timer_list[i], rt_timer_list[j]>> \in Before(rt_tick, other, entered)
      <4>1. PICK u \in Tmr \ {t}, v \in Tmr \ {t} : u = rt_timer_list[i] /\ v = rt_timer_list[j]
        <5>1. rt_timer_list[i] \in Linked /\ rt_timer_list[j] \in Linked
          BY DEF Linked, ToSet
        <5>2. QED BY <1>2, <5>1, TimesOfTimers
      <4>2. <<u, v>> \in Before(rt_tick, timeout_tick, entered)
        BY <3>2, <4>1 DEF Timely, InOrder
      <4>3. \/ Until(rt_tick, other[u]) < Until(rt_tick, other[v])
            \/ Until(rt_tick, other[u]) = Until(rt_tick, other[v]) /\ Earlier(entered, u, v)
        <5>1. \/ Until(rt_tick, timeout_tick[u]) < Until(rt_tick, timeout_tick[v])
              \/ /\ Until(rt_tick, timeout_tick[u]) = Until(rt_tick, timeout_tick[v])
                 /\ Earlier(entered, u, v)
          BY <4>2, BeforeMeans
        <5>2. QED BY <3>1, <5>1
      <4>4. <<u, v>> \in Before(rt_tick, other, entered)
        BY <4>3, BeforeMeans
      <4>5. QED BY <4>1, <4>4
    <3>3. QED BY <3>2 DEF InOrder
  <2>3. QED BY <1>1, <2>1, <2>2
<1>9. QED BY <1>7, <1>8 DEF Timely

LEMMA InsertInTime ==
  ASSUME TimersInv, Timely, NEW t \in Tmr, StartInsert(t)
  PROVE  Timely'
<1>1. /\ rt_timer_list' = Inserted(rt_timer_list, timeout_tick, t)
      /\ entered' = Append(entered, t) /\ fresh' = fresh \cup {t}
      /\ doing' = [doing EXCEPT ![t] = "none"] /\ doing[t] = "insert"
      /\ checking = FALSE
      /\ UNCHANGED <<rt_tick, timeout_tick, checking>>
  BY TimesOfTimers DEF StartInsert, At, Goes
<1>2. t \notin Linked
  BY <1>1 DEF TimersInv, RemovedIsOff
<1>3. Linked' = Linked \cup {t}
  <2>1. ToSet(Inserted(rt_timer_list, timeout_tick, t)) = ToSet(rt_timer_list) \cup {t}
    BY <1>2, TimesOfTimers, InsertedProperties
  <2>2. QED BY <1>1, <2>1 DEF Linked
<1>4. \A u \in Tmr : ToGo(u)' = ToGo(u)
  BY <1>1, ToGoIs, ToGoWillBe
<1>5. LateMost + 1 <= ToGo(t) /\ ToGo(t) <= Max(Times)
  BY <1>1 DEF Timely, InWindow
<1>6. \A u \in Linked : LateMost + 1 <= ToGo(u) /\ ToGo(u) <= Max(Times)
  BY <1>1, TimesOfTimers DEF Timely, InWindow
<1>7. InWindow'
  <2>1. \A u \in Linked' :
          /\ ToGo(u)' <= Max(Times)
          /\ ToGo(u)' >= IF checking' THEN LateMost ELSE IF u \in fresh' THEN LateMost + 1 ELSE 1
    BY <1>1, <1>3, <1>4, <1>5, TimesOfTimers DEF Timely, InWindow
  <2>2. \A u \in Tmr : doing'[u] = "insert" => LateMost + 1 <= ToGo(u)' /\ ToGo(u)' <= Max(Times)
    BY <1>1, <1>4 DEF Timely, InWindow, TimersInv, TimersTypeOK
  <2>3. QED BY <2>1, <2>2 DEF InWindow, LateMost, HalfTick
<1>8. InOrder(rt_timer_list, Before(rt_tick, timeout_tick, entered))'
  <2>1. \A u \in ToSet(rt_timer_list) :
          /\ Until(rt_tick, timeout_tick[u]) - Until(rt_tick, timeout_tick[t]) < HalfTick
          /\ Until(rt_tick, timeout_tick[t]) - Until(rt_tick, timeout_tick[u]) <= HalfTick
    BY <1>5, <1>6, TimesOfTimers
  <2>2. InOrder(rt_timer_list, Before(rt_tick, timeout_tick, entered))
    BY DEF Timely
  <2>3. InOrder(Inserted(rt_timer_list, timeout_tick, t),
                Before(rt_tick, timeout_tick, Append(entered, t)))
    BY <2>1, <2>2, TimesOfTimers, InsertedInOrder
  <2>4. QED BY <1>1, <2>3
<1>9. QED BY <1>7, <1>8 DEF Timely

LEMMA TickInTime ==
  ASSUME TimersInv, Timely, SysTick
  PROVE  Timely'
<1>1. /\ checking = FALSE /\ checking' = TRUE /\ rt_tick' = (rt_tick + 1) % TickMod
      /\ StartIsShort
      /\ UNCHANGED <<rt_timer_list, timeout_tick, entered, fresh, doing>>
  BY TimesOfTimers DEF SysTick, history
<1>2. \A u \in Linked : LateMost < ToGo(u) /\ ToGo(u) <= Max(Times)
  <2> SUFFICES ASSUME NEW u \in Linked PROVE LateMost < ToGo(u) /\ ToGo(u) <= Max(Times)
    OBVIOUS
  <2>1. ToGo(u) <= Max(Times) /\ (ToGo(u) >= LateMost + 1 \/ ToGo(u) >= 1)
    BY <1>1, Zenon DEF Timely, InWindow
  <2>2. ToGo(u) \in Int
    BY TimesOfTimers
  <2>3. LateMost \in Int /\ LateMost < 0
    BY TimesOfTimers
  <2>4. QED BY <2>1, <2>2, <2>3
<1>3. \A u \in Tmr : doing[u] = "insert" => LateMost + 1 < ToGo(u) /\ ToGo(u) <= Max(Times)
  BY <1>1, TimesOfTimers DEF StartIsShort, Timely, InWindow
<1>4. \A u \in Tmr : LateMost < ToGo(u) => ToGo(u)' = ToGo(u) - 1
  <2> SUFFICES ASSUME NEW u \in Tmr, LateMost < ToGo(u) PROVE ToGo(u)' = ToGo(u) - 1
    OBVIOUS
  <2>1. /\ rt_tick \in 0 .. TickMod - 1 /\ timeout_tick[u] \in 0 .. TickMod - 1
        /\ Until(rt_tick, timeout_tick[u]) > LateMost
    BY TimesOfTimers
  <2>2. Until((rt_tick + 1) % TickMod, timeout_tick[u]) = Until(rt_tick, timeout_tick[u]) - 1
    BY <2>1, UntilAfterTick
  <2>3. QED BY <1>1, <2>2, ToGoIs, ToGoWillBe
<1>5. Linked' = Linked
  BY <1>1 DEF Linked
<1>6. InWindow'
  <2>1. \A u \in Linked' :
          /\ ToGo(u)' <= Max(Times)
          /\ ToGo(u)' >= IF checking' THEN LateMost ELSE IF u \in fresh' THEN LateMost + 1 ELSE 1
    BY <1>1, <1>2, <1>4, <1>5, TimesOfTimers
  <2>2. \A u \in Tmr : doing'[u] = "insert" => LateMost + 1 <= ToGo(u)' /\ ToGo(u)' <= Max(Times)
    <3> SUFFICES ASSUME NEW u \in Tmr, doing[u] = "insert"
                 PROVE  LateMost + 1 <= ToGo(u)' /\ ToGo(u)' <= Max(Times)
      BY <1>1
    <3>1. LateMost + 1 < ToGo(u) /\ ToGo(u) <= Max(Times)
      BY <1>3
    <3>2. ToGo(u) \in Int /\ LateMost \in Int
      BY TimesOfTimers
    <3>3. ToGo(u)' = ToGo(u) - 1
      BY <1>4, <3>1, <3>2
    <3>4. QED BY <3>1, <3>2, <3>3, TimesOfTimers
  <2>3. QED BY <2>1, <2>2 DEF InWindow, LateMost, HalfTick
<1>7. InOrder(rt_timer_list, Before(rt_tick, timeout_tick, entered))'
  <2>1. \A u \in ToSet(rt_timer_list) : Until(rt_tick, timeout_tick[u]) > LateMost
    BY <1>2, TimesOfTimers
  <2>2. InOrder(rt_timer_list, Before((rt_tick + 1) % TickMod, timeout_tick, entered))
    BY <2>1, TimesOfTimers, TickInOrder DEF Timely
  <2>3. QED BY <1>1, <2>2
<1>8. QED BY <1>6, <1>7 DEF Timely

LEMMA CheckEndsInTime ==
  ASSUME TimersInv, Timely, CheckEnds
  PROVE  Timely'
<1>1. /\ checking = TRUE /\ checking' = FALSE /\ fresh' = {}
      /\ rt_timer_list # << >> => ~TimerDue(Head(rt_timer_list))
      /\ UNCHANGED <<rt_tick, rt_timer_list, timeout_tick, entered, doing>>
  BY TimesOfTimers DEF CheckEnds
<1>2. Linked' = Linked /\ \A u : ToGo(u)' = ToGo(u)
  BY <1>1, ToGoIs, ToGoWillBe DEF Linked
<1>3. \A u \in Linked : ToGo(u) >= 1
  <2> SUFFICES ASSUME NEW u \in Linked PROVE ToGo(u) >= 1
    OBVIOUS
  <2>1. PICK i \in DOMAIN rt_timer_list : u = rt_timer_list[i]
    BY DEF Linked, ToSet
  <2>2. PICK h \in Tmr : h = rt_timer_list[1] /\ h = Head(rt_timer_list) /\ h \in Linked
                         /\ rt_timer_list # << >> /\ 1 \in DOMAIN rt_timer_list
    <3>1. rt_timer_list # << >> /\ 1 \in DOMAIN rt_timer_list /\ Head(rt_timer_list) = rt_timer_list[1]
      BY <2>1, TimesOfTimers
    <3>2. rt_timer_list[1] \in Linked
      BY <3>1 DEF Linked, ToSet
    <3>3. QED BY <3>1, <3>2, TimesOfTimers
  <2>3. ToGo(h) > 0
    <3>1. LateMost <= ToGo(h) /\ ToGo(h) <= Max(Times)
      BY <1>1, <2>2 DEF Timely, InWindow
    <3>2. TimerDue(h) <=> ToGo(h) <= 0
      BY <2>2, <3>1, TimesOfTimers, DueIs
    <3>3. QED BY <1>1, <2>2, <3>2, TimesOfTimers
  <2>4. ToGo(h) <= ToGo(u)
    <3>1. CASE i = 1
      BY <2>1, <2>2, <3>1, TimesOfTimers
    <3>2. CASE i # 1
      <4>1. 1 < i
        BY <2>1, <3>2, TimesOfTimers
      <4>2. <<h, u>> \in Before(rt_tick, timeout_tick, entered)
        BY <2>1, <2>2, <4>1 DEF Timely, InOrder
      <4>3. \/ Until(rt_tick, timeout_tick[h]) < Until(rt_tick, timeout_tick[u])
            \/ Until(rt_tick, timeout_tick[h]) = Until(rt_tick, timeout_tick[u])
        <5>1. u \in Tmr
          BY TimesOfTimers
        <5>2. QED BY <2>2, <4>2, <5>1, BeforeMeans
      <4>4. /\ ToGo(h) = Until(rt_tick, timeout_tick[h]) /\ ToGo(h) \in Int
            /\ ToGo(u) = Until(rt_tick, timeout_tick[u]) /\ ToGo(u) \in Int
        <5>1. h \in Tmr /\ u \in Tmr
          BY TimesOfTimers
        <5>2. QED BY <5>1, TimesOfTimers, ToGoIs
      <4>5. QED BY ONLY <4>3, <4>4
    <3>3. QED BY <3>1, <3>2
  <2>5. QED BY <2>2, <2>3, <2>4, TimesOfTimers
<1>4. InWindow'
  <2>1. \A u \in Linked' :
          /\ ToGo(u)' <= Max(Times)
          /\ ToGo(u)' >= IF checking' THEN LateMost ELSE IF u \in fresh' THEN LateMost + 1 ELSE 1
    BY <1>1, <1>2, <1>3, TimesOfTimers DEF Timely, InWindow
  <2>2. \A u \in Tmr : doing'[u] = "insert" => LateMost + 1 <= ToGo(u)' /\ ToGo(u)' <= Max(Times)
    BY <1>1, <1>2 DEF Timely, InWindow
  <2>3. QED BY <2>1, <2>2 DEF InWindow, LateMost, HalfTick
<1>5. InOrder(rt_timer_list, Before(rt_tick, timeout_tick, entered))'
  BY <1>1 DEF Timely
<1>6. QED BY <1>4, <1>5 DEF Timely

\* A round of rt_timer_check: the timer goes off the list, or behind those that
\* expire when it does next.
LEMMA ExpireKeepsTime ==
  ASSUME TimersInv, Timely, NEW callback \in {"return", "stop", "start"}, Expire(callback)
  PROVE  Timely'
<1>1. PICK t : t = Head(rt_timer_list)
  OBVIOUS
<1>2. /\ checking = TRUE /\ t \in Linked /\ t \in Tmr
      /\ Linked' = IF ExpireLinks(t, callback) THEN Linked ELSE Linked \ {t}
  BY <1>1, ExpireLists, TimesOfTimers DEF Expire
<1>3. PICK next : next = [timeout_tick EXCEPT ![t] = (rt_tick + init_tick[t]) % TickMod]
  OBVIOUS
<1>4. /\ IF ExpireLinks(t, callback)
         THEN /\ timeout_tick' = next
              /\ rt_timer_list' = Inserted(RemoveFirst(rt_timer_list, t), next, t)
              /\ entered' = Append(RemoveFirst(entered, t), t)
         ELSE /\ rt_timer_list' = RemoveFirst(rt_timer_list, t)
              /\ entered' = RemoveFirst(entered, t)
              /\ timeout_tick' = [timeout_tick EXCEPT ![t] = 0]
      /\ fresh' = fresh \ {t}
      /\ UNCHANGED <<rt_tick, init_tick, periodic, doing, checking>>
  BY <1>1, <1>3 DEF Expire, ExpireLinks, ExpireOn
<1>5. doing[t] # "insert"
  BY <1>2 DEF TimersInv, RemovedIsOff
<1>6. CASE ~ExpireLinks(t, callback)
  <2>1. Unlink(t)
    BY <1>4, <1>6 DEF Unlink
  <2>2. \A u \in Tmr : doing'[u] = "insert" => doing[u] = "insert" /\ u # t
    BY <1>4, <1>5
  <2>3. QED BY <1>2, <1>4, <2>1, <2>2, UnlinkInTime
<1>7. CASE ExpireLinks(t, callback)
  <2>1. \A u \in Tmr \ {t} : next[u] = timeout_tick[u] /\ ToGo(u)' = ToGo(u)
    <3>1. \A u \in Tmr \ {t} : next[u] = timeout_tick[u]
      BY <1>3, TimesOfTimers
    <3>2. QED BY <1>4, <1>7, <3>1, ToGoIs, ToGoWillBe
  <2>2. /\ ToGo(t)' = init_tick[t] /\ init_tick[t] \in Times
        /\ Until(rt_tick, next[t]) = init_tick[t] /\ next \in [Tmr -> 0 .. TickMod - 1]
    <3>1. rt_tick \in 0 .. TickMod - 1 /\ init_tick[t] \in Times
      BY <1>2, TimesOfTimers
    <3>2. /\ (rt_tick + init_tick[t]) % TickMod \in 0 .. TickMod - 1
          /\ Until(rt_tick, (rt_tick + init_tick[t]) % TickMod) = init_tick[t]
      BY <3>1, UntilStarted
    <3>3. /\ next[t] = (rt_tick + init_tick[t]) % TickMod
          /\ next \in [Tmr -> 0 .. TickMod - 1]
      BY <1>2, <1>3, <3>2, TimesOfTimers
    <3>4. QED BY <1>4, <1>7, <3>1, <3>2, <3>3, ToGoWillBe
  <2>3. 1 <= init_tick[t] /\ init_tick[t] <= Max(Times) /\ init_tick[t] \in Nat
    BY <2>2, MaxTime
  <2>4. \A u \in Linked : LateMost <= ToGo(u) /\ ToGo(u) <= Max(Times)
    BY <1>2 DEF Timely, InWindow
  <2>5. InWindow'
    <3>1. \A u \in Linked' :
            /\ ToGo(u)' <= Max(Times)
            /\ ToGo(u)' >= IF checking' THEN LateMost ELSE IF u \in fresh' THEN LateMost + 1 ELSE 1
      <4> SUFFICES ASSUME NEW u \in Linked
                   PROVE  ToGo(u)' <= Max(Times) /\ LateMost <= ToGo(u)'
        BY <1>2, <1>4, <1>7
      <4>1. CASE u = t
        BY <2>2, <2>3, <4>1, TimesOfTimers
      <4>2. CASE u # t
        BY <2>1, <2>4, <4>2, TimesOfTimers
      <4>3. QED BY <4>1, <4>2
    <3>2. \A u \in Tmr : doing'[u] = "insert" => LateMost + 1 <= ToGo(u)' /\ ToGo(u)' <= Max(Times)
      BY <1>4, <1>5, <2>1 DEF Timely, InWindow
    <3>3. QED BY <3>1, <3>2 DEF InWindow, LateMost, HalfTick
  <2>6. PICK rest, old : rest = RemoveFirst(rt_timer_list, t) /\ old = RemoveFirst(entered, t)
    OBVIOUS
  <2>7. /\ rest \in Seq(Tmr) /\ ToSet(rest) = Linked \ {t}
        /\ old \in Seq(Tmr) /\ ToSet(old) = Linked \ {t}
    <3>1. IsInjective(entered)
      BY DEF TimersInv, ListsAgree
    <3>2. rest \in Seq(Tmr) /\ ToSet(rest) = ToSet(rt_timer_list) \ {t}
      BY <2>6, TimesOfTimers, RemoveFirstProperties
    <3>3. old \in Seq(Tmr) /\ ToSet(old) = ToSet(entered) \ {t}
      BY <2>6, <3>1, TimesOfTimers, RemoveFirstProperties, ZenonT(60)
    <3>4. QED BY <3>2, <3>3, TimesOfTimers
  <2>8. InOrder(rest, Before(rt_tick, next, old))
    BY <2>1, <2>6, TimesOfTimers, RestInOrder DEF Timely
  <2>9. \A u \in ToSet(rest) :
          /\ Until(rt_tick, next[u]) - Until(rt_tick, next[t]) < HalfTick
          /\ Until(rt_tick, next[t]) - Until(rt_tick, next[u]) <= HalfTick
    <3> SUFFICES ASSUME NEW u \in Linked \ {t}
                 PROVE  /\ Until(rt_tick, next[u]) - init_tick[t] < HalfTick
                        /\ init_tick[t] - Until(rt_tick, next[u]) <= HalfTick
      BY <2>2, <2>7
    <3>1. u \in Tmr \ {t} /\ Until(rt_tick, next[u]) = ToGo(u) /\ ToGo(u) \in Int
      BY <2>1, TimesOfTimers
    <3>2. LateMost <= ToGo(u) /\ ToGo(u) <= Max(Times)
      BY <2>4
    <3>3. QED BY <2>3, <3>1, <3>2, TimesOfTimers
  <2>10. InOrder(Inserted(rest, next, t), Before(rt_tick, next, Append(old, t)))
    BY <1>2, <2>2, <2>7, <2>8, <2>9, TimesOfTimers, InsertedInOrder
  <2>11. InOrder(rt_timer_list, Before(rt_tick, timeout_tick, entered))'
    BY <1>4, <1>7, <2>6, <2>10
  <2>12. QED BY <2>5, <2>11 DEF Timely
<1>8. QED BY <1>6, <1>7

LEMMA TimelyStep == TimersInv /\ Timely /\ [TimersNext]_timer_vars => Timely'
<1> SUFFICES ASSUME TimersInv, Timely, [TimersNext]_timer_vars PROVE Timely'
  OBVIOUS
<1>1. CASE SysTick
  BY <1>1, TickInTime
<1>2. CASE CheckEnds
  BY <1>2, CheckEndsInTime
<1>3. ASSUME NEW callback \in {"return", "stop", "start"}, Expire(callback) PROVE Timely'
  BY <1>3, ExpireKeepsTime
<1>4. ASSUME NEW t \in Tmr, StartRemove(t) \/ StopRemove(t) \/ Detach(t) PROVE Timely'
  <2>1. \A u \in Tmr : doing'[u] = "insert" => doing[u] = "insert" /\ u # t
    BY <1>4 DEF StartRemove, StopRemove, Detach, Goes, At, TimersInv, TimersTypeOK
  <2>2. Unlink(t) /\ UNCHANGED <<rt_tick, checking>>
    BY <1>4 DEF StartRemove, StopRemove, Detach
  <2>3. QED BY <2>1, <2>2, UnlinkInTime
<1>5. ASSUME NEW t \in Tmr, StartCompute(t) PROVE Timely'
  BY <1>5, ComputeInTime
<1>6. ASSUME NEW t \in Tmr, StartInsert(t) PROVE Timely'
  BY <1>6, InsertInTime
<1>7. ASSUME NEW t \in Tmr,
             \/ StopTest(t) \/ StopClear(t) \/ ControlRead(t) \/ ControlWrite(t)
             \/ InitAgain(t) \/ \E time \in Times : SetTime(t, time)
      PROVE  Timely'
  <2>1. UNCHANGED <<rt_tick, rt_timer_list, timeout_tick, entered, fresh, checking>>
    BY <1>7 DEF StopTest, StopClear, ControlRead, ControlWrite, InitAgain, SetTime, history
  <2>2. \A u \in Tmr : doing'[u] = "insert" => doing[u] = "insert"
    BY <1>7 DEF StopTest, StopClear, ControlRead, ControlWrite, InitAgain, SetTime,
                Goes, TimersInv, TimersTypeOK
  <2>3. QED BY <2>1, <2>2, QuietInTime
<1>8. CASE UNCHANGED timer_vars
  BY <1>8, QuietInTime DEF timer_vars, history
<1>9. QED BY <1>1, <1>2, <1>3, <1>4, <1>5, <1>6, <1>7, <1>8 DEF TimersNext

LEMMA TimelyMeansInTime == TimersInv /\ Timely => ExpireInTime
<1> SUFFICES ASSUME TimersInv, Timely PROVE ExpireInTime
  OBVIOUS
<1>1. ASSUME NEW i \in DOMAIN rt_timer_list, NEW j \in DOMAIN rt_timer_list, i < j
      PROVE  \/ ToGo(rt_timer_list[i]) < ToGo(rt_timer_list[j])
             \/ /\ ToGo(rt_timer_list[i]) = ToGo(rt_timer_list[j])
                /\ EnteredBefore(rt_timer_list[i], rt_timer_list[j])
  <2>1. PICK t \in Tmr, u \in Tmr : t = rt_timer_list[i] /\ u = rt_timer_list[j]
    BY TimesOfTimers
  <2>2. <<t, u>> \in Before(rt_tick, timeout_tick, entered)
    BY <1>1, <2>1 DEF Timely, InOrder
  <2>3. \/ Until(rt_tick, timeout_tick[t]) < Until(rt_tick, timeout_tick[u])
        \/ /\ Until(rt_tick, timeout_tick[t]) = Until(rt_tick, timeout_tick[u])
           /\ Earlier(entered, t, u)
    BY <2>2, BeforeMeans
  <2>4. Earlier(entered, t, u) => EnteredBefore(t, u)
    BY DEF Earlier, EnteredBefore
  <2>5. QED BY <2>1, <2>3, <2>4, ToGoIs
<1>2. ExpireInOrder
  BY <1>1, TimesOfTimers DEF ExpireInOrder
<1>3. ~checking => \A t \in Linked \ fresh : ToGo(t) > 0
  <2> SUFFICES ASSUME ~checking, NEW t \in Linked \ fresh PROVE ToGo(t) > 0
    OBVIOUS
  <2>1. ToGo(t) >= 1
    BY DEF Timely, InWindow
  <2>2. ToGo(t) \in Int
    BY TimesOfTimers
  <2>3. QED BY <2>1, <2>2
<1>4. QED BY <1>2, <1>3 DEF ExpireInTime, NoTimerLate

\* Callbacks come in the order of their times and, of two for one tick, in the
\* order in which the timers were inserted (timer.c:354), and none is late: for
\* any delays below half the range of the tick, around its wrap, wherever a
\* thread is interrupted between the critical sections of timer.c.
THEOREM TimersExpireInTime == TimersSpec => []ExpireInTime
<1>1. TimersInit => TimersInv /\ Timely
  BY TimersInitially, TimelyInitially
<1>2. TimersInv /\ Timely /\ [TimersNext]_timer_vars => (TimersInv /\ Timely)'
  BY TimersStep, TimelyStep
<1>3. QED BY <1>1, <1>2, TimelyMeansInTime, PTL DEF TimersSpec

-----------------------------------------------------------------------------
(***************************************************************************)
(* Flash, for any size of its sectors and pages.  The invariant says what  *)
(* is left of a job: up to where it goes on the flash holds what was       *)
(* asked, then erased bytes up to the end of what is programmed in this    *)
(* sector, then what it held before.                                       *)
(***************************************************************************)
\* Facts about division.
LEMMA DivMod ==
  ASSUME NEW x \in Nat, NEW d \in Nat \ {0}
  PROVE  /\ x \div d \in Nat /\ x % d \in 0 .. d - 1
         /\ x = (x \div d) * d + (x % d)
  OBVIOUS

LEMMA Factor ==
  ASSUME NEW d \in Nat \ {0}, NEW p \in Int, NEW q \in Int, p < q
  PROVE  (p + 1) * d <= q * d /\ (p + 1) * d = p * d + d
  OBVIOUS

LEMMA DivModUnique ==
  ASSUME NEW x \in Nat, NEW d \in Nat \ {0}, NEW q \in Nat, NEW r \in 0 .. d - 1,
         x = q * d + r
  PROVE  x \div d = q /\ x % d = r
  OBVIOUS

LEMMA DivBelow ==
  ASSUME NEW x \in Nat, NEW d \in Nat \ {0}, NEW q \in Nat
  PROVE  x \div d < q <=> x < q * d
  OBVIOUS

LEMMA ModOfLess ==
  ASSUME NEW d \in Nat \ {0}, NEW x \in 0 .. d - 1
  PROVE  x % d = x
  OBVIOUS

LEMMA ModShift ==
  ASSUME NEW x \in Nat, NEW d \in Nat \ {0}, NEW i \in Nat, (x % d) + i < d
  PROVE  (x + i) % d = (x % d) + i /\ (x + i) \div d = x \div d
  OBVIOUS

-----------------------------------------------------------------------------
\* What the flash is to hold from the place on where the job goes on.
Ahead ==
  \A a \in Address : a >= job.WriteAddr =>
    Meant[a] = IF a < job.WriteAddr + job.NumByteToWrite
               THEN Given(job.src + (a - job.WriteAddr)) ELSE before[a]

\* The flash is written below lo, erased up to hi and as it was from there on.
WrittenUpTo(lo, hi) ==
  \A a \in Address :
    /\ a < lo => flash[a] = Meant[a]
    /\ lo <= a /\ a < hi => flash[a] = Erased
    /\ a >= hi => flash[a] = before[a]

\* The job goes on in one sector.
JobRuns ==
  /\ job.WriteAddr + job.NumByteToWrite <= Sectors * SectorSize
  /\ job.secremain = Lesser(job.NumByteToWrite, SectorSize - secoff)
  /\ Ahead

\* The bytes that are programmed next.
ToProgram(i) == IF page.whole THEN W25QXX_BUFFER[page.src + i] ELSE Given(page.src + i)

\* The pages that are left of the sector, which is written back whole or where
\* the job says.
PageRuns ==
  /\ page.pageremain =
       Lesser(page.NumByteToWrite, PageSize - (page.WriteAddr % PageSize))
  /\ IF page.whole
     THEN /\ secpos * SectorSize <= page.WriteAddr
          /\ page.WriteAddr + page.NumByteToWrite = (secpos + 1) * SectorSize
          /\ page.src + page.NumByteToWrite <= SectorSize
     ELSE /\ job.WriteAddr <= page.WriteAddr
          /\ page.WriteAddr + page.NumByteToWrite = job.WriteAddr + job.secremain
  /\ \A i \in 0 .. page.NumByteToWrite - 1 : ToProgram(i) = Meant[page.WriteAddr + i]
  /\ WrittenUpTo(page.WriteAddr, page.WriteAddr + page.NumByteToWrite)

WordsOK ==
  /\ job \in [WriteAddr : Address, NumByteToWrite : 0 .. Width - 1,
              secremain : 0 .. SectorSize, src : Nat]
  /\ page \in [WriteAddr : Nat, NumByteToWrite : Nat,
               pageremain : 0 .. PageSize, src : Nat, whole : BOOLEAN]

FlashInv ==
  /\ FlashTypeOK /\ WordsOK
  /\ WrittenAsGiven /\ LossIsLocal
  /\ stage \in {"check", "erase", "program"} => JobRuns
  /\ stage \in {"check", "erase"} => WrittenUpTo(job.WriteAddr, job.WriteAddr)
  /\ stage = "erase" =>
       \A i \in 0 .. SectorSize - 1 : W25QXX_BUFFER[i] = flash[secpos * SectorSize + i]
  /\ stage = "program" => PageRuns

-----------------------------------------------------------------------------
LEMMA FlashSizes ==
  /\ SectorSize \in Nat \ {0} /\ PageSize \in Nat \ {0} /\ Sectors \in Nat \ {0}
  /\ Width \in Nat \ {0} /\ SectorSize % PageSize = 0
  /\ Sectors * SectorSize \in Nat \ {0}
<1>1. /\ SectorSize \in Nat \ {0} /\ PageSize \in Nat \ {0} /\ Sectors \in Nat \ {0}
      /\ Width \in Nat \ {0} /\ SectorSize % PageSize = 0
  BY FlashAssumption
<1>2. QED BY <1>1

\* A sector is an interval of addresses.
LEMMA SectorBounds ==
  ASSUME NEW w \in Address
  PROVE  LET b == SectorOf(w) * SectorSize
         IN  /\ b \in Nat /\ b <= w /\ w < b + SectorSize /\ w % SectorSize = w - b
             /\ b + SectorSize <= Sectors * SectorSize
             /\ (SectorOf(w) + 1) * SectorSize = b + SectorSize
             /\ \A a \in Address :
                  /\ SectorOf(a) < SectorOf(w) <=> a < b
                  /\ SectorOf(a) > SectorOf(w) <=> a >= b + SectorSize
                  /\ SectorOf(a) \in Nat
             /\ SectorOf(w) \in Nat
<1>1. w \in Nat /\ w < Sectors * SectorSize
  BY FlashSizes DEF Address
<1>2. PICK q \in Nat : q = w \div SectorSize
  BY <1>1, FlashSizes, DivMod
<1> DEFINE b == q * SectorSize
<1>3. b \in Nat /\ w % SectorSize \in 0 .. SectorSize - 1
      /\ w = b + (w % SectorSize)
  <2>1. /\ q \in Nat /\ w % SectorSize \in 0 .. SectorSize - 1
        /\ w = q * SectorSize + (w % SectorSize)
    BY <1>1, <1>2, FlashSizes, DivMod
  <2>2. QED BY <2>1, FlashSizes
<1>4. (q + 1) * SectorSize = b + SectorSize
  BY FlashSizes
<1>5. q < Sectors
  BY <1>1, <1>2, FlashSizes, DivBelow
<1>6. b + SectorSize <= Sectors * SectorSize
  <2>1. (q + 1) * SectorSize <= Sectors * SectorSize
    BY <1>5, FlashSizes, Factor
  <2>2. QED BY <1>4, <2>1
<1>7. ASSUME NEW a \in Address
      PROVE  /\ a \div SectorSize < q <=> a < b
             /\ a \div SectorSize > q <=> a >= b + SectorSize
             /\ a \div SectorSize \in Nat
  <2>1. a \in Nat
    BY <1>7, FlashSizes DEF Address
  <2>2. a \div SectorSize < q <=> a < q * SectorSize
    BY <2>1, FlashSizes, DivBelow
  <2>3. PICK n \in Nat : n = q + 1
    OBVIOUS
  <2>4. a \div SectorSize < n <=> a < n * SectorSize
    BY <2>1, <2>3, FlashSizes, DivBelow
  <2>5. n * SectorSize = b + SectorSize /\ q * SectorSize = b
    BY <1>4, <2>3
  <2>6. a \div SectorSize \in Nat
    BY <2>1, FlashSizes, DivMod
  <2>7. QED
    BY ONLY <1>3, <2>1, <2>2, <2>3, <2>4, <2>5, <2>6, FlashSizes
<1>8. w % SectorSize = w - b /\ b <= w /\ w < b + SectorSize
  BY <1>1, <1>3, FlashSizes
<1>9. SectorOf(w) = q /\ \A a \in Address : SectorOf(a) = a \div SectorSize
  BY <1>2 DEF SectorOf
<1>10. QED BY <1>3, <1>4, <1>6, <1>7, <1>8, <1>9

\* A page command whose bytes end in their page touches those bytes.
LEMMA TouchedAre ==
  ASSUME NEW p, p.WriteAddr \in Nat, p.pageremain \in Nat,
         p.pageremain <= PageSize - (p.WriteAddr % PageSize)
  PROVE  /\ DOMAIN Touched(p) = p.WriteAddr .. p.WriteAddr + p.pageremain - 1
         /\ \A a \in p.WriteAddr .. p.WriteAddr + p.pageremain - 1 :
              Touched(p)[a] = a - p.WriteAddr
<1> DEFINE w == p.WriteAddr
           n == p.pageremain
           base == w - (w % PageSize)
           S == {base + ((w + i) % PageSize) : i \in 0 .. n - 1}
<1>1. w % PageSize \in 0 .. PageSize - 1
  BY FlashSizes, DivMod
<1>2. ASSUME NEW i \in 0 .. n - 1 PROVE base + ((w + i) % PageSize) = w + i
  <2>1. i \in Nat /\ (w % PageSize) + i < PageSize
    BY <1>1, FlashSizes
  <2>2. (w + i) % PageSize = (w % PageSize) + i
    BY <2>1, FlashSizes, ModShift, ZenonT(60)
  <2>3. QED BY <1>1, <2>1, <2>2
<1>3. S = w .. w + n - 1
  <2>1. S \subseteq w .. w + n - 1
    BY <1>2
  <2>2. ASSUME NEW a \in w .. w + n - 1 PROVE a \in S
    <3>1. PICK i \in 0 .. n - 1 : a = w + i
      <4>1. a - w \in 0 .. n - 1 /\ a = w + (a - w)
        OBVIOUS
      <4>2. QED BY <4>1
    <3>2. QED BY <1>2, <3>1
  <2>3. QED BY <2>1, <2>2
<1>4. ASSUME NEW a \in w .. w + n - 1 PROVE (a - w) % PageSize = a - w
  <2>1. PICK r \in 0 .. PageSize - 1 : r = a - w
    BY <1>1, FlashSizes
  <2>2. r % PageSize = r
    BY FlashSizes, ModOfLess
  <2>3. QED BY <2>1, <2>2
<1>5. Touched(p) = [a \in S |-> (a - w) % PageSize]
  BY DEF Touched
<1> HIDE DEF S
<1>6. QED BY <1>3, <1>4, <1>5

LEMMA Bytes ==
  /\ Erased \in Byte /\ Garbage \in Byte
  /\ \A a \in Address : Given(a) \in Byte /\ Old(a) \in Byte
  BY FlashSizes DEF Erased, Garbage, Byte, Given, Old, Address

LEMMA MeantIs == FlashTypeOK => Meant \in [Address -> Byte]
  BY DEF FlashTypeOK, Meant

LEMMA FlashInitially == FlashInit => FlashInv
<1> SUFFICES ASSUME FlashInit PROVE FlashInv
  OBVIOUS
<1>1. flash \in [Address -> Byte] /\ before = flash /\ image = flash /\ given = 0
  <2>1. PICK full \in Contents : flash = [a \in Address |-> IF a \in full THEN Old(a) ELSE Erased]
    BY DEF FlashInit
  <2>2. flash \in [Address -> Byte]
    BY <2>1, Bytes
  <2>3. QED BY <2>2 DEF FlashInit
<1>2. W25QXX_BUFFER \in [0 .. SectorSize - 1 -> Byte]
  BY Bytes DEF FlashInit, EmptyBuffer
<1>3. job = NoJob /\ page = NoPage /\ stage = "idle"
  BY DEF FlashInit
<1>4. /\ 0 \in Address /\ 0 \in 0 .. Width - 1 /\ 0 \in 0 .. SectorSize /\ 0 \in 0 .. PageSize
      /\ 0 \in 0 .. Sectors * SectorSize
  BY FlashSizes DEF Address
<1>5. WordsOK
  BY <1>3, <1>4 DEF WordsOK, NoJob, NoPage
<1>6. FlashTypeOK
  BY <1>1, <1>2, <1>3, <1>4 DEF FlashTypeOK, NoJob, NoPage
<1>7. Meant = flash
  BY <1>1 DEF Meant
<1>8. QED
  BY <1>1, <1>3, <1>5, <1>6, <1>7 DEF FlashInv, WrittenAsGiven, LossIsLocal

\* The words have the types that FlashTypeOK asks for.
LEMMA FlashTypes ==
  ASSUME WordsOK, {flash, before, image} \subseteq [Address -> Byte],
         W25QXX_BUFFER \in [0 .. SectorSize - 1 -> Byte],
         stage \in {"idle", "check", "erase", "program", "off"},
         given \in 0 .. Sectors * SectorSize
  PROVE  FlashTypeOK
  BY DEF WordsOK, FlashTypeOK

-----------------------------------------------------------------------------
\* A call: from its first sector on there is nothing but what is to be written,
\* which may be less than what was asked.
LEMMA RequestKeeps ==
  ASSUME FlashInv, NEW addr \in Nat, NEW wanted \in Nat \ {0},
         NEW n \in 0 .. Width - 1, n <= wanted, Request(addr, n, wanted)
  PROVE  FlashInv'
<1>1. /\ stage = "idle" /\ image = before /\ stage' = "check"
      /\ flash = Meant /\ addr + wanted - 1 \in Address
      /\ UNCHANGED <<flash, W25QXX_BUFFER, page, before>>
  BY DEF Request, FlashInv, WrittenAsGiven
<1>2. /\ job' = [WriteAddr |-> addr, NumByteToWrite |-> n, src |-> 0,
                secremain |-> Lesser(n, SectorSize - (addr % SectorSize))]
      /\ image' = [a \in Address |->
                     IF a \in addr .. addr + wanted - 1 THEN Given(a - addr) ELSE flash[a]]
      /\ given' = addr + n
  BY DEF Request
<1>3. /\ addr \in Address /\ addr + wanted <= Sectors * SectorSize
      /\ n \in Nat /\ addr + n <= Sectors * SectorSize
  BY <1>1, FlashSizes DEF Address
<1>4. addr % SectorSize \in 0 .. SectorSize - 1
  BY FlashSizes, DivMod
<1>5. Lesser(n, SectorSize - (addr % SectorSize)) \in 0 .. SectorSize
  BY <1>3, <1>4, FlashSizes DEF Lesser
<1>6. job' \in [WriteAddr : Address, NumByteToWrite : 0 .. Width - 1,
                secremain : 0 .. SectorSize, src : Nat]
  BY <1>2, <1>3, <1>5, FlashSizes
<1>7. WordsOK'
  BY <1>1, <1>6 DEF FlashInv, WordsOK
<1>8. image' \in [Address -> Byte]
  <2>1. \A a \in Address : a \in addr .. addr + wanted - 1 => a - addr \in Address
    BY <1>3, FlashSizes DEF Address
  <2>2. \A a \in Address : flash[a] \in Byte
    BY DEF FlashInv, FlashTypeOK
  <2>3. QED BY <1>2, <2>1, <2>2, Bytes
<1>9. given' \in 0 .. Sectors * SectorSize
  BY <1>2, <1>3
<1>10. FlashTypeOK'
  BY <1>1, <1>7, <1>8, <1>9 DEF FlashInv, FlashTypeOK, WordsOK
<1>11. \A a \in Address : before[a] = flash[a]
  BY <1>1 DEF Meant
<1>12. \A a \in Address :
         Meant'[a] = IF addr <= a /\ a < addr + n THEN Given(a - addr) ELSE flash[a]
  <2> TAKE a \in Address
  <2>1. a \in Nat
    BY FlashSizes DEF Address
  <2>2. Meant'[a] = IF a < addr + n THEN image'[a] ELSE before'[a]
    BY <1>2 DEF Meant
  <2>3. image'[a] = IF a \in addr .. addr + wanted - 1 THEN Given(a - addr) ELSE flash[a]
    BY <1>2
  <2>4. before'[a] = flash[a]
    BY <1>1, <1>11
  <2>5. QED BY <1>3, <2>1, <2>2, <2>3, <2>4
<1>13. JobRuns'
  <2>1. \A a \in Address : a >= addr =>
          Meant'[a] = IF a < addr + n THEN Given(0 + (a - addr)) ELSE before'[a]
    BY <1>1, <1>3, <1>11, <1>12, FlashSizes DEF Address
  <2>2. Ahead'
    BY <1>2, <2>1 DEF Ahead
  <2>3. QED BY <1>2, <1>3, <2>2 DEF JobRuns, secoff
<1>14. WrittenUpTo(addr, addr)'
  BY <1>1, <1>2, <1>3, <1>11, <1>12 DEF WrittenUpTo, Address
<1>15. QED
  BY <1>1, <1>2, <1>7, <1>10, <1>13, <1>14
     DEF FlashInv, WrittenAsGiven, LossIsLocal, WrittenUpTo

\* The length that disk_write passes on is cut to the width of the parameter.
LEMMA DiskWriteKeeps ==
  ASSUME FlashInv, NEW sector \in 0 .. Sectors, NEW count \in 1 .. Sectors,
         disk_write(sector, count)
  PROVE  FlashInv'
<1>0. FirstSector \in Nat
  BY FlashAssumption
<1>1. PICK addr \in Nat : addr = (sector + FirstSector) * SectorSize
  BY <1>0, FlashSizes
<1>2. PICK n \in Nat \ {0} : n = count * SectorSize
  BY FlashSizes
<1>3. Request(addr, n % Width, n)
  BY <1>1, <1>2 DEF disk_write
<1>4. n % Width \in 0 .. Width - 1 /\ n % Width <= n
  <2>1. /\ n \div Width \in Nat /\ n % Width \in 0 .. Width - 1
        /\ n = (n \div Width) * Width + (n % Width)
    BY FlashSizes, DivMod
  <2>2. (n \div Width) * Width \in Nat
    BY <2>1, FlashSizes
  <2>3. QED BY <2>1, <2>2
<1>5. QED BY <1>3, <1>4, RequestKeeps

-----------------------------------------------------------------------------
\* Where the job is, in its sector from b on.
LEMMA JobInSector ==
  ASSUME FlashInv, JobRuns
  PROVE  LET w == job.WriteAddr
             b == secpos * SectorSize
             r == job.secremain
         IN  /\ w \in Nat /\ b \in Nat /\ b <= w /\ w < b + SectorSize /\ secoff = w - b
             /\ b + SectorSize <= Sectors * SectorSize
             /\ (secpos + 1) * SectorSize = b + SectorSize
             /\ r \in Nat /\ r <= job.NumByteToWrite /\ w + r <= b + SectorSize
             /\ r = job.NumByteToWrite \/ w + r = b + SectorSize
             /\ job.NumByteToWrite \in Nat
             /\ \A a \in Address : /\ SectorOf(a) < secpos <=> a < b
                                   /\ SectorOf(a) > secpos <=> a >= b + SectorSize
                                   /\ SectorOf(a) \in Nat
             /\ secpos \in Nat
<1>1. job.WriteAddr \in Address /\ job.NumByteToWrite \in Nat
  BY DEF FlashInv, WordsOK
<1>2. job.WriteAddr \in Nat
  BY <1>1 DEF Address
<1>3. PICK b : b = secpos * SectorSize
  OBVIOUS
<1>4. /\ b \in Nat /\ b <= job.WriteAddr /\ job.WriteAddr < b + SectorSize
      /\ secoff = job.WriteAddr - b
      /\ b + SectorSize <= Sectors * SectorSize
      /\ (secpos + 1) * SectorSize = b + SectorSize
      /\ \A a \in Address : /\ SectorOf(a) < secpos <=> a < b
                            /\ SectorOf(a) > secpos <=> a >= b + SectorSize
                            /\ SectorOf(a) \in Nat
      /\ secpos \in Nat
  BY <1>1, <1>3, SectorBounds DEF secpos, secoff
<1>5. /\ job.secremain \in Nat /\ job.secremain <= job.NumByteToWrite
      /\ job.WriteAddr + job.secremain <= b + SectorSize
      /\ job.secremain = job.NumByteToWrite \/ job.WriteAddr + job.secremain = b + SectorSize
  <2>1. job.secremain = IF job.NumByteToWrite <= SectorSize - secoff
                         THEN job.NumByteToWrite ELSE SectorSize - secoff
    BY DEF JobRuns, Lesser
  <2>2. /\ b \in Nat /\ b <= job.WriteAddr /\ job.WriteAddr < b + SectorSize
        /\ secoff = job.WriteAddr - b /\ SectorSize \in Nat
        /\ job.WriteAddr \in Nat /\ job.NumByteToWrite \in Nat
    BY <1>1, <1>2, <1>4, FlashSizes
  <2>3. QED BY ONLY <2>1, <2>2
<1>6. QED BY <1>1, <1>2, <1>3, <1>4, <1>5

\* The first of the pages from w on, n bytes in all.
LEMMA FirstPageIs ==
  ASSUME NEW src \in Nat, NEW w \in Nat, NEW n \in Nat, NEW whole \in BOOLEAN,
         page' = FirstPage(src, w, n, whole)
  PROVE  /\ page' \in [WriteAddr : Nat, NumByteToWrite : Nat,
                       pageremain : 0 .. PageSize, src : Nat, whole : BOOLEAN]
         /\ page'.WriteAddr = w /\ page'.NumByteToWrite = n /\ page'.src = src
         /\ page'.whole = whole
         /\ page'.pageremain = Lesser(n, PageSize - (w % PageSize))
<1>1. w % PageSize \in 0 .. PageSize - 1
  BY FlashSizes, DivMod
<1>2. Lesser(n, PageSize - (w % PageSize)) \in 0 .. PageSize
  BY <1>1, FlashSizes DEF Lesser
<1>3. page' = [WriteAddr |-> w, NumByteToWrite |-> n, src |-> src, whole |-> whole,
               pageremain |-> Lesser(n, PageSize - (w % PageSize))]
  BY DEF FirstPage
<1>4. QED BY <1>2, <1>3

\* The test for erased bytes: they are programmed at once, or the sector is
\* read.
LEMMA CheckKeeps == FlashInv /\ W25QXX_Check => FlashInv'
<1> SUFFICES ASSUME FlashInv, W25QXX_Check PROVE FlashInv'
  OBVIOUS
<1>1. /\ stage = "check" /\ JobRuns /\ WrittenUpTo(job.WriteAddr, job.WriteAddr)
      /\ UNCHANGED <<flash, job, before, image, given>> /\ Meant' = Meant
  BY DEF FlashInv, W25QXX_Check, Meant
<1> DEFINE w == job.WriteAddr
           r == job.secremain
<1>2. PICK b \in Nat : b = secpos * SectorSize
  BY <1>1, JobInSector
<1>3. /\ w \in Nat /\ b <= w /\ w < b + SectorSize
      /\ b + SectorSize <= Sectors * SectorSize
      /\ r \in Nat /\ w + r <= b + SectorSize /\ r <= job.NumByteToWrite
      /\ job.NumByteToWrite \in Nat
  BY <1>1, <1>2, JobInSector
<1>4. JobRuns'
  BY <1>1 DEF JobRuns, Ahead, secoff
<1>5. /\ flash \in [Address -> Byte] /\ job.src \in Nat /\ WordsOK
      /\ flash' \in [Address -> Byte] /\ before' \in [Address -> Byte]
      /\ image' \in [Address -> Byte] /\ given' \in 0 .. Sectors * SectorSize
      /\ W25QXX_BUFFER \in [0 .. SectorSize - 1 -> Byte]
  BY <1>1 DEF FlashInv, FlashTypeOK, WordsOK
<1>6. CASE \E i \in 0 .. r - 1 : flash[w + i] # Erased
  <2>1. /\ stage' = "erase" /\ page' = page
        /\ W25QXX_BUFFER' = [i \in 0 .. SectorSize - 1 |-> flash[secpos * SectorSize + i]]
    BY <1>6 DEF W25QXX_Check
  <2>2. \A i \in 0 .. SectorSize - 1 : secpos * SectorSize + i \in Address
    BY <1>2, <1>3, FlashSizes DEF Address
  <2>3. W25QXX_BUFFER' \in [0 .. SectorSize - 1 -> Byte]
    BY <1>5, <2>1, <2>2
  <2>4. \A i \in 0 .. SectorSize - 1 : W25QXX_BUFFER'[i] = flash[secpos * SectorSize + i]
    BY <2>1
  <2>5. WordsOK'
    BY <1>1, <1>5, <2>1 DEF WordsOK
  <2>6. FlashTypeOK'
    BY <1>5, <2>1, <2>3, <2>5 DEF FlashTypeOK, WordsOK
  <2>7. WrittenUpTo(w, w)'
    BY <1>1 DEF WrittenUpTo
  <2>8. QED
    BY <1>1, <1>4, <2>1, <2>4, <2>5, <2>6, <2>7
       DEF FlashInv, WrittenAsGiven, LossIsLocal, secpos
<1>7. CASE ~ \E i \in 0 .. r - 1 : flash[w + i] # Erased
  <2>1. /\ stage' = "program" /\ W25QXX_BUFFER' = W25QXX_BUFFER
        /\ page' = FirstPage(job.src, w, r, FALSE)
    BY <1>7 DEF W25QXX_Check
  <2>2. /\ page' \in [WriteAddr : Nat, NumByteToWrite : Nat,
                      pageremain : 0 .. PageSize, src : Nat, whole : BOOLEAN]
        /\ page'.WriteAddr = w /\ page'.NumByteToWrite = r /\ page'.src = job.src
        /\ page'.whole = FALSE
        /\ page'.pageremain = Lesser(r, PageSize - (w % PageSize))
    BY <1>3, <1>5, <2>1, FirstPageIs
  <2>3. WordsOK'
    BY <1>1, <1>5, <2>2 DEF WordsOK
  <2>4. FlashTypeOK'
    BY <1>5, <2>1, <2>3 DEF FlashTypeOK, WordsOK
  <2>5. \A i \in 0 .. r - 1 : Given(job.src + i) = Meant[w + i]
    <3> TAKE i \in 0 .. r - 1
    <3>1. w + i \in Address /\ w + i >= w /\ w + i < w + job.NumByteToWrite
      BY <1>3, FlashSizes DEF Address
    <3>2. Meant[w + i] = Given(job.src + ((w + i) - w))
      BY <1>1, <3>1 DEF JobRuns, Ahead
    <3>3. (w + i) - w = i
      BY <1>3
    <3>4. QED BY <3>2, <3>3
  <2>6. WrittenUpTo(w, w + r)
    <3>1. \A a \in Address : w <= a /\ a < w + r => flash[a] = Erased
      <4> TAKE a \in Address
      <4> SUFFICES ASSUME w <= a, a < w + r PROVE flash[a] = Erased
        OBVIOUS
      <4>1. PICK i \in 0 .. r - 1 : a = w + i
        <5>1. a - w \in 0 .. r - 1 /\ a = w + (a - w)
          BY <1>3, FlashSizes DEF Address
        <5>2. QED BY <5>1
      <4>2. QED BY <1>7, <4>1
    <3>2. \A a \in Address : a >= w + r => flash[a] = before[a]
      BY <1>1, <1>3, FlashSizes DEF WrittenUpTo, Address
    <3>3. QED BY <1>1, <3>1, <3>2 DEF WrittenUpTo
  <2>7. PageRuns'
    <3>1. WrittenUpTo(w, w + r)'
      BY <1>1, <2>6 DEF WrittenUpTo
    <3>2. WrittenUpTo(page.WriteAddr, page.WriteAddr + page.NumByteToWrite)'
      BY <1>1, <2>2, <3>1 DEF WrittenUpTo
    <3>3. \A i \in 0 .. page'.NumByteToWrite - 1 : ToProgram(i)' = Meant'[page'.WriteAddr + i]
      BY <1>1, <2>2, <2>5 DEF ToProgram
    <3>4. QED BY <1>1, <1>3, <2>2, <3>2, <3>3 DEF PageRuns
  <2>8. QED
    BY <1>4, <2>1, <2>3, <2>4, <2>7 DEF FlashInv, WrittenAsGiven, LossIsLocal
<1>8. QED BY <1>6, <1>7

\* Erasing the sector: the buffer then holds what the sector is to hold.
LEMMA EraseKeeps == FlashInv /\ W25QXX_Erase_Sector => FlashInv'
<1> SUFFICES ASSUME FlashInv, W25QXX_Erase_Sector PROVE FlashInv'
  OBVIOUS
<1> DEFINE w == job.WriteAddr
           r == job.secremain
<1>1. /\ stage = "erase" /\ stage' = "program" /\ JobRuns /\ WrittenUpTo(w, w)
      /\ UNCHANGED <<job, before, image, given>> /\ Meant' = Meant
      /\ \A i \in 0 .. SectorSize - 1 : W25QXX_BUFFER[i] = flash[secpos * SectorSize + i]
  BY DEF FlashInv, W25QXX_Erase_Sector, Meant
<1>2. PICK b \in Nat : b = secpos * SectorSize
  BY <1>1, JobInSector
<1>3. /\ w \in Nat /\ b <= w /\ w < b + SectorSize /\ secoff = w - b
      /\ b + SectorSize <= Sectors * SectorSize
      /\ (secpos + 1) * SectorSize = b + SectorSize
      /\ r \in Nat /\ w + r <= b + SectorSize /\ r <= job.NumByteToWrite
      /\ r = job.NumByteToWrite \/ w + r = b + SectorSize
      /\ job.NumByteToWrite \in Nat
  BY <1>1, <1>2, JobInSector
<1>4. \A a \in Address : SectorOf(a) = secpos <=> b <= a /\ a < b + SectorSize
  <2> TAKE a \in Address
  <2>1. /\ SectorOf(a) < secpos <=> a < b
        /\ SectorOf(a) > secpos <=> a >= b + SectorSize
        /\ SectorOf(a) \in Nat /\ secpos \in Nat
    BY <1>1, <1>2, JobInSector
  <2>2. a \in Nat
    BY FlashSizes DEF Address
  <2>3. QED BY <2>1, <2>2, FlashSizes
<1>5. /\ flash' = [a \in Address |-> IF SectorOf(a) = secpos THEN Erased ELSE flash[a]]
      /\ W25QXX_BUFFER' = [i \in 0 .. SectorSize - 1 |->
                             IF i \in secoff .. secoff + r - 1
                             THEN Given(job.src + i - secoff) ELSE W25QXX_BUFFER[i]]
      /\ page' = FirstPage(0, b, SectorSize, TRUE)
  BY <1>2 DEF W25QXX_Erase_Sector
<1>6. /\ flash \in [Address -> Byte] /\ job.src \in Nat /\ WordsOK
      /\ before' \in [Address -> Byte] /\ image \in [Address -> Byte]
      /\ image' \in [Address -> Byte] /\ given' \in 0 .. Sectors * SectorSize
      /\ Meant \in [Address -> Byte]
  BY <1>1, MeantIs DEF FlashInv, FlashTypeOK, WordsOK
<1>7. /\ page' \in [WriteAddr : Nat, NumByteToWrite : Nat,
                    pageremain : 0 .. PageSize, src : Nat, whole : BOOLEAN]
      /\ page'.WriteAddr = b /\ page'.NumByteToWrite = SectorSize /\ page'.src = 0
      /\ page'.whole = TRUE
      /\ page'.pageremain = Lesser(SectorSize, PageSize - (b % PageSize))
  <2>1. 0 \in Nat /\ SectorSize \in Nat \ {0} /\ TRUE \in BOOLEAN
    BY FlashSizes
  <2>2. page' = FirstPage(0, b, SectorSize, TRUE) /\ b \in Nat
    BY <1>5
  <2>3. QED BY ONLY <2>1, <2>2, FirstPageIs
<1>8. \A i \in 0 .. SectorSize - 1 : b + i \in Address /\ W25QXX_BUFFER'[i] = Meant[b + i]
  <2> TAKE i \in 0 .. SectorSize - 1
  <2>1. PICK a \in Address : a = b + i
    BY <1>3, FlashSizes DEF Address
  <2>2. a \in Nat
    BY <2>1, FlashSizes
  <2>3. CASE i \in secoff .. secoff + r - 1
    <3>1. a >= w /\ a < w + job.NumByteToWrite
      BY <1>3, <2>1, <2>3
    <3>2. Meant[a] = Given(job.src + (a - w))
      BY <1>1, <3>1 DEF JobRuns, Ahead
    <3>3. job.src + (a - w) = job.src + i - secoff
      BY <1>3, <1>6, <2>1
    <3>4. QED BY <1>5, <2>1, <2>3, <3>2, <3>3
  <2>4. CASE i \notin secoff .. secoff + r - 1
    <3>1. W25QXX_BUFFER'[i] = flash[a]
      BY <1>1, <1>2, <1>5, <2>1, <2>4
    <3>2. CASE a < w
      BY <1>1, <2>1, <3>1, <3>2 DEF WrittenUpTo
    <3>3. CASE ~(a < w)
      <4>1. a >= w /\ ~(a < w + job.NumByteToWrite)
        BY <1>3, <2>1, <2>2, <2>4, <3>3, FlashSizes
      <4>2. flash[a] = before[a] /\ Meant[a] = before[a]
        BY <1>1, <4>1 DEF WrittenUpTo, JobRuns, Ahead
      <4>3. QED BY <2>1, <3>1, <4>2
    <3>4. QED BY <3>2, <3>3
  <2>5. QED BY <2>3, <2>4
<1>9. W25QXX_BUFFER' \in [0 .. SectorSize - 1 -> Byte]
  BY <1>5, <1>6, <1>8
<1>10. flash' \in [Address -> Byte]
  BY <1>5, <1>6, Bytes
<1>11. WordsOK'
  BY <1>1, <1>6, <1>7 DEF WordsOK
<1>12. FlashTypeOK'
  BY <1>1, <1>6, <1>9, <1>10, <1>11 DEF FlashTypeOK, WordsOK
<1>13. JobRuns'
  BY <1>1 DEF JobRuns, Ahead, secoff
<1>14. WrittenUpTo(b, b + SectorSize)'
  <2>1. \A a \in Address : a < b => flash'[a] = Meant[a]
    BY <1>1, <1>3, <1>4, <1>5, FlashSizes DEF WrittenUpTo, Address
  <2>2. \A a \in Address : b <= a /\ a < b + SectorSize => flash'[a] = Erased
    BY <1>4, <1>5
  <2>3. \A a \in Address : a >= b + SectorSize => flash'[a] = before[a]
    <3> TAKE a \in Address
    <3> SUFFICES ASSUME a >= b + SectorSize PROVE flash'[a] = before[a]
      OBVIOUS
    <3>1. a \in Nat
      BY FlashSizes DEF Address
    <3>2. a >= w /\ SectorOf(a) # secpos
      BY <1>3, <1>4, <3>1, FlashSizes
    <3>3. QED BY <1>1, <1>5, <3>2 DEF WrittenUpTo
  <2>4. QED BY <1>1, <2>1, <2>2, <2>3 DEF WrittenUpTo
<1>15. PageRuns'
  <2>1. WrittenUpTo(page.WriteAddr, page.WriteAddr + page.NumByteToWrite)'
    BY <1>7, <1>14 DEF WrittenUpTo
  <2>2. \A i \in 0 .. page'.NumByteToWrite - 1 : ToProgram(i)' = Meant'[page'.WriteAddr + i]
    <3> TAKE i \in 0 .. page'.NumByteToWrite - 1
    <3>1. i \in 0 .. SectorSize - 1 /\ page'.src + i = i
      BY <1>7, FlashSizes
    <3>2. QED BY <1>1, <1>7, <1>8, <3>1 DEF ToProgram
  <2>3. /\ (secpos * SectorSize)' = b /\ ((secpos + 1) * SectorSize)' = b + SectorSize
    BY <1>1, <1>2, <1>3 DEF secpos
  <2>4. QED BY <1>7, <2>1, <2>2, <2>3, FlashSizes DEF PageRuns
<1>16. QED
  BY <1>1, <1>11, <1>12, <1>13, <1>15 DEF FlashInv, WrittenAsGiven, LossIsLocal

-----------------------------------------------------------------------------
\* The page to program, in the sector of the job.
LEMMA PageInSector ==
  ASSUME FlashInv, stage = "program"
  PROVE  LET lo == page.WriteAddr
             n  == page.pageremain
             hi == page.WriteAddr + page.NumByteToWrite
             b  == secpos * SectorSize
         IN  /\ lo \in Nat /\ n \in Nat /\ n <= page.NumByteToWrite
             /\ page.NumByteToWrite \in Nat /\ page.src \in Nat
             /\ b \in Nat /\ b <= lo /\ hi <= b + SectorSize
             /\ b + SectorSize <= Sectors * SectorSize
             /\ DOMAIN Touched(page) = lo .. lo + n - 1
             /\ \A a \in lo .. lo + n - 1 : Touched(page)[a] = a - lo
<1>1. JobRuns /\ PageRuns /\ WordsOK
  BY DEF FlashInv
<1>2. PICK b \in Nat : b = secpos * SectorSize
  BY <1>1, JobInSector
<1>3. /\ job.WriteAddr \in Nat /\ b <= job.WriteAddr
      /\ b + SectorSize <= Sectors * SectorSize
      /\ (secpos + 1) * SectorSize = b + SectorSize
      /\ job.secremain \in Nat /\ job.WriteAddr + job.secremain <= b + SectorSize
  BY <1>1, <1>2, JobInSector
<1>4. /\ page.WriteAddr \in Nat /\ page.NumByteToWrite \in Nat /\ page.src \in Nat
      /\ page.pageremain \in Nat
  BY <1>1 DEF WordsOK
<1>5. b <= page.WriteAddr /\ page.WriteAddr + page.NumByteToWrite <= b + SectorSize
  BY <1>1, <1>2, <1>3, <1>4, FlashSizes DEF PageRuns
<1>6. page.WriteAddr % PageSize \in 0 .. PageSize - 1
  BY <1>4, FlashSizes, DivMod
<1>7. /\ page.pageremain \in Nat /\ page.pageremain <= page.NumByteToWrite
      /\ page.pageremain <= PageSize - (page.WriteAddr % PageSize)
  BY <1>1, <1>4, <1>6, FlashSizes DEF PageRuns, Lesser
<1>8. /\ DOMAIN Touched(page) = page.WriteAddr .. page.WriteAddr + page.pageremain - 1
      /\ \A a \in page.WriteAddr .. page.WriteAddr + page.pageremain - 1 :
           Touched(page)[a] = a - page.WriteAddr
  BY <1>4, <1>7, TouchedAre
<1>9. QED BY <1>2, <1>3, <1>4, <1>5, <1>7, <1>8

\* Programming the page puts there what the flash is to hold.
LEMMA ProgrammedIs ==
  ASSUME FlashInv, stage = "program"
  PROVE  LET lo == page.WriteAddr
             n  == page.pageremain
         IN  \A a \in Address :
               Programmed(page)[a] = IF lo <= a /\ a < lo + n THEN Meant[a] ELSE flash[a]
<1> DEFINE lo == page.WriteAddr
           n  == page.pageremain
<1>1. /\ lo \in Nat /\ n \in Nat /\ n <= page.NumByteToWrite
      /\ page.NumByteToWrite \in Nat /\ page.src \in Nat
      /\ DOMAIN Touched(page) = lo .. lo + n - 1
      /\ \A a \in lo .. lo + n - 1 : Touched(page)[a] = a - lo
  BY PageInSector
<1>2. PageRuns
  BY DEF FlashInv
<1> SUFFICES ASSUME NEW a \in Address
             PROVE  Programmed(page)[a] =
                      IF lo <= a /\ a < lo + n THEN Meant[a] ELSE flash[a]
  OBVIOUS
<1>3. a \in Nat
  BY FlashSizes DEF Address
<1>4. Programmed(page)[a] =
        IF a \notin DOMAIN Touched(page) THEN flash[a]
        ELSE LET i == page.src + Touched(page)[a]
                 b == IF page.whole THEN W25QXX_BUFFER[i] ELSE Given(i)
             IN  IF flash[a] = Erased THEN b
                 ELSE IF b = Erased THEN flash[a] ELSE Garbage
  BY DEF Programmed
<1>5. CASE a \in lo .. lo + n - 1
  <2>1. Touched(page)[a] = a - lo
    BY <1>1, <1>5
  <2>2. a - lo \in 0 .. page.NumByteToWrite - 1 /\ lo + (a - lo) = a
    BY <1>1, <1>3, <1>5
  <2>3. ToProgram(a - lo) = Meant[a]
    BY <1>2, <2>2 DEF PageRuns
  <2>4. flash[a] = Erased
    BY <1>1, <1>2, <1>3, <1>5 DEF PageRuns, WrittenUpTo
  <2>5. Programmed(page)[a] = ToProgram(a - lo)
    BY <1>1, <1>4, <1>5, <2>1, <2>4 DEF ToProgram
  <2>6. lo <= a /\ a < lo + n
    BY <1>1, <1>3, <1>5
  <2>7. QED BY <2>3, <2>5, <2>6
<1>6. CASE a \notin lo .. lo + n - 1
  <2>1. ~(lo <= a /\ a < lo + n)
    BY <1>1, <1>3, <1>6
  <2>2. Programmed(page)[a] = flash[a]
    BY <1>1, <1>4, <1>6
  <2>3. QED BY <2>1, <2>2
<1>7. QED BY <1>5, <1>6

\* The next page begins at the beginning of a page.
LEMMA NextPageKeeps ==
  ASSUME FlashInv, W25QXX_Write_Page, page.NumByteToWrite # page.pageremain
  PROVE  FlashInv'
<1> DEFINE lo == page.WriteAddr
           n  == page.pageremain
           m  == page.NumByteToWrite
<1>1. /\ stage = "program" /\ JobRuns /\ PageRuns /\ WordsOK
      /\ flash' = Programmed(page) /\ page' = NextPage(page)
      /\ UNCHANGED <<job, stage, W25QXX_BUFFER, before, image, given>> /\ Meant' = Meant
  BY DEF FlashInv, W25QXX_Write_Page, Meant
<1>2. /\ lo \in Nat /\ n \in Nat /\ n <= m /\ m \in Nat /\ page.src \in Nat
  BY <1>1, PageInSector
<1>3. \A a \in Address :
        flash'[a] = IF lo <= a /\ a < lo + n THEN Meant[a] ELSE flash[a]
  BY <1>1, ProgrammedIs
<1>4. /\ flash \in [Address -> Byte] /\ image \in [Address -> Byte]
      /\ before \in [Address -> Byte] /\ W25QXX_BUFFER \in [0 .. SectorSize - 1 -> Byte]
      /\ given \in 0 .. Sectors * SectorSize /\ Meant \in [Address -> Byte]
  BY MeantIs DEF FlashInv, FlashTypeOK
<1>5. flash' \in [Address -> Byte]
  <2>1. flash' = [a \in Address |-> flash'[a]]
    BY <1>1 DEF Programmed
  <2>2. \A a \in Address : flash'[a] \in Byte
    BY <1>3, <1>4
  <2>3. QED BY <2>1, <2>2
<1>6. lo % PageSize \in 0 .. PageSize - 1
  BY <1>2, FlashSizes, DivMod
<1>7. n = PageSize - (lo % PageSize) /\ m - n \in Nat \ {0}
  BY <1>1, <1>2, <1>6, FlashSizes DEF PageRuns, Lesser
<1>8. (lo + n) % PageSize = 0
  <2>1. lo = (lo \div PageSize) * PageSize + (lo % PageSize) /\ lo \div PageSize \in Nat
    BY <1>2, FlashSizes, DivMod
  <2>2. PICK q \in Nat : q = (lo \div PageSize) + 1
    BY <2>1
  <2>3. q * PageSize = (lo \div PageSize) * PageSize + PageSize
    BY <2>1, <2>2, FlashSizes
  <2>4. PICK x \in Nat : x = lo + n
    BY <1>2
  <2>5. (lo \div PageSize) * PageSize \in Nat
    BY <2>1, FlashSizes
  <2>6. x = q * PageSize + 0 /\ 0 \in 0 .. PageSize - 1
    BY <1>2, <1>6, <1>7, <2>1, <2>3, <2>4, <2>5, FlashSizes
  <2>7. x % PageSize = 0
    BY <2>6, FlashSizes, DivModUnique
  <2>8. QED BY <2>4, <2>7
<1>9. /\ page'.WriteAddr = lo + n /\ page'.src = page.src + n
      /\ page'.NumByteToWrite = m - n /\ page'.pageremain = Lesser(m - n, PageSize)
      /\ page'.whole = page.whole
      /\ page' \in [WriteAddr : Nat, NumByteToWrite : Nat,
                    pageremain : 0 .. PageSize, src : Nat, whole : BOOLEAN]
  <2>1. Lesser(m - n, PageSize) \in 0 .. PageSize
    BY <1>7, FlashSizes DEF Lesser
  <2>2. page \in [WriteAddr : Nat, NumByteToWrite : Nat,
                  pageremain : 0 .. PageSize, src : Nat, whole : BOOLEAN]
    BY <1>1 DEF WordsOK
  <2>3. page' = [page EXCEPT !.WriteAddr = lo + n, !.src = page.src + n,
                   !.NumByteToWrite = m - n, !.pageremain = Lesser(m - n, PageSize)]
    BY <1>1 DEF NextPage
  <2>4. lo + n \in Nat /\ page.src + n \in Nat /\ m - n \in Nat
    BY <1>2, <1>7
  <2>5. QED BY <2>1, <2>2, <2>3, <2>4
<1>10. WordsOK'
  BY <1>1, <1>9 DEF WordsOK
<1>11. FlashTypeOK'
  BY <1>1, <1>4, <1>5, <1>10 DEF FlashTypeOK, WordsOK
<1>12. JobRuns'
  BY <1>1 DEF JobRuns, Ahead, secoff
<1>13. PageRuns'
  <2>1. page'.pageremain =
          Lesser(page'.NumByteToWrite, PageSize - (page'.WriteAddr % PageSize))
    BY <1>8, <1>9, FlashSizes
  <2>2. lo + n + (m - n) = lo + m /\ page.src + n + (m - n) = page.src + m
    BY <1>2
  <2>3. IF page'.whole
        THEN /\ (secpos * SectorSize)' <= page'.WriteAddr
             /\ page'.WriteAddr + page'.NumByteToWrite = ((secpos + 1) * SectorSize)'
             /\ page'.src + page'.NumByteToWrite <= SectorSize
        ELSE /\ job'.WriteAddr <= page'.WriteAddr
             /\ page'.WriteAddr + page'.NumByteToWrite = job'.WriteAddr + job'.secremain
    <3>1. PICK b \in Nat : b = secpos * SectorSize
      BY <1>1, JobInSector
    <3>2. job.WriteAddr \in Nat
      BY <1>1, JobInSector
    <3>3. secpos' = secpos
      BY <1>1 DEF secpos
    <3>4. CASE page.whole
      BY <1>1, <1>2, <1>9, <2>2, <3>1, <3>3, <3>4 DEF PageRuns
    <3>5. CASE ~page.whole
      BY <1>1, <1>2, <1>9, <2>2, <3>2, <3>5 DEF PageRuns
    <3>6. QED BY <3>4, <3>5
  <2>4. \A i \in 0 .. page'.NumByteToWrite - 1 : ToProgram(i)' = Meant'[page'.WriteAddr + i]
    <3> TAKE i \in 0 .. page'.NumByteToWrite - 1
    <3>1. PICK j \in 0 .. m - 1 : j = n + i
      BY <1>2, <1>7, <1>9
    <3>2. ToProgram(j) = Meant[lo + j]
      BY <1>1 DEF PageRuns
    <3>3. page.src + j = page'.src + i /\ lo + j = page'.WriteAddr + i
      BY <1>2, <1>9, <3>1
    <3>4. QED BY <1>1, <1>9, <3>2, <3>3 DEF ToProgram
  <2>5. WrittenUpTo(lo, lo + m)
    BY <1>1 DEF PageRuns
  <2>6. \A a \in Address :
          /\ a < lo + n => flash'[a] = Meant[a]
          /\ lo + n <= a /\ a < lo + m => flash'[a] = Erased
          /\ a >= lo + m => flash'[a] = before[a]
    <3> TAKE a \in Address
    <3>1. a \in Nat
      BY FlashSizes DEF Address
    <3>2. /\ a < lo => flash[a] = Meant[a]
          /\ lo <= a /\ a < lo + m => flash[a] = Erased
          /\ a >= lo + m => flash[a] = before[a]
      BY <2>5 DEF WrittenUpTo
    <3>3. flash'[a] = IF lo <= a /\ a < lo + n THEN Meant[a] ELSE flash[a]
      BY <1>3
    <3>4. QED BY <1>2, <3>1, <3>2, <3>3
  <2>7. WrittenUpTo(page.WriteAddr, page.WriteAddr + page.NumByteToWrite)'
    BY <1>1, <1>9, <2>2, <2>6 DEF WrittenUpTo
  <2>8. QED BY <2>1, <2>3, <2>4, <2>7 DEF PageRuns
<1>14. QED
  BY <1>1, <1>10, <1>11, <1>12, <1>13 DEF FlashInv, WrittenAsGiven, LossIsLocal

\* The last page of a sector: the job goes on at the beginning of the next
\* sector, or the flash holds what was asked.
LEMMA LastPageKeeps ==
  ASSUME FlashInv, W25QXX_Write_Page, page.NumByteToWrite = page.pageremain
  PROVE  FlashInv'
<1> DEFINE w == job.WriteAddr
           r == job.secremain
           m == job.NumByteToWrite
           lo == page.WriteAddr
           hi == page.WriteAddr + page.NumByteToWrite
<1>1. /\ stage = "program" /\ JobRuns /\ PageRuns /\ WordsOK
      /\ flash' = Programmed(page) /\ page' = NoPage /\ W25QXX_BUFFER' = EmptyBuffer
      /\ UNCHANGED <<before, image, given>> /\ Meant' = Meant
  BY DEF FlashInv, W25QXX_Write_Page, Meant
<1>2. PICK b \in Nat : b = secpos * SectorSize
  BY <1>1, JobInSector
<1>3. /\ w \in Nat /\ b <= w /\ (secpos + 1) * SectorSize = b + SectorSize
      /\ r \in Nat /\ r <= m /\ w + r <= b + SectorSize
      /\ r = m \/ w + r = b + SectorSize
      /\ m \in Nat /\ b + SectorSize <= Sectors * SectorSize
  BY <1>1, <1>2, JobInSector
<1>4. lo \in Nat /\ hi \in Nat /\ hi <= b + SectorSize
  BY <1>1, <1>2, PageInSector
<1>5. hi >= w + r
  BY <1>1, <1>3, <1>4 DEF PageRuns
<1>6. \A a \in Address : /\ a < hi => flash'[a] = Meant[a]
                         /\ a >= hi => flash'[a] = before[a]
  <2> TAKE a \in Address
  <2>1. a \in Nat
    BY FlashSizes DEF Address
  <2>2. flash'[a] = IF lo <= a /\ a < hi THEN Meant[a] ELSE flash[a]
    BY <1>1, ProgrammedIs
  <2>3. /\ a < lo => flash[a] = Meant[a]
        /\ a >= hi => flash[a] = before[a]
    BY <1>1 DEF PageRuns, WrittenUpTo
  <2>4. QED BY <1>4, <2>1, <2>2, <2>3
<1>7. /\ flash \in [Address -> Byte] /\ image \in [Address -> Byte]
      /\ before \in [Address -> Byte] /\ given \in 0 .. Sectors * SectorSize
      /\ Meant \in [Address -> Byte]
  BY MeantIs DEF FlashInv, FlashTypeOK
<1>8. flash' \in [Address -> Byte] /\ flash' = [a \in Address |-> flash'[a]]
  <2>1. flash' = [a \in Address |-> flash'[a]]
    BY <1>1 DEF Programmed
  <2>2. \A a \in Address : flash'[a] \in Byte
    <3> TAKE a \in Address
    <3>1. flash'[a] = Meant[a] \/ flash'[a] = flash[a]
      BY <1>1, ProgrammedIs
    <3>2. QED BY <1>7, <3>1
  <2>3. QED BY <2>1, <2>2
<1>9. W25QXX_BUFFER' \in [0 .. SectorSize - 1 -> Byte]
  BY <1>1, Bytes DEF EmptyBuffer
<1>10. page' \in [WriteAddr : Nat, NumByteToWrite : Nat,
                  pageremain : 0 .. PageSize, src : Nat, whole : BOOLEAN]
  BY <1>1, FlashSizes DEF NoPage
<1>11. CASE m # r
  <2>1. job' = NextSector(job) /\ stage' = "check"
    BY <1>1, <1>11 DEF W25QXX_Write_Page
  <2>2. w + r = b + SectorSize /\ hi = w + r /\ m - r \in Nat \ {0}
    BY <1>3, <1>4, <1>5, <1>11
  <2>3. w + m <= Sectors * SectorSize
    BY <1>1 DEF JobRuns
  <2>4. w + r \in Address
    <3>1. PICK S \in Nat : S = Sectors * SectorSize
      BY FlashSizes
    <3>2. w \in Nat /\ r \in Nat /\ m \in Nat
      BY <1>3
    <3>3. m - r \in Nat \ {0}
      BY <2>2
    <3>4. w + m <= S
      BY <2>3, <3>1
    <3>5. w + r \in 0 .. S - 1
      BY ONLY <3>1, <3>2, <3>3, <3>4
    <3>6. QED BY <3>1, <3>5 DEF Address
  <2>5. /\ job \in [WriteAddr : Address, NumByteToWrite : 0 .. Width - 1,
                    secremain : 0 .. SectorSize, src : Nat]
        /\ job.src \in Nat /\ m \in 0 .. Width - 1
    BY <1>1 DEF WordsOK
  <2>6. Lesser(m - r, SectorSize) \in 0 .. SectorSize
    BY <2>2, FlashSizes DEF Lesser
  <2>7. m - r \in 0 .. Width - 1 /\ job.src + r \in Nat
    BY <1>3, <2>2, <2>5, FlashSizes
  <2>8. job' = [job EXCEPT !.WriteAddr = w + r, !.src = job.src + r,
                  !.NumByteToWrite = m - r, !.secremain = Lesser(m - r, SectorSize)]
    BY <2>1 DEF NextSector
  <2>9. /\ job' \in [WriteAddr : Address, NumByteToWrite : 0 .. Width - 1,
                     secremain : 0 .. SectorSize, src : Nat]
        /\ job'.WriteAddr = w + r /\ job'.src = job.src + r
        /\ job'.NumByteToWrite = m - r /\ job'.secremain = Lesser(m - r, SectorSize)
    BY <2>4, <2>5, <2>6, <2>7, <2>8
  <2>10. WordsOK'
    BY <1>10, <2>9 DEF WordsOK
  <2>11. FlashTypeOK'
    BY <1>1, <1>7, <1>8, <1>9, <2>1, <2>10 DEF FlashTypeOK, WordsOK
  <2>12. (w + r) % SectorSize = 0
    <3>1. secpos \in Nat
      BY <1>1, JobInSector
    <3>2. PICK q \in Nat : q = secpos + 1
      BY <3>1
    <3>3. PICK x \in Nat : x = w + r
      BY <1>3
    <3>4. x = q * SectorSize + 0 /\ 0 \in 0 .. SectorSize - 1
      BY <1>3, <2>2, <3>2, <3>3, FlashSizes
    <3>5. x % SectorSize = 0
      BY <3>4, FlashSizes, DivModUnique
    <3>6. QED BY <3>3, <3>5
  <2>13. JobRuns'
    <3>1. job'.secremain = Lesser(job'.NumByteToWrite, SectorSize - secoff')
      BY <2>9, <2>12, FlashSizes DEF secoff
    <3>2. \A a \in Address : a >= w + r =>
            Meant[a] = IF a < w + r + (m - r)
                       THEN Given(job.src + r + (a - (w + r))) ELSE before[a]
      <4> TAKE a \in Address
      <4> SUFFICES ASSUME a >= w + r
                   PROVE  Meant[a] = IF a < w + r + (m - r)
                                     THEN Given(job.src + r + (a - (w + r)))
                                     ELSE before[a]
        OBVIOUS
      <4>1. a \in Nat
        BY FlashSizes DEF Address
      <4>2. a >= w /\ w + r + (m - r) = w + m
        BY <1>3, <4>1
      <4>3. Meant[a] = IF a < w + m THEN Given(job.src + (a - w)) ELSE before[a]
        BY <1>1, <4>2 DEF JobRuns, Ahead
      <4>4. job.src + r + (a - (w + r)) = job.src + (a - w)
        BY <1>3, <2>5, <4>1
      <4>5. QED BY <4>2, <4>3, <4>4
    <3>3. Ahead'
      BY <1>1, <2>9, <3>2 DEF Ahead
    <3>4. w + r + (m - r) <= Sectors * SectorSize
      BY <1>3, <2>3
    <3>5. QED BY <2>2, <2>9, <3>1, <3>3, <3>4 DEF JobRuns
  <2>14. WrittenUpTo(job.WriteAddr, job.WriteAddr)'
    BY <1>1, <1>4, <1>6, <2>2, <2>9, FlashSizes DEF WrittenUpTo, Address
  <2>15. QED
    BY <2>1, <2>10, <2>11, <2>13, <2>14 DEF FlashInv, WrittenAsGiven, LossIsLocal
<1>12. CASE m = r
  <2>1. job' = NoJob /\ stage' = "idle"
    BY <1>1, <1>12 DEF W25QXX_Write_Page
  <2>2. job' \in [WriteAddr : Address, NumByteToWrite : 0 .. Width - 1,
                  secremain : 0 .. SectorSize, src : Nat]
    <3>1. 0 \in Address /\ 0 \in 0 .. Width - 1 /\ 0 \in 0 .. SectorSize
      BY FlashSizes DEF Address
    <3>2. QED BY <2>1, <3>1 DEF NoJob
  <2>3. WordsOK'
    BY <1>10, <2>2 DEF WordsOK
  <2>4. FlashTypeOK'
    BY <1>1, <1>7, <1>8, <1>9, <2>1, <2>3 DEF FlashTypeOK, WordsOK
  <2>5. \A a \in Address : flash'[a] = Meant[a]
    <3> TAKE a \in Address
    <3>1. a \in Nat
      BY FlashSizes DEF Address
    <3>2. CASE a < hi
      BY <1>6, <3>2
    <3>3. CASE ~(a < hi)
      <4>1. a >= hi /\ a >= w /\ ~(a < w + m)
        BY <1>3, <1>4, <1>5, <1>12, <3>1, <3>3
      <4>2. flash'[a] = before[a] /\ Meant[a] = before[a]
        BY <1>1, <1>6, <4>1 DEF JobRuns, Ahead
      <4>3. QED BY <4>2
    <3>4. QED BY <3>2, <3>3
  <2>6. flash' = Meant'
    BY <1>1, <1>7, <1>8, <2>5
  <2>7. QED
    BY <2>1, <2>3, <2>4, <2>6 DEF FlashInv, WrittenAsGiven, LossIsLocal
<1>13. QED BY <1>11, <1>12

\* What a command leaves half done when the power fails lies in the sector of
\* the job; before it all is written, after it nothing is touched.
LEMMA PowerFailsKeeps == FlashInv /\ PowerFails => FlashInv'
<1> SUFFICES ASSUME FlashInv, PowerFails PROVE FlashInv'
  OBVIOUS
<1> DEFINE half == CASE stage = "check"   -> {}
                     [] stage = "erase"   -> {a \in Address : SectorOf(a) = secpos}
                     [] stage = "program" -> DOMAIN Touched(page)
<1>1. /\ stage \in {"check", "erase", "program"} /\ stage' = "off"
      /\ UNCHANGED <<W25QXX_BUFFER, job, page, before, image, given>> /\ Meant' = Meant
      /\ \/ UNCHANGED flash
         \/ flash' = [a \in Address |-> IF a \in half THEN Garbage ELSE flash[a]]
  BY DEF PowerFails, Meant
<1>2. JobRuns /\ WordsOK /\ FlashTypeOK
  BY <1>1 DEF FlashInv
<1>3. PICK b \in Nat : b = secpos * SectorSize
  BY <1>2, JobInSector
<1>4. /\ job.WriteAddr \in Nat /\ b <= job.WriteAddr
      /\ job.WriteAddr < b + SectorSize
  BY <1>2, <1>3, JobInSector
<1>5. \A a \in Address : /\ SectorOf(a) < secpos <=> a < b
                         /\ SectorOf(a) > secpos <=> a >= b + SectorSize
                         /\ SectorOf(a) \in Nat /\ secpos \in Nat
  BY <1>2, <1>3, JobInSector
<1>6. \A a \in Address : a \in half => ~(SectorOf(a) < secpos) /\ ~(SectorOf(a) > secpos)
  <2> TAKE a \in Address
  <2>1. CASE stage = "check"
    BY <2>1
  <2>2. CASE stage = "erase"
    <3>1. a \in half => SectorOf(a) = secpos
      BY <2>2
    <3>2. SectorOf(a) \in Nat /\ secpos \in Nat
      BY <1>5
    <3> HIDE DEF half
    <3>3. QED BY <3>1, <3>2
  <2>3. CASE stage = "program"
    <3>1. /\ page.WriteAddr \in Nat /\ b <= page.WriteAddr
          /\ page.pageremain \in Nat /\ page.pageremain <= page.NumByteToWrite
          /\ page.NumByteToWrite \in Nat
          /\ page.WriteAddr + page.NumByteToWrite <= b + SectorSize
          /\ DOMAIN Touched(page) = page.WriteAddr .. page.WriteAddr + page.pageremain - 1
      BY <1>3, <2>3, PageInSector
    <3>2. half = DOMAIN Touched(page)
      BY <2>3
    <3> HIDE DEF half
    <3>3. a \in half => b <= a /\ a < b + SectorSize
      BY <3>1, <3>2, FlashSizes
    <3>4. QED BY <1>5, <3>3, FlashSizes DEF Address
  <2>4. QED BY <1>1, <2>1, <2>2, <2>3
<1> HIDE DEF half
<1>7. \A a \in Address : /\ a < b => flash[a] = Meant[a]
                         /\ a >= b + SectorSize => flash[a] = before[a]
  <2> TAKE a \in Address
  <2>1. a \in Nat
    BY FlashSizes DEF Address
  <2>2. CASE stage \in {"check", "erase"}
    <3>1. WrittenUpTo(job.WriteAddr, job.WriteAddr)
      BY <2>2 DEF FlashInv
    <3>2. /\ a < job.WriteAddr => flash[a] = Meant[a]
          /\ a >= job.WriteAddr => flash[a] = before[a]
      BY <3>1 DEF WrittenUpTo
    <3>3. QED BY <1>4, <2>1, <3>2, FlashSizes
  <2>3. CASE stage = "program"
    <3>1. WrittenUpTo(page.WriteAddr, page.WriteAddr + page.NumByteToWrite)
      BY <2>3 DEF FlashInv, PageRuns
    <3>2. /\ page.WriteAddr \in Nat /\ b <= page.WriteAddr
          /\ page.NumByteToWrite \in Nat
          /\ page.WriteAddr + page.NumByteToWrite <= b + SectorSize
      BY <1>3, <2>3, PageInSector
    <3>3. /\ a < page.WriteAddr => flash[a] = Meant[a]
          /\ a >= page.WriteAddr + page.NumByteToWrite => flash[a] = before[a]
      BY <3>1 DEF WrittenUpTo
    <3>4. QED BY <2>1, <3>2, <3>3, FlashSizes
  <2>4. QED BY <1>1, <2>2, <2>3
<1>8. LossIsLocal'
  <2>1. secpos' = secpos
    BY <1>1 DEF secpos
  <2>2. \A a \in Address : /\ SectorOf(a) < secpos => flash'[a] = Meant[a]
                           /\ SectorOf(a) > secpos => flash'[a] = before[a]
    <3> TAKE a \in Address
    <3>1. a \notin half => flash'[a] = flash[a]
      BY <1>1
    <3>2. QED BY <1>5, <1>6, <1>7, <3>1
  <2>3. QED BY <1>1, <2>1, <2>2 DEF LossIsLocal, SectorOf
<1>9. flash' \in [Address -> Byte]
  BY <1>1, <1>2, Bytes DEF FlashTypeOK
<1>10. WordsOK' /\ FlashTypeOK'
  BY <1>1, <1>2, <1>9 DEF WordsOK, FlashTypeOK
<1>11. QED BY <1>1, <1>8, <1>10 DEF FlashInv, WrittenAsGiven

LEMMA FlashSilent == FlashInv /\ UNCHANGED flash_vars => FlashInv'
<1> SUFFICES ASSUME FlashInv, UNCHANGED flash_vars PROVE FlashInv'
  OBVIOUS
<1>1. /\ UNCHANGED <<flash, W25QXX_BUFFER, job, page, stage, before, image, given>>
      /\ Meant' = Meant
  BY DEF flash_vars, Meant
<1>2. FlashTypeOK' /\ WordsOK' /\ WrittenAsGiven' /\ LossIsLocal'
  BY <1>1 DEF FlashInv, FlashTypeOK, WordsOK, WrittenAsGiven, LossIsLocal, secpos
<1>3. JobRuns = JobRuns' /\ PageRuns = PageRuns'
  <2>1. \A i \in 0 .. page.NumByteToWrite - 1 : ToProgram(i)' = ToProgram(i)
    BY <1>1 DEF ToProgram
  <2>2. WrittenUpTo(page.WriteAddr, page.WriteAddr + page.NumByteToWrite)'
          = WrittenUpTo(page.WriteAddr, page.WriteAddr + page.NumByteToWrite)
    BY <1>1 DEF WrittenUpTo
  <2>3. JobRuns = JobRuns'
    BY <1>1 DEF JobRuns, Ahead, secoff
  <2>4. PageRuns = PageRuns'
    BY <1>1, <2>1, <2>2 DEF PageRuns, secpos
  <2>5. QED BY <2>3, <2>4
<1>4. WrittenUpTo(job.WriteAddr, job.WriteAddr)' = WrittenUpTo(job.WriteAddr, job.WriteAddr)
  BY <1>1 DEF WrittenUpTo
<1>5. secpos' = secpos
  BY <1>1 DEF secpos
<1>6. QED BY <1>1, <1>2, <1>3, <1>4, <1>5 DEF FlashInv

LEMMA FlashStep == FlashInv /\ [FlashNext]_flash_vars => FlashInv'
<1> SUFFICES ASSUME FlashInv, [FlashNext]_flash_vars PROVE FlashInv'
  OBVIOUS
<1>1. ASSUME NEW addr \in Address, NEW n \in Address, W25QXX_Write(addr, n + 1)
      PROVE  FlashInv'
  <2>1. addr \in Nat /\ n + 1 \in 1 .. Width - 1
    BY <1>1, FlashSizes DEF Address, W25QXX_Write
  <2>2. PICK k \in 1 .. Width - 1 : k = n + 1
    BY <2>1
  <2>3. Request(addr, k, k)
    BY <1>1, <2>2 DEF W25QXX_Write
  <2>4. k \in Nat \ {0} /\ k \in 0 .. Width - 1 /\ k <= k
    BY <2>2, FlashSizes
  <2>5. QED BY <2>1, <2>3, <2>4, RequestKeeps
<1>2. CASE W25QXX_Write_Page
  BY <1>2, NextPageKeeps, LastPageKeeps
<1>3. CASE UNCHANGED flash_vars
  BY <1>3, FlashSilent
<1>4. CASE FlashRests
  BY <1>3, <1>4 DEF FlashRests
<1>5. QED
  BY <1>1, <1>2, <1>3, <1>4, DiskWriteKeeps, CheckKeeps, EraseKeeps, PowerFailsKeeps
     DEF FlashNext

-----------------------------------------------------------------------------
(***************************************************************************)
(* The parts side by side: each keeps its own invariant, the one that runs *)
(* by its steps and the others by doing nothing.                           *)
(***************************************************************************)
BoardInv ==
  /\ HeapInv /\ UsedCounted /\ TimersInv /\ SwitchInv /\ FlashInv /\ UsartInv
  /\ part \in Parts

LEMMA BoardInitially == Init => BoardInv
<1> SUFFICES ASSUME Init PROVE BoardInv
  OBVIOUS
<1>1. HeapInit /\ TimersInit /\ SwitchInit /\ FlashInit /\ UsartInit /\ part \in Parts
  BY DEF Init
<1>2. HeapInv /\ UsedCounted
  BY <1>1, HeapInitially, CountInitially
<1>3. TimersInv /\ SwitchInv
  BY <1>1, TimersInitially, SwitchInitially
<1>4. FlashInv /\ UsartInv
  BY <1>1, FlashInitially, UsartInitially
<1>5. QED BY <1>1, <1>2, <1>3, <1>4 DEF BoardInv

LEMMA PartsStep ==
  ASSUME [Next]_vars
  PROVE  /\ [HeapNext]_heap_vars /\ [TimersNext]_timer_vars /\ [SwitchNext]_switch_vars
         /\ [FlashNext]_flash_vars /\ [UsartNext]_usart_vars /\ part' = part
  BY DEF Next, vars

LEMMA BoardStep == BoardInv /\ [Next]_vars => BoardInv'
  BY PartsStep, HeapInductive, CountInductive, TimersStep, SwitchStep, FlashStep,
     UsartInductive DEF BoardInv

LEMMA BoardAlways == Spec => []BoardInv
  BY BoardInitially, BoardStep, PTL DEF Spec

\* All the parts keep their types, for any value of their constants.
THEOREM BoardTypeCorrect == Spec => []TypeOK
<1>1. BoardInv => HeapTypeOK
  BY HeapTypes DEF BoardInv
<1>2. BoardInv => TimersTypeOK /\ SwitchTypeOK /\ FlashTypeOK /\ UsartTypeOK /\ part \in Parts
  BY DEF BoardInv, TimersInv, SwitchInv, FlashInv, UsartInv
<1>3. BoardInv => TypeOK
  BY <1>1, <1>2 DEF TypeOK
<1>4. QED BY <1>3, BoardAlways, PTL

\* For a flash, sectors, pages and a length of any size: a write leaves the
\* bytes W25QXX_Write was given where they were to go and every other byte as
\* it was, wherever it starts and ends and whichever bytes the flash held.  Of
\* a disk_write that is longer than its 16-bit length (diskio.c:98) those are
\* the bytes up to the cut length, none of 16 sectors.
THEOREM FlashHoldsWhatWasGiven == Spec => []WrittenAsGiven
<1>1. BoardInv => WrittenAsGiven
  BY DEF BoardInv, FlashInv
<1>2. QED BY <1>1, BoardAlways, PTL

\* For a flash, sectors and pages of any size: a power failure at any command
\* of a write harms only the sector under way.
THEOREM PowerFailureIsLocal == Spec => []LossIsLocal
<1>1. BoardInv => LossIsLocal
  BY DEF BoardInv, FlashInv
<1>2. QED BY <1>1, BoardAlways, PTL
=============================================================================
