---------------------------- MODULE BlockProofs ----------------------------
(***************************************************************************)
(* Theorems about the blocks of the message queue and of the memory pool:  *)
(* each is in one place, what is copied stays what it was, the message     *)
(* queue implements MessageChannel, and the state stays consistent.        *)
(*                                                                         *)
(* BInv, the invariant they rest on besides SInv of ServicesProofs, says   *)
(* which blocks each list of the queue and of the pool leads through, and  *)
(* what the threads that copy hold.                                        *)
(***************************************************************************)
EXTENDS ServicesProofs


-----------------------------------------------------------------------------
(***************************************************************************)
(* Chains of blocks: what Chain computes by recursion is the one sequence  *)
(* of blocks that the pointers lead through.                               *)
(***************************************************************************)
\* From b on the pointers p of the blocks S lead through s, to the end.
Leads(p, S, b, s) ==
  /\ s \in Seq(S) /\ IsInjective(s) /\ b = First(s)
  /\ \A i \in 1 .. Len(s) : p[s[i]] = IF i = Len(s) THEN NULL ELSE s[i + 1]

\* The first n blocks of s have been visited.
Visited(s, n) ==
  IF n < Len(s) THEN [seq |-> SubSeq(s, 1, n), at |-> s[n + 1]]
  ELSE [seq |-> s, at |-> NULL]

\* One step of the walk that Chain describes.
Walk(p, r) ==
  IF r.at \notin DOMAIN p THEN r
  ELSE [seq |-> Append(r.seq, r.at), at |-> p[r.at]]

\* f holds the first c steps of the walk from b on.
AreWalks(f, c, p, b) ==
  f = [n \in 0 .. c |-> IF n = 0 THEN [seq |-> << >>, at |-> b] ELSE Walk(p, f[n - 1])]

LEMMA VisitFirst ==
  ASSUME NEW S, NEW p, NEW b, NEW s, Leads(p, S, b, s)
  PROVE  Visited(s, 0) = [seq |-> << >>, at |-> b]
<1>1. s \in Seq(S) /\ b = First(s) /\ Len(s) \in Nat
  BY DEF Leads
<1>2. CASE s = << >>
  BY <1>1, <1>2 DEF Visited, First
<1>3. CASE s # << >>
  <2>1. 0 < Len(s) /\ Head(s) = s[1] /\ b = s[1]
    BY <1>1, <1>3 DEF First
  <2>2. SubSeq(s, 1, 0) = << >>
    BY SubSeqEmpty
  <2>3. QED BY <2>1, <2>2 DEF Visited
<1>4. QED BY <1>2, <1>3

LEMMA VisitNext ==
  ASSUME NEW S, NULL \notin S, NEW p, DOMAIN p = S, NEW b, NEW s, Leads(p, S, b, s),
         NEW n \in Nat
  PROVE  Walk(p, Visited(s, n)) = Visited(s, n + 1)
<1>1. s \in Seq(S) /\ Len(s) \in Nat
      /\ \A i \in 1 .. Len(s) : s[i] \in S /\ p[s[i]] = IF i = Len(s) THEN NULL ELSE s[i + 1]
  BY DEF Leads
<1>2. CASE n >= Len(s)
  <2>1. ~ (n < Len(s)) /\ ~ (n + 1 < Len(s))
    BY <1>1, <1>2
  <2>2. QED BY <2>1 DEF Visited, Walk
<1>3. CASE n < Len(s)
  <2>1. Visited(s, n) = [seq |-> SubSeq(s, 1, n), at |-> s[n + 1]]
    BY <1>3 DEF Visited
  <2>2. n + 1 \in 1 .. Len(s) /\ s[n + 1] \in S
    BY <1>1, <1>3
  <2>3. Walk(p, Visited(s, n)) = [seq |-> Append(SubSeq(s, 1, n), s[n + 1]), at |-> p[s[n + 1]]]
    BY <2>1, <2>2 DEF Walk
  <2>4. Append(SubSeq(s, 1, n), s[n + 1]) = SubSeq(s, 1, n + 1)
    <3>1. SubSeq(s, 1, n) \in Seq(S) /\ Len(SubSeq(s, 1, n)) = n
          /\ \A i \in 1 .. n : SubSeq(s, 1, n)[i] = s[i]
      BY <1>1, <1>3, SubSeqProperties
    <3>2. SubSeq(s, 1, n + 1) \in Seq(S) /\ Len(SubSeq(s, 1, n + 1)) = n + 1
          /\ \A i \in 1 .. n + 1 : SubSeq(s, 1, n + 1)[i] = s[i]
      BY <1>1, <1>3, SubSeqProperties
    <3> DEFINE a == Append(SubSeq(s, 1, n), s[n + 1])
    <3>3. a \in Seq(S) /\ Len(a) = n + 1 /\ (\A i \in 1 .. n : a[i] = s[i]) /\ a[n + 1] = s[n + 1]
      BY <2>2, <3>1, AppendProperties
    <3>4. \A i \in 1 .. n + 1 : a[i] = SubSeq(s, 1, n + 1)[i]
      <4>1. \A i \in 1 .. n + 1 : i \in 1 .. n \/ i = n + 1
        OBVIOUS
      <4>2. QED BY <3>2, <3>3, <4>1
    <3> HIDE DEF a
    <3>5. a = SubSeq(s, 1, n + 1)
      BY <3>2, <3>3, <3>4, SeqEqual
    <3>6. QED BY <3>5 DEF a
  <2>5. CASE n + 1 < Len(s)
    <3>1. p[s[n + 1]] = s[(n + 1) + 1]
      BY <1>1, <2>2, <2>5
    <3>2. QED BY <2>3, <2>4, <2>5, <3>1 DEF Visited
  <2>6. CASE n + 1 = Len(s)
    <3>1. p[s[n + 1]] = NULL /\ SubSeq(s, 1, n + 1) = s
      BY <1>1, <2>2, <2>6, SubSeqFull
    <3>2. ~ (n + 1 < Len(s))
      BY <1>1, <2>6
    <3>3. QED BY <2>3, <2>4, <3>1, <3>2 DEF Visited
  <2>7. QED BY <1>1, <1>3, <2>5, <2>6
<1>4. QED BY <1>1, <1>2, <1>3

\* A list without repetition has as many elements as members.
LEMMA InjectiveLength ==
  ASSUME NEW S, IsFiniteSet(S), NEW s \in Seq(S), IsInjective(s)
  PROVE  /\ IsFiniteSet(ToSet(s)) /\ Cardinality(ToSet(s)) = Len(s)
         /\ Len(s) <= Cardinality(S) /\ Len(s) \in Nat /\ Cardinality(S) \in Nat
<1>1. Len(s) \in Nat /\ DOMAIN s = 1 .. Len(s) /\ s \in [1 .. Len(s) -> S]
  BY LenProperties
<1>2. ToSet(s) = {s[i] : i \in 1 .. Len(s)} /\ ToSet(s) \subseteq S
  BY MembersOf
<1>3. s \in [1 .. Len(s) -> ToSet(s)]
  BY <1>1, <1>2
<1>4. s \in Injection(1 .. Len(s), ToSet(s)) /\ s \in Surjection(1 .. Len(s), ToSet(s))
  BY <1>2, <1>3 DEF Injection, Surjection
<1>5. IsFiniteSet(1 .. Len(s)) /\ Cardinality(1 .. Len(s)) = Len(s)
  BY <1>1, FS_Interval
<1>6. ExistsBijection(1 .. Len(s), ToSet(s))
  BY <1>4 DEF ExistsBijection, Bijection
<1>7. IsFiniteSet(ToSet(s)) /\ Cardinality(ToSet(s)) = Cardinality(1 .. Len(s))
  BY <1>5, <1>6, FS_Bijection
<1>8. Cardinality(ToSet(s)) <= Cardinality(S) /\ Cardinality(S) \in Nat
  BY <1>2, FS_Subset, FS_CardinalityType
<1>9. QED BY <1>1, <1>5, <1>7, <1>8

LEMMA ChainIs ==
  ASSUME NEW S, IsFiniteSet(S), NULL \notin S, NEW p, DOMAIN p = S, NEW b, NEW s,
         Leads(p, S, b, s)
  PROVE  Chain(p, b) = [seq |-> s, at |-> NULL]
<1>1. PICK c : c = Cardinality(S)
  OBVIOUS
<1>2. c \in Nat /\ Len(s) \in Nat /\ Len(s) <= c
  BY <1>1, InjectiveLength DEF Leads
<1>3. PICK g : g = [n \in 0 .. c |-> Visited(s, n)]
  OBVIOUS
<1>4. AreWalks(g, c, p, b)
  <2>1. ASSUME NEW n \in 0 .. c
        PROVE  g[n] = IF n = 0 THEN [seq |-> << >>, at |-> b] ELSE Walk(p, g[n - 1])
    <3>1. CASE n = 0
      BY <1>2, <1>3, <3>1, VisitFirst
    <3>2. CASE n # 0
      <4>1. PICK m \in Nat : m = n - 1
        BY <3>2
      <4>2. Walk(p, Visited(s, m)) = Visited(s, m + 1)
        BY VisitNext
      <4>3. m \in 0 .. c /\ m + 1 = n
        BY <1>2, <4>1
      <4>4. g[n] = Visited(s, m + 1) /\ g[m] = Visited(s, m)
        BY <1>3, <4>3
      <4>5. g[n] = Walk(p, g[n - 1])
        BY <4>1, <4>2, <4>4
      <4>6. QED BY <3>2, <4>5
    <3>3. QED BY <3>1, <3>2
  <2>2. g = [n \in 0 .. c |-> g[n]]
    BY <1>3
  <2>3. g = [n \in 0 .. c |-> IF n = 0 THEN [seq |-> << >>, at |-> b] ELSE Walk(p, g[n - 1])]
    BY <2>1, <2>2
  <2>4. QED BY <2>3 DEF AreWalks
<1>5. PICK f : f = CHOOSE h : AreWalks(h, c, p, b)
  OBVIOUS
<1>6. AreWalks(f, c, p, b)
  BY <1>4, <1>5
<1>7. f[0] = [seq |-> << >>, at |-> b] /\ \A n \in 1 .. c : f[n] = Walk(p, f[n - 1])
  BY <1>2, <1>6 DEF AreWalks
<1>8. f[c] = Visited(s, c)
  <2> DEFINE Bad == {n \in 0 .. c : f[n] # Visited(s, n)}
  <2>1. SUFFICES ASSUME Bad # {} PROVE FALSE
    BY <1>2
  <2>2. PICK n \in 0 .. c : n \in Bad /\ \A j \in Bad : n <= j
    <3>1. Bad \in SUBSET Nat
      BY DEF Bad
    <3>2. Min(Bad) \in Bad /\ \A j \in Bad : Min(Bad) <= j
      BY <2>1, <3>1, MinProperties
    <3>3. QED BY <3>2 DEF Bad
  <2>3. f[n] # Visited(s, n)
    BY <2>2
  <2>4. n # 0
    BY <1>7, <2>3, VisitFirst
  <2>5. PICK m \in Nat : m = n - 1
    BY <2>4
  <2>6. m \in 0 .. c /\ m + 1 = n /\ n \in 1 .. c
    BY <1>2, <2>4, <2>5
  <2>7. f[m] = Visited(s, m)
    BY <1>2, <2>2, <2>6
  <2>8. f[n] = Walk(p, Visited(s, m))
    BY <1>7, <2>5, <2>6, <2>7
  <2>9. Walk(p, Visited(s, m)) = Visited(s, m + 1)
    BY VisitNext
  <2>10. QED BY <2>3, <2>6, <2>8, <2>9
<1>9. Chain(p, b) = f[c]
  BY <1>1, <1>5 DEF Chain, AreWalks, Walk
<1>10. Visited(s, c) = [seq |-> s, at |-> NULL]
  <2>1. ~ (c < Len(s))
    BY <1>2
  <2>2. QED BY <2>1 DEF Visited
<1>11. QED BY <1>8, <1>9, <1>10

\* p with x written at c.
Written(p, c, x) == [p EXCEPT ![c] = x]

\* The sequence s with b in front.
InFront(b, s) == <<b>> \o s

\* Pointers of other blocks do not matter.
LEMMA LeadsSame ==
  ASSUME NEW S, NEW p, NEW b, NEW s, Leads(p, S, b, s),
         NEW q, \A x \in ToSet(s) : q[x] = p[x]
  PROVE  Leads(q, S, b, s)
<1>1. s \in Seq(S)
  BY DEF Leads
<1>2. ToSet(s) = {s[i] : i \in 1 .. Len(s)}
  BY <1>1, MembersOf
<1>3. \A i \in 1 .. Len(s) : q[s[i]] = p[s[i]]
  BY <1>2
<1>4. QED BY <1>3 DEF Leads

LEMMA LeadsApart ==
  ASSUME NEW S, NEW L, NEW p \in [S -> L], NEW b, NEW s, Leads(p, S, b, s),
         NEW c, c \notin ToSet(s), NEW x
  PROVE  Leads(Written(p, c, x), S, b, s)
<1>1. s \in Seq(S)
  BY DEF Leads
<1>2. ToSet(s) \subseteq S
  BY <1>1, MembersOf
<1>3. \A y \in ToSet(s) : Written(p, c, x)[y] = p[y]
  BY <1>2 DEF Written
<1>4. PICK q : q = Written(p, c, x)
  OBVIOUS
<1>5. Leads(q, S, b, s)
  BY <1>3, <1>4, LeadsSame
<1>6. QED BY <1>4, <1>5

\* The first block is unlinked.
LEMMA LeadsPop ==
  ASSUME NEW S, NEW L, NEW p \in [S -> L], NEW b, NEW s, Leads(p, S, b, s), s # << >>,
         NEW x
  PROVE  /\ b \in S /\ b = s[1]
         /\ ToSet(s) = ToSet(Tail(s)) \cup {b} /\ b \notin ToSet(Tail(s))
         /\ Len(Tail(s)) = Len(s) - 1 /\ Len(s) \in Nat
         /\ Leads(Written(p, b, x), S, p[b], Tail(s))
<1>1. /\ s \in Seq(S) /\ Len(s) \in Nat /\ Len(s) >= 1 /\ b = Head(s) /\ b = s[1]
      /\ \A i, j \in 1 .. Len(s) : s[i] = s[j] => i = j
      /\ \A i \in 1 .. Len(s) : p[s[i]] = IF i = Len(s) THEN NULL ELSE s[i + 1]
  BY DEF Leads, First, IsInjective
<1>2. PICK t : t = Tail(s)
  OBVIOUS
<1>3. /\ t \in Seq(S) /\ Len(t) = Len(s) - 1
      /\ \A i \in 1 .. Len(t) : t[i] = s[i + 1]
  BY <1>1, <1>2, HeadTailProperties
<1>4. ToSet(s) = {s[i] : i \in 1 .. Len(s)} /\ ToSet(t) = {t[i] : i \in 1 .. Len(t)}
      /\ ToSet(s) \subseteq S
  BY <1>1, <1>3, MembersOf
<1>5. b \notin ToSet(t)
  <2>1. \A i \in 1 .. Len(t) : t[i] # s[1]
    <3>1. ASSUME NEW i \in 1 .. Len(t), t[i] = s[1] PROVE FALSE
      <4>1. i + 1 \in 1 .. Len(s) /\ 1 \in 1 .. Len(s) /\ i + 1 # 1
        BY <1>1, <1>3
      <4>2. s[i + 1] = s[1]
        BY <1>3, <3>1
      <4>3. QED BY <1>1, <4>1, <4>2
    <3>2. QED BY <3>1
  <2>2. QED BY <1>1, <1>4, <2>1
<1>6. ToSet(s) = ToSet(t) \cup {b}
  <2>1. \A i \in 1 .. Len(s) : i = 1 \/ i - 1 \in 1 .. Len(t)
    BY <1>1, <1>3
  <2>2. \A i \in 1 .. Len(s) : s[i] = b \/ s[i] \in ToSet(t)
    <3>1. ASSUME NEW i \in 1 .. Len(s), i # 1 PROVE s[i] \in ToSet(t)
      <4>1. PICK j \in 1 .. Len(t) : j = i - 1
        BY <2>1, <3>1
      <4>2. t[j] = s[i]
        BY <1>3, <4>1
      <4>3. QED BY <1>4, <4>2
    <3>2. QED BY <1>1, <3>1
  <2>3. \A i \in 1 .. Len(t) : t[i] \in ToSet(s)
    <3>1. ASSUME NEW i \in 1 .. Len(t) PROVE t[i] \in ToSet(s)
      <4>1. PICK j \in 1 .. Len(s) : j = i + 1
        BY <1>1, <1>3
      <4>2. t[i] = s[j]
        BY <1>3, <4>1
      <4>3. QED BY <1>4, <4>2
    <3>2. QED BY <3>1
  <2>4. b \in ToSet(s)
    <3>1. 1 \in 1 .. Len(s)
      BY <1>1
    <3>2. QED BY <1>1, <1>4, <3>1
  <2>5. QED BY <1>4, <2>2, <2>3, <2>4
<1>7. IsInjective(t)
  <2>1. DOMAIN t = 1 .. Len(t)
    BY <1>3
  <2>2. ASSUME NEW i \in 1 .. Len(t), NEW j \in 1 .. Len(t), t[i] = t[j] PROVE i = j
    <3>1. i + 1 \in 1 .. Len(s) /\ j + 1 \in 1 .. Len(s)
      BY <1>1, <1>3
    <3>2. s[i + 1] = s[j + 1]
      BY <1>3, <2>2
    <3>3. i + 1 = j + 1
      BY <1>1, <3>1, <3>2
    <3>4. QED BY <3>3
  <2>3. QED BY <2>1, <2>2 DEF IsInjective
<1>8. p[b] = First(t)
  <2>1. CASE t = << >>
    <3>1. Len(s) = 1
      BY <1>1, <1>3, <2>1
    <3>2. p[b] = NULL
      BY <1>1, <3>1
    <3>3. QED BY <2>1, <3>2 DEF First
  <2>2. CASE t # << >>
    <3>1. Len(t) >= 1 /\ Head(t) = t[1]
      BY <1>3, <2>2
    <3>2. 1 \in 1 .. Len(t) /\ 1 \in 1 .. Len(s) /\ 1 # Len(s)
      BY <1>1, <1>3, <3>1
    <3>3. p[b] = s[1 + 1] /\ t[1] = s[1 + 1]
      BY <1>1, <1>3, <3>2
    <3>4. QED BY <2>2, <3>1, <3>3 DEF First
  <2>3. QED BY <2>1, <2>2
<1>9. Leads(p, S, p[b], t)
  <2>1. ASSUME NEW i \in 1 .. Len(t)
        PROVE  p[t[i]] = IF i = Len(t) THEN NULL ELSE t[i + 1]
    <3>1. PICK j \in 1 .. Len(s) : j = i + 1
      BY <1>1, <1>3
    <3>2. t[i] = s[j] /\ p[s[j]] = IF j = Len(s) THEN NULL ELSE s[j + 1]
      BY <1>1, <1>3, <3>1
    <3>3. CASE i = Len(t)
      BY <1>3, <3>1, <3>2, <3>3
    <3>4. CASE i # Len(t)
      <4>1. i + 1 \in 1 .. Len(t) /\ j # Len(s)
        BY <1>1, <1>3, <3>1, <3>4
      <4>2. t[i + 1] = s[(i + 1) + 1]
        BY <1>3, <4>1
      <4>3. QED BY <3>1, <3>2, <3>4, <4>1, <4>2
    <3>5. QED BY <3>3, <3>4
  <2>2. QED BY <1>3, <1>7, <1>8, <2>1 DEF Leads
<1>10. Leads(Written(p, b, x), S, p[b], t)
  <2>1. PICK c : c = p[b]
    OBVIOUS
  <2>2. Leads(p, S, c, t)
    BY <1>9, <2>1
  <2>3. Leads(Written(p, b, x), S, c, t)
    BY ONLY <1>5, <2>2, p \in [S -> L], LeadsApart
  <2>4. QED BY ONLY <2>1, <2>3
<1>11. b \in S
  BY <1>4, <1>6
<1>12. QED BY ONLY <1>1, <1>2, <1>3, <1>5, <1>6, <1>10, <1>11

LEMMA InFrontLength ==
  ASSUME NEW S, NEW s \in Seq(S), NEW c \in S
  PROVE  /\ Len(InFront(c, s)) = Len(s) + 1
         /\ Last(InFront(c, s)) = IF s = << >> THEN c ELSE Last(s)
<1>1. <<c>> \in Seq(S) /\ Len(<<c>>) = 1 /\ <<c>>[1] = c /\ Len(s) \in Nat
  OBVIOUS
<1>2. PICK w : w = InFront(c, s)
  OBVIOUS
<1>3. /\ Len(w) = 1 + Len(s)
      /\ \A i \in 1 .. 1 + Len(s) : w[i] = IF i <= 1 THEN <<c>>[i] ELSE s[i - 1]
  BY <1>1, <1>2, ConcatProperties DEF InFront
<1>4. CASE s = << >>
  <2>1. Len(w) = 1 /\ w[1] = c
    BY <1>1, <1>3, <1>4
  <2>2. QED BY <1>2, <1>4, <2>1 DEF Last
<1>5. CASE s # << >>
  <2>1. PICK j \in 1 .. 1 + Len(s) : j = Len(s) + 1 /\ ~ (j <= 1) /\ j - 1 = Len(s)
    BY <1>1, <1>5
  <2>2. w[Len(w)] = s[Len(s)]
    BY <1>3, <2>1
  <2>3. QED BY <1>1, <1>2, <1>3, <1>5, <2>2 DEF Last
<1>6. QED BY <1>4, <1>5

\* A block is linked in front.
LEMMA LeadsPush ==
  ASSUME NEW S, NEW L, NEW p \in [S -> L], NEW b, NEW s, Leads(p, S, b, s),
         NEW c \in S, c \notin ToSet(s)
  PROVE  /\ Leads(Written(p, c, b), S, c, InFront(c, s))
         /\ ToSet(InFront(c, s)) = ToSet(s) \cup {c}
<1>1. /\ s \in Seq(S) /\ Len(s) \in Nat /\ b = First(s) /\ IsInjective(s)
      /\ \A i \in 1 .. Len(s) : p[s[i]] = IF i = Len(s) THEN NULL ELSE s[i + 1]
  BY DEF Leads
<1>2. PICK w : w = <<c>> \o s
  OBVIOUS
<1>3. w \in Seq(S) /\ ToSet(w) = ToSet(s) \cup {c} /\ IsInjective(w)
  BY <1>1, <1>2, PushNew
<1>4. Len(w) = Len(s) + 1 /\ w[1] = c /\ \A i \in 1 .. Len(s) : w[i + 1] = s[i]
  <2>1. <<c>> \in Seq(S) /\ Len(<<c>>) = 1 /\ <<c>>[1] = c
    OBVIOUS
  <2>2. Len(w) = 1 + Len(s)
        /\ \A i \in 1 .. 1 + Len(s) : w[i] = IF i <= 1 THEN <<c>>[i] ELSE s[i - 1]
    BY <1>1, <1>2, <2>1, ConcatProperties
  <2>3. w[1] = c
    <3>1. 1 \in 1 .. 1 + Len(s)
      BY <1>1
    <3>2. QED BY <2>1, <2>2, <3>1
  <2>4. ASSUME NEW i \in 1 .. Len(s) PROVE w[i + 1] = s[i]
    <3>1. PICK j \in 1 .. 1 + Len(s) : j = i + 1
      BY <1>1
    <3>2. ~ (j <= 1) /\ j - 1 = i
      BY <3>1
    <3>3. QED BY <2>2, <3>1, <3>2
  <2>5. QED BY <1>1, <2>2, <2>3, <2>4
<1>5. c = First(w)
  <2>1. w # << >> /\ Head(w) = w[1]
    BY <1>1, <1>3, <1>4
  <2>2. QED BY <1>4, <2>1 DEF First
<1>6. PICK q : q = Written(p, c, b)
  OBVIOUS
<1>7. q[c] = b /\ Leads(q, S, b, s)
  <2>1. Leads(q, S, b, s)
    BY <1>6, LeadsApart
  <2>2. QED BY <1>6, <2>1 DEF Written
<1>8. ASSUME NEW i \in 1 .. Len(w)
      PROVE  q[w[i]] = IF i = Len(w) THEN NULL ELSE w[i + 1]
  <2>1. CASE i = 1
    <3>1. CASE s = << >>
      <4>1. Len(w) = 1 /\ b = NULL
        BY <1>1, <1>4, <3>1 DEF First
      <4>2. QED BY <1>4, <1>7, <2>1, <4>1
    <3>2. CASE s # << >>
      <4>1. Len(s) >= 1 /\ b = s[1]
        BY <1>1, <3>2 DEF First
      <4>2. 1 \in 1 .. Len(s) /\ 1 # Len(w)
        BY <1>1, <1>4, <4>1
      <4>3. w[1 + 1] = s[1]
        BY <1>4, <4>2
      <4>4. QED BY <1>4, <1>7, <2>1, <4>1, <4>2, <4>3
    <3>3. QED BY <3>1, <3>2
  <2>2. CASE i # 1
    <3>1. PICK j \in 1 .. Len(s) : j = i - 1
      BY <1>1, <1>4, <2>2
    <3>2. w[j + 1] = s[j] /\ j + 1 = i
      BY <1>4, <3>1
    <3>3. q[s[j]] = IF j = Len(s) THEN NULL ELSE s[j + 1]
      BY <1>7 DEF Leads
    <3>4. CASE j = Len(s)
      BY <1>4, <3>2, <3>3, <3>4
    <3>5. CASE j # Len(s)
      <4>1. j + 1 \in 1 .. Len(s) /\ i # Len(w)
        BY <1>1, <1>4, <3>1, <3>5
      <4>2. w[(j + 1) + 1] = s[j + 1]
        BY <1>4, <4>1
      <4>3. QED BY <3>2, <3>3, <3>5, <4>1, <4>2
    <3>6. QED BY <3>4, <3>5
  <2>3. QED BY <2>1, <2>2
<1>9. Leads(q, S, c, w)
  BY <1>3, <1>5, <1>8 DEF Leads
<1>10. w = InFront(c, s)
  BY <1>2 DEF InFront
<1>11. QED BY ONLY <1>3, <1>6, <1>9, <1>10

\* A block is linked at the end.
LEMMA LeadsAppend ==
  ASSUME NEW S, NEW L, NEW p \in [S -> L], NEW b, NEW s, Leads(p, S, b, s), s # << >>,
         NEW c \in S, c \notin ToSet(s)
  PROVE  /\ Leads(Written(Written(p, c, NULL), Last(s), c), S, b, Append(s, c))
         /\ ToSet(Append(s, c)) = ToSet(s) \cup {c} /\ Len(Append(s, c)) = Len(s) + 1
         /\ Last(Append(s, c)) = c /\ Last(s) \in ToSet(s)
<1>1. /\ s \in Seq(S) /\ Len(s) \in Nat /\ Len(s) >= 1 /\ b = s[1] /\ IsInjective(s)
      /\ \A i \in 1 .. Len(s) : p[s[i]] = IF i = Len(s) THEN NULL ELSE s[i + 1]
      /\ \A i, j \in 1 .. Len(s) : s[i] = s[j] => i = j
  BY DEF Leads, First, IsInjective
<1>2. PICK w : w = Append(s, c)
  OBVIOUS
<1>3. w \in Seq(S) /\ ToSet(w) = ToSet(s) \cup {c} /\ IsInjective(w)
  BY <1>1, <1>2, AppendNew
<1>4. /\ Len(w) = Len(s) + 1 /\ w[Len(s) + 1] = c /\ w # << >>
      /\ \A i \in 1 .. Len(s) : w[i] = s[i]
  BY <1>1, <1>2, AppendProperties
<1>5. b = First(w)
  <2>1. 1 \in 1 .. Len(s) /\ Head(w) = w[1]
    BY <1>1, <1>3, <1>4
  <2>2. QED BY <1>1, <1>4, <2>1 DEF First
<1>6. PICK l : l = Last(s)
  OBVIOUS
<1>7. Len(s) \in 1 .. Len(s) /\ l = s[Len(s)]
  BY <1>1, <1>6 DEF Last
<1>8. ToSet(s) = {s[i] : i \in 1 .. Len(s)} /\ ToSet(s) \subseteq S
  BY <1>1, MembersOf
<1>9. l \in ToSet(s) /\ l \in S /\ l # c
  BY <1>7, <1>8
<1>10. PICK q : q = Written(Written(p, c, NULL), l, c)
  OBVIOUS
<1>11. q[c] = NULL /\ q[l] = c /\ \A x \in S \ {c, l} : q[x] = p[x]
  BY <1>9, <1>10 DEF Written
<1>12. ASSUME NEW i \in 1 .. Len(w)
       PROVE  q[w[i]] = IF i = Len(w) THEN NULL ELSE w[i + 1]
  <2>1. CASE i = Len(w)
    BY <1>4, <1>11, <2>1
  <2>2. CASE i = Len(s)
    <3>1. w[i] = l /\ i # Len(w)
      BY <1>1, <1>4, <1>7, <2>2
    <3>2. QED BY <1>4, <1>11, <2>2, <3>1
  <2>3. CASE i # Len(w) /\ i # Len(s)
    <3>1. i \in 1 .. Len(s) /\ i + 1 \in 1 .. Len(s)
      BY <1>1, <1>4, <2>3
    <3>2. s[i] # l
      BY <1>1, <1>7, <2>3, <3>1
    <3>3. s[i] \in S \ {c, l}
      BY <1>8, <3>1, <3>2
    <3>4. q[s[i]] = s[i + 1]
      BY <1>1, <1>11, <2>3, <3>1, <3>3
    <3>5. w[i] = s[i] /\ w[i + 1] = s[i + 1]
      BY <1>4, <3>1
    <3>6. QED BY <2>3, <3>4, <3>5
  <2>4. QED BY <2>1, <2>2, <2>3
<1>13. Leads(q, S, b, w)
  BY <1>3, <1>5, <1>12 DEF Leads
<1>14. Last(w) = c
  BY <1>4 DEF Last
<1>15. QED BY <1>2, <1>3, <1>4, <1>6, <1>9, <1>10, <1>13, <1>14

LEMMA LeadsNowhere ==
  ASSUME NEW p, NEW S
  PROVE  Leads(p, S, NULL, << >>)
BY DEF Leads, First, IsInjective

\* The list that Linked builds.
LEMMA LinkedLeads ==
  ASSUME NEW S, NEW s \in Seq(S), IsInjective(s)
  PROVE  /\ Leads(Linked(s), S, First(s), s)
         /\ Linked(s) \in [ToSet(s) -> S \cup {NULL}]
<1>1. /\ Len(s) \in Nat /\ DOMAIN s = 1 .. Len(s)
      /\ \A i, j \in 1 .. Len(s) : s[i] = s[j] => i = j
      /\ \A i \in 1 .. Len(s) : s[i] \in S
  BY DEF IsInjective
<1>2. ToSet(s) = {s[i] : i \in 1 .. Len(s)}
  BY MembersOf
<1>3. PICK p : p = Linked(s)
  OBVIOUS
<1>4. p = [b \in ToSet(s) |-> LET i == CHOOSE j \in DOMAIN s : s[j] = b
                             IN  IF i = Len(s) THEN NULL ELSE s[i + 1]]
  BY <1>3 DEF Linked
<1>5. ASSUME NEW i \in 1 .. Len(s)
      PROVE  p[s[i]] = IF i = Len(s) THEN NULL ELSE s[i + 1]
  <2>1. PICK c : c = CHOOSE j \in DOMAIN s : s[j] = s[i]
    OBVIOUS
  <2>2. c \in DOMAIN s /\ s[c] = s[i]
    BY <1>1, <2>1
  <2>3. c = i
    BY <1>1, <2>2
  <2>4. s[i] \in ToSet(s)
    BY <1>2
  <2>5. p[s[i]] = IF c = Len(s) THEN NULL ELSE s[c + 1]
    <3>1. p[s[i]] = LET n == CHOOSE j \in DOMAIN s : s[j] = s[i]
                    IN  IF n = Len(s) THEN NULL ELSE s[n + 1]
      BY ONLY <1>4, <2>4
    <3>2. QED BY ONLY <2>1, <3>1
  <2>6. QED BY <2>3, <2>5
<1>6. Leads(p, S, First(s), s)
  BY <1>5 DEF Leads
<1>7. ASSUME NEW i \in 1 .. Len(s) PROVE p[s[i]] \in S \cup {NULL}
  <2>1. CASE i = Len(s)
    BY <1>5, <2>1
  <2>2. CASE i # Len(s)
    <3>1. Len(s) \in Nat
      BY <1>1
    <3>2. i + 1 \in 1 .. Len(s)
      BY ONLY <2>2, <3>1, i \in 1 .. Len(s)
    <3>3. QED BY <1>1, <1>5, <2>2, <3>2
  <2>3. QED BY <2>1, <2>2
<1>8. \A x \in ToSet(s) : p[x] \in S \cup {NULL}
  BY <1>2, <1>7
<1>9. p = [x \in ToSet(s) |-> p[x]]
  BY <1>4
<1>10. QED BY <1>3, <1>6, <1>8, <1>9

-----------------------------------------------------------------------------
(***************************************************************************)
(* The blocks of the message queue.                                        *)
(***************************************************************************)
\* With the pointers p the queue is q, from head h to tail l, with e
\* messages; the free list is f, from r on; all other blocks are held.
Placed(p, h, l, r, e, held, q, f) ==
  /\ p \in [Block -> Link]
  /\ Leads(p, Block, h, q) /\ Leads(p, Block, r, f)
  /\ ToSet(q) \cap ToSet(f) = {}
  /\ held \cap (ToSet(q) \cup ToSet(f)) = {}
  /\ Block = ToSet(q) \cup ToSet(f) \cup held
  /\ e = Len(q) /\ l = IF q = << >> THEN NULL ELSE Last(q)

\* A chain starts nowhere when it is empty, and only then.
LEMMA LeadsFrom ==
  ASSUME NEW S, NULL \notin S, NEW p, NEW b, NEW s, Leads(p, S, b, s)
  PROVE  /\ s = << >> <=> b = NULL
         /\ s # << >> => b \in S /\ b \in ToSet(s) /\ Last(s) \in ToSet(s) /\ Last(s) # NULL
<1>1. s \in Seq(S) /\ b = First(s) /\ Len(s) \in Nat
  BY DEF Leads
<1>2. CASE s = << >>
  BY <1>1, <1>2 DEF First
<1>3. CASE s # << >>
  <2>1. Len(s) >= 1 /\ b = s[1]
    BY <1>1, <1>3 DEF First
  <2>2. 1 \in 1 .. Len(s) /\ Len(s) \in 1 .. Len(s)
    BY <1>1, <2>1
  <2>3. ToSet(s) = {s[i] : i \in 1 .. Len(s)} /\ ToSet(s) \subseteq S
    BY <1>1, MembersOf
  <2>4. b \in ToSet(s) /\ Last(s) \in ToSet(s)
    BY <2>1, <2>2, <2>3 DEF Last
  <2>5. QED BY <1>3, <2>3, <2>4
<1>4. QED BY <1>2, <1>3

\* rt_mq_send takes a free block.
LEMMA TakesBlock ==
  ASSUME NEW p, NEW h, NEW l, NEW r, NEW e, NEW held, NEW q, NEW f,
         Placed(p, h, l, r, e, held, q, f), r # NULL
  PROVE  /\ r \in Block /\ r \notin held /\ r \notin ToSet(q)
         /\ Placed(Written(p, r, NULL), h, l, p[r], e, held \cup {r}, q, Tail(f))
<1>1. /\ p \in [Block -> Link] /\ Leads(p, Block, h, q) /\ Leads(p, Block, r, f)
      /\ ToSet(q) \cap ToSet(f) = {} /\ held \cap (ToSet(q) \cup ToSet(f)) = {}
      /\ Block = ToSet(q) \cup ToSet(f) \cup held
      /\ e = Len(q) /\ l = IF q = << >> THEN NULL ELSE Last(q)
  BY DEF Placed
<1>2. NULL \notin Block
  BY MessageQueueAssumption
<1>3. f # << >>
  <2>1. Leads(p, Block, r, f)
    BY <1>1
  <2>2. QED BY ONLY <1>2, <2>1, r # NULL, LeadsFrom
<1>4. PICK g : g = Tail(f)
  OBVIOUS
<1>5. PICK d : d = p[r]
  OBVIOUS
<1>6. PICK w : w = Written(p, r, NULL)
  OBVIOUS
<1>7. /\ r \in Block /\ ToSet(f) = ToSet(g) \cup {r} /\ r \notin ToSet(g)
      /\ Leads(w, Block, d, g)
  <2>1. p \in [Block -> Link] /\ Leads(p, Block, r, f)
    BY <1>1
  <2>2. QED BY ONLY <1>3, <1>4, <1>5, <1>6, <2>1, LeadsPop
<1>8. r \notin ToSet(q) /\ r \notin held
  BY <1>1, <1>7
<1>9. Leads(w, Block, h, q)
  BY <1>1, <1>6, <1>8, LeadsApart
<1>10. w \in [Block -> Link]
  BY <1>1, <1>6 DEF Link, Written
<1>11. Placed(w, h, l, d, e, held \cup {r}, q, g)
  BY <1>1, <1>7, <1>8, <1>9, <1>10 DEF Placed
<1>12. QED BY <1>4, <1>5, <1>6, <1>7, <1>8, <1>11

\* A block is linked last ...
LEMMA LinksLast ==
  ASSUME NEW p, NEW h, NEW l, NEW r, NEW e, NEW held, NEW q, NEW f,
         Placed(p, h, l, r, e, held, q, f), NEW b \in held,
         NEW w, w = IF l = NULL THEN Written(p, b, NULL)
                    ELSE Written(Written(p, b, NULL), l, b)
  PROVE  Placed(w, IF h = NULL THEN b ELSE h, b, r, e + 1, held \ {b}, Append(q, b), f)
<1>1. /\ p \in [Block -> Link] /\ Leads(p, Block, h, q) /\ Leads(p, Block, r, f)
      /\ ToSet(q) \cap ToSet(f) = {} /\ held \cap (ToSet(q) \cup ToSet(f)) = {}
      /\ Block = ToSet(q) \cup ToSet(f) \cup held
      /\ e = Len(q) /\ l = IF q = << >> THEN NULL ELSE Last(q)
  BY DEF Placed
<1>2. NULL \notin Block /\ b \in Block /\ b \notin ToSet(q) /\ b \notin ToSet(f)
  BY <1>1, MessageQueueAssumption
<1>3. PICK v : v = Written(p, b, NULL)
  OBVIOUS
<1>4. v \in [Block -> Link] /\ Leads(v, Block, h, q) /\ Leads(v, Block, r, f)
  <2>1. p \in [Block -> Link] /\ Leads(p, Block, h, q) /\ Leads(p, Block, r, f)
    BY <1>1
  <2>2. Leads(v, Block, h, q) /\ Leads(v, Block, r, f)
    BY ONLY <1>2, <1>3, <2>1, LeadsApart
  <2>3. v \in [Block -> Link]
    BY <1>3, <2>1 DEF Link, Written
  <2>4. QED BY <2>2, <2>3
<1>5. PICK c : c = IF h = NULL THEN b ELSE h
  OBVIOUS
<1>6. PICK a : a = Append(q, b)
  OBVIOUS
<1>7. /\ w \in [Block -> Link] /\ Leads(w, Block, c, a) /\ Leads(w, Block, r, f)
      /\ ToSet(a) = ToSet(q) \cup {b} /\ Len(a) = Len(q) + 1 /\ a # << >> /\ Last(a) = b
  <2>1. CASE q = << >>
    <3>1. h = NULL /\ l = NULL /\ w = v /\ c = b
      BY <1>1, <1>2, <1>3, <1>5, <2>1, LeadsFrom
    <3>2. v = Written(v, b, NULL)
      BY <1>2, <1>3, <1>4 DEF Written
    <3>3. a = InFront(b, q) /\ a # << >> /\ Len(a) = 1 /\ Len(q) = 0 /\ a[1] = b
      BY <1>6, <2>1 DEF InFront
    <3>4. PICK u : u = Written(v, b, h)
      OBVIOUS
    <3>5. Leads(u, Block, b, a) /\ ToSet(a) = ToSet(q) \cup {b}
      <4>1. v \in [Block -> Link] /\ Leads(v, Block, h, q)
        BY <1>4
      <4>2. b \in Block /\ b \notin ToSet(q)
        BY <1>2
      <4>3. Leads(Written(v, b, h), Block, b, InFront(b, q))
        BY ONLY <4>1, <4>2, LeadsPush
      <4>4. ToSet(InFront(b, q)) = ToSet(q) \cup {b}
        BY ONLY <4>1, <4>2, LeadsPush
      <4>5. QED BY ONLY <3>3, <3>4, <4>3, <4>4
    <3>6. u = w
      BY <3>1, <3>2, <3>4
    <3>7. Leads(w, Block, c, a) /\ ToSet(a) = ToSet(q) \cup {b}
      BY ONLY <3>1, <3>5, <3>6
    <3>8. Last(a) = b
      BY <3>3 DEF Last
    <3>9. w \in [Block -> Link] /\ Leads(w, Block, r, f)
      BY <1>4, <3>1
    <3>10. QED BY ONLY <3>3, <3>7, <3>8, <3>9
  <2>2. CASE q # << >>
    <3>1. l = Last(q) /\ l \in ToSet(q) /\ l # NULL /\ h # NULL /\ c = h
      <4>1. Leads(p, Block, h, q) /\ NULL \notin Block
        BY <1>1, <1>2
      <4>2. h # NULL /\ Last(q) \in ToSet(q) /\ Last(q) # NULL
        BY ONLY <2>2, <4>1, LeadsFrom
      <4>3. l = Last(q)
        BY <1>1, <2>2
      <4>4. QED BY ONLY <1>5, <4>2, <4>3
    <3>2. w = Written(v, l, b)
      BY <1>3, <3>1
    <3>3. /\ Leads(Written(Written(p, b, NULL), Last(q), b), Block, h, Append(q, b))
          /\ ToSet(Append(q, b)) = ToSet(q) \cup {b} /\ Len(Append(q, b)) = Len(q) + 1
          /\ Last(Append(q, b)) = b
      BY <1>1, <1>2, <2>2, LeadsAppend
    <3>4. l \notin ToSet(f) /\ l \in Block
      BY <1>1, <3>1
    <3>5. Leads(w, Block, r, f) /\ w \in [Block -> Link]
      <4>1. Leads(w, Block, r, f)
        BY ONLY <1>4, <3>2, <3>4, LeadsApart
      <4>2. w \in [Block -> Link]
        BY <1>2, <1>4, <3>2 DEF Link, Written
      <4>3. QED BY <4>1, <4>2
    <3>6. a # << >>
      <4>1. q \in Seq(Block)
        BY <1>1 DEF Leads
      <4>2. QED BY <1>2, <1>6, <4>1, AppendProperties
    <3>7. QED BY <1>3, <1>6, <3>1, <3>2, <3>3, <3>5, <3>6
  <2>3. QED BY <2>1, <2>2
<1>8. Placed(w, c, b, r, e + 1, held \ {b}, a, f)
  <2>1. ToSet(a) \cap ToSet(f) = {}
    BY <1>1, <1>2, <1>7
  <2>2. (held \ {b}) \cap (ToSet(a) \cup ToSet(f)) = {}
    BY <1>1, <1>7
  <2>3. Block = ToSet(a) \cup ToSet(f) \cup (held \ {b})
    BY <1>1, <1>2, <1>7
  <2>4. QED BY <1>1, <1>7, <2>1, <2>2, <2>3 DEF Placed
<1>9. QED BY <1>5, <1>6, <1>8

\* ... or first.
LEMMA LinksFirst ==
  ASSUME NEW p, NEW h, NEW l, NEW r, NEW e, NEW held, NEW q, NEW f,
         Placed(p, h, l, r, e, held, q, f), NEW b \in held
  PROVE  Placed(Written(p, b, h), b, IF l = NULL THEN b ELSE l, r, e + 1,
                held \ {b}, InFront(b, q), f)
<1>1. /\ p \in [Block -> Link] /\ Leads(p, Block, h, q) /\ Leads(p, Block, r, f)
      /\ ToSet(q) \cap ToSet(f) = {} /\ held \cap (ToSet(q) \cup ToSet(f)) = {}
      /\ Block = ToSet(q) \cup ToSet(f) \cup held
      /\ e = Len(q) /\ l = IF q = << >> THEN NULL ELSE Last(q)
  BY DEF Placed
<1>2. NULL \notin Block /\ b \in Block /\ b \notin ToSet(q) /\ b \notin ToSet(f)
  BY <1>1, MessageQueueAssumption
<1>3. PICK w : w = Written(p, b, h)
  OBVIOUS
<1>4. h \in Link
  BY <1>1, <1>2, LeadsFrom DEF Link
<1>5. w \in [Block -> Link] /\ Leads(w, Block, r, f)
  BY <1>1, <1>2, <1>3, <1>4, LeadsApart DEF Written
<1>6. PICK a : a = InFront(b, q)
  OBVIOUS
<1>7. /\ Leads(w, Block, b, a) /\ ToSet(a) = ToSet(q) \cup {b} /\ Len(a) = Len(q) + 1
      /\ Last(a) = IF q = << >> THEN b ELSE Last(q)
  <2>1. p \in [Block -> Link] /\ Leads(p, Block, h, q)
    BY <1>1
  <2>2. b \in Block /\ b \notin ToSet(q)
    BY <1>2
  <2>3. Leads(Written(p, b, h), Block, b, InFront(b, q))
    BY ONLY <2>1, <2>2, LeadsPush
  <2>4. ToSet(InFront(b, q)) = ToSet(q) \cup {b}
    BY ONLY <2>1, <2>2, LeadsPush
  <2>5. q \in Seq(Block)
    BY <1>1 DEF Leads
  <2>6. Len(InFront(b, q)) = Len(q) + 1 /\ Last(InFront(b, q)) = IF q = << >> THEN b ELSE Last(q)
    BY ONLY <2>2, <2>5, InFrontLength
  <2>7. QED BY ONLY <1>3, <1>6, <2>3, <2>4, <2>6
<1>8. a # << >>
  BY <1>2, <1>7, LeadsFrom
<1>9. PICK c : c = IF l = NULL THEN b ELSE l
  OBVIOUS
<1>10. c = Last(a)
  BY <1>1, <1>2, <1>7, <1>9, LeadsFrom
<1>11. Placed(w, b, c, r, e + 1, held \ {b}, a, f)
  <2>1. ToSet(a) \cap ToSet(f) = {}
    BY <1>1, <1>2, <1>7
  <2>2. (held \ {b}) \cap (ToSet(a) \cup ToSet(f)) = {}
    BY <1>1, <1>7
  <2>3. Block = ToSet(a) \cup ToSet(f) \cup (held \ {b})
    BY <1>1, <1>2, <1>7
  <2>4. QED BY <1>1, <1>5, <1>7, <1>8, <1>10, <2>1, <2>2, <2>3 DEF Placed
<1>12. QED BY <1>3, <1>6, <1>9, <1>11

\* rt_mq_recv unlinks the first block.
LEMMA UnlinksFirst ==
  ASSUME NEW p, NEW h, NEW l, NEW r, NEW e, NEW held, NEW q, NEW f,
         Placed(p, h, l, r, e, held, q, f), e # 0
  PROVE  /\ h \in Block /\ h \notin held /\ q # << >> /\ h = q[1]
         /\ Placed(Written(p, h, NULL), p[h], IF l = h THEN NULL ELSE l, r, e - 1,
                   held \cup {h}, Tail(q), f)
<1>1. /\ p \in [Block -> Link] /\ Leads(p, Block, h, q) /\ Leads(p, Block, r, f)
      /\ ToSet(q) \cap ToSet(f) = {} /\ held \cap (ToSet(q) \cup ToSet(f)) = {}
      /\ Block = ToSet(q) \cup ToSet(f) \cup held
      /\ e = Len(q) /\ l = IF q = << >> THEN NULL ELSE Last(q)
  BY DEF Placed
<1>2. q # << >>
  BY <1>1
<1>3. PICK w : w = Written(p, h, NULL)
  OBVIOUS
<1>4. PICK a : a = Tail(q)
  OBVIOUS
<1>5. PICK d : d = p[h]
  OBVIOUS
<1>6. /\ h \in Block /\ h = q[1] /\ ToSet(q) = ToSet(a) \cup {h} /\ h \notin ToSet(a)
      /\ Len(a) = Len(q) - 1 /\ Len(q) \in Nat /\ Leads(w, Block, d, a)
  <2>1. p \in [Block -> Link] /\ Leads(p, Block, h, q)
    BY <1>1
  <2>2. h \in Block /\ Leads(w, Block, d, a)
    BY ONLY <1>2, <1>3, <1>4, <1>5, <2>1, LeadsPop
  <2>3. h = q[1]
    BY ONLY <1>2, <2>1, LeadsPop
  <2>4. ToSet(q) = ToSet(a) \cup {h} /\ h \notin ToSet(a)
    BY ONLY <1>2, <1>4, <2>1, LeadsPop
  <2>5. Len(a) = Len(q) - 1 /\ Len(q) \in Nat
    <3>1. q \in Seq(Block)
      BY <1>1 DEF Leads
    <3>2. QED BY <1>2, <1>4, <3>1, HeadTailProperties
  <2>6. QED BY <2>2, <2>3, <2>4, <2>5
<1>7. h \notin held /\ h \notin ToSet(f)
  BY <1>1, <1>6
<1>8. Leads(w, Block, r, f) /\ w \in [Block -> Link]
  BY <1>1, <1>3, <1>7, LeadsApart DEF Link, Written
<1>9. PICK c : c = IF l = h THEN NULL ELSE l
  OBVIOUS
<1>10. c = IF a = << >> THEN NULL ELSE Last(a)
  <2>1. q \in Seq(Block) /\ a \in Seq(Block) /\ Len(q) >= 1 /\ l = q[Len(q)]
    BY <1>1, <1>2, <1>6 DEF Leads, Last
  <2>2. CASE a = << >>
    <3>1. Len(q) = 1
      BY <1>6, <2>2
    <3>2. QED BY <1>6, <1>9, <2>1, <2>2, <3>1
  <2>3. CASE a # << >>
    <3>1. Last(a) \in ToSet(a)
      BY <1>6, <2>3, LeadsFrom, MessageQueueAssumption
    <3>2. Len(a) \in 1 .. Len(a)
      BY <2>1, <2>3
    <3>3. a[Len(a)] = q[Len(a) + 1]
      BY <1>2, <1>4, <2>1, <3>2, HeadTailProperties
    <3>4. Last(a) = l
      BY <1>6, <2>1, <3>3 DEF Last
    <3>5. QED BY <1>6, <1>9, <2>3, <3>1, <3>4
  <2>4. QED BY <2>2, <2>3
<1>11. Placed(w, d, c, r, e - 1, held \cup {h}, a, f)
  <2>1. ToSet(a) \cap ToSet(f) = {}
    BY <1>1, <1>6
  <2>2. (held \cup {h}) \cap (ToSet(a) \cup ToSet(f)) = {}
    BY <1>1, <1>6, <1>7
  <2>3. Block = ToSet(a) \cup ToSet(f) \cup (held \cup {h})
    BY <1>1, <1>6
  <2>4. QED BY <1>1, <1>6, <1>8, <1>10, <2>1, <2>2, <2>3 DEF Placed
<1>12. QED BY <1>2, <1>3, <1>4, <1>5, <1>6, <1>7, <1>9, <1>11

\* A block is given back.
LEMMA GivesBack ==
  ASSUME NEW p, NEW h, NEW l, NEW r, NEW e, NEW held, NEW q, NEW f,
         Placed(p, h, l, r, e, held, q, f), NEW b \in held
  PROVE  Placed(Written(p, b, r), h, l, b, e, held \ {b}, q, InFront(b, f))
<1>1. /\ p \in [Block -> Link] /\ Leads(p, Block, h, q) /\ Leads(p, Block, r, f)
      /\ ToSet(q) \cap ToSet(f) = {} /\ held \cap (ToSet(q) \cup ToSet(f)) = {}
      /\ Block = ToSet(q) \cup ToSet(f) \cup held
      /\ e = Len(q) /\ l = IF q = << >> THEN NULL ELSE Last(q)
  BY DEF Placed
<1>2. NULL \notin Block /\ b \in Block /\ b \notin ToSet(q) /\ b \notin ToSet(f)
  BY <1>1, MessageQueueAssumption
<1>3. PICK w : w = Written(p, b, r)
  OBVIOUS
<1>4. r \in Link
  BY <1>1, <1>2, LeadsFrom DEF Link
<1>5. w \in [Block -> Link] /\ Leads(w, Block, h, q)
  BY <1>1, <1>2, <1>3, <1>4, LeadsApart DEF Written
<1>6. PICK a : a = InFront(b, f)
  OBVIOUS
<1>7. Leads(w, Block, b, a) /\ ToSet(a) = ToSet(f) \cup {b}
  <2>1. p \in [Block -> Link] /\ Leads(p, Block, r, f)
    BY <1>1
  <2>2. b \in Block /\ b \notin ToSet(f)
    BY <1>2
  <2>3. Leads(Written(p, b, r), Block, b, InFront(b, f))
    BY ONLY <2>1, <2>2, LeadsPush
  <2>4. ToSet(InFront(b, f)) = ToSet(f) \cup {b}
    BY ONLY <2>1, <2>2, LeadsPush
  <2>5. QED BY ONLY <1>3, <1>6, <2>3, <2>4
<1>8. Placed(w, h, l, b, e, held \ {b}, q, a)
  <2>1. ToSet(q) \cap ToSet(a) = {}
    BY <1>1, <1>2, <1>7
  <2>2. (held \ {b}) \cap (ToSet(q) \cup ToSet(a)) = {}
    BY <1>1, <1>7
  <2>3. Block = ToSet(q) \cup ToSet(a) \cup (held \ {b})
    BY <1>1, <1>2, <1>7
  <2>4. QED BY <1>1, <1>5, <1>7, <2>1, <2>2, <2>3 DEF Placed
<1>9. QED BY <1>3, <1>6, <1>8

LEMMA ReverseProperties ==
  ASSUME NEW S, NEW s \in Seq(S), IsInjective(s)
  PROVE  /\ Reverse(s) \in Seq(S) /\ IsInjective(Reverse(s)) /\ ToSet(Reverse(s)) = ToSet(s)
         /\ Len(Reverse(s)) = Len(s)
         /\ First(Reverse(s)) = IF s = << >> THEN NULL ELSE Last(s)
<1>1. /\ Len(s) \in Nat /\ \A i, j \in 1 .. Len(s) : s[i] = s[j] => i = j
      /\ \A i \in 1 .. Len(s) : s[i] \in S
  BY DEF IsInjective
<1>2. PICK r : r = [i \in 1 .. Len(s) |-> s[(Len(s) - i) + 1]]
  OBVIOUS
<1>3. \A i \in 1 .. Len(s) : (Len(s) - i) + 1 \in 1 .. Len(s)
  BY <1>1
<1>4. r \in [1 .. Len(s) -> S] /\ \A i \in 1 .. Len(s) : r[i] = s[(Len(s) - i) + 1]
  BY <1>1, <1>2, <1>3
<1>5. r \in Seq(S) /\ Len(r) = Len(s) /\ DOMAIN r = 1 .. Len(s)
  BY <1>1, <1>4
<1>6. IsInjective(r)
  <2>1. ASSUME NEW i \in 1 .. Len(s), NEW j \in 1 .. Len(s), r[i] = r[j] PROVE i = j
    <3>1. s[(Len(s) - i) + 1] = s[(Len(s) - j) + 1]
      BY <1>4, <2>1
    <3>2. (Len(s) - i) + 1 = (Len(s) - j) + 1
      BY <1>1, <1>3, <3>1
    <3>3. QED BY <1>1, <3>2
  <2>2. QED BY <1>5, <2>1 DEF IsInjective
<1>7. ToSet(r) = ToSet(s)
  <2>1. ToSet(r) = {r[i] : i \in 1 .. Len(s)} /\ ToSet(s) = {s[i] : i \in 1 .. Len(s)}
    BY <1>5, MembersOf
  <2>2. \A i \in 1 .. Len(s) : r[i] \in ToSet(s)
    BY <1>3, <1>4, <2>1
  <2>3. ASSUME NEW i \in 1 .. Len(s) PROVE s[i] \in ToSet(r)
    <3>1. PICK j \in 1 .. Len(s) : j = (Len(s) - i) + 1
      BY <1>3
    <3>2. (Len(s) - j) + 1 = i
      BY <1>1, <3>1
    <3>3. r[j] = s[i]
      BY <1>4, <3>2
    <3>4. QED BY <2>1, <3>3
  <2>4. QED BY <2>1, <2>2, <2>3
<1>8. First(r) = IF s = << >> THEN NULL ELSE Last(s)
  <2>1. CASE s = << >>
    <3>1. r = << >>
      BY <1>5, <2>1
    <3>2. QED BY <2>1, <3>1 DEF First
  <2>2. CASE s # << >>
    <3>1. Len(s) >= 1 /\ r # << >> /\ Head(r) = r[1]
      BY <1>1, <1>5, <2>2
    <3>2. 1 \in 1 .. Len(s) /\ (Len(s) - 1) + 1 = Len(s)
      BY <1>1, <3>1
    <3>3. r[1] = s[Len(s)]
      BY <1>4, <3>2
    <3>4. QED BY <2>2, <3>1, <3>3 DEF First, Last
  <2>3. QED BY <2>1, <2>2
<1>9. r = Reverse(s)
  BY <1>2 DEF Reverse
<1>10. QED BY <1>5, <1>6, <1>7, <1>8, <1>9

LEMMA JoinedLists ==
  ASSUME NEW S, NEW s \in Seq(S), IsInjective(s), NEW t \in Seq(S), IsInjective(t),
         ToSet(s) \cap ToSet(t) = {}
  PROVE  /\ s \o t \in Seq(S) /\ IsInjective(s \o t) /\ ToSet(s \o t) = ToSet(s) \cup ToSet(t)
         /\ Len(s \o t) = Len(s) + Len(t)
         /\ First(s \o t) = IF s = << >> THEN First(t) ELSE First(s)
<1>1. /\ Len(s) \in Nat /\ \A i, j \in 1 .. Len(s) : s[i] = s[j] => i = j
      /\ Len(t) \in Nat /\ \A i, j \in 1 .. Len(t) : t[i] = t[j] => i = j
  BY DEF IsInjective
<1>2. PICK w : w = s \o t
  OBVIOUS
<1>3. /\ w \in Seq(S) /\ Len(w) = Len(s) + Len(t) /\ DOMAIN w = 1 .. Len(s) + Len(t)
      /\ \A i \in 1 .. Len(s) + Len(t) : w[i] = IF i <= Len(s) THEN s[i] ELSE t[i - Len(s)]
  BY <1>2, ConcatProperties
<1>4. /\ ToSet(w) = {w[i] : i \in 1 .. Len(w)} /\ ToSet(s) = {s[i] : i \in 1 .. Len(s)}
      /\ ToSet(t) = {t[i] : i \in 1 .. Len(t)}
  BY <1>3, MembersOf
<1>5. \A i \in 1 .. Len(w) : \/ i \in 1 .. Len(s) /\ w[i] = s[i]
                             \/ i - Len(s) \in 1 .. Len(t) /\ w[i] = t[i - Len(s)]
  <2>1. ASSUME NEW i \in 1 .. Len(w), i <= Len(s) PROVE i \in 1 .. Len(s) /\ w[i] = s[i]
    BY <1>1, <1>3, <2>1
  <2>2. ASSUME NEW i \in 1 .. Len(w), ~ (i <= Len(s))
        PROVE  i - Len(s) \in 1 .. Len(t) /\ w[i] = t[i - Len(s)]
    BY <1>1, <1>3, <2>2
  <2>3. QED BY <2>1, <2>2
<1>6. \A i \in 1 .. Len(s) : i \in 1 .. Len(w) /\ w[i] = s[i]
  BY <1>1, <1>3
<1>7. \A i \in 1 .. Len(t) : i + Len(s) \in 1 .. Len(w) /\ w[i + Len(s)] = t[i]
  <2>1. ASSUME NEW i \in 1 .. Len(t) PROVE i + Len(s) \in 1 .. Len(w) /\ w[i + Len(s)] = t[i]
    <3>1. PICK j : j = i + Len(s)
      OBVIOUS
    <3>2. j \in 1 .. Len(s) + Len(t) /\ ~ (j <= Len(s)) /\ j - Len(s) = i
      BY <1>1, <3>1
    <3>3. w[j] = t[j - Len(s)]
      BY <1>3, <3>2
    <3>4. QED BY <1>3, <3>1, <3>2, <3>3
  <2>2. QED BY <2>1
<1>8. ToSet(w) = ToSet(s) \cup ToSet(t)
  <2>1. \A x \in ToSet(w) : x \in ToSet(s) \cup ToSet(t)
    BY <1>4, <1>5
  <2>2. \A x \in ToSet(s) : x \in ToSet(w)
    BY <1>4, <1>6
  <2>3. \A x \in ToSet(t) : x \in ToSet(w)
    BY <1>4, <1>7
  <2>4. QED BY <2>1, <2>2, <2>3
<1>9. IsInjective(w)
  <2>1. ASSUME NEW i \in 1 .. Len(w), NEW j \in 1 .. Len(w), w[i] = w[j] PROVE i = j
    <3>1. CASE i \in 1 .. Len(s) /\ w[i] = s[i] /\ j \in 1 .. Len(s) /\ w[j] = s[j]
      BY <1>1, <2>1, <3>1
    <3>2. CASE /\ i - Len(s) \in 1 .. Len(t) /\ w[i] = t[i - Len(s)]
               /\ j - Len(s) \in 1 .. Len(t) /\ w[j] = t[j - Len(s)]
      <4>1. i - Len(s) = j - Len(s)
        BY <1>1, <2>1, <3>2
      <4>2. QED BY <1>1, <4>1
    <3>3. CASE i \in 1 .. Len(s) /\ w[i] = s[i] /\ j - Len(s) \in 1 .. Len(t) /\ w[j] = t[j - Len(s)]
      BY <1>4, <2>1, <3>3
    <3>4. CASE j \in 1 .. Len(s) /\ w[j] = s[j] /\ i - Len(s) \in 1 .. Len(t) /\ w[i] = t[i - Len(s)]
      BY <1>4, <2>1, <3>4
    <3>5. QED BY <1>5, <3>1, <3>2, <3>3, <3>4
  <2>2. QED BY <1>3, <2>1 DEF IsInjective
<1>10. First(w) = IF s = << >> THEN First(t) ELSE First(s)
  <2>1. CASE s = << >>
    BY <1>2, <2>1, ConcatEmptySeq
  <2>2. CASE s # << >>
    <3>1. 1 \in 1 .. Len(s) /\ w # << >> /\ Head(w) = w[1] /\ Head(s) = s[1]
      BY <1>1, <1>3, <2>2
    <3>2. QED BY <1>6, <2>2, <3>1 DEF First
  <2>3. QED BY <2>1, <2>2
<1>11. QED BY <1>2, <1>3, <1>8, <1>9, <1>10

\* rt_mq_control(RESET) moves all blocks of the queue to the free list.
LEMMA AllBack ==
  ASSUME NEW p, NEW h, NEW l, NEW r, NEW e, NEW held, NEW q, NEW f,
         Placed(p, h, l, r, e, held, q, f)
  PROVE  Placed([b \in Block |-> IF b \in ToSet(Reverse(q) \o f) THEN Linked(Reverse(q) \o f)[b]
                                 ELSE p[b]],
                NULL, NULL, IF q = << >> THEN r ELSE Last(q), 0, held, << >>, Reverse(q) \o f)
<1>1. /\ p \in [Block -> Link] /\ Leads(p, Block, h, q) /\ Leads(p, Block, r, f)
      /\ ToSet(q) \cap ToSet(f) = {} /\ held \cap (ToSet(q) \cup ToSet(f)) = {}
      /\ Block = ToSet(q) \cup ToSet(f) \cup held
      /\ q \in Seq(Block) /\ IsInjective(q) /\ f \in Seq(Block) /\ IsInjective(f) /\ r = First(f)
  BY DEF Placed, Leads
<1>2. PICK v : v = Reverse(q)
  OBVIOUS
<1>3. /\ v \in Seq(Block) /\ IsInjective(v) /\ ToSet(v) = ToSet(q) /\ Len(v) = Len(q)
      /\ First(v) = IF q = << >> THEN NULL ELSE Last(q)
  BY <1>1, <1>2, ReverseProperties
<1>4. PICK g : g = v \o f
  OBVIOUS
<1>5. /\ g \in Seq(Block) /\ IsInjective(g) /\ ToSet(g) = ToSet(q) \cup ToSet(f)
      /\ First(g) = IF v = << >> THEN First(f) ELSE First(v)
  BY <1>1, <1>3, <1>4, JoinedLists
<1>6. v = << >> <=> q = << >>
  BY <1>1, <1>3
<1>7. PICK d : d = IF q = << >> THEN r ELSE Last(q)
  OBVIOUS
<1>8. First(g) = d
  BY <1>1, <1>3, <1>5, <1>6, <1>7
<1>9. PICK n : n = Linked(g)
  OBVIOUS
<1>10. Leads(n, Block, d, g) /\ n \in [ToSet(g) -> Block \cup {NULL}]
  BY <1>5, <1>8, <1>9, LinkedLeads
<1>11. PICK w : w = [b \in Block |-> IF b \in ToSet(g) THEN n[b] ELSE p[b]]
  OBVIOUS
<1>13. ToSet(g) \subseteq Block
  BY <1>1, <1>5
<1>14. \A x \in ToSet(g) : n[x] \in Block \cup {NULL}
  BY <1>10
<1>15. w \in [Block -> Link] /\ \A x \in ToSet(g) : w[x] = n[x]
  BY <1>1, <1>11, <1>13, <1>14 DEF Link
<1>16. Leads(w, Block, d, g) /\ Leads(w, Block, NULL, << >>)
  BY <1>10, <1>15, LeadsSame, LeadsNowhere
<1>17. ToSet(<< >>) = {}
  <2>1. << >> \in Seq(Block)
    OBVIOUS
  <2>2. QED BY <2>1, MembersOf
<1>18. Placed(w, NULL, NULL, d, 0, held, << >>, g)
  BY <1>1, <1>5, <1>15, <1>16, <1>17 DEF Placed
<1>19. QED BY <1>2, <1>4, <1>7, <1>9, <1>11, <1>18

LEMMA SetToSeqProperties ==
  ASSUME NEW S, IsFiniteSet(S)
  PROVE  /\ SetToSeq(S) \in Seq(S) /\ IsInjective(SetToSeq(S)) /\ ToSet(SetToSeq(S)) = S
         /\ Len(SetToSeq(S)) = Cardinality(S)
<1>1. PICK c \in Nat : c = Cardinality(S)
  BY FS_CardinalityType
<1>2. ExistsBijection(1 .. c, S)
  BY <1>1, FS_CardinalityType
<1>3. \E g \in [1 .. c -> S] : IsInjective(g)
  BY <1>2 DEF ExistsBijection, Bijection, Injection
<1>4. PICK s : s = SetToSeq(S)
  OBVIOUS
<1>5. s = CHOOSE g \in [1 .. c -> S] : IsInjective(g)
  BY <1>1, <1>4 DEF SetToSeq
<1>6. s \in [1 .. c -> S] /\ IsInjective(s)
  BY <1>3, <1>5
<1>7. s \in Seq(S) /\ Len(s) = c
  BY <1>6
<1>8. ToSet(s) = S
  <2>1. ToSet(s) \in SUBSET S /\ Cardinality(ToSet(s)) = c
    BY <1>6, <1>7, MembersOf, InjectiveLength
  <2>2. QED BY <1>1, <2>1, FS_Subset
<1>9. QED BY <1>1, <1>4, <1>6, <1>7, <1>8

\* The queue as rt_mq_init leaves it.
LEMMA FreeAtFirst ==
  ASSUME MqInit
  PROVE  \E f : Placed(next, msg_queue_head, msg_queue_tail, msg_queue_free, mq_entry,
                       {}, << >>, f)
<1>1. PICK s : s = SetToSeq(Block)
  OBVIOUS
<1>2. /\ s \in Seq(Block) /\ IsInjective(s) /\ ToSet(s) = Block /\ Len(s) = Cardinality(Block)
      /\ Block # {}
  BY <1>1, SetToSeqProperties, MessageQueueAssumption
<1>3. /\ next = Linked(Reverse(s)) /\ msg_queue_free = Last(s)
      /\ msg_queue_head = NULL /\ msg_queue_tail = NULL /\ mq_entry = 0
  BY <1>1 DEF MqInit
<1>4. s # << >>
  BY <1>2, MembersOf
<1>5. PICK g : g = Reverse(s)
  OBVIOUS
<1>6. g \in Seq(Block) /\ IsInjective(g) /\ ToSet(g) = Block /\ First(g) = Last(s)
  BY <1>2, <1>4, <1>5, ReverseProperties
<1>7. Leads(next, Block, msg_queue_free, g) /\ next \in [Block -> Link]
  BY <1>3, <1>5, <1>6, LinkedLeads DEF Link
<1>8. Leads(next, Block, NULL, << >>)
  BY LeadsNowhere
<1>9. ToSet(<< >>) = {}
  <2>1. << >> \in Seq(Block)
    OBVIOUS
  <2>2. QED BY <2>1, MembersOf
<1>10. Placed(next, NULL, NULL, msg_queue_free, 0, {}, << >>, g)
  BY <1>6, <1>7, <1>8, <1>9 DEF Placed
<1>11. QED BY <1>3, <1>10

\* The messages of the blocks q, with the data d.
ContentsOf(d, q) == [i \in DOMAIN q |-> d[q[i]]]

LEMMA ContentsType ==
  ASSUME NEW M, NEW d \in [Block -> M], NEW q \in Seq(Block)
  PROVE  /\ ContentsOf(d, q) \in Seq(M) /\ Len(ContentsOf(d, q)) = Len(q)
         /\ \A i \in 1 .. Len(q) : ContentsOf(d, q)[i] = d[q[i]]
<1>1. DOMAIN q = 1 .. Len(q) /\ Len(q) \in Nat /\ \A i \in 1 .. Len(q) : q[i] \in Block
  OBVIOUS
<1>2. PICK c : c = [i \in 1 .. Len(q) |-> d[q[i]]]
  OBVIOUS
<1>3. c \in [1 .. Len(q) -> M]
  BY <1>1, <1>2
<1>4. c \in Seq(M) /\ Len(c) = Len(q) /\ \A i \in 1 .. Len(q) : c[i] = d[q[i]]
  BY <1>1, <1>2, <1>3
<1>5. c = ContentsOf(d, q)
  BY <1>1, <1>2 DEF ContentsOf
<1>6. QED BY <1>4, <1>5

LEMMA ContentsSame ==
  ASSUME NEW q \in Seq(Block), NEW c, NEW d, \A x \in ToSet(q) : c[x] = d[x]
  PROVE  ContentsOf(c, q) = ContentsOf(d, q)
<1>1. DOMAIN q = 1 .. Len(q) /\ ToSet(q) = {q[i] : i \in 1 .. Len(q)}
  BY MembersOf
<1>2. \A i \in DOMAIN q : c[q[i]] = d[q[i]]
  BY <1>1
<1>3. QED BY <1>2 DEF ContentsOf

LEMMA ContentsAppend ==
  ASSUME NEW M, NEW d \in [Block -> M], NEW q \in Seq(Block), NEW b \in Block,
         b \notin ToSet(q), NEW m \in M
  PROVE  ContentsOf(Written(d, b, m), Append(q, b)) = Append(ContentsOf(d, q), m)
<1>1. PICK e : e = [d EXCEPT ![b] = m]
  OBVIOUS
<1>2. e \in [Block -> M] /\ e[b] = m /\ \A x \in Block \ {b} : e[x] = d[x]
  BY <1>1
<1>3. PICK w : w = Append(q, b)
  OBVIOUS
<1>4. /\ w \in Seq(Block) /\ Len(w) = Len(q) + 1 /\ w[Len(q) + 1] = b
      /\ \A i \in 1 .. Len(q) : w[i] = q[i]
  BY <1>3, AppendProperties
<1>5. PICK c : c = ContentsOf(d, q)
  OBVIOUS
<1>6. c \in Seq(M) /\ Len(c) = Len(q) /\ \A i \in 1 .. Len(q) : c[i] = d[q[i]]
  BY <1>5, ContentsType
<1>7. PICK a : a = ContentsOf(e, w)
  OBVIOUS
<1>8. a \in Seq(M) /\ Len(a) = Len(w) /\ \A i \in 1 .. Len(w) : a[i] = e[w[i]]
  <2>1. e \in [Block -> M] /\ w \in Seq(Block)
    BY <1>2, <1>4
  <2>2. QED BY ONLY <1>7, <2>1, ContentsType
<1>9. PICK g : g = Append(c, m)
  OBVIOUS
<1>10. /\ g \in Seq(M) /\ Len(g) = Len(c) + 1 /\ g[Len(c) + 1] = m
       /\ \A i \in 1 .. Len(c) : g[i] = c[i]
  BY <1>6, <1>9, AppendProperties
<1>11. ToSet(q) = {q[i] : i \in 1 .. Len(q)} /\ ToSet(q) \subseteq Block
  BY MembersOf
<1>12. ASSUME NEW i \in 1 .. Len(a) PROVE a[i] = g[i]
  <2>1. CASE i \in 1 .. Len(q)
    <3>1. w[i] = q[i] /\ q[i] \in Block \ {b}
      BY <1>4, <1>11, <2>1
    <3>2. a[i] = d[q[i]]
      BY <1>2, <1>8, <3>1
    <3>3. g[i] = c[i] /\ c[i] = d[q[i]]
      BY <1>6, <1>10, <2>1
    <3>4. QED BY <3>2, <3>3
  <2>2. CASE i = Len(q) + 1
    <3>1. a[i] = m
      BY <1>2, <1>4, <1>8, <2>2
    <3>2. g[i] = m
      BY <1>6, <1>10, <2>2
    <3>3. QED BY <3>1, <3>2
  <2>3. QED BY <1>4, <1>8, <2>1, <2>2
<1>13. Len(a) = Len(g)
  BY <1>4, <1>6, <1>8, <1>10
<1>14. a = g
  BY <1>8, <1>10, <1>12, <1>13, SeqEqual
<1>15. QED BY <1>1, <1>3, <1>5, <1>7, <1>9, <1>14 DEF Written

LEMMA ContentsPush ==
  ASSUME NEW M, NEW d \in [Block -> M], NEW q \in Seq(Block), NEW b \in Block,
         b \notin ToSet(q), NEW m \in M
  PROVE  ContentsOf(Written(d, b, m), InFront(b, q)) = <<m>> \o ContentsOf(d, q)
<1>1. PICK e : e = [d EXCEPT ![b] = m]
  OBVIOUS
<1>2. e \in [Block -> M] /\ e[b] = m /\ \A x \in Block \ {b} : e[x] = d[x]
  BY <1>1
<1>3. PICK w : w = <<b>> \o q
  OBVIOUS
<1>4. <<b>> \in Seq(Block) /\ Len(<<b>>) = 1 /\ <<b>>[1] = b
  OBVIOUS
<1>5. /\ w \in Seq(Block) /\ Len(w) = 1 + Len(q)
      /\ \A i \in 1 .. 1 + Len(q) : w[i] = IF i <= 1 THEN <<b>>[i] ELSE q[i - 1]
  BY <1>3, <1>4, ConcatProperties
<1>6. PICK c : c = ContentsOf(d, q)
  OBVIOUS
<1>7. c \in Seq(M) /\ Len(c) = Len(q) /\ \A i \in 1 .. Len(q) : c[i] = d[q[i]]
  BY <1>6, ContentsType
<1>8. PICK a : a = ContentsOf(e, w)
  OBVIOUS
<1>9. a \in Seq(M) /\ Len(a) = Len(w) /\ \A i \in 1 .. Len(w) : a[i] = e[w[i]]
  <2>1. e \in [Block -> M] /\ w \in Seq(Block)
    BY <1>2, <1>5
  <2>2. QED BY ONLY <1>8, <2>1, ContentsType
<1>10. PICK g : g = <<m>> \o c
  OBVIOUS
<1>11. <<m>> \in Seq(M) /\ Len(<<m>>) = 1 /\ <<m>>[1] = m
  OBVIOUS
<1>12. /\ g \in Seq(M) /\ Len(g) = 1 + Len(c)
       /\ \A i \in 1 .. 1 + Len(c) : g[i] = IF i <= 1 THEN <<m>>[i] ELSE c[i - 1]
  BY <1>7, <1>10, <1>11, ConcatProperties
<1>13. /\ ToSet(q) = {q[i] : i \in 1 .. Len(q)} /\ ToSet(q) \subseteq Block /\ Len(q) \in Nat
  BY MembersOf
<1>14. ASSUME NEW i \in 1 .. Len(a) PROVE a[i] = g[i]
  <2>1. CASE i = 1
    <3>1. w[i] = b
      BY <1>4, <1>5, <1>9, <2>1
    <3>2. g[i] = m
      BY <1>5, <1>7, <1>9, <1>11, <1>12, <2>1
    <3>3. QED BY <1>2, <1>9, <3>1, <3>2
  <2>2. CASE i # 1
    <3>1. PICK j \in 1 .. Len(q) : j = i - 1 /\ ~ (i <= 1) /\ i \in 1 .. 1 + Len(q)
      BY <1>5, <1>9, <1>13, <2>2
    <3>2. w[i] = q[j] /\ q[j] \in Block \ {b}
      BY <1>5, <1>13, <3>1
    <3>3. a[i] = d[q[j]]
      BY <1>2, <1>9, <3>2
    <3>4. g[i] = c[j] /\ c[j] = d[q[j]]
      BY <1>7, <1>12, <3>1
    <3>5. QED BY <3>3, <3>4
  <2>3. QED BY <2>1, <2>2
<1>15. Len(a) = Len(g)
  BY <1>5, <1>7, <1>9, <1>12
<1>16. a = g
  BY <1>9, <1>12, <1>14, <1>15, SeqEqual
<1>17. QED BY <1>1, <1>3, <1>6, <1>8, <1>10, <1>16 DEF Written, InFront

LEMMA ContentsTail ==
  ASSUME NEW M, NEW d \in [Block -> M], NEW q \in Seq(Block), q # << >>
  PROVE  /\ ContentsOf(d, Tail(q)) = Tail(ContentsOf(d, q))
         /\ ContentsOf(d, q) # << >> /\ Head(ContentsOf(d, q)) = d[q[1]]
<1>1. PICK w : w = Tail(q)
  OBVIOUS
<1>2. /\ w \in Seq(Block) /\ Len(w) = Len(q) - 1 /\ Len(q) \in Nat /\ Len(q) >= 1
      /\ \A i \in 1 .. Len(w) : w[i] = q[i + 1]
  BY <1>1, HeadTailProperties
<1>3. PICK c : c = ContentsOf(d, q)
  OBVIOUS
<1>4. c \in Seq(M) /\ Len(c) = Len(q) /\ \A i \in 1 .. Len(q) : c[i] = d[q[i]]
  BY <1>3, ContentsType
<1>5. PICK a : a = ContentsOf(d, w)
  OBVIOUS
<1>6. a \in Seq(M) /\ Len(a) = Len(w) /\ \A i \in 1 .. Len(w) : a[i] = d[w[i]]
  BY <1>2, <1>5, ContentsType
<1>7. c # << >> /\ Head(c) = c[1] /\ c[1] = d[q[1]]
  BY <1>2, <1>4
<1>8. PICK g : g = Tail(c)
  OBVIOUS
<1>9. g \in Seq(M) /\ Len(g) = Len(c) - 1 /\ \A i \in 1 .. Len(g) : g[i] = c[i + 1]
  BY <1>4, <1>7, <1>8, HeadTailProperties
<1>10. ASSUME NEW i \in 1 .. Len(a) PROVE a[i] = g[i]
  <2>1. i \in 1 .. Len(w) /\ i \in 1 .. Len(g) /\ i + 1 \in 1 .. Len(q)
    BY <1>2, <1>4, <1>6, <1>9
  <2>2. a[i] = d[q[i + 1]] /\ g[i] = d[q[i + 1]]
    BY <1>2, <1>4, <1>6, <1>9, <2>1
  <2>3. QED BY <2>2
<1>11. a = g
  BY <1>2, <1>4, <1>6, <1>9, <1>10, SeqEqual
<1>12. QED BY <1>1, <1>3, <1>5, <1>7, <1>8, <1>11

LEMMA ChainPlaced ==
  ASSUME NEW p, NEW h, NEW l, NEW r, NEW e, NEW held, NEW q, NEW f,
         Placed(p, h, l, r, e, held, q, f)
  PROVE  /\ Chain(p, h) = [seq |-> q, at |-> NULL] /\ Chain(p, r) = [seq |-> f, at |-> NULL]
         /\ q \in Seq(Block) /\ f \in Seq(Block) /\ IsInjective(q) /\ IsInjective(f)
<1>1. /\ p \in [Block -> Link] /\ Leads(p, Block, h, q) /\ Leads(p, Block, r, f)
  BY DEF Placed
<1>2. DOMAIN p = Block /\ IsFiniteSet(Block) /\ NULL \notin Block
  BY <1>1, MessageQueueAssumption
<1>3. QED BY <1>1, <1>2, ChainIs DEF Leads

LEMMA ContentsAre ==
  ASSUME NEW l, NEW r, NEW e, NEW held, NEW q, NEW f,
         Placed(next, msg_queue_head, l, r, e, held, q, f)
  PROVE  Contents = ContentsOf(data, q) /\ Queue.seq = q
<1>1. Chain(next, msg_queue_head) = [seq |-> q, at |-> NULL]
  BY ChainPlaced
<1>2. QED BY <1>1 DEF Contents, Queue, ContentsOf

LEMMA ContentsBecome ==
  ASSUME NEW l, NEW r, NEW e, NEW held, NEW q, NEW f,
         Placed(next', msg_queue_head', l, r, e, held, q, f)
  PROVE  Contents' = ContentsOf(data', q)
<1>1. Chain(next', msg_queue_head') = [seq |-> q, at |-> NULL]
  BY ChainPlaced
<1>2. QED BY <1>1 DEF Contents, Queue, ContentsOf

-----------------------------------------------------------------------------
\* A thread between the two critical sections of a call holds a block.
HoldPoints == {"mq_send", "mq_urgent", "mq_copy"}

HeldOf(m) == {m[u] : u \in Thread} \ {NULL}

\* c is where the threads are, m the block each holds, d the messages of the
\* blocks, x the message each thread sends or has received.
Holds(c, m, d, x) ==
  /\ m \in [Thread -> Link] /\ x \in [Thread -> Message \cup {NoMessage}]
  /\ d \in [Block -> Message \cup {NoMessage}]
  /\ \A u, w \in Thread : m[u] = m[w] /\ m[u] # NULL => u = w
  /\ \A u \in Thread : m[u] # NULL <=> c[u] \in HoldPoints
  /\ \A u \in Thread :
       /\ c[u] = "mq_send" => x[u] \in Message \ UrgentMessage
       /\ c[u] = "mq_urgent" => x[u] \in UrgentMessage
       /\ c[u] = "mq_copy" => x[u] = d[m[u]]

\* The threads that move hold no block.
MoveFreely(c, w) ==
  \A u \in Thread : w[u] = c[u] \/ (c[u] \notin HoldPoints /\ w[u] \notin HoldPoints)

LEMMA HoldsSame ==
  ASSUME NEW c, NEW m, NEW d, NEW x, Holds(c, m, d, x), NEW w, MoveFreely(c, w)
  PROVE  Holds(w, m, d, x)
<1>1. \A u \in Thread :
        /\ m[u] # NULL <=> c[u] \in HoldPoints
        /\ w[u] = c[u] \/ (c[u] \notin HoldPoints /\ w[u] \notin HoldPoints)
  BY DEF Holds, MoveFreely
<1>2. \A u \in Thread : m[u] # NULL <=> w[u] \in HoldPoints
  BY <1>1
<1>3. \A u \in Thread :
        /\ w[u] = "mq_send" => x[u] \in Message \ UrgentMessage
        /\ w[u] = "mq_urgent" => x[u] \in UrgentMessage
        /\ w[u] = "mq_copy" => x[u] = d[m[u]]
  BY <1>1 DEF Holds, HoldPoints
<1>4. QED BY <1>2, <1>3 DEF Holds

\* The messages of blocks that nobody holds may change.
LEMMA HoldsData ==
  ASSUME NEW c, NEW m, NEW d, NEW x, Holds(c, m, d, x),
         NEW e \in [Block -> Message \cup {NoMessage}], \A b \in HeldOf(m) : e[b] = d[b]
  PROVE  Holds(c, m, e, x)
<1>1. \A u \in Thread : c[u] = "mq_copy" => m[u] \in HeldOf(m)
  BY DEF Holds, HeldOf, HoldPoints
<1>2. \A u \in Thread : c[u] = "mq_copy" => x[u] = e[m[u]]
  BY <1>1 DEF Holds
<1>3. QED BY <1>2 DEF Holds

\* Thread t takes block b, which nobody holds.
LEMMA HoldsTake ==
  ASSUME NEW c, NEW m, NEW d, NEW x, Holds(c, m, d, x), NEW t \in Thread, c[t] \notin HoldPoints,
         NEW b \in Block, b \notin HeldOf(m), NEW p \in HoldPoints, NEW y,
         y \in Message \cup {NoMessage},
         p = "mq_send" => y \in Message \ UrgentMessage, p = "mq_urgent" => y \in UrgentMessage,
         p = "mq_copy" => y = d[b],
         NEW w, w[t] = p, \A u \in Thread \ {t} : w[u] = c[u],
         NEW n, n = Written(m, t, b), NEW z, z = Written(x, t, y)
  PROVE  Holds(w, n, d, z) /\ HeldOf(n) = HeldOf(m) \cup {b}
<1>1. /\ m \in [Thread -> Link] /\ x \in [Thread -> Message \cup {NoMessage}]
      /\ d \in [Block -> Message \cup {NoMessage}]
      /\ \A u, v \in Thread : m[u] = m[v] /\ m[u] # NULL => u = v
      /\ \A u \in Thread : m[u] # NULL <=> c[u] \in HoldPoints
  BY DEF Holds
<1>2. b # NULL /\ b \in Link
  BY MessageQueueAssumption DEF Link
<1>3. n[t] = b /\ m[t] = NULL /\ \A u \in Thread \ {t} : n[u] = m[u] /\ n[u] # b
  <2>1. \A u \in Thread : m[u] # b
    BY <1>2 DEF HeldOf
  <2>2. QED BY <1>1, <2>1 DEF Written
<1>4. n \in [Thread -> Link]
  BY <1>1, <1>2 DEF Written
<1>5. z \in [Thread -> Message \cup {NoMessage}] /\ z[t] = y
      /\ \A u \in Thread \ {t} : z[u] = x[u]
  BY <1>1 DEF Written
<1>6. \A u, v \in Thread : n[u] = n[v] /\ n[u] # NULL => u = v
  BY <1>1, <1>3
<1>7. \A u \in Thread : n[u] # NULL <=> w[u] \in HoldPoints
  BY <1>1, <1>2, <1>3
<1>8. ASSUME NEW u \in Thread
      PROVE  /\ w[u] = "mq_send" => z[u] \in Message \ UrgentMessage
             /\ w[u] = "mq_urgent" => z[u] \in UrgentMessage
             /\ w[u] = "mq_copy" => z[u] = d[n[u]]
  <2>1. CASE u = t
    BY <1>3, <1>5, <2>1
  <2>2. CASE u # t
    <3>1. w[u] = c[u] /\ z[u] = x[u] /\ n[u] = m[u]
      BY <1>3, <1>5, <2>2
    <3>2. QED BY <3>1 DEF Holds
  <2>3. QED BY <2>1, <2>2
<1>9. Holds(w, n, d, z)
  BY <1>1, <1>4, <1>5, <1>6, <1>7, <1>8 DEF Holds
<1>10. HeldOf(n) = HeldOf(m) \cup {b}
  BY <1>2, <1>3 DEF HeldOf
<1>11. QED BY <1>9, <1>10

\* Thread t lets its block go.
LEMMA HoldsRelease ==
  ASSUME NEW c, NEW m, NEW d, NEW x, Holds(c, m, d, x), NEW t \in Thread, c[t] \in HoldPoints,
         NEW w, w[t] \notin HoldPoints, \A u \in Thread \ {t} : w[u] = c[u],
         NEW n, n = Written(m, t, NULL), NEW z, z = Written(x, t, NoMessage)
  PROVE  /\ Holds(w, n, d, z) /\ HeldOf(n) = HeldOf(m) \ {m[t]}
         /\ m[t] \in HeldOf(m) /\ m[t] \in Block
<1>1. /\ m \in [Thread -> Link] /\ x \in [Thread -> Message \cup {NoMessage}]
      /\ d \in [Block -> Message \cup {NoMessage}]
      /\ \A u, v \in Thread : m[u] = m[v] /\ m[u] # NULL => u = v
      /\ \A u \in Thread : m[u] # NULL <=> c[u] \in HoldPoints
  BY DEF Holds
<1>2. m[t] # NULL /\ m[t] \in HeldOf(m) /\ m[t] \in Block
  BY <1>1 DEF HeldOf, Link
<1>3. n[t] = NULL /\ \A u \in Thread \ {t} : n[u] = m[u] /\ n[u] # m[t]
  BY <1>1, <1>2 DEF Written
<1>4. n \in [Thread -> Link]
  BY <1>1 DEF Link, Written
<1>5. z \in [Thread -> Message \cup {NoMessage}] /\ \A u \in Thread \ {t} : z[u] = x[u]
  BY <1>1 DEF Written
<1>6. \A u, v \in Thread : n[u] = n[v] /\ n[u] # NULL => u = v
  BY <1>1, <1>3
<1>7. \A u \in Thread : n[u] # NULL <=> w[u] \in HoldPoints
  BY <1>1, <1>3
<1>8. ASSUME NEW u \in Thread
      PROVE  /\ w[u] = "mq_send" => z[u] \in Message \ UrgentMessage
             /\ w[u] = "mq_urgent" => z[u] \in UrgentMessage
             /\ w[u] = "mq_copy" => z[u] = d[n[u]]
  <2>1. CASE u = t
    BY <2>1 DEF HoldPoints
  <2>2. CASE u # t
    <3>1. w[u] = c[u] /\ z[u] = x[u] /\ n[u] = m[u]
      BY <1>3, <1>5, <2>2
    <3>2. QED BY <3>1 DEF Holds
  <2>3. QED BY <2>1, <2>2
<1>9. Holds(w, n, d, z)
  BY <1>1, <1>4, <1>5, <1>6, <1>7, <1>8 DEF Holds
<1>10. HeldOf(n) = HeldOf(m) \ {m[t]}
  BY <1>2, <1>3 DEF HeldOf
<1>11. QED BY <1>2, <1>9, <1>10

\* The lists of the queue are what they should be, and so is what the
\* threads hold.
QueueInv ==
  /\ Holds(pc, msg, data, promised)
  /\ mq_received \in Message \cup {NoMessage}
  /\ \E q, f : Placed(next, msg_queue_head, msg_queue_tail, msg_queue_free, mq_entry,
                      HeldOf(msg), q, f)

LEMMA QueueInvInit ==
  ASSUME MqInit, pc = [t \in Thread |-> "run"]
  PROVE  QueueInv /\ Messages!Init
<1>1. /\ data = [b \in Block |-> NoMessage] /\ msg = [t \in Thread |-> NULL]
      /\ promised = [t \in Thread |-> NoMessage] /\ mq_received = NoMessage
  BY DEF MqInit
<1>2. Holds(pc, msg, data, promised)
  BY <1>1 DEF Holds, HoldPoints, Link
<1>3. HeldOf(msg) = {}
  BY <1>1 DEF HeldOf
<1>4. PICK f : Placed(next, msg_queue_head, msg_queue_tail, msg_queue_free, mq_entry, {}, << >>, f)
  BY FreeAtFirst
<1>5. QueueInv
  BY <1>1, <1>2, <1>3, <1>4 DEF QueueInv
<1>6. Contents = ContentsOf(data, << >>)
  BY <1>4, ContentsAre
<1>7. ContentsOf(data, << >>) = << >>
  BY DEF ContentsOf
<1>8. QED BY <1>1, <1>5, <1>6, <1>7 DEF Messages!Init

\* Steps that leave the queue alone.
LEMMA QueueInvRests ==
  ASSUME QueueInv, UNCHANGED queue_vars, MoveFreely(pc, pc')
  PROVE  QueueInv' /\ UNCHANGED Messages!vars
<1>1. /\ next' = next /\ data' = data /\ msg_queue_head' = msg_queue_head
      /\ msg_queue_tail' = msg_queue_tail /\ msg_queue_free' = msg_queue_free
      /\ mq_entry' = mq_entry /\ msg' = msg /\ promised' = promised /\ mq_received' = mq_received
  BY DEF queue_vars
<1>2. Holds(pc', msg, data, promised)
  BY HoldsSame DEF QueueInv
<1>3. QueueInv'
  BY <1>1, <1>2 DEF QueueInv
<1>4. Contents' = Contents
  BY <1>1 DEF Contents, Queue
<1>5. QED BY <1>1, <1>3, <1>4 DEF Messages!vars

LEMMA FreeMove ==
  ASSUME LocalsTyped, NEW t \in Thread, pc[t] \notin HoldPoints,
         (\E c : c \notin HoldPoints /\ Goto(t, c)) \/ (\E c : ThenSchedule(t, c))
  PROVE  MoveFreely(pc, pc')
<1>1. PICK c : c \notin HoldPoints /\ pc' = [pc EXCEPT ![t] = c]
  <2>1. "sched" \notin HoldPoints
    BY DEF HoldPoints
  <2>2. QED BY <2>1 DEF Goto, ThenSchedule
<1>2. pc \in [Thread -> AllPoints]
  BY DEF LocalsTyped
<1>3. QED BY <1>1, <1>2 DEF MoveFreely

LEMMA FreeStay ==
  ASSUME pc' = pc
  PROVE  MoveFreely(pc, pc')
BY DEF MoveFreely

LEMMA PointsFree ==
  ({"run", "sched", "send", "recv", "event", "alloc", "alloc_test", "reset"} \cup DetachPoints)
    \cap HoldPoints = {}
BY DEF HoldPoints, DetachPoints

LEMMA ObjectFree ==
  ASSUME LocalsTyped, NEW t \in Thread, AnyStep(t) \/ ObjectCall(t) \/ ResetEnd(t)
  PROVE  MoveFreely(pc, pc')
<1>1. CASE Schedule(t)
  <2>1. pc[t] \notin HoldPoints /\ pc' = [pc EXCEPT ![t] = cont[t]]
    BY <1>1 DEF Schedule, HoldPoints
  <2>2. cont[t] \notin HoldPoints
    BY DEF LocalsTyped, Continuation, HoldPoints
  <2>3. pc \in [Thread -> AllPoints]
    BY DEF LocalsTyped
  <2>4. QED BY <2>1, <2>2, <2>3 DEF MoveFreely
<1>2. ASSUME NEW o \in Object, NEW c \in {"run", "senders_test"}, DetachTest(t, o, c)
      PROVE  MoveFreely(pc, pc')
  <2>1. pc[t] \notin HoldPoints
    BY <1>2, PointsFree, DetachPointsAre DEF DetachTest
  <2>2. ResumePoint(o) \in DetachPoints /\ c \in {"run"} \cup DetachPoints
    BY DetachPointsAre DEF DetachPoints
  <2>3. \E d : d \notin HoldPoints /\ Goto(t, d)
    BY <1>2, <2>2, PointsFree DEF DetachTest
  <2>4. QED BY <2>1, <2>3, FreeMove
<1>3. CASE ResetResume(t)
  BY <1>3, FreeStay DEF ResetResume
<1>4. ASSUME NEW o \in Object, DetachResume(t, o)
      PROVE  MoveFreely(pc, pc')
  <2>1. pc[t] \notin HoldPoints
    BY <1>4, PointsFree, DetachPointsAre DEF DetachResume
  <2>2. TestPoint(o) \in DetachPoints /\ "wild" \in DetachPoints
    BY DetachPointsAre
  <2>3. \E d : d \notin HoldPoints /\ Goto(t, d)
    BY <1>4, <2>2, PointsFree DEF DetachResume
  <2>4. QED BY <2>1, <2>3, FreeMove
<1>5. CASE ResetCall(t)
  <2>1. pc[t] \notin HoldPoints /\ "reset" \notin HoldPoints /\ Goto(t, "reset")
    BY <1>5, PointsFree DEF ResetCall, Calls
  <2>2. QED BY <2>1, FreeMove
<1>6. CASE DetachCall(t)
  <2>1. pc[t] \notin HoldPoints /\ "detach_test" \notin HoldPoints /\ Goto(t, "detach_test")
    BY <1>6, PointsFree, DetachPointsAre DEF DetachCall, Calls
  <2>2. QED BY <2>1, FreeMove
<1>7. CASE ResetEnd(t)
  <2>1. pc[t] \notin HoldPoints /\ ThenSchedule(t, "run")
    BY <1>7, PointsFree DEF ResetEnd
  <2>2. QED BY <2>1, FreeMove
<1>8. QED BY <1>1, <1>2, <1>3, <1>4, <1>5, <1>6, <1>7 DEF AnyStep, ObjectCall, IpcStep

LEMMA HandlerFree ==
  ASSUME IpcHandler
  PROVE  MoveFreely(pc, pc')
BY FreeStay DEF IpcHandler, SysTick_Handler, rt_timer_check, DeviceSchedule

\* A thread that waits, or gives up.
LEMMA WaitFree ==
  ASSUME LocalsTyped, NEW t \in Thread, pc[t] \notin HoldPoints,
         NEW n, NEW c, NEW time, Await(t, n, c, time)
  PROVE  MoveFreely(pc, pc')
BY FreeMove DEF Await

LEMMA GiveUpFree ==
  ASSUME LocalsTyped, NEW t \in Thread, NEW c \in {"send", "recv", "alloc"},
         Fails(t, c) \/ \E e : GivesUp(t, c, e)
  PROVE  MoveFreely(pc, pc')
<1>1. pc[t] \notin HoldPoints /\ "run" \notin HoldPoints /\ Goto(t, "run")
  BY PointsFree DEF Fails, GivesUp, Resumes
<1>2. QED BY <1>1, FreeMove

LEMMA CallsFree ==
  ASSUME NEW t
  PROVE  /\ Calls(t) => pc[t] \notin HoldPoints
         /\ \A c \in Waits : Resumes(t, c) => pc[t] \notin HoldPoints
         /\ "run" \notin HoldPoints
BY DEF Calls, Resumes, Waits, HoldPoints

LEMMA ReturnFree ==
  ASSUME LocalsTyped, NEW t \in Thread, pc[t] \notin HoldPoints, NEW o, ReturnAfterWake(t, o)
  PROVE  MoveFreely(pc, pc')
<1>1. "run" \notin HoldPoints
  BY PointsFree
<1>2. Goto(t, "run") \/ ThenSchedule(t, "run")
  BY DEF ReturnAfterWake
<1>3. QED BY <1>1, <1>2, FreeMove

LEMMA MbFree ==
  ASSUME LocalsTyped, MbNext
  PROVE  MoveFreely(pc, pc')
<1>1. "send" \in Waits /\ "recv" \in Waits
  BY DEF Waits
<1>2. CASE MbHandler
  <2>1. IpcHandler \/ pc' = pc
    BY <1>2 DEF MbHandler, DeviceRecv, DeviceSend
  <2>2. QED BY <2>1, HandlerFree, FreeStay
<1>3. ASSUME NEW t \in Thread, MbStep(t) \/ MbCall(t) PROVE MoveFreely(pc, pc')
  <2>1. CASE \/ ObjectStep(t, "senders_test") \/ SendersDetach(t)
             \/ ObjectCall(t) \/ ResetRing(t)
    <3>1. AnyStep(t) \/ ObjectCall(t) \/ ResetEnd(t)
      BY <2>1, StepsAre DEF ResetRing
    <3>2. QED BY <3>1, ObjectFree
  <2>2. CASE \/ SendAgain(t) \/ RecvAgain(t) \/ Recv(t) \/ \E v \in Mail : Send(t, v)
    <3>1. pc[t] \notin HoldPoints
      BY <1>1, <2>2, CallsFree DEF SendAgain, RecvAgain, Recv, Send
    <3>2. \E o : ReturnAfterWake(t, o)
      BY <2>2 DEF SendAgain, RecvAgain, Recv, Send, Sent, Received
    <3>3. QED BY <3>1, <3>2, ReturnFree
  <2>3. CASE \/ SendWaitAgain(t) \/ RecvWaitAgain(t)
             \/ \E v \in Mail : \E time \in WaitTimes[t] : SendWait(t, v, time)
             \/ \E time \in WaitTimes[t] : RecvWait(t, time)
    <3>1. pc[t] \notin HoldPoints
      BY <1>1, <2>3, CallsFree DEF SendWaitAgain, RecvWaitAgain, SendWait, RecvWait
    <3>2. \E n, c, time : Await(t, n, c, time)
      BY <2>3 DEF SendWaitAgain, RecvWaitAgain, SendWait, RecvWait, AwaitRoom, AwaitMail
    <3>3. QED BY <3>1, <3>2, WaitFree
  <2>4. CASE SendGivesUp(t)
    BY <2>4, GiveUpFree DEF SendGivesUp
  <2>5. CASE RecvGivesUp(t)
    BY <2>5, GiveUpFree DEF RecvGivesUp
  <2>6. QED BY <1>3, <2>1, <2>2, <2>3, <2>4, <2>5 DEF MbStep, MbCall
<1>4. QED BY <1>2, <1>3 DEF MbNext

LEMMA EventFree ==
  ASSUME LocalsTyped, EventNext
  PROVE  MoveFreely(pc, pc')
<1>1. CASE EventHandler
  <2>1. IpcHandler \/ pc' = pc
    BY <1>1 DEF EventHandler, DeviceEventSend
  <2>2. QED BY <2>1, HandlerFree, FreeStay
<1>2. ASSUME NEW t \in Thread, EventStep(t) \/ EventCall(t) PROVE MoveFreely(pc, pc')
  <2>1. CASE ObjectStep(t, "run") \/ ObjectCall(t) \/ EventReset(t)
    <3>1. AnyStep(t) \/ ObjectCall(t) \/ ResetEnd(t)
      BY <2>1, StepsAre DEF EventReset
    <3>2. QED BY <3>1, ObjectFree
  <2>2. CASE EventRecvReturn(t)
    <3>1. pc[t] \notin HoldPoints /\ "run" \notin HoldPoints /\ Goto(t, "run")
      BY <2>2, PointsFree DEF EventRecvReturn
    <3>2. QED BY <3>1, FreeMove
  <2>3. CASE \E s \in FlagSet : rt_event_send(t, s)
    <3>1. pc[t] \notin HoldPoints /\ "run" \notin HoldPoints
      BY <2>3, CallsFree DEF rt_event_send
    <3>2. Goto(t, "run") \/ ThenSchedule(t, "run")
      BY <2>3 DEF rt_event_send
    <3>3. QED BY <3>1, <3>2, FreeMove
  <2>4. CASE \E r \in Asks[t] : EventRecv(t, r.flags, r.option)
    <3>1. pc' = pc
      BY <2>4 DEF EventRecv
    <3>2. QED BY <3>1, FreeStay
  <2>5. CASE \E r \in Asks[t] : \E time \in WaitTimes[t] : EventRecvWait(t, r.flags, r.option, time)
    <3>1. pc[t] \notin HoldPoints
      BY <2>5, CallsFree DEF EventRecvWait
    <3>2. \E n, c, time : Await(t, n, c, time)
      BY <2>5 DEF EventRecvWait
    <3>3. QED BY <3>1, <3>2, WaitFree
  <2>6. QED BY <1>2, <2>1, <2>2, <2>3, <2>4, <2>5 DEF EventStep, EventCall
<1>3. QED BY <1>1, <1>2 DEF EventNext

LEMMA PoolMovesFree ==
  ASSUME LocalsTyped, PoolNext
  PROVE  MoveFreely(pc, pc')
<1>1. "alloc" \in Waits
  BY DEF Waits
<1>2. CASE PoolHandler
  <2>1. IpcHandler \/ pc' = pc
    BY <1>2 DEF PoolHandler, DevicePoolAlloc, DevicePoolFree, cpu
  <2>2. QED BY <2>1, HandlerFree, FreeStay
<1>3. ASSUME NEW t \in Thread, PoolStep(t) \/ PoolCall(t) PROVE MoveFreely(pc, pc')
  <2>1. CASE \/ IpcStep(t) \/ DetachTest(t, pool_waiters, "run")
             \/ DetachCall(t) \/ PoolDetachResume(t)
    <3>1. AnyStep(t) \/ ObjectCall(t)
      BY <2>1, StepsAre DEF ObjectCall, PoolDetachResume
    <3>2. QED BY <3>1, ObjectFree
  <2>2. CASE PoolTimeLeft(t)
    <3>1. pc[t] \notin HoldPoints /\ "alloc_test" \notin HoldPoints /\ Goto(t, "alloc_test")
      BY <2>2, PointsFree DEF PoolTimeLeft, Resumes
    <3>2. QED BY <3>1, FreeMove
  <2>3. CASE PoolAllocAgain(t)
    <3>1. pc[t] \notin HoldPoints /\ "run" \notin HoldPoints /\ Goto(t, "run")
      BY <2>3, PointsFree DEF PoolAllocAgain
    <3>2. QED BY <3>1, FreeMove
  <2>4. CASE PoolAllocWaitAgain(t) \/ \E time \in WaitTimes[t] : PoolAllocWait(t, time)
    <3>1. pc[t] \notin HoldPoints
      BY <2>4, PointsFree DEF PoolAllocWaitAgain, PoolAllocWait, Calls
    <3>2. \E n, c, time : Await(t, n, c, time)
      BY <2>4 DEF PoolAllocWaitAgain, PoolAllocWait, PoolAwait
    <3>3. QED BY <3>1, <3>2, WaitFree
  <2>5. CASE PoolGivesUp(t)
    <3>1. pc[t] \notin HoldPoints /\ "run" \notin HoldPoints /\ Goto(t, "run")
      BY <2>5, PointsFree DEF PoolGivesUp, Fails
    <3>2. QED BY <3>1, FreeMove
  <2>6. CASE PoolAlloc(t)
    <3>1. pc' = pc
      BY <2>6 DEF PoolAlloc, cpu
    <3>2. QED BY <3>1, FreeStay
  <2>7. CASE \E b \in PoolBlock : PoolFree(t, b)
    <3>1. pc[t] \notin HoldPoints /\ "run" \notin HoldPoints
      BY <2>7, CallsFree DEF PoolFree
    <3>2. Goto(t, "run") \/ ThenSchedule(t, "run")
      BY <2>7 DEF PoolFree
    <3>3. QED BY <3>1, <3>2, FreeMove
  <2>8. QED BY <1>3, <2>1, <2>2, <2>3, <2>4, <2>5, <2>6, <2>7 DEF PoolStep, PoolCall
<1>4. QED BY <1>2, <1>3 DEF PoolNext

\* What is written is written over.
LEMMA WrittenTwice ==
  ASSUME NEW L, NEW p \in [Block -> L], NEW b \in Block, NEW y
  PROVE  \A x : Written(Written(p, b, y), b, x) = Written(p, b, x)
BY DEF Written

LEMMA WriteBlock ==
  ASSUME NEW M, NEW d \in [Block -> M], NEW b \in Block, NEW m \in M,
         NEW e, e = [d EXCEPT ![b] = m]
  PROVE  e \in [Block -> M] /\ \A x \in Block \ {b} : e[x] = d[x]
OBVIOUS

LEMMA RoomIs ==
  ASSUME NEW p, NEW h, NEW l, NEW r, NEW e, NEW held, NEW q, NEW f,
         Placed(p, h, l, r, e, held, q, f)
  PROVE  Len(q) <= max_msgs /\ Len(q) \in Nat /\ max_msgs \in Nat /\ e = Len(q)
<1>1. q \in Seq(Block) /\ IsInjective(q) /\ IsFiniteSet(Block) /\ e = Len(q)
  BY MessageQueueAssumption DEF Placed, Leads
<1>2. QED BY <1>1, InjectiveLength DEF max_msgs

\* A message m is linked last with block b, or first.
LEMMA SendsLast ==
  ASSUME NEW p, NEW r, NEW held, NEW q, NEW f,
         Placed(p, msg_queue_head, msg_queue_tail, r, mq_entry, held, q, f), NEW b \in held,
         \A x : Written(p, b, x) = Written(next, b, x),
         data \in [Block -> Message \cup {NoMessage}], NEW m \in Message, LinkLast(b, m)
  PROVE  /\ Placed(next', msg_queue_head', msg_queue_tail', r, mq_entry', held \ {b},
                   Append(q, b), f)
         /\ data' \in [Block -> Message \cup {NoMessage}]
         /\ \A x \in Block \ {b} : data'[x] = data[x]
         /\ ContentsOf(data', Append(q, b)) = Append(ContentsOf(data, q), m)
         /\ Len(ContentsOf(data, q)) < max_msgs
<1>1. /\ next' = IF msg_queue_tail = NULL THEN [next EXCEPT ![b] = NULL]
                 ELSE [[next EXCEPT ![b] = NULL] EXCEPT ![msg_queue_tail] = b]
      /\ data' = [data EXCEPT ![b] = m] /\ msg_queue_tail' = b
      /\ msg_queue_head' = IF msg_queue_head = NULL THEN b ELSE msg_queue_head
      /\ mq_entry' = mq_entry + 1
  BY DEF LinkLast
<1>2. PICK w : w = IF msg_queue_tail = NULL THEN Written(p, b, NULL)
                   ELSE Written(Written(p, b, NULL), msg_queue_tail, b)
  OBVIOUS
<1>3. next' = w
  <2>1. Written(p, b, NULL) = Written(next, b, NULL)
    OBVIOUS
  <2>2. QED BY ONLY <1>1, <1>2, <2>1 DEF Written
<1>4. PICK h : h = IF msg_queue_head = NULL THEN b ELSE msg_queue_head
  OBVIOUS
<1>5. Placed(w, IF msg_queue_head = NULL THEN b ELSE msg_queue_head, b, r, mq_entry + 1,
             held \ {b}, Append(q, b), f)
  BY ONLY <1>2, Placed(p, msg_queue_head, msg_queue_tail, r, mq_entry, held, q, f),
          b \in held, LinksLast
<1>6. Placed(next', msg_queue_head', msg_queue_tail', r, mq_entry', held \ {b}, Append(q, b), f)
  BY ONLY <1>1, <1>3, <1>5
<1>7. q \in Seq(Block) /\ b \in Block /\ b \notin ToSet(q)
  BY DEF Placed, Leads
<1>8. m \in Message \cup {NoMessage}
  OBVIOUS
<1>9. data' \in [Block -> Message \cup {NoMessage}] /\ \A x \in Block \ {b} : data'[x] = data[x]
  BY <1>1, <1>7, <1>8
<1>10. ContentsOf(Written(data, b, m), Append(q, b)) = Append(ContentsOf(data, q), m)
  <2>1. PICK M : M = Message \cup {NoMessage}
    OBVIOUS
  <2>2. data \in [Block -> M] /\ m \in M
    BY <1>8, <2>1
  <2>3. PICK d : d = data
    OBVIOUS
  <2>4. \A y \in Seq(Block) : \A c \in Block : c \notin ToSet(y) =>
          ContentsOf(Written(d, c, m), Append(y, c)) = Append(ContentsOf(d, y), m)
    <3> SUFFICES ASSUME NEW y \in Seq(Block), NEW c \in Block, c \notin ToSet(y)
                 PROVE  ContentsOf(Written(d, c, m), Append(y, c)) = Append(ContentsOf(d, y), m)
      OBVIOUS
    <3>1. d \in [Block -> M]
      BY <2>2, <2>3
    <3>2. m \in M
      BY <2>2
    <3>3. QED BY ONLY <3>1, <3>2, c \in Block, y \in Seq(Block), c \notin ToSet(y), ContentsAppend
  <2>5. QED BY ONLY <1>7, <2>3, <2>4
<1>11. Len(ContentsOf(data, q)) < max_msgs
  <2>1. Len(Append(q, b)) <= max_msgs
    BY <1>6, RoomIs
  <2>2. Len(Append(q, b)) = Len(q) + 1 /\ Len(q) \in Nat /\ max_msgs \in Nat
    BY <1>6, <1>7, RoomIs
  <2>3. Len(ContentsOf(data, q)) = Len(q)
    BY <1>7, ContentsType
  <2>4. QED BY <2>1, <2>2, <2>3
<1>12. QED BY <1>1, <1>6, <1>9, <1>10, <1>11 DEF Written

LEMMA SendsFirst ==
  ASSUME NEW p, NEW r, NEW held, NEW q, NEW f,
         Placed(p, msg_queue_head, msg_queue_tail, r, mq_entry, held, q, f), NEW b \in held,
         \A x : Written(p, b, x) = Written(next, b, x),
         data \in [Block -> Message \cup {NoMessage}], NEW m \in Message, LinkFirst(b, m)
  PROVE  /\ Placed(next', msg_queue_head', msg_queue_tail', r, mq_entry', held \ {b},
                   InFront(b, q), f)
         /\ data' \in [Block -> Message \cup {NoMessage}]
         /\ \A x \in Block \ {b} : data'[x] = data[x]
         /\ ContentsOf(data', InFront(b, q)) = <<m>> \o ContentsOf(data, q)
         /\ Len(ContentsOf(data, q)) < max_msgs
<1>1. /\ next' = [next EXCEPT ![b] = msg_queue_head]
      /\ data' = [data EXCEPT ![b] = m] /\ msg_queue_head' = b
      /\ msg_queue_tail' = IF msg_queue_tail = NULL THEN b ELSE msg_queue_tail
      /\ mq_entry' = mq_entry + 1
  BY DEF LinkFirst
<1>2. next' = Written(p, b, msg_queue_head)
  <2>1. Written(p, b, msg_queue_head) = Written(next, b, msg_queue_head)
    OBVIOUS
  <2>2. QED BY ONLY <1>1, <2>1 DEF Written
<1>3. Placed(Written(p, b, msg_queue_head), b, IF msg_queue_tail = NULL THEN b ELSE msg_queue_tail,
             r, mq_entry + 1, held \ {b}, InFront(b, q), f)
  BY ONLY Placed(p, msg_queue_head, msg_queue_tail, r, mq_entry, held, q, f),
          b \in held, LinksFirst
<1>4. Placed(next', msg_queue_head', msg_queue_tail', r, mq_entry', held \ {b}, InFront(b, q), f)
  BY ONLY <1>1, <1>2, <1>3
<1>5. q \in Seq(Block) /\ b \in Block /\ b \notin ToSet(q)
  BY DEF Placed, Leads
<1>6. m \in Message \cup {NoMessage}
  OBVIOUS
<1>7. data' \in [Block -> Message \cup {NoMessage}] /\ \A x \in Block \ {b} : data'[x] = data[x]
  BY <1>1, <1>5, <1>6
<1>8. ContentsOf(Written(data, b, m), InFront(b, q)) = <<m>> \o ContentsOf(data, q)
  <2>1. PICK M : M = Message \cup {NoMessage}
    OBVIOUS
  <2>2. data \in [Block -> M] /\ m \in M
    BY <1>6, <2>1
  <2>3. PICK d : d = data
    OBVIOUS
  <2>4. \A y \in Seq(Block) : \A c \in Block : c \notin ToSet(y) =>
          ContentsOf(Written(d, c, m), InFront(c, y)) = <<m>> \o ContentsOf(d, y)
    <3> SUFFICES ASSUME NEW y \in Seq(Block), NEW c \in Block, c \notin ToSet(y)
                 PROVE  ContentsOf(Written(d, c, m), InFront(c, y)) = <<m>> \o ContentsOf(d, y)
      OBVIOUS
    <3>1. d \in [Block -> M]
      BY <2>2, <2>3
    <3>2. m \in M
      BY <2>2
    <3>3. QED BY ONLY <3>1, <3>2, c \in Block, y \in Seq(Block), c \notin ToSet(y), ContentsPush
  <2>5. QED BY ONLY <1>5, <2>3, <2>4
<1>9. Len(ContentsOf(data, q)) < max_msgs
  <2>1. Len(InFront(b, q)) <= max_msgs
    BY <1>4, RoomIs
  <2>2. Len(q) \in Nat /\ max_msgs \in Nat
    BY <1>4, <1>5, RoomIs
  <2>3. Len(InFront(b, q)) = Len(q) + 1
    BY <1>5, InFrontLength
  <2>4. Len(ContentsOf(data, q)) = Len(q)
    BY <1>5, ContentsType
  <2>5. QED BY <2>1, <2>2, <2>3, <2>4
<1>10. QED BY <1>1, <1>4, <1>7, <1>8, <1>9 DEF Written

LEMMA TakeHolds ==
  ASSUME QueueInv, LocalsTyped, NEW t \in Thread, NEW m \in Message,
         MqTakeBlock(t, m, IF m \in UrgentMessage THEN "mq_urgent" ELSE "mq_send")
  PROVE  QueueInv' /\ UNCHANGED Messages!vars
<1>1. PICK c : c = IF m \in UrgentMessage THEN "mq_urgent" ELSE "mq_send"
  OBVIOUS
<1>2. /\ msg_queue_free # NULL /\ msg' = [msg EXCEPT ![t] = msg_queue_free]
      /\ msg_queue_free' = next[msg_queue_free] /\ next' = [next EXCEPT ![msg_queue_free] = NULL]
      /\ promised' = [promised EXCEPT ![t] = m] /\ pc' = [pc EXCEPT ![t] = c] /\ pc[t] = "run"
      /\ data' = data /\ msg_queue_head' = msg_queue_head /\ msg_queue_tail' = msg_queue_tail
      /\ mq_entry' = mq_entry /\ mq_received' = mq_received
  BY <1>1 DEF MqTakeBlock, Calls, Goto
<1>3. PICK q, f : Placed(next, msg_queue_head, msg_queue_tail, msg_queue_free, mq_entry,
                         HeldOf(msg), q, f)
  BY DEF QueueInv
<1>4. PICK b : b = msg_queue_free
  OBVIOUS
<1>5. /\ b \in Block /\ b \notin HeldOf(msg)
      /\ Placed(Written(next, b, NULL), msg_queue_head, msg_queue_tail, next[b], mq_entry,
                HeldOf(msg) \cup {b}, q, Tail(f))
  BY ONLY <1>2, <1>3, <1>4, TakesBlock
<1>6. pc'[t] = c /\ \A u \in Thread \ {t} : pc'[u] = pc[u]
  BY <1>2 DEF LocalsTyped
<1>7. c \in HoldPoints /\ pc[t] \notin HoldPoints /\ m \in Message \cup {NoMessage}
      /\ (c = "mq_send" => m \in Message \ UrgentMessage)
      /\ (c = "mq_urgent" => m \in UrgentMessage) /\ c # "mq_copy"
  BY <1>1, <1>2 DEF HoldPoints
<1>8. Holds(pc, msg, data, promised)
  BY DEF QueueInv
<1>9. Holds(pc', msg', data, promised') /\ HeldOf(msg') = HeldOf(msg) \cup {b}
  <2>1. PICK w, n, z : w = pc' /\ n = msg' /\ z = promised'
    OBVIOUS
  <2>2. n = Written(msg, t, b) /\ z = Written(promised, t, m)
    BY <1>2, <1>4, <2>1 DEF Written
  <2>3. w[t] = c /\ \A u \in Thread \ {t} : w[u] = pc[u]
    BY <1>6, <2>1
  <2>4. Holds(w, n, data, z)
    BY ONLY <1>5, <1>7, <1>8, <2>2, <2>3, t \in Thread, HoldsTake
  <2>5. HeldOf(n) = HeldOf(msg) \cup {b}
    BY ONLY <1>5, <1>7, <1>8, <2>2, <2>3, t \in Thread, HoldsTake
  <2>6. QED BY <2>1, <2>4, <2>5
<1>10. next' = Written(next, b, NULL)
  BY <1>2, <1>4 DEF Written
<1>11. Placed(next', msg_queue_head', msg_queue_tail', msg_queue_free', mq_entry', HeldOf(msg'),
              q, Tail(f))
  BY ONLY <1>2, <1>4, <1>5, <1>9, <1>10
<1>12. QueueInv'
  BY <1>2, <1>9, <1>11 DEF QueueInv
<1>13. Contents' = Contents
  <2>1. Contents = ContentsOf(data, q)
    BY <1>3, ContentsAre
  <2>2. Contents' = ContentsOf(data', q)
    BY <1>11, ContentsBecome
  <2>3. QED BY <1>2, <2>1, <2>2
<1>14. QED BY <1>2, <1>12, <1>13 DEF Messages!vars

\* What the queue promises of a send.
SendStep(m) == IF m \in UrgentMessage THEN Messages!Urgent(m) ELSE Messages!Send(m)

\* A message is linked with a block that was taken off the free list.
LEMMA SendDone ==
  ASSUME NEW p, NEW r, NEW held, NEW q, NEW f,
         Placed(p, msg_queue_head, msg_queue_tail, r, mq_entry, held, q, f), NEW b \in held,
         \A x : Written(p, b, x) = Written(next, b, x),
         data \in [Block -> Message \cup {NoMessage}], NEW m \in Message,
         IF m \in UrgentMessage THEN LinkFirst(b, m) ELSE LinkLast(b, m),
         Contents = ContentsOf(data, q), mq_received' = mq_received
  PROVE  /\ \E g : Placed(next', msg_queue_head', msg_queue_tail', r, mq_entry', held \ {b}, g, f)
         /\ data' \in [Block -> Message \cup {NoMessage}]
         /\ \A x \in Block \ {b} : data'[x] = data[x]
         /\ SendStep(m)
<1>1. CASE m \in UrgentMessage
  <2>1. LinkFirst(b, m)
    BY <1>1
  <2>2. /\ Placed(next', msg_queue_head', msg_queue_tail', r, mq_entry', held \ {b},
                  InFront(b, q), f)
        /\ data' \in [Block -> Message \cup {NoMessage}]
        /\ \A x \in Block \ {b} : data'[x] = data[x]
        /\ ContentsOf(data', InFront(b, q)) = <<m>> \o ContentsOf(data, q)
        /\ Len(ContentsOf(data, q)) < max_msgs
    BY <2>1, SendsFirst, ZenonT(60)
  <2>3. Contents' = ContentsOf(data', InFront(b, q))
    BY <2>2, ContentsBecome
  <2>4. Messages!Urgent(m)
    BY <2>2, <2>3 DEF Messages!Urgent
  <2>5. QED BY <1>1, <2>2, <2>4 DEF SendStep
<1>2. CASE m \notin UrgentMessage
  <2>1. LinkLast(b, m)
    BY <1>2
  <2>2. /\ Placed(next', msg_queue_head', msg_queue_tail', r, mq_entry', held \ {b},
                  Append(q, b), f)
        /\ data' \in [Block -> Message \cup {NoMessage}]
        /\ \A x \in Block \ {b} : data'[x] = data[x]
        /\ ContentsOf(data', Append(q, b)) = Append(ContentsOf(data, q), m)
        /\ Len(ContentsOf(data, q)) < max_msgs
    BY <2>1, SendsLast, ZenonT(60)
  <2>3. Contents' = ContentsOf(data', Append(q, b))
    BY <2>2, ContentsBecome
  <2>4. Messages!Send(m)
    BY <2>2, <2>3 DEF Messages!Send
  <2>5. QED BY <1>2, <2>2, <2>4 DEF SendStep
<1>3. QED BY <1>1, <1>2

LEMMA LinkHolds ==
  ASSUME QueueInv, LocalsTyped, NEW t \in Thread, MqLink(t)
  PROVE  QueueInv' /\ \E m \in Message : SendStep(m)
<1>1. /\ msg' = [msg EXCEPT ![t] = NULL] /\ promised' = [promised EXCEPT ![t] = NoMessage]
      /\ msg_queue_free' = msg_queue_free /\ mq_received' = mq_received
      /\ \/ pc[t] = "mq_send" /\ LinkLast(msg[t], promised[t])
         \/ pc[t] = "mq_urgent" /\ LinkFirst(msg[t], promised[t])
  BY DEF MqLink
<1>2. pc'[t] \notin HoldPoints /\ pc[t] \in HoldPoints /\ \A u \in Thread \ {t} : pc'[u] = pc[u]
  BY <1>1 DEF MqLink, ReturnAfterWake, Goto, ThenSchedule, LocalsTyped, HoldPoints
<1>3. Holds(pc, msg, data, promised)
  BY DEF QueueInv
<1>4. PICK b, m : b = msg[t] /\ m = promised[t]
  OBVIOUS
<1>5. /\ Holds(pc', msg', data, promised') /\ HeldOf(msg') = HeldOf(msg) \ {b}
      /\ b \in HeldOf(msg) /\ b \in Block
  <2>1. PICK w, n, z : w = pc' /\ n = msg' /\ z = promised'
    OBVIOUS
  <2>2. n = Written(msg, t, NULL) /\ z = Written(promised, t, NoMessage)
    BY <1>1, <2>1 DEF Written
  <2>3. w[t] \notin HoldPoints /\ pc[t] \in HoldPoints /\ \A u \in Thread \ {t} : w[u] = pc[u]
    BY <1>2, <2>1
  <2>4. Holds(w, n, data, z) /\ msg[t] \in HeldOf(msg) /\ msg[t] \in Block
    BY ONLY <1>3, <2>2, <2>3, t \in Thread, HoldsRelease
  <2>5. HeldOf(n) = HeldOf(msg) \ {msg[t]}
    BY ONLY <1>3, <2>2, <2>3, t \in Thread, HoldsRelease
  <2>6. QED BY <1>4, <2>1, <2>4, <2>5
<1>6. PICK q, f : Placed(next, msg_queue_head, msg_queue_tail, msg_queue_free, mq_entry,
                         HeldOf(msg), q, f)
  BY DEF QueueInv
<1>7. m \in Message /\ IF m \in UrgentMessage THEN LinkFirst(b, m) ELSE LinkLast(b, m)
  <2>1. CASE pc[t] = "mq_send" /\ LinkLast(msg[t], promised[t])
    <3>1. m \in Message \ UrgentMessage
      BY <1>3, <1>4, <2>1 DEF Holds
    <3>2. QED BY <1>4, <2>1, <3>1
  <2>2. CASE pc[t] = "mq_urgent" /\ LinkFirst(msg[t], promised[t])
    <3>1. m \in UrgentMessage
      BY <1>3, <1>4, <2>2 DEF Holds
    <3>2. QED BY <1>4, <2>2, <3>1, MessageQueueAssumption
  <2>3. QED BY <1>1, <2>1, <2>2
<1>8. data \in [Block -> Message \cup {NoMessage}]
  BY <1>3 DEF Holds
<1>9. Contents = ContentsOf(data, q)
  BY <1>6, ContentsAre
<1>10. PICK h : h = HeldOf(msg)
  OBVIOUS
<1>11. PICK r : r = msg_queue_free
  OBVIOUS
<1>12. /\ \E g : Placed(next', msg_queue_head', msg_queue_tail', r, mq_entry', h \ {b}, g, f)
       /\ data' \in [Block -> Message \cup {NoMessage}]
       /\ \A x \in Block \ {b} : data'[x] = data[x]
       /\ SendStep(m)
  <2>1. Placed(next, msg_queue_head, msg_queue_tail, r, mq_entry, h, q, f) /\ b \in h
    BY <1>5, <1>6, <1>10, <1>11
  <2>2. \A x : Written(next, b, x) = Written(next, b, x)
    OBVIOUS
  <2>3. QED BY ONLY <1>1, <1>7, <1>8, <1>9, <2>1, <2>2, SendDone
<1>13. Holds(pc', msg', data', promised')
  <2>1. \A x \in HeldOf(msg') : x \in Block \ {b}
    <3>1. \A x \in HeldOf(msg) : x \in Block
      BY <1>3 DEF Holds, HeldOf, Link
    <3>2. QED BY <1>5, <3>1
  <2>2. \A x \in HeldOf(msg') : data'[x] = data[x]
    BY <1>12, <2>1
  <2>3. PICK w, n, z, e : w = pc' /\ n = msg' /\ z = promised' /\ e = data'
    OBVIOUS
  <2>4. Holds(w, n, data, z) /\ e \in [Block -> Message \cup {NoMessage}]
        /\ \A x \in HeldOf(n) : e[x] = data[x]
    BY <1>5, <1>12, <2>2, <2>3
  <2>5. Holds(w, n, e, z)
    BY ONLY <2>4, HoldsData
  <2>6. QED BY <2>3, <2>5
<1>14. PICK g : Placed(next', msg_queue_head', msg_queue_tail', msg_queue_free', mq_entry',
                       HeldOf(msg'), g, f)
  BY <1>1, <1>5, <1>10, <1>11, <1>12
<1>15. QueueInv'
  <2>1. mq_received' \in Message \cup {NoMessage}
    BY <1>1 DEF QueueInv
  <2>2. QED BY <1>13, <1>14, <2>1 DEF QueueInv
<1>16. QED BY <1>7, <1>12, <1>15

LEMMA DeviceSendHolds ==
  ASSUME QueueInv, NEW m \in Message, DeviceMqSend(m)
  PROVE  QueueInv' /\ SendStep(m)
<1>1. PICK b, r : b = msg_queue_free /\ r = next[msg_queue_free]
  OBVIOUS
<1>2. /\ b # NULL /\ msg_queue_free' = r /\ r = next[b]
      /\ IF m \in UrgentMessage THEN LinkFirst(b, m) ELSE LinkLast(b, m)
      /\ pc' = pc /\ msg' = msg /\ promised' = promised /\ mq_received' = mq_received
  BY <1>1 DEF DeviceMqSend
<1>3. Holds(pc, msg, data, promised)
  BY DEF QueueInv
<1>4. PICK h : h = HeldOf(msg)
  OBVIOUS
<1>5. PICK q, f : Placed(next, msg_queue_head, msg_queue_tail, b, mq_entry, h, q, f)
  BY <1>1, <1>4 DEF QueueInv
<1>6. /\ b \in Block /\ b \notin h
      /\ Placed(Written(next, b, NULL), msg_queue_head, msg_queue_tail, r, mq_entry,
                h \cup {b}, q, Tail(f))
  BY ONLY <1>2, <1>5, TakesBlock
<1>7. next \in [Block -> Link]
  BY <1>5 DEF Placed
<1>8. PICK p : p = Written(next, b, NULL)
  OBVIOUS
<1>9. \A x : Written(p, b, x) = Written(next, b, x)
  BY ONLY <1>6, <1>7, <1>8, WrittenTwice
<1>10. PICK g, hb : g = Tail(f) /\ hb = h \cup {b}
  OBVIOUS
<1>11. data \in [Block -> Message \cup {NoMessage}]
  BY <1>3 DEF Holds
<1>12. Contents = ContentsOf(data, q)
  BY <1>5, ContentsAre
<1>13. /\ \E s : Placed(next', msg_queue_head', msg_queue_tail', r, mq_entry', hb \ {b}, s, g)
       /\ data' \in [Block -> Message \cup {NoMessage}]
       /\ \A x \in Block \ {b} : data'[x] = data[x]
       /\ SendStep(m)
  <2>1. Placed(p, msg_queue_head, msg_queue_tail, r, mq_entry, hb, q, g) /\ b \in hb
    BY <1>6, <1>8, <1>10
  <2>2. (IF m \in UrgentMessage THEN LinkFirst(b, m) ELSE LinkLast(b, m))
        /\ mq_received' = mq_received
    BY <1>2
  <2>3. QED BY ONLY <1>9, <1>11, <1>12, <2>1, <2>2, m \in Message, SendDone
<1>14. hb \ {b} = h
  BY <1>6, <1>10
<1>15. Holds(pc, msg, data', promised)
  <2>1. \A x \in HeldOf(msg) : x \in Block \ {b}
    <3>1. \A x \in HeldOf(msg) : x \in Block
      BY <1>3 DEF Holds, HeldOf, Link
    <3>2. QED BY <1>4, <1>6, <3>1
  <2>2. PICK e : e = data'
    OBVIOUS
  <2>3. e \in [Block -> Message \cup {NoMessage}] /\ \A x \in HeldOf(msg) : e[x] = data[x]
    BY <1>13, <2>1, <2>2
  <2>4. Holds(pc, msg, e, promised)
    BY ONLY <1>3, <2>3, HoldsData
  <2>5. QED BY <2>2, <2>4
<1>16. HeldOf(msg') = h
  BY <1>2, <1>4
<1>17. \E s : Placed(next', msg_queue_head', msg_queue_tail', msg_queue_free', mq_entry',
                     HeldOf(msg'), s, g)
  BY ONLY <1>2, <1>13, <1>14, <1>16
<1>18. Holds(pc', msg', data', promised')
  BY <1>2, <1>15
<1>19. mq_received' \in Message \cup {NoMessage}
  BY <1>2 DEF QueueInv
<1>20. QED BY <1>13, <1>17, <1>18, <1>19 DEF QueueInv

\* What is handed out is the first message.
LEMMA ReceiveDone ==
  ASSUME NEW q \in Seq(Block), q # << >>,
         data \in [Block -> Message \cup {NoMessage}],
         Contents = ContentsOf(data, q), Contents' = ContentsOf(data, Tail(q)),
         mq_received' = data[q[1]]
  PROVE  Messages!Receive /\ mq_received' \in Message \cup {NoMessage}
<1>1. PICK c, w, M : c = ContentsOf(data, q) /\ w = ContentsOf(data, Tail(q))
                     /\ M = Message \cup {NoMessage}
  OBVIOUS
<1>2. data \in [Block -> M]
  BY <1>1
<1>3. w = Tail(c) /\ c # << >> /\ Head(c) = data[q[1]]
  BY ONLY <1>1, <1>2, q \in Seq(Block), q # << >>, ContentsTail
<1>4. Messages!Receive
  BY <1>1, <1>3 DEF Messages!Receive
<1>5. q[1] \in Block
  BY EmptySeq, LenProperties
<1>6. QED BY <1>4, <1>5

LEMMA UnlinkHolds ==
  ASSUME QueueInv, LocalsTyped, NEW t \in Thread, pc[t] \notin HoldPoints, Unlink(t)
  PROVE  QueueInv' /\ Messages!Receive
<1>1. PICK b, n, y : b = msg_queue_head /\ n = next[msg_queue_head] /\ y = data[msg_queue_head]
  OBVIOUS
<1>2. /\ mq_entry # 0 /\ msg_queue_head' = n /\ n = next[b]
      /\ msg_queue_tail' = (IF msg_queue_tail = b THEN NULL ELSE msg_queue_tail)
      /\ mq_entry' = mq_entry - 1 /\ next' = [next EXCEPT ![b] = NULL]
      /\ msg' = [msg EXCEPT ![t] = b] /\ promised' = [promised EXCEPT ![t] = y]
      /\ mq_received' = y /\ pc' = [pc EXCEPT ![t] = "mq_copy"] /\ data' = data
      /\ msg_queue_free' = msg_queue_free
  BY <1>1 DEF Unlink, Goto
<1>3. Holds(pc, msg, data, promised)
  BY DEF QueueInv
<1>4. PICK h, r, l, e : h = HeldOf(msg) /\ r = msg_queue_free /\ e = mq_entry - 1
                        /\ l = IF msg_queue_tail = b THEN NULL ELSE msg_queue_tail
  OBVIOUS
<1>5. PICK q, f : Placed(next, b, msg_queue_tail, r, mq_entry, h, q, f)
  BY <1>1, <1>4 DEF QueueInv
<1>6. /\ b \in Block /\ b \notin h /\ q # << >> /\ b = q[1]
      /\ Placed(Written(next, b, NULL), next[b],
                IF msg_queue_tail = b THEN NULL ELSE msg_queue_tail, r, mq_entry - 1,
                h \cup {b}, Tail(q), f)
  BY ONLY <1>2, <1>5, UnlinksFirst
<1>7. pc'[t] = "mq_copy" /\ \A u \in Thread \ {t} : pc'[u] = pc[u]
  BY <1>2 DEF LocalsTyped
<1>8. "mq_copy" \in HoldPoints /\ y = data[b] /\ y \in Message \cup {NoMessage}
  BY <1>1, <1>3, <1>6 DEF HoldPoints, Holds
<1>9. Holds(pc', msg', data, promised') /\ HeldOf(msg') = h \cup {b}
  <2>1. PICK w, m, z, c : w = pc' /\ m = msg' /\ z = promised' /\ c = "mq_copy"
    OBVIOUS
  <2>2. m = Written(msg, t, b) /\ z = Written(promised, t, y)
    BY <1>2, <2>1 DEF Written
  <2>3. w[t] = c /\ \A u \in Thread \ {t} : w[u] = pc[u]
    BY <1>7, <2>1
  <2>4. b \notin HeldOf(msg) /\ c \in HoldPoints /\ c # "mq_send" /\ c # "mq_urgent"
    BY <1>4, <1>6, <1>8, <2>1
  <2>5. Holds(w, m, data, z)
    BY ONLY <1>3, <1>6, <1>8, <2>2, <2>3, <2>4, t \in Thread, pc[t] \notin HoldPoints, HoldsTake
  <2>6. HeldOf(m) = HeldOf(msg) \cup {b}
    BY ONLY <1>3, <1>6, <1>8, <2>2, <2>3, <2>4, t \in Thread, pc[t] \notin HoldPoints, HoldsTake
  <2>7. QED BY <1>4, <2>1, <2>5, <2>6
<1>10. next' = Written(next, b, NULL)
  BY <1>2 DEF Written
<1>11. Placed(next', msg_queue_head', msg_queue_tail', msg_queue_free', mq_entry', HeldOf(msg'),
              Tail(q), f)
  BY ONLY <1>2, <1>4, <1>6, <1>9, <1>10
<1>12. Contents = ContentsOf(data, q)
  BY <1>1, <1>5, ContentsAre
<1>13. Contents' = ContentsOf(data, Tail(q))
  <2>1. Contents' = ContentsOf(data', Tail(q))
    BY <1>11, ContentsBecome
  <2>2. QED BY <1>2, <2>1
<1>14. q \in Seq(Block) /\ data \in [Block -> Message \cup {NoMessage}]
  BY <1>3, <1>5 DEF Holds, Placed, Leads
<1>15. mq_received' = data[q[1]]
  BY <1>2, <1>6, <1>8
<1>16. Messages!Receive /\ mq_received' \in Message \cup {NoMessage}
  BY ONLY <1>6, <1>12, <1>13, <1>14, <1>15, ReceiveDone
<1>17. Holds(pc', msg', data', promised')
  BY <1>2, <1>9
<1>18. QED BY <1>11, <1>16, <1>17 DEF QueueInv

LEMMA DeviceReceiveHolds ==
  ASSUME QueueInv, DeviceMqRecv
  PROVE  QueueInv' /\ Messages!Receive
<1>1. PICK b, n, y : b = msg_queue_head /\ n = next[msg_queue_head] /\ y = data[msg_queue_head]
  OBVIOUS
<1>2. PICK r : r = msg_queue_free
  OBVIOUS
<1>3. /\ mq_entry # 0 /\ msg_queue_head' = n /\ n = next[b]
      /\ msg_queue_tail' = (IF msg_queue_tail = b THEN NULL ELSE msg_queue_tail)
      /\ mq_entry' = mq_entry - 1 /\ next' = [next EXCEPT ![b] = r]
      /\ msg_queue_free' = b /\ mq_received' = y /\ data' = [data EXCEPT ![b] = NoMessage]
      /\ pc' = pc /\ msg' = msg /\ promised' = promised
  BY <1>1, <1>2 DEF DeviceMqRecv, cpu
<1>4. Holds(pc, msg, data, promised)
  BY DEF QueueInv
<1>5. PICK h : h = HeldOf(msg)
  OBVIOUS
<1>6. PICK q, f : Placed(next, b, msg_queue_tail, r, mq_entry, h, q, f)
  BY <1>1, <1>2, <1>5 DEF QueueInv
<1>7. /\ b \in Block /\ b \notin h /\ q # << >> /\ b = q[1]
      /\ Placed(Written(next, b, NULL), next[b],
                IF msg_queue_tail = b THEN NULL ELSE msg_queue_tail, r, mq_entry - 1,
                h \cup {b}, Tail(q), f)
  BY ONLY <1>3, <1>6, UnlinksFirst
<1>8. PICK p, l, e, hb, w : /\ p = Written(next, b, NULL) /\ e = mq_entry - 1 /\ hb = h \cup {b}
                            /\ l = IF msg_queue_tail = b THEN NULL ELSE msg_queue_tail
                            /\ w = Tail(q)
  OBVIOUS
<1>9. Placed(p, n, l, r, e, hb, w, f) /\ b \in hb
  BY <1>3, <1>7, <1>8
<1>10. Placed(Written(p, b, r), n, l, b, e, hb \ {b}, w, InFront(b, f))
  BY ONLY <1>9, GivesBack
<1>11. next' = Written(p, b, r)
  <2>1. next \in [Block -> Link]
    BY <1>6 DEF Placed
  <2>2. \A x : Written(p, b, x) = Written(next, b, x)
    <3>1. p = Written(next, b, NULL) /\ b \in Block
      BY <1>7, <1>8
    <3>2. QED BY ONLY <2>1, <3>1, WrittenTwice
  <2>3. next' = Written(next, b, r)
    BY <1>3 DEF Written
  <2>4. QED BY <2>2, <2>3
<1>12. HeldOf(msg') = hb \ {b} /\ hb \ {b} = h
  BY <1>3, <1>5, <1>7, <1>8
<1>13. msg_queue_tail' = l /\ mq_entry' = e /\ msg_queue_head' = n /\ msg_queue_free' = b
  BY <1>3, <1>8
<1>14. Placed(next', msg_queue_head', msg_queue_tail', msg_queue_free', mq_entry', HeldOf(msg'),
              w, InFront(b, f))
  BY ONLY <1>10, <1>11, <1>12, <1>13
<1>15. data \in [Block -> Message \cup {NoMessage}]
  BY <1>4 DEF Holds
<1>16. /\ data' \in [Block -> Message \cup {NoMessage}]
       /\ \A x \in Block \ {b} : data'[x] = data[x]
  BY <1>3, <1>15
<1>17. Holds(pc', msg', data', promised')
  <2>1. \A x \in HeldOf(msg) : x \in Block \ {b}
    <3>1. \A x \in HeldOf(msg) : x \in Block
      BY <1>4 DEF Holds, HeldOf, Link
    <3>2. QED BY <1>5, <1>7, <3>1
  <2>2. PICK d : d = data'
    OBVIOUS
  <2>3. d \in [Block -> Message \cup {NoMessage}] /\ \A x \in HeldOf(msg) : d[x] = data[x]
    BY <1>16, <2>1, <2>2
  <2>4. Holds(pc, msg, d, promised)
    BY ONLY <1>4, <2>3, HoldsData
  <2>5. QED BY <1>3, <2>2, <2>4
<1>18. q \in Seq(Block)
  BY <1>6 DEF Placed, Leads
<1>19. Contents = ContentsOf(data, q)
  BY <1>1, <1>6, ContentsAre
<1>20. Contents' = ContentsOf(data, Tail(q))
  <2>1. Contents' = ContentsOf(data', w)
    BY <1>14, ContentsBecome
  <2>2. w \in Seq(Block) /\ b \notin ToSet(w) /\ \A x \in ToSet(w) : x \in Block
    <3>1. w \in Seq(Block) /\ hb \cap ToSet(w) = {}
      BY <1>9 DEF Placed, Leads
    <3>2. QED BY <1>9, <3>1, MembersOf
  <2>3. PICK d : d = data'
    OBVIOUS
  <2>4. \A x \in ToSet(w) : d[x] = data[x]
    BY <1>16, <2>2, <2>3
  <2>5. ContentsOf(d, w) = ContentsOf(data, w)
    BY ONLY <2>2, <2>4, ContentsSame
  <2>6. QED BY <1>8, <2>1, <2>3, <2>5
<1>21. mq_received' = data[q[1]]
  BY <1>1, <1>3, <1>7
<1>22. Messages!Receive /\ mq_received' \in Message \cup {NoMessage}
  BY ONLY <1>7, <1>15, <1>18, <1>19, <1>20, <1>21, ReceiveDone
<1>23. QED BY <1>14, <1>17, <1>22 DEF QueueInv

LEMMA FreeHolds ==
  ASSUME QueueInv, LocalsTyped, NEW t \in Thread, MqFreeBlock(t)
  PROVE  QueueInv' /\ UNCHANGED Messages!vars
<1>1. PICK b, r : b = msg[t] /\ r = msg_queue_free
  OBVIOUS
<1>2. /\ next' = [next EXCEPT ![b] = r] /\ msg_queue_free' = b
      /\ data' = [data EXCEPT ![b] = NoMessage] /\ msg' = [msg EXCEPT ![t] = NULL]
      /\ promised' = [promised EXCEPT ![t] = NoMessage] /\ pc' = [pc EXCEPT ![t] = "run"]
      /\ pc[t] = "mq_copy" /\ msg_queue_head' = msg_queue_head
      /\ msg_queue_tail' = msg_queue_tail /\ mq_entry' = mq_entry /\ mq_received' = mq_received
  BY <1>1 DEF MqFreeBlock, Goto
<1>3. Holds(pc, msg, data, promised)
  BY DEF QueueInv
<1>4. pc'[t] \notin HoldPoints /\ pc[t] \in HoldPoints /\ \A u \in Thread \ {t} : pc'[u] = pc[u]
  BY <1>2 DEF LocalsTyped, HoldPoints
<1>5. PICK h : h = HeldOf(msg)
  OBVIOUS
<1>6. /\ Holds(pc', msg', data, promised') /\ HeldOf(msg') = h \ {b}
      /\ b \in h /\ b \in Block
  <2>1. PICK w, n, z : w = pc' /\ n = msg' /\ z = promised'
    OBVIOUS
  <2>2. n = Written(msg, t, NULL) /\ z = Written(promised, t, NoMessage)
    BY <1>2, <2>1 DEF Written
  <2>3. w[t] \notin HoldPoints /\ pc[t] \in HoldPoints /\ \A u \in Thread \ {t} : w[u] = pc[u]
    BY <1>4, <2>1
  <2>4. Holds(w, n, data, z) /\ msg[t] \in HeldOf(msg) /\ msg[t] \in Block
    BY ONLY <1>3, <2>2, <2>3, t \in Thread, HoldsRelease
  <2>5. HeldOf(n) = HeldOf(msg) \ {msg[t]}
    BY ONLY <1>3, <2>2, <2>3, t \in Thread, HoldsRelease
  <2>6. QED BY <1>1, <1>5, <2>1, <2>4, <2>5
<1>7. PICK q, f : Placed(next, msg_queue_head, msg_queue_tail, r, mq_entry, h, q, f)
  BY <1>1, <1>5 DEF QueueInv
<1>8. Placed(Written(next, b, r), msg_queue_head, msg_queue_tail, b, mq_entry, h \ {b}, q,
             InFront(b, f))
  BY ONLY <1>6, <1>7, GivesBack
<1>9. next' = Written(next, b, r)
  BY <1>2 DEF Written
<1>10. Placed(next', msg_queue_head', msg_queue_tail', msg_queue_free', mq_entry', HeldOf(msg'),
              q, InFront(b, f))
  BY ONLY <1>2, <1>6, <1>8, <1>9
<1>11. data \in [Block -> Message \cup {NoMessage}]
  BY <1>3 DEF Holds
<1>12. /\ data' \in [Block -> Message \cup {NoMessage}]
       /\ \A x \in Block \ {b} : data'[x] = data[x]
  BY <1>2, <1>11
<1>13. PICK d : d = data'
  OBVIOUS
<1>14. Holds(pc', msg', data', promised')
  <2>1. \A x \in HeldOf(msg') : x \in Block \ {b}
    <3>1. \A x \in HeldOf(msg) : x \in Block
      BY <1>3 DEF Holds, HeldOf, Link
    <3>2. QED BY <1>5, <1>6, <3>1
  <2>2. PICK w, n, z : w = pc' /\ n = msg' /\ z = promised'
    OBVIOUS
  <2>3. Holds(w, n, data, z) /\ d \in [Block -> Message \cup {NoMessage}]
        /\ \A x \in HeldOf(n) : d[x] = data[x]
    BY <1>6, <1>12, <1>13, <2>1, <2>2
  <2>4. Holds(w, n, d, z)
    BY ONLY <2>3, HoldsData
  <2>5. QED BY <1>13, <2>2, <2>4
<1>15. mq_received' \in Message \cup {NoMessage}
  BY <1>2 DEF QueueInv
<1>16. Contents' = Contents
  <2>1. Contents = ContentsOf(data, q)
    BY <1>7, ContentsAre
  <2>2. Contents' = ContentsOf(data', q)
    BY <1>10, ContentsBecome
  <2>3. q \in Seq(Block) /\ h \cap ToSet(q) = {}
    BY <1>7 DEF Placed, Leads
  <2>4. \A x \in ToSet(q) : d[x] = data[x]
    BY <1>6, <1>12, <1>13, <2>3, MembersOf
  <2>5. ContentsOf(d, q) = ContentsOf(data, q)
    BY ONLY <2>3, <2>4, ContentsSame
  <2>6. QED BY <1>13, <2>1, <2>2, <2>5
<1>17. QED BY <1>2, <1>10, <1>14, <1>15, <1>16 DEF QueueInv, Messages!vars

LEMMA ResetHolds ==
  ASSUME QueueInv, LocalsTyped, NEW t \in Thread, MqReset(t)
  PROVE  QueueInv' /\ Messages!Clear
<1>1. PICK q, f : Placed(next, msg_queue_head, msg_queue_tail, msg_queue_free, mq_entry,
                         HeldOf(msg), q, f)
  BY DEF QueueInv
<1>2. /\ Queue.seq = q /\ Free.seq = f /\ q \in Seq(Block)
  BY <1>1, ChainPlaced DEF Queue, Free
<1>3. /\ ResetEnd(t) /\ msg' = msg /\ promised' = promised /\ mq_received' = mq_received
      /\ next' = [b \in Block |-> IF b \in ToSet(Reverse(q) \o f)
                                  THEN Linked(Reverse(q) \o f)[b] ELSE next[b]]
      /\ msg_queue_free' = (IF q = << >> THEN msg_queue_free ELSE Last(q))
      /\ msg_queue_head' = NULL /\ msg_queue_tail' = NULL /\ mq_entry' = 0
      /\ data' = [b \in Block |-> IF b \in ToSet(q) THEN NoMessage ELSE data[b]]
  BY <1>2 DEF MqReset
<1>4. PICK r, h : r = msg_queue_free /\ h = HeldOf(msg)
  OBVIOUS
<1>5. Placed([b \in Block |-> IF b \in ToSet(Reverse(q) \o f) THEN Linked(Reverse(q) \o f)[b]
                              ELSE next[b]],
             NULL, NULL, IF q = << >> THEN r ELSE Last(q), 0, h, << >>, Reverse(q) \o f)
  BY ONLY <1>1, <1>4, AllBack
<1>6. HeldOf(msg') = h /\ msg_queue_free' = (IF q = << >> THEN r ELSE Last(q))
  BY <1>3, <1>4
<1>7. Placed(next', msg_queue_head', msg_queue_tail', msg_queue_free', mq_entry', HeldOf(msg'),
             << >>, Reverse(q) \o f)
  BY ONLY <1>3, <1>5, <1>6
<1>8. Holds(pc', msg, data, promised)
  <2>1. MoveFreely(pc, pc')
    BY <1>3, ObjectFree
  <2>2. PICK w : w = pc'
    OBVIOUS
  <2>3. MoveFreely(pc, w) /\ Holds(pc, msg, data, promised)
    BY <2>1, <2>2 DEF QueueInv
  <2>4. Holds(w, msg, data, promised)
    BY ONLY <2>3, HoldsSame
  <2>5. QED BY <2>2, <2>4
<1>9. Holds(pc', msg', data', promised')
  <2>1. data \in [Block -> Message \cup {NoMessage}] /\ \A x \in HeldOf(msg) : x \in Block
    BY <1>8 DEF Holds, HeldOf, Link
  <2>2. HeldOf(msg) \cap ToSet(q) = {}
    BY <1>1 DEF Placed
  <2>3. PICK w, d : w = pc' /\ d = data'
    OBVIOUS
  <2>4. d \in [Block -> Message \cup {NoMessage}] /\ \A x \in HeldOf(msg) : d[x] = data[x]
    BY <1>3, <2>1, <2>2, <2>3
  <2>5. Holds(w, msg, data, promised)
    BY <1>8, <2>3
  <2>6. Holds(w, msg, d, promised)
    BY ONLY <2>4, <2>5, HoldsData
  <2>7. QED BY <1>3, <2>3, <2>6
<1>10. Contents' = << >>
  <2>1. Contents' = ContentsOf(data', << >>)
    BY <1>7, ContentsBecome
  <2>2. ContentsOf(data', << >>) = << >>
    BY DEF ContentsOf
  <2>3. QED BY <2>1, <2>2
<1>11. mq_received' \in Message \cup {NoMessage}
  BY <1>3 DEF QueueInv
<1>12. QED BY <1>3, <1>7, <1>9, <1>10, <1>11 DEF QueueInv, Messages!Clear

\* A step of the message queue is a step of its channel.
LEMMA MqStepHolds ==
  ASSUME QueueInv, LocalsTyped, NEW t \in Thread, MqStep(t) \/ MqCall(t)
  PROVE  QueueInv' /\ [Messages!UrgentNext]_Messages!vars
<1>1. "recv" \in Waits
  BY DEF Waits
<1>2. CASE (ObjectStep(t, "run") \/ ObjectCall(t)) /\ UNCHANGED queue_vars
  <2>1. MoveFreely(pc, pc')
    BY <1>2, StepsAre, ObjectFree
  <2>2. QED BY <1>2, <2>1, QueueInvRests
<1>3. CASE MqLink(t)
  <2>1. QueueInv' /\ \E m \in Message : SendStep(m)
    BY <1>3, LinkHolds
  <2>2. Messages!UrgentNext
    BY <2>1, MessageQueueAssumption DEF SendStep, Messages!UrgentNext
  <2>3. QED BY <2>1, <2>2
<1>4. CASE MqFreeBlock(t)
  BY <1>4, FreeHolds
<1>5. CASE MqReset(t)
  BY <1>5, ResetHolds DEF Messages!UrgentNext
<1>6. CASE MqRecvAgain(t) \/ MqRecv(t)
  <2>1. pc[t] \notin HoldPoints /\ Unlink(t)
    BY <1>1, <1>6, CallsFree DEF MqRecvAgain, MqRecv
  <2>2. QueueInv' /\ Messages!Receive
    BY <2>1, UnlinkHolds
  <2>3. QED BY <2>2 DEF Messages!UrgentNext
<1>7. CASE MqRecvWaitAgain(t) \/ \E time \in WaitTimes[t] : MqRecvWait(t, time)
  <2>1. pc[t] \notin HoldPoints /\ UNCHANGED queue_vars
    BY <1>1, <1>7, CallsFree DEF MqRecvWaitAgain, MqRecvWait, MqAwait
  <2>2. \E n, c, time : Await(t, n, c, time)
    BY <1>7 DEF MqRecvWaitAgain, MqRecvWait, MqAwait
  <2>3. MoveFreely(pc, pc')
    BY <2>1, <2>2, WaitFree
  <2>4. QED BY <2>1, <2>3, QueueInvRests
<1>8. CASE MqRecvGivesUp(t)
  <2>1. Fails(t, "recv") \/ \E e : GivesUp(t, "recv", e)
    BY <1>8 DEF MqRecvGivesUp
  <2>2. MoveFreely(pc, pc') /\ UNCHANGED queue_vars
    BY <1>8, <2>1, GiveUpFree DEF MqRecvGivesUp
  <2>3. QED BY <2>2, QueueInvRests
<1>9. CASE \E m \in Message :
             MqTakeBlock(t, m, IF m \in UrgentMessage THEN "mq_urgent" ELSE "mq_send")
  BY <1>9, TakeHolds
<1>10. QED BY <1>2, <1>3, <1>4, <1>5, <1>6, <1>7, <1>8, <1>9 DEF MqStep, MqCall

LEMMA MqInvKeeps ==
  ASSUME QueueInv, LocalsTyped, MqNext
  PROVE  QueueInv' /\ [Messages!UrgentNext]_Messages!vars
<1>1. CASE IpcHandler /\ UNCHANGED queue_vars
  BY <1>1, HandlerFree, QueueInvRests
<1>2. CASE DeviceMqRecv
  BY <1>2, DeviceReceiveHolds DEF Messages!UrgentNext
<1>3. ASSUME NEW m \in Message, DeviceMqSend(m)
      PROVE  QueueInv' /\ Messages!UrgentNext
  <2>1. QueueInv' /\ SendStep(m)
    BY <1>3, DeviceSendHolds
  <2>2. QED BY <2>1 DEF SendStep, Messages!UrgentNext
<1>4. QED BY <1>1, <1>2, <1>3, MqStepHolds DEF MqNext, MqHandler

-----------------------------------------------------------------------------
(***************************************************************************)
(* The blocks of the memory pool.                                          *)
(***************************************************************************)
\* With the pointers p the free blocks are f, from b on, n of them.
FreeBlocks(p, b, n, f) ==
  /\ p \in [PoolBlock -> PoolBlock \cup {NULL, pool}]
  /\ Leads(p, PoolBlock, b, f) /\ n = Len(f)
  /\ ToSet(f) = {c \in PoolBlock : p[c] # pool}

PoolInv ==
  /\ suspend_thread_count \in 0 .. MaxPending
  /\ \E f : FreeBlocks(block_next, block_list, block_free_count, f)

LEMMA PoolInvInit ==
  ASSUME PoolInit
  PROVE  PoolInv
<1>1. PICK s : s = SetToSeq(PoolBlock)
  OBVIOUS
<1>2. /\ block_next = Linked(s) /\ block_list = First(s)
      /\ block_free_count = Cardinality(PoolBlock) /\ suspend_thread_count = 0
  BY <1>1 DEF PoolInit, block_total_count
<1>3. /\ s \in Seq(PoolBlock) /\ IsInjective(s) /\ ToSet(s) = PoolBlock
      /\ Len(s) = Cardinality(PoolBlock)
  BY <1>1, SetToSeqProperties, MemPoolAssumption
<1>4. Leads(Linked(s), PoolBlock, First(s), s) /\ Linked(s) \in [PoolBlock -> PoolBlock \cup {NULL}]
  BY <1>3, LinkedLeads
<1>5. \A c \in PoolBlock : Linked(s)[c] # pool
  BY <1>4, MemPoolAssumption
<1>6. FreeBlocks(block_next, block_list, block_free_count, s)
  BY <1>2, <1>3, <1>4, <1>5 DEF FreeBlocks
<1>7. QED BY <1>2, <1>6, MemPoolAssumption DEF PoolInv

LEMMA PoolInvRests ==
  ASSUME PoolInv, UNCHANGED mempool
  PROVE  PoolInv'
BY DEF PoolInv, mempool

\* The first free block is taken.
LEMMA TakeBlockFree ==
  ASSUME PoolInv, TakeBlock
  PROVE  PoolInv'
<1>1. PICK f, b, d : /\ FreeBlocks(block_next, b, block_free_count, f)
                     /\ b = block_list /\ d = block_next[block_list]
  BY DEF PoolInv
<1>2. /\ block_free_count # 0 /\ block_free_count' = block_free_count - 1
      /\ block_list' = d /\ d = block_next[b]
      /\ block_next' = [block_next EXCEPT ![b] = pool]
      /\ suspend_thread_count' = suspend_thread_count
  BY <1>1 DEF TakeBlock
<1>3. PICK L : L = PoolBlock \cup {NULL, pool}
  OBVIOUS
<1>4. /\ block_next \in [PoolBlock -> L] /\ Leads(block_next, PoolBlock, b, f)
      /\ block_free_count = Len(f) /\ ToSet(f) = {c \in PoolBlock : block_next[c] # pool}
  BY <1>1, <1>3 DEF FreeBlocks
<1>5. f # << >>
  BY <1>2, <1>4
<1>6. /\ b \in PoolBlock /\ ToSet(f) = ToSet(Tail(f)) \cup {b} /\ b \notin ToSet(Tail(f))
      /\ Len(Tail(f)) = Len(f) - 1 /\ Leads(Written(block_next, b, pool), PoolBlock, d, Tail(f))
  <2>1. block_next \in [PoolBlock -> L] /\ Leads(block_next, PoolBlock, b, f) /\ f # << >>
    BY <1>4, <1>5
  <2>2. b \in PoolBlock /\ b \notin ToSet(Tail(f)) /\ Len(Tail(f)) = Len(f) - 1
    BY ONLY <2>1, LeadsPop
  <2>3. ToSet(f) = ToSet(Tail(f)) \cup {b}
    BY ONLY <2>1, LeadsPop
  <2>4. Leads(Written(block_next, b, pool), PoolBlock, block_next[b], Tail(f))
    BY ONLY <2>1, LeadsPop
  <2>5. QED BY <1>2, <2>2, <2>3, <2>4
<1>7. block_next' = Written(block_next, b, pool)
  BY <1>2 DEF Written
<1>8. block_next' \in [PoolBlock -> PoolBlock \cup {NULL, pool}]
  BY <1>2, <1>3, <1>4
<1>9. ToSet(Tail(f)) = {c \in PoolBlock : block_next'[c] # pool}
  BY <1>2, <1>4, <1>6
<1>10. FreeBlocks(block_next', block_list', block_free_count', Tail(f))
  BY <1>2, <1>4, <1>6, <1>7, <1>8, <1>9 DEF FreeBlocks
<1>11. QED BY <1>2, <1>10 DEF PoolInv

\* An allocated block becomes the first free one.
LEMMA ReturnBlockFree ==
  ASSUME PoolInv, NEW b \in PoolBlock, ReturnBlock(b)
  PROVE  PoolInv'
<1>1. PICK f, d : FreeBlocks(block_next, d, block_free_count, f) /\ d = block_list
  BY DEF PoolInv
<1>2. /\ block_next[b] = pool /\ block_free_count' = block_free_count + 1
      /\ block_list' = b /\ block_next' = [block_next EXCEPT ![b] = d]
  BY <1>1 DEF ReturnBlock
<1>3. suspend_thread_count' \in 0 .. MaxPending
  BY MemPoolAssumption DEF PoolInv, ReturnBlock
<1>4. PICK L : L = PoolBlock \cup {NULL, pool}
  OBVIOUS
<1>5. /\ block_next \in [PoolBlock -> L] /\ Leads(block_next, PoolBlock, d, f)
      /\ block_free_count = Len(f) /\ ToSet(f) = {c \in PoolBlock : block_next[c] # pool}
      /\ f \in Seq(PoolBlock)
  BY <1>1, <1>4 DEF FreeBlocks, Leads
<1>6. b \notin ToSet(f)
  BY <1>2, <1>5
<1>7. /\ Leads(Written(block_next, b, d), PoolBlock, b, InFront(b, f))
      /\ ToSet(InFront(b, f)) = ToSet(f) \cup {b} /\ Len(InFront(b, f)) = Len(f) + 1
  <2>1. block_next \in [PoolBlock -> L] /\ Leads(block_next, PoolBlock, d, f)
    BY <1>5
  <2>2. Leads(Written(block_next, b, d), PoolBlock, b, InFront(b, f))
    BY ONLY <1>6, <2>1, b \in PoolBlock, LeadsPush
  <2>3. ToSet(InFront(b, f)) = ToSet(f) \cup {b}
    BY ONLY <1>6, <2>1, b \in PoolBlock, LeadsPush
  <2>4. Len(InFront(b, f)) = Len(f) + 1
    BY <1>5, InFrontLength
  <2>5. QED BY <2>2, <2>3, <2>4
<1>8. d \in PoolBlock \cup {NULL} /\ d # pool
  BY <1>5, LeadsFrom, MemPoolAssumption
<1>9. block_next' = Written(block_next, b, d)
  BY <1>2 DEF Written
<1>10. block_next' \in [PoolBlock -> PoolBlock \cup {NULL, pool}]
  BY <1>2, <1>4, <1>5, <1>8
<1>11. ToSet(InFront(b, f)) = {c \in PoolBlock : block_next'[c] # pool}
  BY <1>2, <1>5, <1>7, <1>8
<1>12. FreeBlocks(block_next', block_list', block_free_count', InFront(b, f))
  BY <1>2, <1>5, <1>7, <1>9, <1>10, <1>11 DEF FreeBlocks
<1>13. QED BY <1>3, <1>12 DEF PoolInv

LEMMA PoolInvKeeps ==
  ASSUME PoolInv, suspend_thread_count' \in Nat, PoolNext
  PROVE  PoolInv'
<1>1. CASE UNCHANGED mempool
  BY <1>1, PoolInvRests
<1>2. CASE TakeBlock
  BY <1>2, TakeBlockFree
<1>3. ASSUME NEW b \in PoolBlock, ReturnBlock(b)
      PROVE  PoolInv'
  BY <1>3, ReturnBlockFree
<1>4. ASSUME NEW t, NEW time, PoolAwait(t, time)
      PROVE  PoolInv'
  BY <1>4, MemPoolAssumption DEF PoolAwait, PoolInv
<1>5. ASSUME NEW t, PoolDetachResume(t)
      PROVE  PoolInv'
  BY <1>5, MemPoolAssumption DEF PoolDetachResume, PoolInv
<1>6. CASE PoolHandler
  BY <1>1, <1>2, <1>3, <1>6 DEF PoolHandler, DevicePoolAlloc, DevicePoolFree
<1>7. ASSUME NEW t \in Thread, PoolStep(t)
      PROVE  PoolInv'
  BY <1>1, <1>2, <1>4, <1>5, <1>7
     DEF PoolStep, PoolTimeLeft, PoolAllocAgain, PoolAllocWaitAgain, PoolGivesUp
<1>8. ASSUME NEW t \in Thread, PoolCall(t)
      PROVE  PoolInv'
  BY <1>1, <1>2, <1>3, <1>4, <1>8 DEF PoolCall, PoolAlloc, PoolAllocWait, PoolFree
<1>9. QED BY <1>6, <1>7, <1>8 DEF PoolNext

\* As many threads hold a block as blocks are held.
LEMMA HeldCount ==
  ASSUME NEW m \in [Thread -> Link],
         \A u, w \in Thread : m[u] = m[w] /\ m[u] # NULL => u = w
  PROVE  Cardinality({u \in Thread : m[u] # NULL}) = Cardinality(HeldOf(m))
<1>1. PICK D : D = {u \in Thread : m[u] # NULL}
  OBVIOUS
<1>2. D \subseteq Thread /\ IsFiniteSet(D)
  <2>1. D \subseteq Thread
    BY <1>1
  <2>2. QED BY <2>1, ThreadFinite, FS_Subset
<1>3. PICK g : g = [u \in D |-> m[u]]
  OBVIOUS
<1>4. \A u \in D : g[u] = m[u] /\ m[u] \in HeldOf(m)
  BY <1>1, <1>3 DEF HeldOf
<1>5. g \in [D -> HeldOf(m)]
  BY <1>3, <1>4
<1>6. \A x \in HeldOf(m) : \E u \in D : g[u] = x
  BY <1>1, <1>4 DEF HeldOf
<1>7. \A u, w \in D : g[u] = g[w] => u = w
  BY <1>1, <1>4
<1>8. g \in Injection(D, HeldOf(m)) /\ g \in Surjection(D, HeldOf(m))
  <2>1. PICK H : H = HeldOf(m)
    OBVIOUS
  <2>2. g \in [D -> H] /\ (\A x \in H : \E u \in D : g[u] = x)
        /\ \A u, w \in D : g[u] = g[w] => u = w
    BY <1>5, <1>6, <1>7, <2>1
  <2>3. g \in Injection(D, H)
    BY ONLY <2>2 DEF Injection, IsInjective
  <2>4. g \in Surjection(D, H)
    BY ONLY <2>2 DEF Surjection
  <2>5. QED BY <2>1, <2>3, <2>4
<1>9. ExistsBijection(D, HeldOf(m))
  BY <1>8 DEF ExistsBijection, Bijection
<1>10. QED BY <1>1, <1>2, <1>9, FS_Bijection

\* What the invariants say of the blocks.
LEMMA QueuePartition ==
  ASSUME QueueInv
  PROVE  BlocksPartitioned /\ CopiedIntact
<1>1. Holds(pc, msg, data, promised)
  BY DEF QueueInv
<1>2. PICK q, f : Placed(next, msg_queue_head, msg_queue_tail, msg_queue_free, mq_entry,
                         HeldOf(msg), q, f)
  BY DEF QueueInv
<1>3. /\ Queue = [seq |-> q, at |-> NULL] /\ Free = [seq |-> f, at |-> NULL]
      /\ q \in Seq(Block) /\ f \in Seq(Block) /\ IsInjective(q) /\ IsInjective(f)
  BY <1>2, ChainPlaced DEF Queue, Free
<1>4. /\ ToSet(q) \cap ToSet(f) = {} /\ HeldOf(msg) \cap (ToSet(q) \cup ToSet(f)) = {}
      /\ Block = ToSet(q) \cup ToSet(f) \cup HeldOf(msg) /\ mq_entry = Len(q)
      /\ msg_queue_tail = IF q = << >> THEN NULL ELSE Last(q)
  BY <1>2 DEF Placed
<1>5. PICK all : all = q \o f
  OBVIOUS
<1>6. all \in Seq(Block) /\ IsInjective(all) /\ ToSet(all) = ToSet(q) \cup ToSet(f)
  BY <1>3, <1>4, <1>5, JoinedLists
<1>7. /\ msg \in [Thread -> Link]
      /\ \A u, w \in Thread : msg[u] = msg[w] /\ msg[u] # NULL => u = w
  BY <1>1 DEF Holds
<1>8. PICK held : held = {u \in Thread : msg[u] # NULL}
  OBVIOUS
<1>9. Cardinality(held) = Cardinality(HeldOf(msg))
  BY <1>7, <1>8, HeldCount
<1>10. \A t \in held : msg[t] \in HeldOf(msg) /\ msg[t] \notin ToSet(all)
  BY <1>4, <1>6, <1>8 DEF HeldOf
<1>11. \A t, u \in held : msg[t] = msg[u] => t = u
  BY <1>7, <1>8
<1>12. Len(all) + Cardinality(held) = max_msgs
  <2>1. IsFiniteSet(Block)
    BY MessageQueueAssumption
  <2>2. IsFiniteSet(ToSet(all)) /\ Cardinality(ToSet(all)) = Len(all) /\ Len(all) \in Nat
    BY <1>6, <2>1, InjectiveLength
  <2>3. PICK hh : hh = HeldOf(msg)
    OBVIOUS
  <2>4. hh \subseteq Block /\ ToSet(all) \cap hh = {} /\ ToSet(all) \cup hh = Block
    BY <1>4, <1>6, <2>3
  <2>5. IsFiniteSet(hh) /\ Cardinality(hh) \in Nat
    BY <2>1, <2>4, FS_Subset, FS_CardinalityType
  <2>6. Cardinality(ToSet(all) \cup hh)
          = Cardinality(ToSet(all)) + Cardinality(hh) - Cardinality(ToSet(all) \cap hh)
    BY <2>2, <2>5, FS_Union
  <2>7. Cardinality(ToSet(all) \cap hh) = 0
    BY <2>4, FS_EmptySet
  <2>8. Cardinality(Block) = Len(all) + Cardinality(hh)
    <3>1. Cardinality(ToSet(all) \cup hh) = Cardinality(Block)
      BY ONLY <2>4
    <3>2. QED BY <2>2, <2>5, <2>6, <2>7, <3>1
  <2>9. QED BY <1>9, <2>3, <2>8 DEF max_msgs
<1>13. msg_queue_tail = IF mq_entry = 0 THEN NULL ELSE Last(q)
  <2>1. Len(q) = 0 <=> q = << >>
    BY <1>3, EmptySeq
  <2>2. QED BY <1>4, <2>1
<1>14. BlocksPartitioned
  <2>1. Queue.seq = q /\ Queue.at = NULL /\ Free.seq = f /\ Free.at = NULL
    BY <1>3
  <2>2. QED BY <1>4, <1>5, <1>6, <1>8, <1>10, <1>11, <1>12, <1>13, <2>1 DEF BlocksPartitioned
<1>15. CopiedIntact
  BY <1>1 DEF Holds, CopiedIntact
<1>16. QED BY <1>14, <1>15

LEMMA PoolPartition ==
  ASSUME PoolInv
  PROVE  PoolPartitioned /\ PoolTypeOK
<1>1. PICK f : FreeBlocks(block_next, block_list, block_free_count, f)
  BY DEF PoolInv
<1>2. /\ block_next \in [PoolBlock -> PoolBlock \cup {NULL, pool}]
      /\ Leads(block_next, PoolBlock, block_list, f) /\ block_free_count = Len(f)
      /\ ToSet(f) = {c \in PoolBlock : block_next[c] # pool}
  BY <1>1 DEF FreeBlocks
<1>3. f \in Seq(PoolBlock) /\ IsInjective(f)
  BY <1>2 DEF Leads
<1>4. IsFiniteSet(PoolBlock) /\ NULL \notin PoolBlock /\ DOMAIN block_next = PoolBlock
  BY <1>2, MemPoolAssumption
<1>5. Chain(block_next, block_list) = [seq |-> f, at |-> NULL]
  BY ONLY <1>2, <1>4, ChainIs
<1>6. PoolPartitioned
  BY <1>2, <1>3, <1>5 DEF PoolPartitioned
<1>7. Len(f) <= Cardinality(PoolBlock) /\ Len(f) \in Nat /\ Cardinality(PoolBlock) \in Nat
  BY <1>3, <1>4, InjectiveLength
<1>8. block_free_count \in 0 .. block_total_count
  BY <1>2, <1>7 DEF block_total_count
<1>9. block_list \in PoolBlock \cup {NULL}
  BY <1>2, <1>4, LeadsFrom
<1>10. QED BY <1>2, <1>6, <1>8, <1>9 DEF PoolInv, PoolTypeOK

LEMMA QueueTyped ==
  ASSUME QueueInv
  PROVE  MqTypeOK
<1>1. Holds(pc, msg, data, promised) /\ mq_received \in Message \cup {NoMessage}
  BY DEF QueueInv
<1>2. PICK q, f : Placed(next, msg_queue_head, msg_queue_tail, msg_queue_free, mq_entry,
                         HeldOf(msg), q, f)
  BY DEF QueueInv
<1>3. /\ next \in [Block -> Link] /\ Leads(next, Block, msg_queue_head, q)
      /\ Leads(next, Block, msg_queue_free, f)
      /\ msg_queue_tail = IF q = << >> THEN NULL ELSE Last(q)
  BY <1>2 DEF Placed
<1>4. NULL \notin Block
  BY MessageQueueAssumption
<1>5. msg_queue_head \in Link /\ msg_queue_free \in Link
  BY <1>3, <1>4, LeadsFrom DEF Link
<1>6. msg_queue_tail \in Link
  <2>1. CASE q = << >>
    BY <1>3, <2>1 DEF Link
  <2>2. CASE q # << >>
    <3>1. q \in Seq(Block)
      BY <1>3 DEF Leads
    <3>2. Last(q) \in ToSet(q)
      BY <1>3, <1>4, <2>2, LeadsFrom
    <3>3. QED BY <1>3, <2>2, <3>1, <3>2, MembersOf DEF Link
  <2>3. QED BY <2>1, <2>2
<1>7. mq_entry \in 0 .. max_msgs
  BY <1>2, RoomIs
<1>8. QED BY <1>1, <1>3, <1>5, <1>6, <1>7 DEF Holds, MqTypeOK

-----------------------------------------------------------------------------
(***************************************************************************)
(* The blocks, and the types.                                              *)
(***************************************************************************)
\* An object that is not in use has its blocks where they were, so this
\* holds of every object at all times.
BInv == QueueInv /\ PoolInv /\ mail \in [Thread -> Mail \cup {NoMail}]

LEMMA InitBInv == Init => BInv /\ Messages!Init
<1> SUFFICES ASSUME Init PROVE BInv /\ Messages!Init
  OBVIOUS
<1>1. MqInit /\ PoolInit /\ MbInit /\ pc = [t \in Thread |-> "run"]
  BY DEF Init, IpcInit, CpuInit
<1>2. QueueInv /\ Messages!Init
  BY <1>1, QueueInvInit
<1>3. PoolInv
  BY <1>1, PoolInvInit
<1>4. mail \in [Thread -> Mail \cup {NoMail}]
  BY <1>1 DEF MbInit
<1>5. QED BY <1>2, <1>3, <1>4 DEF BInv

LEMMA StepBInv ==
  SInv /\ BInv /\ [Next]_vars => BInv' /\ [Messages!UrgentNext]_Messages!vars
<1> SUFFICES ASSUME SInv, BInv, [Next]_vars
             PROVE  BInv' /\ [Messages!UrgentNext]_Messages!vars
  OBVIOUS
<1>1. QueueInv /\ PoolInv /\ mail \in [Thread -> Mail \cup {NoMail}] /\ LocalsTyped /\ SInv'
  BY StepSInv DEF SInv, BInv, KInv
<1>2. UNCHANGED mailbox => mail' = mail
  BY DEF mailbox
<1>3. CASE using = "mb" /\ MbNext /\ UNCHANGED <<using, event, queue_vars, mempool>>
  <2>1. QueueInv' /\ UNCHANGED Messages!vars
    BY <1>1, <1>3, MbFree, QueueInvRests
  <2>2. PoolInv'
    BY <1>1, <1>3, PoolInvRests
  <2>3. mail' \in [Thread -> Mail \cup {NoMail}]
    BY <1>1, <1>3 DEF SInv, ObjectsSound, BoxSound, MbInv, MailKept
  <2>4. QED BY <2>1, <2>2, <2>3 DEF BInv
<1>4. CASE using = "event" /\ EventNext /\ UNCHANGED <<using, mailbox, queue_vars, mempool>>
  <2>1. QueueInv' /\ UNCHANGED Messages!vars
    BY <1>1, <1>4, EventFree, QueueInvRests
  <2>2. PoolInv' /\ mail' = mail
    BY <1>1, <1>2, <1>4, PoolInvRests
  <2>3. QED BY <1>1, <2>1, <2>2 DEF BInv
<1>5. CASE using = "mq" /\ MqNext /\ UNCHANGED <<using, mailbox, event, mempool>>
  <2>1. QueueInv' /\ [Messages!UrgentNext]_Messages!vars
    BY <1>1, <1>5, MqInvKeeps
  <2>2. PoolInv' /\ mail' = mail
    BY <1>1, <1>2, <1>5, PoolInvRests
  <2>3. QED BY <1>1, <2>1, <2>2 DEF BInv
<1>6. CASE using = "mp" /\ PoolNext /\ UNCHANGED <<using, mailbox, event, queue_vars>>
  <2>1. QueueInv' /\ UNCHANGED Messages!vars
    BY <1>1, <1>6, PoolMovesFree, QueueInvRests
  <2>2. suspend_thread_count' \in Nat
    BY <1>1, <1>6 DEF SInv, ObjectsSound, PoolSound, PoolStocked
  <2>3. PoolInv' /\ mail' = mail
    BY <1>1, <1>2, <1>6, <2>2, PoolInvKeeps
  <2>4. QED BY <1>1, <2>1, <2>3 DEF BInv
<1>7. CASE UNCHANGED vars
  <2>1. pc' = pc /\ mail' = mail /\ UNCHANGED queue_vars /\ UNCHANGED mempool
    BY <1>7 DEF vars, queue_vars, mempool
  <2>2. QueueInv' /\ UNCHANGED Messages!vars
    BY <1>1, <2>1, FreeStay, QueueInvRests
  <2>3. PoolInv'
    BY <1>1, <2>1, PoolInvRests
  <2>4. QED BY <1>1, <2>1, <2>2, <2>3 DEF BInv
<1>8. QED BY <1>3, <1>4, <1>5, <1>6, <1>7 DEF Next

LEMMA BlockInvariance == Spec => []BInv
BY InitBInv, StepBInv, Invariance, PTL DEF Spec

\* A block of a queue or of a pool is in one place, and what is in the block
\* a thread copies stays there, however two-part calls interleave.
THEOREM BlocksStayInOnePlace == Spec => []BlocksInOnePlace
<1>1. BInv => BlocksInOnePlace
  BY QueuePartition, PoolPartition DEF BInv, BlocksInOnePlace
<1>2. QED BY <1>1, BlockInvariance, PTL

\* Every variable keeps its type, and the kernel's lists, bitmap, states and
\* timers agree, whatever the objects do to the threads that wait for them.
THEOREM StateStaysConsistent == Spec => []StateConsistent
<1>1. ASSUME SInv, BInv
      PROVE  StateConsistent
  <2>1. /\ KernelOK(k) /\ LocalsTyped /\ using \in Kinds
        /\ EventSound /\ BoxSound
    BY <1>1 DEF SInv, KInv, KernelSound, ObjectsSound
  <2>2. k \in KernelState /\ Consistent(k)
    BY <2>1 DEF KernelOK
  <2>3. IpcTypeOK
    BY <2>1, <2>2 DEF LocalsTyped, IpcTypeOK, CpuTypeOK
  <2>4. pc \in [Thread -> Point \cup {"mq_send", "mq_urgent", "mq_copy", "alloc_test"}]
    BY <2>1 DEF LocalsTyped, AllPoints
  <2>5. MbTypeOK
    <3>1. RingOK
      BY <2>1 DEF BoxSound, MbInv
    <3>2. QED BY <1>1, <3>1 DEF RingOK, MbTypeOK, BInv
  <2>6. EventTypeOK
    BY <2>1 DEF EventSound, EventInv, EventUnused, EventTypeOK
  <2>7. MqTypeOK /\ PoolTypeOK
    BY <1>1, QueueTyped, PoolPartition DEF BInv
  <2>8. QED BY <2>1, <2>2, <2>3, <2>4, <2>5, <2>6, <2>7
        DEF StateConsistent, TypeOK, KernelConsistent
<1>2. QED BY <1>1, Invariance, BlockInvariance, PTL

\* The message queue implements MessageChannel: rt_mq_recv hands out the
\* oldest message, or the urgent one that overtook it last, and none twice,
\* however the two critical sections of sends and receives interleave.
THEOREM QueueImplementsMessageChannel == Spec => ImplementsMessageChannel
<1>1. Init => Messages!Init
  BY InitBInv
<1>2. SInv /\ BInv /\ [Next]_vars => [Messages!UrgentNext]_Messages!vars
  BY StepBInv
<1>3. QED BY <1>1, <1>2, Invariance, BlockInvariance, PTL
      DEF Spec, ImplementsMessageChannel, Messages!UrgentSpec
=============================================================================
