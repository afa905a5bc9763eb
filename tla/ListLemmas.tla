----------------------------- MODULE ListLemmas -----------------------------
(***************************************************************************)
(* Facts about the sequences that stand for the kernel's linked lists:     *)
(* lists without repetition, and what unlinking and linking a node do to   *)
(* the set of their members.                                               *)
(***************************************************************************)
EXTENDS SequencesExt, SequenceTheorems, WellFoundedInduction, TLAPS

\* A non-empty set of natural numbers has a minimum.
LEMMA MinProperties ==
  ASSUME NEW I \in SUBSET Nat, I # {}
  PROVE  Min(I) \in I /\ \A j \in I : Min(I) <= j
<1> DEFINE R == OpToRel(<, Nat)
<1>1. IsWellFoundedOn(R, Nat)
  BY NatLessThanWellFounded
<1>2. \A x, y \in Nat : y < x => <<y, x>> \in R
  BY DEF OpToRel
<1> HIDE DEF R
<1>3. \E x \in I : \A y \in I : ~ (<<y, x>> \in R)
  BY <1>1, WFMin
<1>4. PICK x \in I : \A y \in I : ~ (<<y, x>> \in R)
  BY <1>3
<1>5. \A y \in I : x <= y
  <2> TAKE y \in I
  <2>1. ~ (y < x)
    BY <1>2, <1>4
  <2>2. QED BY <2>1
<1>6. QED BY <1>4, <1>5 DEF Min

LEMMA MembersOf ==
  ASSUME NEW S, NEW s \in Seq(S)
  PROVE  /\ ToSet(s) = {s[i] : i \in 1 .. Len(s)}
         /\ ToSet(s) \subseteq S
         /\ ToSet(s) = {} <=> s = << >>
BY DEF ToSet

\* Removing the node at a position.
LEMMA RemoveAtProperties ==
  ASSUME NEW S, NEW s \in Seq(S), NEW i \in 1 .. Len(s)
  PROVE  /\ RemoveAt(s, i) \in Seq(S)
         /\ Len(RemoveAt(s, i)) = Len(s) - 1
         /\ \A j \in 1 .. Len(s) - 1 :
              RemoveAt(s, i)[j] = IF j < i THEN s[j] ELSE s[j + 1]
<1> DEFINE p == SubSeq(s, 1, i - 1)
           q == SubSeq(s, i + 1, Len(s))
<1>1. /\ p \in Seq(S) /\ Len(p) = i - 1
      /\ \A j \in 1 .. i - 1 : p[j] = s[j]
  <2>1. \A j \in 1 .. i - 1 : s[j] \in S
    OBVIOUS
  <2>2. QED BY <2>1, SubSeqProperties
<1>2. /\ q \in Seq(S) /\ Len(q) = Len(s) - i
      /\ \A j \in 1 .. Len(s) - i : q[j] = s[i + j]
  <2>1. \A j \in i + 1 .. Len(s) : s[j] \in S
    OBVIOUS
  <2>2. QED BY <2>1, SubSeqProperties
<1> HIDE DEF p, q
<1>0. Len(s) \in Nat /\ i \in Int
  OBVIOUS
<1>c. /\ p \o q \in Seq(S) /\ Len(p \o q) = Len(p) + Len(q)
      /\ \A j \in 1 .. Len(p) + Len(q) :
           (p \o q)[j] = IF j <= Len(p) THEN p[j] ELSE q[j - Len(p)]
  BY <1>1, <1>2, ConcatProperties
<1>3. /\ p \o q \in Seq(S) /\ Len(p \o q) = Len(s) - 1
      /\ \A j \in 1 .. Len(s) - 1 :
           (p \o q)[j] = IF j <= Len(p) THEN p[j] ELSE q[j - Len(p)]
  <2>1. Len(p) + Len(q) = Len(s) - 1
    BY <1>0, <1>1, <1>2
  <2>2. QED BY <1>c, <2>1
<1>4. \A j \in 1 .. Len(s) - 1 : (p \o q)[j] = IF j < i THEN s[j] ELSE s[j + 1]
  <2> SUFFICES ASSUME NEW j \in 1 .. Len(s) - 1
               PROVE  (p \o q)[j] = IF j < i THEN s[j] ELSE s[j + 1]
    OBVIOUS
  <2>0. j \in Int
    BY <1>0
  <2>1. CASE j < i
    BY <2>1, <1>1, <1>3
  <2>2. CASE ~ (j < i)
    <3>1. (p \o q)[j] = q[j - (i - 1)]
      BY <2>2, <1>1, <1>3
    <3>2. q[j - (i - 1)] = s[i + (j - (i - 1))]
      BY <2>2, <1>2
    <3>3. i + (j - (i - 1)) = j + 1
      BY <1>0, <2>0
    <3>4. QED BY <2>2, <3>1, <3>2, <3>3
  <2>3. QED BY <2>1, <2>2
<1>5. QED BY <1>3, <1>4 DEF RemoveAt, p, q

\* RemoveFirst finds nothing to remove.
LEMMA RemoveAbsent ==
  ASSUME NEW S, NEW s \in Seq(S), NEW t, t \notin ToSet(s)
  PROVE  RemoveFirst(s, t) = s
BY DEF ToSet, RemoveFirst

\* rt_list_remove on a list: the node is gone, the others stay.
LEMMA RemoveFirstProperties ==
  ASSUME NEW S, NEW s \in Seq(S), IsInjective(s), NEW t
  PROVE  /\ RemoveFirst(s, t) \in Seq(S)
         /\ IsInjective(RemoveFirst(s, t))
         /\ ToSet(RemoveFirst(s, t)) = ToSet(s) \ {t}
<1>1. CASE \A i \in 1 .. Len(s) : s[i] # t
  <2>1. RemoveFirst(s, t) = s
    BY <1>1 DEF RemoveFirst
  <2>2. t \notin ToSet(s)
    BY <1>1, MembersOf
  <2>3. QED BY <2>1, <2>2
<1>2. CASE \E i \in 1 .. Len(s) : s[i] = t
  <2>1. PICK i \in 1 .. Len(s) : s[i] = t
    BY <1>2
  <2>2. {j \in 1 .. Len(s) : s[j] = t} = {i}
    BY <2>1 DEF IsInjective
  <2>3. Min({i}) = i
    BY DEF Min
  <2>4. RemoveFirst(s, t) = RemoveAt(s, i)
    BY <2>1, <2>2, <2>3 DEF RemoveFirst, SelectInSeq
  <2> DEFINE r == RemoveAt(s, i)
  <2>5. /\ r \in Seq(S) /\ Len(r) = Len(s) - 1
        /\ \A j \in 1 .. Len(s) - 1 : r[j] = IF j < i THEN s[j] ELSE s[j + 1]
    BY RemoveAtProperties
  <2> HIDE DEF r
  <2>6. Len(s) \in Nat /\ \A j, l \in 1 .. Len(s) : s[j] = s[l] => j = l
    BY DEF IsInjective
  <2>7. IsInjective(r)
    <3>1. \A j, l \in 1 .. Len(s) - 1 : r[j] = r[l] => j = l
      <4> SUFFICES ASSUME NEW j \in 1 .. Len(s) - 1, NEW l \in 1 .. Len(s) - 1,
                          j < l
                   PROVE  r[j] # r[l]
        BY <2>6
      <4>0. /\ j \in 1 .. Len(s) /\ j + 1 \in 1 .. Len(s) /\ j \in Int
            /\ l \in 1 .. Len(s) /\ l + 1 \in 1 .. Len(s) /\ l \in Int
            /\ i \in Int
        BY <2>6
      <4>1. CASE l < i
        <5>1. r[j] = s[j] /\ r[l] = s[l]
          BY <2>5, <4>0, <4>1
        <5>2. QED BY <2>6, <4>0, <5>1
      <4>2. CASE ~ (l < i) /\ j < i
        <5>1. r[j] = s[j] /\ r[l] = s[l + 1] /\ j # l + 1
          BY <2>5, <4>0, <4>2
        <5>2. QED BY <2>6, <4>0, <5>1
      <4>3. CASE ~ (j < i)
        <5>1. r[j] = s[j + 1] /\ r[l] = s[l + 1] /\ j + 1 # l + 1
          BY <2>5, <4>0, <4>3
        <5>2. QED BY <2>6, <4>0, <5>1
      <4>4. QED BY <4>0, <4>1, <4>2, <4>3
    <3>2. QED BY <2>5, <3>1 DEF IsInjective
  <2>8. \A j \in 1 .. Len(s) - 1 : r[j] \in ToSet(s) \ {t}
    <3> TAKE j \in 1 .. Len(s) - 1
    <3>1. \E l \in 1 .. Len(s) : l # i /\ r[j] = s[l]
      <4>0. j \in Int /\ i \in Int /\ j \in 1 .. Len(s) /\ j + 1 \in 1 .. Len(s)
        BY <2>6
      <4>1. CASE j < i
        <5>1. r[j] = s[j] /\ j # i
          BY <4>0, <4>1, <2>5
        <5>2. QED BY <4>0, <5>1
      <4>2. CASE ~ (j < i)
        <5>1. r[j] = s[j + 1] /\ j + 1 # i
          BY <4>0, <4>2, <2>5
        <5>2. QED BY <4>0, <5>1
      <4>3. QED BY <4>1, <4>2
    <3>2. r[j] # t
      BY <2>1, <2>6, <3>1
    <3>3. QED BY <3>1, <3>2, MembersOf
  <2>9. \A l \in 1 .. Len(s) : s[l] # t => s[l] \in ToSet(r)
    <3> SUFFICES ASSUME NEW l \in 1 .. Len(s), s[l] # t
                 PROVE  \E j \in 1 .. Len(r) : r[j] = s[l]
      <4>1. r \in Seq(S)
        BY <2>5
      <4>2. ToSet(r) = {r[j] : j \in 1 .. Len(r)}
        BY <4>1, MembersOf
      <4>3. QED BY <4>2
    <3>1. CASE l < i
      BY <2>5, <2>6, <3>1
    <3>2. CASE l > i
      <4>1. r[l - 1] = s[l]
        BY <2>5, <2>6, <3>2
      <4>2. QED BY <2>5, <2>6, <3>2, <4>1
    <3>3. QED BY <2>1, <2>6, <3>1, <3>2
  <2>10. ToSet(r) = ToSet(s) \ {t}
    <3>1. ToSet(r) = {r[j] : j \in 1 .. Len(s) - 1}
      BY <2>5, MembersOf
    <3>2. ToSet(s) = {s[l] : l \in 1 .. Len(s)}
      BY MembersOf
    <3>3. ToSet(r) \subseteq ToSet(s) \ {t}
      BY <2>8, <3>1
    <3>4. ToSet(s) \ {t} \subseteq ToSet(r)
      BY <2>9, <3>2
    <3>5. QED BY <3>3, <3>4
  <2>11. QED BY <2>4, <2>5, <2>7, <2>10 DEF r
<1>3. QED BY <1>1, <1>2

\* rt_list_insert_before on the head of a list: the node is its last one.
LEMMA AppendNew ==
  ASSUME NEW S, NEW s \in Seq(S), IsInjective(s), NEW t \in S, t \notin ToSet(s)
  PROVE  /\ Append(s, t) \in Seq(S)
         /\ IsInjective(Append(s, t))
         /\ ToSet(Append(s, t)) = ToSet(s) \cup {t}
BY AppendProperties DEF IsInjective, ToSet

\* Linking a node before the member at a position.
LEMMA InsertAtProperties ==
  ASSUME NEW S, NEW s \in Seq(S), NEW t \in S, NEW i \in 1 .. Len(s) + 1
  PROVE  /\ InsertAt(s, i, t) \in Seq(S)
         /\ Len(InsertAt(s, i, t)) = Len(s) + 1
         /\ \A j \in 1 .. Len(s) + 1 :
              InsertAt(s, i, t)[j] =
                IF j < i THEN s[j] ELSE IF j = i THEN t ELSE s[j - 1]
<1> DEFINE p == SubSeq(s, 1, i - 1)
           q == SubSeq(s, i, Len(s))
           r == p \o <<t>>
<1>1. /\ p \in Seq(S) /\ Len(p) = i - 1
      /\ \A j \in 1 .. i - 1 : p[j] = s[j]
  <2>1. \A j \in 1 .. i - 1 : s[j] \in S
    OBVIOUS
  <2>2. QED BY <2>1, SubSeqProperties
<1>2. /\ q \in Seq(S) /\ Len(q) = Len(s) - i + 1
      /\ \A j \in 1 .. Len(s) - i + 1 : q[j] = s[i + j - 1]
  <2>1. \A j \in i .. Len(s) : s[j] \in S
    OBVIOUS
  <2>2. QED BY <2>1, SubSeqProperties
<1> HIDE DEF p, q
<1>3. /\ r \in Seq(S) /\ Len(r) = i
      /\ \A j \in 1 .. i : r[j] = IF j < i THEN p[j] ELSE t
  BY <1>1, ConcatProperties
<1> HIDE DEF r
<1>0. Len(s) \in Nat /\ i \in Int
  OBVIOUS
<1>4. /\ r \o q \in Seq(S) /\ Len(r \o q) = Len(s) + 1
      /\ \A j \in 1 .. Len(s) + 1 :
           (r \o q)[j] = IF j <= i THEN r[j] ELSE q[j - i]
  <2>1. /\ r \o q \in Seq(S) /\ Len(r \o q) = Len(r) + Len(q)
        /\ \A j \in 1 .. Len(r) + Len(q) :
             (r \o q)[j] = IF j <= Len(r) THEN r[j] ELSE q[j - Len(r)]
    <3>1. r \in Seq(S) /\ q \in Seq(S)
      BY <1>2, <1>3
    <3>2. QED BY <3>1, ConcatProperties
  <2>2. Len(r) = i /\ Len(r) + Len(q) = Len(s) + 1
    BY <1>0, <1>2, <1>3
  <2>3. QED BY <2>1, <2>2
<1>5. \A j \in 1 .. Len(s) + 1 :
        (r \o q)[j] = IF j < i THEN s[j] ELSE IF j = i THEN t ELSE s[j - 1]
  <2> SUFFICES ASSUME NEW j \in 1 .. Len(s) + 1
               PROVE  (r \o q)[j] =
                        IF j < i THEN s[j] ELSE IF j = i THEN t ELSE s[j - 1]
    OBVIOUS
  <2>0. j \in Int
    BY <1>0
  <2>1. CASE j <= i
    BY <2>1, <1>1, <1>3, <1>4
  <2>2. CASE ~ (j <= i)
    <3>1. (r \o q)[j] = q[j - i]
      BY <2>2, <1>4
    <3>2. q[j - i] = s[i + (j - i) - 1]
      BY <2>2, <1>2
    <3>3. i + (j - i) - 1 = j - 1
      BY <1>0, <2>0
    <3>4. ~ (j < i) /\ j # i
      BY <1>0, <2>0, <2>2
    <3>5. QED BY <3>1, <3>2, <3>3, <3>4
  <2>3. QED BY <2>1, <2>2
<1>6. QED BY <1>4, <1>5 DEF InsertAt, p, q, r

\* w is s with t at position i.
InsertedAt(w, S, s, i, t) ==
  /\ w \in Seq(S) /\ Len(w) = Len(s) + 1
  /\ \A j \in 1 .. Len(s) + 1 :
       w[j] = IF j < i THEN s[j] ELSE IF j = i THEN t ELSE s[j - 1]

LEMMA InsertAtInserts ==
  ASSUME NEW S, NEW s \in Seq(S), NEW t \in S, NEW i \in 1 .. Len(s) + 1
  PROVE  InsertedAt(InsertAt(s, i, t), S, s, i, t)
<1>1. /\ InsertAt(s, i, t) \in Seq(S)
      /\ Len(InsertAt(s, i, t)) = Len(s) + 1
      /\ \A j \in 1 .. Len(s) + 1 :
           InsertAt(s, i, t)[j] = IF j < i THEN s[j] ELSE IF j = i THEN t ELSE s[j - 1]
  BY InsertAtProperties
<1>2. QED BY <1>1 DEF InsertedAt

LEMMA InsertNew ==
  ASSUME NEW S, NEW s \in Seq(S), IsInjective(s), NEW t \in S, t \notin ToSet(s),
         NEW i \in 1 .. Len(s) + 1
  PROVE  /\ InsertAt(s, i, t) \in Seq(S)
         /\ IsInjective(InsertAt(s, i, t))
         /\ ToSet(InsertAt(s, i, t)) = ToSet(s) \cup {t}
<1> DEFINE w == InsertAt(s, i, t)
<1>1. /\ w \in Seq(S) /\ Len(w) = Len(s) + 1
      /\ \A j \in 1 .. Len(s) + 1 :
           w[j] = IF j < i THEN s[j] ELSE IF j = i THEN t ELSE s[j - 1]
  BY InsertAtProperties
<1> HIDE DEF w
<1>2. ToSet(w) \subseteq ToSet(s) \cup {t}
  BY <1>1 DEF ToSet
<1>3. t \in ToSet(w)
  BY <1>1 DEF ToSet
<1>4. \A j \in 1 .. Len(s) : s[j] \in ToSet(w)
  <2> TAKE j \in 1 .. Len(s)
  <2>1. CASE j < i
    <3>0. Len(s) \in Nat
      OBVIOUS
    <3>1. w[j] = s[j] /\ j \in 1 .. Len(w)
      BY <2>1, <1>1, <3>0
    <3>2. QED BY <3>1, <1>1 DEF ToSet
  <2>2. CASE j >= i
    <3>1. w[j + 1] = s[j]
      BY <2>2, <1>1
    <3>2. j + 1 \in 1 .. Len(w)
      BY <1>1
    <3>3. w \in Seq(S)
      BY <1>1
    <3>4. ToSet(w) = {w[l] : l \in 1 .. Len(w)}
      BY <3>3, MembersOf
    <3>5. QED BY <3>1, <3>2, <3>4
  <2>3. QED BY <2>1, <2>2
<1>5. ToSet(w) = ToSet(s) \cup {t}
  BY <1>2, <1>3, <1>4, MembersOf
<1>6. IsInjective(w)
  <2>1. \A j, l \in 1 .. Len(s) : s[j] = s[l] => j = l
    BY DEF IsInjective
  <2>2. Len(s) \in Nat /\ \A j \in 1 .. Len(s) : s[j] # t
    BY MembersOf
  <2>3. \A j, l \in 1 .. Len(s) + 1 : w[j] = w[l] => j = l
    <3> SUFFICES ASSUME NEW j \in 1 .. Len(s) + 1, NEW l \in 1 .. Len(s) + 1,
                        j < l
                 PROVE  w[j] # w[l]
      BY <2>2
    <3>1. j \in Int /\ l \in Int /\ i \in 1 .. Len(s) + 1
      BY <2>2
    <3>2. CASE l < i
      BY <1>1, <2>1, <2>2, <3>1, <3>2, SMTT(60)
    <3>3. CASE l = i
      BY <1>1, <2>2, <3>1, <3>3
    <3>4. CASE l > i /\ j = i
      <4>1. w[j] = t /\ w[l] = s[l - 1]
        BY <1>1, <2>2, <3>1, <3>4
      <4>2. l - 1 \in 1 .. Len(s)
        BY <2>2, <3>1, <3>4
      <4>3. QED BY <2>2, <4>1, <4>2
    <3>5. CASE l > i /\ j < i
      <4>1. w[j] = s[j] /\ w[l] = s[l - 1]
        BY <1>1, <2>2, <3>1, <3>5
      <4>2. QED BY <2>1, <2>2, <3>1, <3>5, <4>1
    <3>6. CASE j > i
      <4>1. w[j] = s[j - 1] /\ w[l] = s[l - 1]
        BY <1>1, <2>2, <3>1, <3>6
      <4>2. QED BY <2>1, <2>2, <3>1, <3>6, <4>1
    <3>7. QED BY <2>2, <3>1, <3>2, <3>3, <3>4, <3>5, <3>6
  <2>4. QED BY <1>1, <2>3 DEF IsInjective
<1>7. QED BY <1>1, <1>5, <1>6 DEF w

\* Head and tail of a list without repetition.
LEMMA HeadOfList ==
  ASSUME NEW S, NEW s \in Seq(S), IsInjective(s), s # << >>
  PROVE  Head(s) \in ToSet(s) /\ Head(s) \in S
BY DEF ToSet

\* The first node unlinked: what is left is the tail of the list.
LEMMA RemoveHead ==
  ASSUME NEW S, NEW s \in Seq(S), s # << >>
  PROVE  RemoveFirst(s, Head(s)) = Tail(s)
<1> DEFINE I == {i \in 1 .. Len(s) : s[i] = Head(s)}
<1>1. Len(s) \in Nat /\ Len(s) >= 1 /\ Head(s) = s[1]
  OBVIOUS
<1>2. 1 \in I /\ I \in SUBSET Nat
  BY <1>1
<1>3. Min(I) = 1
  <2>1. Min(I) \in I /\ Min(I) <= 1
    BY <1>2, MinProperties
  <2>2. \A i \in I : i \in Int /\ i >= 1
    BY <1>1
  <2> HIDE DEF I
  <2>3. QED BY <2>1, <2>2
<1>4. RemoveFirst(s, Head(s)) = RemoveAt(s, 1)
  <2>1. \E i \in 1 .. Len(s) : s[i] = Head(s)
    BY <1>2
  <2>2. Min(I) = Min({i \in 1 .. Len(s) : s[i] = Head(s)})
    OBVIOUS
  <2> HIDE DEF I
  <2>3. QED BY <1>3, <2>1, <2>2 DEF RemoveFirst, SelectInSeq
<1>5. /\ RemoveAt(s, 1) \in Seq(S) /\ Len(RemoveAt(s, 1)) = Len(s) - 1
      /\ \A j \in 1 .. Len(s) - 1 : RemoveAt(s, 1)[j] = s[j + 1]
  <2>1. 1 \in 1 .. Len(s) /\ \A j \in 1 .. Len(s) - 1 : ~ (j < 1)
    BY <1>1
  <2>2. QED BY <2>1, RemoveAtProperties
<1> DEFINE u == RemoveAt(s, 1)
<1> HIDE DEF u
<1>6. /\ Tail(s) \in Seq(S) /\ Len(Tail(s)) = Len(s) - 1
      /\ \A j \in 1 .. Len(s) - 1 : Tail(s)[j] = s[j + 1]
  BY <1>1
<1>7. u = Tail(s)
  BY <1>5, <1>6, SeqEqual DEF u
<1>8. QED BY <1>4, <1>7 DEF u

\* A node linked last is inserted behind the last one.
LEMMA AppendIsInsert ==
  ASSUME NEW S, NEW s \in Seq(S), NEW t \in S
  PROVE  Append(s, t) = InsertAt(s, Len(s) + 1, t)
<1> DEFINE w == InsertAt(s, Len(s) + 1, t)
           a == Append(s, t)
<1>1. Len(s) \in Nat /\ Len(s) + 1 \in 1 .. Len(s) + 1
  OBVIOUS
<1>2. /\ w \in Seq(S) /\ Len(w) = Len(s) + 1
      /\ \A j \in 1 .. Len(s) + 1 :
           w[j] = IF j < Len(s) + 1 THEN s[j] ELSE IF j = Len(s) + 1 THEN t ELSE s[j - 1]
  BY <1>1, InsertAtProperties
<1>3. a \in Seq(S) /\ Len(a) = Len(s) + 1
      /\ \A j \in 1 .. Len(s) + 1 : a[j] = IF j <= Len(s) THEN s[j] ELSE t
  BY AppendProperties
<1> HIDE DEF w, a
<1>4. \A j \in 1 .. Len(a) : a[j] = w[j]
  BY <1>1, <1>2, <1>3
<1>5. a = w
  BY <1>2, <1>3, <1>4, SeqEqual
<1>6. QED BY <1>5 DEF a, w

\* Unlinking keeps the order of the nodes that stay.
LEMMA RemoveFirstOrder ==
  ASSUME NEW S, NEW s \in Seq(S), NEW t,
         NEW i \in DOMAIN RemoveFirst(s, t), NEW j \in DOMAIN RemoveFirst(s, t), i < j
  PROVE  \E m, n \in DOMAIN s :
           /\ m < n
           /\ RemoveFirst(s, t)[i] = s[m] /\ RemoveFirst(s, t)[j] = s[n]
<1>1. CASE \A m \in 1 .. Len(s) : s[m] # t
  <2>1. RemoveFirst(s, t) = s
    BY <1>1 DEF RemoveFirst
  <2>2. QED BY <2>1
<1>2. CASE \E m \in 1 .. Len(s) : s[m] = t
  <2> DEFINE I == {m \in 1 .. Len(s) : s[m] = t}
             p == Min(I)
             r == RemoveAt(s, p)
  <2>1. p \in 1 .. Len(s)
    BY <1>2, MinProperties
  <2>2. RemoveFirst(s, t) = r
    BY <1>2 DEF RemoveFirst, SelectInSeq
  <2> HIDE DEF p
  <2>3. /\ r \in Seq(S) /\ Len(r) = Len(s) - 1
        /\ \A l \in 1 .. Len(s) - 1 : r[l] = IF l < p THEN s[l] ELSE s[l + 1]
    BY <2>1, RemoveAtProperties
  <2> HIDE DEF r
  <2>4. i \in 1 .. Len(s) - 1 /\ j \in 1 .. Len(s) - 1 /\ Len(s) \in Nat
    BY <2>2, <2>3
  <2>5. DOMAIN s = 1 .. Len(s)
    OBVIOUS
  <2> DEFINE m == IF i < p THEN i ELSE i + 1
             n == IF j < p THEN j ELSE j + 1
  <2>6. m \in 1 .. Len(s) /\ n \in 1 .. Len(s) /\ m < n
    BY <2>1, <2>4
  <2>7. r[i] = s[m] /\ r[j] = s[n]
    BY <2>3, <2>4
  <2>8. QED BY <2>2, <2>5, <2>6, <2>7
<1>3. QED BY <1>1, <1>2
-----------------------------------------------------------------------------
\* The list s is in the order of the numbers f gives its members.
Sorted(s, f) == \A i, j \in DOMAIN s : i < j => f[s[i]] <= f[s[j]]

\* The positions of the members with a number above a, the first of a set of
\* positions, and what it means that position n parts the list s at a.
Above(s, f, a) == {i \in 1 .. Len(s) : a < f[s[i]]}

FirstOf(s, I) == IF I = {} THEN Len(s) + 1 ELSE Min(I)

PartsAt(n, s, f, a) ==
  /\ n \in 1 .. Len(s) + 1
  /\ \A j \in 1 .. Len(s) : j < n => f[s[j]] <= a
  /\ \A j \in 1 .. Len(s) : j >= n => a < f[s[j]]

LEMMA SortedRemove ==
  ASSUME NEW S, NEW s \in Seq(S), NEW f, Sorted(s, f), NEW t
  PROVE  Sorted(RemoveFirst(s, t), f)
<1> DEFINE r == RemoveFirst(s, t)
<1> SUFFICES ASSUME NEW i \in DOMAIN r, NEW j \in DOMAIN r, i < j
             PROVE  f[r[i]] <= f[r[j]]
  BY DEF Sorted
<1>1. \E m, n \in DOMAIN s : m < n /\ r[i] = s[m] /\ r[j] = s[n]
  BY RemoveFirstOrder
<1>2. QED BY <1>1 DEF Sorted

\* Where the first member with a greater number parts a list in order.
LEMMA SortedSplit ==
  ASSUME NEW S, NEW s \in Seq(S), NEW f \in [S -> Int], Sorted(s, f), NEW a \in Int,
         NEW n \in 1 .. Len(s), a < f[s[n]],
         \A j \in 1 .. Len(s) : a < f[s[j]] => n <= j
  PROVE  /\ \A j \in 1 .. Len(s) : j < n => f[s[j]] <= a
         /\ \A j \in 1 .. Len(s) : j >= n => a < f[s[j]]
<1>1. Len(s) \in Nat /\ DOMAIN s = 1 .. Len(s)
  OBVIOUS
<1>2. \A j \in 1 .. Len(s) : f[s[j]] \in Int
  OBVIOUS
<1>3. ASSUME NEW j \in 1 .. Len(s), j < n PROVE f[s[j]] <= a
  <2>1. ~ (a < f[s[j]])
    BY <1>1, <1>3
  <2>2. QED BY <1>2, <2>1
<1>4. ASSUME NEW j \in 1 .. Len(s), j >= n PROVE a < f[s[j]]
  <2>1. CASE j = n
    BY <2>1
  <2>2. CASE n < j
    <3>1. f[s[n]] <= f[s[j]]
      BY <1>1, <2>2 DEF Sorted
    <3>2. QED BY <1>2, <3>1
  <2>3. QED BY <1>1, <1>4, <2>1, <2>2
<1>5. QED BY <1>3, <1>4

\* Before the first member with a greater number, behind all if there is none:
\* the members before are no greater, the ones behind are greater.
LEMMA SortedPlace ==
  ASSUME NEW S, NEW s \in Seq(S), NEW f \in [S -> Int], Sorted(s, f), NEW a \in Int
  PROVE  PartsAt(FirstOf(s, Above(s, f, a)), s, f, a)
<1> DEFINE I == Above(s, f, a)
           n == FirstOf(s, I)
<1>0. Len(s) \in Nat
  OBVIOUS
<1>1. \A j \in 1 .. Len(s) : f[s[j]] \in Int /\ (j \in I <=> a < f[s[j]])
  BY DEF Above
<1>n. I \subseteq 1 .. Len(s) /\ n = IF I = {} THEN Len(s) + 1 ELSE Min(I)
  BY DEF FirstOf, Above
<1> HIDE DEF I, n
<1>2. CASE I = {}
  <2>1. \A j \in 1 .. Len(s) : f[s[j]] <= a
    BY <1>1, <1>2
  <2>2. n = Len(s) + 1
    BY <1>2, <1>n
  <2>3. n \in 1 .. Len(s) + 1
    BY <1>0, <2>2
  <2>4. PartsAt(n, s, f, a)
    BY <1>0, <2>1, <2>2, <2>3 DEF PartsAt
  <2>5. QED BY <2>4 DEF I, n
<1>3. CASE I # {}
  <2>1. n \in I /\ \A j \in I : n <= j
    <3>1. I \in SUBSET Nat
      BY <1>0, <1>n
    <3>2. QED BY <1>3, <1>n, <3>1, MinProperties
  <2>2. n \in 1 .. Len(s) /\ a < f[s[n]] /\ n \in 1 .. Len(s) + 1
    <3>1. \A j \in I : j \in 1 .. Len(s) /\ a < f[s[j]]
      BY <1>1, <1>n
    <3>2. \A j \in 1 .. Len(s) : j \in 1 .. Len(s) + 1
      BY <1>0
    <3>3. QED BY <2>1, <3>1, <3>2, Zenon
  <2>3. \A j \in 1 .. Len(s) : a < f[s[j]] => n <= j
    BY <1>1, <2>1
  <2>4. /\ \A j \in 1 .. Len(s) : j < n => f[s[j]] <= a
        /\ \A j \in 1 .. Len(s) : j >= n => a < f[s[j]]
    BY <2>2, <2>3, SortedSplit
  <2>5. PartsAt(n, s, f, a)
    BY <2>2, <2>4 DEF PartsAt
  <2>6. QED BY <2>5 DEF I, n
<1>4. QED BY <1>2, <1>3

LEMMA SortedInsert ==
  ASSUME NEW S, NEW s \in Seq(S), NEW f \in [S -> Int], Sorted(s, f), NEW t \in S,
         NEW n, PartsAt(n, s, f, f[t])
  PROVE  Sorted(InsertAt(s, n, t), f)
<1> DEFINE w == InsertAt(s, n, t)
<1>p. /\ n \in 1 .. Len(s) + 1
      /\ \A j \in 1 .. Len(s) : j < n => f[s[j]] <= f[t]
      /\ \A j \in 1 .. Len(s) : j >= n => f[t] < f[s[j]]
  BY DEF PartsAt
<1>0. Len(s) \in Nat /\ n \in Int /\ f[t] \in Int /\ DOMAIN s = 1 .. Len(s)
  BY <1>p
<1>1. \A j \in 1 .. Len(s) : f[s[j]] \in Int
  OBVIOUS
<1>2. /\ w \in Seq(S) /\ Len(w) = Len(s) + 1
      /\ \A j \in 1 .. Len(s) + 1 :
           w[j] = IF j < n THEN s[j] ELSE IF j = n THEN t ELSE s[j - 1]
  <2>1. n \in 1 .. Len(s) + 1
    BY <1>p
  <2>2. InsertedAt(w, S, s, n, t)
    BY <2>1, InsertAtInserts
  <2>3. QED BY <2>2 DEF InsertedAt
<1> HIDE DEF w
<1> SUFFICES ASSUME NEW i \in 1 .. Len(s) + 1, NEW j \in 1 .. Len(s) + 1, i < j
             PROVE  f[w[i]] <= f[w[j]]
  BY <1>2 DEF Sorted, w
<1>3. i \in Int /\ j \in Int
  BY <1>0
<1>4. CASE j < n
  <2>1. w[i] = s[i] /\ w[j] = s[j] /\ i \in 1 .. Len(s) /\ j \in 1 .. Len(s)
    BY <1>0, <1>2, <1>3, <1>4, <1>p
  <2>2. QED BY <1>0, <2>1 DEF Sorted
<1>5. CASE j = n
  <2>1. w[i] = s[i] /\ w[j] = t /\ i \in 1 .. Len(s) /\ i < n
    BY <1>0, <1>2, <1>3, <1>5
  <2>2. QED BY <1>p, <2>1
<1>6. CASE j > n
  <2>1. w[j] = s[j - 1] /\ j - 1 \in 1 .. Len(s) /\ j - 1 >= n
    BY <1>0, <1>2, <1>3, <1>6
  <2>2. CASE i < n
    <3>1. w[i] = s[i] /\ i \in 1 .. Len(s)
      BY <1>0, <1>2, <1>3, <2>2
    <3>2. f[s[i]] <= f[t] /\ f[t] < f[s[j - 1]]
      BY <1>p, <2>1, <2>2, <3>1
    <3>3. QED BY <1>0, <1>1, <2>1, <3>1, <3>2
  <2>3. CASE i = n
    <3>1. w[i] = t /\ f[t] < f[s[j - 1]]
      BY <1>0, <1>2, <1>p, <2>1, <2>3
    <3>2. QED BY <1>0, <1>1, <2>1, <3>1
  <2>4. CASE i > n
    <3>0. ~ (i < n) /\ i # n /\ n >= 1
      BY ONLY <1>0, <1>3, <1>p, <2>4
    <3>1. w[i] = s[i - 1] /\ i - 1 \in 1 .. Len(s) /\ i - 1 < j - 1
      <4>1. w[i] = s[i - 1]
        BY ONLY i \in 1 .. Len(s) + 1, <1>2, <3>0
      <4>2. i - 1 \in 1 .. Len(s) /\ i - 1 < j - 1
        BY ONLY i \in 1 .. Len(s) + 1, i < j, <1>0, <1>3, <2>4, <3>0
      <4>3. QED BY <4>1, <4>2
    <3>2. QED BY <1>0, <2>1, <3>1 DEF Sorted
  <2>5. QED BY <1>0, <1>3, <2>2, <2>3, <2>4
<1>7. QED BY <1>0, <1>3, <1>4, <1>5, <1>6
\* The order of a list when the numbers change, and not their order.
LEMMA SortedMap ==
  ASSUME NEW S, NEW s \in Seq(S), NEW f, NEW g, Sorted(s, f),
         \A t, u \in ToSet(s) : f[t] <= f[u] => g[t] <= g[u]
  PROVE  Sorted(s, g)
<1> SUFFICES ASSUME NEW i \in DOMAIN s, NEW j \in DOMAIN s, i < j
             PROVE  g[s[i]] <= g[s[j]]
  BY DEF Sorted
<1>1. s[i] \in ToSet(s) /\ s[j] \in ToSet(s)
  BY DEF ToSet
<1>2. f[s[i]] <= f[s[j]]
  BY DEF Sorted
<1>3. QED BY <1>1, <1>2
=============================================================================
