------------------------- MODULE SheetRebuild_proofs -------------------------
(***************************************************************************)
(* What a rebuild of the worksheet preserves, for all orders, days and     *)
(* disturbances.                                                           *)
(***************************************************************************)
EXTENDS SheetRebuild, Ordinals_proofs, SequenceTheorems

-----------------------------------------------------------------------------
(* Sequences one after the other.                                          *)

\* FlattenSeq satisfies the equation it is defined by.
LEMMA FlattenEquation ==
  ASSUME NEW S, NEW seqs \in Seq(Seq(S)), Len(seqs) # 0
  PROVE  \E f : /\ FlattenSeq(seqs) = f[Len(seqs)]
                /\ f[1] = seqs[1]
                /\ \A i \in 2 .. Len(seqs) : f[i] = f[i - 1] \o seqs[i]
<1> DEFINE Body(f, n) == [i \in 1 .. n |-> IF i = 1 THEN seqs[i] ELSE f[i - 1] \o seqs[i]]
           Bad == {n \in Nat \ {0} : ~ \E f : f = Body(f, n)}
<1>1. Bad = {}
  <2> SUFFICES ASSUME Bad # {} PROVE FALSE
    OBVIOUS
  <2>1. PICK n \in Bad : \A m \in Bad : n <= m
    <3>1. Bad \in SUBSET Nat
      OBVIOUS
    <3> HIDE DEF Bad
    <3> QED BY <3>1, HasLeast
  <2>2. n = 1 \/ \E f : f = Body(f, n - 1)
    <3>1. n \in Nat \ {0}
      OBVIOUS
    <3>2. ~ (n <= n - 1) /\ (n # 1 => n - 1 \in Nat \ {0})
      BY <3>1
    <3>3. n # 1 => n - 1 \notin Bad
      BY <2>1, <3>2
    <3> QED BY <3>2, <3>3
  <2>3. CASE n = 1
    <3>1. [i \in 1 .. 1 |-> seqs[1]] = Body([i \in 1 .. 1 |-> seqs[1]], 1)
      OBVIOUS
    <3> QED BY <3>1, <2>1, <2>3
  <2>4. CASE n # 1 /\ \E f : f = Body(f, n - 1)
    <3>1. PICK f : f = Body(f, n - 1)
      BY <2>4
    <3> DEFINE g == [i \in 1 .. n |-> IF i = n THEN f[n - 1] \o seqs[n] ELSE f[i]]
    <3>2. ASSUME NEW i \in 1 .. n
          PROVE  g[i] = IF i = 1 THEN seqs[i] ELSE g[i - 1] \o seqs[i]
      <4>1. CASE i = n
        <5>1. i # 1 /\ i - 1 \in 1 .. n /\ i - 1 # n
          BY <4>1, <2>4
        <5>2. g[i] = f[n - 1] \o seqs[n] /\ g[i - 1] = f[i - 1]
          BY <4>1, <5>1
        <5> QED BY <4>1, <5>1, <5>2
      <4>2. CASE i # n
        <5>1. i \in 1 .. n - 1 /\ g[i] = f[i]
          BY <4>2
        <5>2. f[i] = IF i = 1 THEN seqs[i] ELSE f[i - 1] \o seqs[i]
          BY <5>1, <3>1
        <5>3. i # 1 => g[i - 1] = f[i - 1]
          BY <5>1
        <5> QED BY <5>1, <5>2, <5>3
      <4> QED BY <4>1, <4>2
    <3>3. g = Body(g, n)
      BY <3>2
    <3> QED BY <3>3, <2>1
  <2> QED BY <2>2, <2>3, <2>4
<1>2. Len(seqs) \in Nat \ {0}
  OBVIOUS
<1> DEFINE F == CHOOSE f : f = Body(f, Len(seqs))
<1>3. F = Body(F, Len(seqs))
  BY <1>1, <1>2
<1>4. FlattenSeq(seqs) = F[Len(seqs)]
  BY DEF FlattenSeq
<1>5. F[1] = seqs[1] /\ \A i \in 2 .. Len(seqs) : F[i] = F[i - 1] \o seqs[i]
  <2>1. \A i \in 1 .. Len(seqs) : F[i] = IF i = 1 THEN seqs[i] ELSE F[i - 1] \o seqs[i]
    <3> HIDE DEF F
    <3> QED BY <1>3
  <2> HIDE DEF F
  <2>2. 1 \in 1 .. Len(seqs) /\ \A i \in 2 .. Len(seqs) : i \in 1 .. Len(seqs) /\ i # 1
    BY <1>2
  <2> QED BY <2>1, <2>2
<1> QED BY <1>4, <1>5

\* ... and returns the elements of the sequences it is given.
LEMMA FlattenType ==
  ASSUME NEW S, NEW seqs \in Seq(Seq(S))
  PROVE  FlattenSeq(seqs) \in Seq(S)
<1>1. CASE Len(seqs) = 0
  BY <1>1 DEF FlattenSeq
<1>2. CASE Len(seqs) # 0
  <2>1. PICK f : /\ FlattenSeq(seqs) = f[Len(seqs)]
                 /\ f[1] = seqs[1]
                 /\ \A i \in 2 .. Len(seqs) : f[i] = f[i - 1] \o seqs[i]
    BY <1>2, FlattenEquation
  <2> DEFINE Bad == {n \in 1 .. Len(seqs) : f[n] \notin Seq(S)}
  <2>2. Bad = {}
    <3> SUFFICES ASSUME Bad # {} PROVE FALSE
      OBVIOUS
    <3>1. PICK n \in Bad : \A m \in Bad : n <= m
      <4>1. Bad \in SUBSET Nat
        OBVIOUS
      <4> HIDE DEF Bad
      <4> QED BY <4>1, HasLeast
    <3>2. n \in 1 .. Len(seqs) /\ Len(seqs) \in Nat /\ seqs[n] \in Seq(S)
      OBVIOUS
    <3>3. CASE n = 1
      BY <2>1, <3>2, <3>3
    <3>4. CASE n # 1
      <4>1. n - 1 \in 1 .. Len(seqs) /\ n \in 2 .. Len(seqs) /\ ~ (n <= n - 1)
        BY <3>2, <3>4
      <4>2. f[n - 1] \in Seq(S)
        BY <3>1, <4>1
      <4>3. f[n] = f[n - 1] \o seqs[n]
        BY <2>1, <4>1
      <4>4. f[n] \in Seq(S)
        BY <3>2, <4>2, <4>3, ConcatProperties
      <4> QED BY <3>2, <4>4
    <3> QED BY <3>3, <3>4
  <2>3. Len(seqs) \in 1 .. Len(seqs)
    BY <1>2
  <2> QED BY <2>1, <2>2, <2>3
<1> QED BY <1>1, <1>2

\* g stands in s as one block, and everything beside it is in R.
Holds(s, g, R) ==
  \E a \in Nat : /\ a + Len(g) <= Len(s)
                 /\ \A i \in 1 .. Len(g) : s[a + i] = g[i]
                 /\ \A j \in 1 .. Len(s) : j <= a \/ j > a + Len(g) => s[j] \in R

LEMMA HoldsItself ==
  ASSUME NEW S, NEW g \in Seq(S), NEW R
  PROVE  Holds(g, g, R)
<1>1. Len(g) \in Nat
  BY LenProperties
<1>2. /\ 0 + Len(g) <= Len(g) /\ \A i \in 1 .. Len(g) : g[0 + i] = g[i]
      /\ \A j \in 1 .. Len(g) : ~ (j <= 0 \/ j > 0 + Len(g))
  BY <1>1
<1> QED BY <1>2 DEF Holds

LEMMA HoldsBefore ==
  ASSUME NEW S, NEW s \in Seq(S), NEW g \in Seq(S), NEW R, NEW t \in Seq(S),
         t \in Seq(R), Holds(s, g, R)
  PROVE  Holds(s \o t, g, R)
<1>1. PICK a \in Nat :
        /\ a + Len(g) <= Len(s)
        /\ \A i \in 1 .. Len(g) : s[a + i] = g[i]
        /\ \A j \in 1 .. Len(s) : j <= a \/ j > a + Len(g) => s[j] \in R
  BY DEF Holds
<1>2. /\ Len(s \o t) = Len(s) + Len(t) /\ Len(s) \in Nat /\ Len(t) \in Nat /\ Len(g) \in Nat
      /\ \A j \in 1 .. Len(s) : (s \o t)[j] = s[j]
      /\ \A j \in 1 .. Len(s) + Len(t) : j > Len(s) => (s \o t)[j] = t[j - Len(s)]
  BY ConcatProperties
<1>3. a + Len(g) <= Len(s \o t)
  BY <1>1, <1>2
<1>4. ASSUME NEW i \in 1 .. Len(g) PROVE (s \o t)[a + i] = g[i]
  <2>1. a + i \in 1 .. Len(s)
    BY <1>1, <1>2
  <2> QED BY <1>1, <1>2, <2>1
<1>5. ASSUME NEW j \in 1 .. Len(s \o t), j <= a \/ j > a + Len(g)
      PROVE  (s \o t)[j] \in R
  <2>1. CASE j <= Len(s)
    BY <1>1, <1>2, <1>5, <2>1
  <2>2. CASE j > Len(s)
    <3>1. j - Len(s) \in 1 .. Len(t)
      BY <1>2, <2>2
    <3> QED BY <1>2, <2>2, <3>1
  <2> QED BY <1>2, <2>1, <2>2
<1> QED BY <1>3, <1>4, <1>5 DEF Holds

LEMMA HoldsBehind ==
  ASSUME NEW S, NEW s \in Seq(S), NEW g \in Seq(S), NEW R, NEW t \in Seq(S),
         t \in Seq(R), Holds(s, g, R)
  PROVE  Holds(t \o s, g, R)
<1>1. PICK a \in Nat :
        /\ a + Len(g) <= Len(s)
        /\ \A i \in 1 .. Len(g) : s[a + i] = g[i]
        /\ \A j \in 1 .. Len(s) : j <= a \/ j > a + Len(g) => s[j] \in R
  BY DEF Holds
<1>2. /\ Len(t \o s) = Len(t) + Len(s) /\ Len(s) \in Nat /\ Len(t) \in Nat /\ Len(g) \in Nat
      /\ \A j \in 1 .. Len(t) : (t \o s)[j] = t[j]
      /\ \A j \in 1 .. Len(t) + Len(s) : j > Len(t) => (t \o s)[j] = s[j - Len(t)]
  BY ConcatProperties
<1> DEFINE b == Len(t) + a
<1>3. b \in Nat /\ b + Len(g) <= Len(t \o s)
  BY <1>1, <1>2
<1>4. ASSUME NEW i \in 1 .. Len(g) PROVE (t \o s)[b + i] = g[i]
  <2>1. b + i \in 1 .. Len(t) + Len(s) /\ b + i > Len(t) /\ b + i - Len(t) = a + i
    BY <1>1, <1>2
  <2> QED BY <1>1, <1>2, <2>1
<1>5. ASSUME NEW j \in 1 .. Len(t \o s), j <= b \/ j > b + Len(g)
      PROVE  (t \o s)[j] \in R
  <2>1. CASE j <= Len(t)
    BY <1>2, <2>1
  <2>2. CASE j > Len(t)
    <3>1. /\ j - Len(t) \in 1 .. Len(s) 
          /\ j - Len(t) <= a \/ j - Len(t) > a + Len(g)
      BY <1>2, <1>5, <2>2
    <3> QED BY <1>1, <1>2, <2>2, <3>1
  <2> QED BY <1>2, <2>1, <2>2
<1> HIDE DEF b
<1> QED BY <1>3, <1>4, <1>5 DEF Holds

\* A block of one of the sequences is a block of all of them together.
LEMMA FlattenHolds ==
  ASSUME NEW S, NEW seqs \in Seq(Seq(S)), NEW g \in Seq(S), NEW R,
         NEW m \in 1 .. Len(seqs), Holds(seqs[m], g, R),
         \A i \in 1 .. Len(seqs) : i # m => seqs[i] \in Seq(R)
  PROVE  Holds(FlattenSeq(seqs), g, R)
<1>0. Len(seqs) \in Nat /\ Len(seqs) # 0 /\ m \in Nat
  OBVIOUS
<1>1. PICK f : /\ FlattenSeq(seqs) = f[Len(seqs)]
               /\ f[1] = seqs[1]
               /\ \A i \in 2 .. Len(seqs) : f[i] = f[i - 1] \o seqs[i]
  BY <1>0, FlattenEquation
<1> DEFINE Good(n) == /\ f[n] \in Seq(S)
                      /\ IF n < m THEN f[n] \in Seq(R) ELSE Holds(f[n], g, R)
           Bad == {n \in 1 .. Len(seqs) : ~ Good(n)}
<1>2. Bad = {}
  <2> SUFFICES ASSUME Bad # {} PROVE FALSE
    OBVIOUS
  <2>1. PICK n \in Bad : \A i \in Bad : n <= i
    <3>1. Bad \in SUBSET Nat
      OBVIOUS
    <3> HIDE DEF Bad
    <3> QED BY <3>1, HasLeast
  <2>2. n \in 1 .. Len(seqs) /\ n \in Nat /\ seqs[n] \in Seq(S) /\ ~ Good(n)
    OBVIOUS
  <2>3. CASE n = 1
    BY <1>0, <1>1, <2>2, <2>3
  <2>4. CASE n # 1
    <3>1. n - 1 \in 1 .. Len(seqs) /\ n \in 2 .. Len(seqs) /\ ~ (n <= n - 1)
      BY <1>0, <2>2, <2>4
    <3>2. Good(n - 1) /\ f[n] = f[n - 1] \o seqs[n]
      BY <1>1, <2>1, <3>1
    <3>3. f[n] \in Seq(S)
      BY <2>2, <3>2, ConcatProperties
    <3>4. CASE n < m
      <4>1. n - 1 < m
        BY <1>0, <2>2, <3>4
      <4>2. f[n - 1] \in Seq(R) /\ seqs[n] \in Seq(R)
        BY <1>0, <2>2, <3>2, <3>4, <4>1
      <4> QED BY <2>2, <3>2, <3>3, <3>4, <4>2, ConcatProperties
    <3>5. CASE n = m
      <4>1. n - 1 < m
        BY <1>0, <2>2, <3>5
      <4>2. f[n - 1] \in Seq(R) /\ Holds(seqs[n], g, R)
        BY <3>2, <3>5, <4>1
      <4>3. Holds(f[n - 1] \o seqs[n], g, R)
        BY <2>2, <3>2, <4>2, HoldsBehind
      <4> QED BY <1>0, <2>2, <3>2, <3>3, <3>5, <4>3
    <3>6. CASE n > m
      <4>1. ~ (n - 1 < m) /\ ~ (n < m) /\ n # m
        BY <1>0, <2>2, <3>6
      <4>2. Holds(f[n - 1], g, R) /\ seqs[n] \in Seq(R)
        BY <2>2, <3>2, <4>1
      <4>3. Holds(f[n - 1] \o seqs[n], g, R)
        BY <2>2, <3>2, <4>2, HoldsBefore
      <4> QED BY <2>2, <3>2, <3>3, <4>1, <4>3
    <3> QED BY <1>0, <2>2, <3>4, <3>5, <3>6
  <2> QED BY <2>3, <2>4
<1>3. Len(seqs) \in 1 .. Len(seqs) /\ ~ (Len(seqs) < m)
  BY <1>0
<1> QED BY <1>1, <1>2, <1>3

-----------------------------------------------------------------------------
(* Rows and groups.                                                        *)

Upto(d)      == {r \in RowType : r.day <= d}
NotOf(k)     == {r \in RowType : r.key # k}
RowsOf(k, d) == {r \in RowType : IsOrderRow(r) /\ r.key = k /\ r.day <= d}

LEMMA PlacesAreFinite ==
  ASSUME NEW S, NEW s \in Seq(S), NEW k
  PROVE  IsFiniteSet(Places(s, k)) /\ Places(s, k) \subseteq Nat
<1>1. Places(s, k) \in SUBSET (1 .. Len(s))
  BY DEF Places
<1>2. IsFiniteSet(1 .. Len(s))
  BY FS_Interval
<1>3. IsFiniteSet(Places(s, k))
  BY <1>1, <1>2, FS_Subset
<1> QED BY <1>1, <1>3

\* The group of a key has the rows of the key, each one and no other.
LEMMA GroupElements ==
  ASSUME NEW S, NEW s \in Seq(S), NEW k
  PROVE  /\ Group(s, k) \in Seq({r \in S : IsOrderRow(r) /\ r.key = k})
         /\ Group(s, k) = <<>> <=> Places(s, k) = {}
         /\ Len(Group(s, k)) = Cardinality(Places(s, k))
         /\ \A n \in 1 .. Len(Group(s, k)) :
               \E i \in Places(s, k) : Group(s, k)[n] = s[i]
         /\ \A i \in Places(s, k) :
               /\ CountUpTo(Places(s, k), i) \in 1 .. Len(Group(s, k))
               /\ Group(s, k)[CountUpTo(Places(s, k), i)] = s[i]
<1> DEFINE P == Places(s, k)
           g == Group(s, k)
           R == {r \in S : IsOrderRow(r) /\ r.key = k}
<1>1. IsFiniteSet(P) /\ P \subseteq Nat
  BY PlacesAreFinite
<1>2. /\ Cardinality(P) \in Nat /\ DOMAIN g = 1 .. Cardinality(P)
      /\ \A n \in 1 .. Cardinality(P) : \E i \in P : g[n] = s[i]
      /\ \A i \in P : CountUpTo(P, i) \in 1 .. Cardinality(P) /\ g[CountUpTo(P, i)] = s[i]
  BY <1>1, SelectedElements DEF Group
<1>3. g = [n \in 1 .. Cardinality(P) |-> g[n]]
  BY DEF Group, Selected
<1>4. \A i \in P : s[i] \in R
  BY DEF Places
<1>5. \A n \in 1 .. Cardinality(P) : g[n] \in R
  BY <1>2, <1>4
<1>6. g \in Seq(R) /\ Len(g) = Cardinality(P)
  <2> HIDE DEF P, g, R
  <2>1. [n \in 1 .. Cardinality(P) |-> g[n]] \in Seq(R)
    BY <1>2, <1>5
  <2>2. g \in Seq(R)
    BY <1>3, <2>1
  <2> QED BY <2>2, <1>2, LenProperties
<1>7. g = <<>> <=> P = {}
  <2> HIDE DEF P, g, R
  <2>1. Cardinality(P) = 0 <=> P = {}
    BY <1>1, FS_EmptySet
  <2> QED BY <1>6, <2>1, EmptySeq
<1> QED BY <1>2, <1>6, <1>7

\* The rows of a key are the block g.
IsBlock(s, k, g) ==
  \E a \in Nat : /\ a + Len(g) <= Len(s) /\ Places(s, k) = a + 1 .. a + Len(g)
                 /\ \A i \in 1 .. Len(g) : s[a + i] = g[i]

\* A key whose rows are one block has that block as its group.
LEMMA GroupOfBlock ==
  ASSUME NEW s \in Seq(RowType), NEW k \in Keys, NEW d, NEW g \in Seq(RowsOf(k, d)),
         Holds(s, g, NotOf(k))
  PROVE  Group(s, k) = g /\ IsBlock(s, k, g)
<1>1. PICK a \in Nat :
        /\ a + Len(g) <= Len(s)
        /\ \A i \in 1 .. Len(g) : s[a + i] = g[i]
        /\ \A j \in 1 .. Len(s) : j <= a \/ j > a + Len(g) => s[j] \in NotOf(k)
  BY DEF Holds
<1>2. Len(s) \in Nat /\ Len(g) \in Nat /\ DOMAIN s = 1 .. Len(s)
  BY LenProperties
<1>3. Places(s, k) = a + 1 .. a + Len(g)
  <2>1. ASSUME NEW j \in 1 .. Len(s), j \in a + 1 .. a + Len(g) PROVE j \in Places(s, k)
    <3>1. j - a \in 1 .. Len(g) /\ a + (j - a) = j
      BY <1>2, <2>1
    <3>2. s[j] = g[j - a] /\ g[j - a] \in RowsOf(k, d)
      BY <1>1, <3>1
    <3> QED BY <1>2, <3>2 DEF Places, RowsOf
  <2>2. ASSUME NEW j \in 1 .. Len(s), j \notin a + 1 .. a + Len(g) PROVE j \notin Places(s, k)
    <3>1. j <= a \/ j > a + Len(g)
      BY <1>2, <2>2
    <3>2. s[j] \in NotOf(k)
      BY <1>1, <3>1
    <3> QED BY <3>2 DEF Places, NotOf
  <2>3. a + 1 .. a + Len(g) \subseteq 1 .. Len(s) /\ Places(s, k) \subseteq 1 .. Len(s)
    BY <1>1, <1>2 DEF Places
  <2> QED BY <2>1, <2>2, <2>3
<1>4. /\ Cardinality(a + 1 .. a + Len(g)) = Len(g)
      /\ \A i \in 1 .. Len(g) : Nth(a + 1 .. a + Len(g), i) = a + i
  BY <1>2, NthOfBlock
<1>5. Group(s, k) = [i \in 1 .. Len(g) |-> g[i]]
  BY <1>1, <1>3, <1>4 DEF Group, Selected
<1>6. Group(s, k) = g
  BY <1>5, <1>2
<1> QED BY <1>1, <1>3, <1>6 DEF IsBlock

-----------------------------------------------------------------------------
(* Groups before they are laid out.                                        *)

\* What collect_order_groups hands to the layout of day d.
GroupsOf(groups, d) ==
  /\ DOMAIN groups \subseteq Keys
  /\ \A k \in DOMAIN groups : groups[k] \in Seq(RowsOf(k, d)) /\ groups[k] # <<>>

LEMMA ItemsProperties ==
  ASSUME NEW k \in Keys
  PROVE  /\ Len(Items[k]) \in Nat /\ Len(Items[k]) # 0 /\ DOMAIN Items[k] = 1 .. Len(Items[k])
         /\ \A i \in 1 .. Len(Items[k]) :
              Items[k][i] \in Range(Items[k]) /\ Items[k][i] \in Products
<1>1. Items[k] \in Seq(Range(Items[k])) /\ Items[k] # <<>>
  BY RebuildAssumption
<1>2. Len(Items[k]) \in Nat /\ Len(Items[k]) # 0 /\ DOMAIN Items[k] = 1 .. Len(Items[k])
  BY <1>1, EmptySeq, LenProperties
<1>3. \A i \in 1 .. Len(Items[k]) : Items[k][i] \in Range(Items[k])
  BY <1>1, <1>2, ElementOfSeq
<1> QED BY <1>2, <1>3 DEF Products

LEMMA NewGroupType ==
  ASSUME NEW k \in Keys, NEW d \in Days
  PROVE  /\ NewGroup(k, d) \in Seq(RowsOf(k, d)) /\ Len(NewGroup(k, d)) = Len(Items[k])
         /\ NewGroup(k, d) # <<>>
         /\ \A i \in 1 .. Len(Items[k]) :
              NewGroup(k, d)[i].product = Items[k][i] /\ NewGroup(k, d)[i].head = "own"
<1> DEFINE row(i) == [kind |-> "order", day |-> d, key |-> k, product |-> Items[k][i],
                      code |-> Items[k][i], head |-> "own", refused |-> FALSE,
                      filled |-> FALSE]
<1>1. /\ Len(Items[k]) \in Nat /\ Len(Items[k]) # 0 /\ DOMAIN Items[k] = 1 .. Len(Items[k])
      /\ \A i \in 1 .. Len(Items[k]) :
           Items[k][i] \in Range(Items[k]) /\ Items[k][i] \in Products
  BY ItemsProperties
<1>2. NewGroup(k, d) = [i \in 1 .. Len(Items[k]) |-> row(i)]
  BY <1>1 DEF NewGroup
<1>3. k # NoKey /\ d <= d
  BY RebuildAssumption DEF NoKey, Days
<1>4. \A i \in 1 .. Len(Items[k]) : row(i) \in RowsOf(k, d)
  BY <1>1, <1>3 DEF RowsOf, RowType, IsOrderRow
<1>5. NewGroup(k, d) \in Seq(RowsOf(k, d)) /\ Len(NewGroup(k, d)) = Len(Items[k])
  <2> HIDE DEF row
  <2>1. [i \in 1 .. Len(Items[k]) |-> row(i)] \in Seq(RowsOf(k, d))
    BY <1>1, <1>4
  <2> QED BY <1>1, <1>2, <2>1, LenProperties
<1>6. NewGroup(k, d) # <<>>
  BY <1>1, <1>5, EmptySeq
<1>7. \A i \in 1 .. Len(Items[k]) :
              NewGroup(k, d)[i].product = Items[k][i] /\ NewGroup(k, d)[i].head = "own"
  BY <1>2
<1> QED BY <1>5, <1>6, <1>7

\* The worksheet's rows and the new orders are such groups.
LEMMA CollectType ==
  ASSUME NEW d \in Days, NEW s \in Seq(Upto(d)), NEW new \in SUBSET Keys
  PROVE  /\ GroupsOf(Collect(s, new, d), d)
         /\ DOMAIN Collect(s, new, d) = (KeysOf(s) \ ToBeRemoved(s)) \cup new
         /\ \A k \in KeysOf(s) \ ToBeRemoved(s) : Collect(s, new, d)[k] = Group(s, k)
         /\ \A k \in new : \/ Collect(s, new, d)[k] = NewGroup(k, d)
                           \/ k \in KeysOf(s) /\ Collect(s, new, d)[k] = Group(s, k)
<1> DEFINE kept == KeysOf(s) \ ToBeRemoved(s)
           groups == Collect(s, new, d)
<1>1. groups = [k \in kept \cup new |-> IF k \in kept THEN Group(s, k) ELSE NewGroup(k, d)]
  BY DEF Collect
<1>2. kept \subseteq Keys
  BY DEF KeysOf
<1>3. ASSUME NEW k \in kept PROVE Group(s, k) \in Seq(RowsOf(k, d)) /\ Group(s, k) # <<>>
  <2>1. Group(s, k) \in Seq({r \in Upto(d) : IsOrderRow(r) /\ r.key = k})
    BY GroupElements
  <2>2. {r \in Upto(d) : IsOrderRow(r) /\ r.key = k} \subseteq RowsOf(k, d)
    BY DEF RowsOf, Upto
  <2>3. Places(s, k) # {}
    BY DEF KeysOf
  <2>4. Group(s, k) # <<>>
    BY <2>3, GroupElements
  <2> QED BY <2>1, <2>2, <2>4, SeqMonotonic
<1>4. ASSUME NEW k \in new
      PROVE  NewGroup(k, d) \in Seq(RowsOf(k, d)) /\ NewGroup(k, d) # <<>>
  BY NewGroupType
<1> HIDE DEF kept, groups
<1>5. DOMAIN groups = kept \cup new
  BY <1>1
<1>6. \A k \in kept : groups[k] = Group(s, k)
  BY <1>1
<1>7. \A k \in new : \/ groups[k] = NewGroup(k, d)
                     \/ k \in kept /\ groups[k] = Group(s, k)
  BY <1>1
<1>8. GroupsOf(groups, d)
  BY <1>2, <1>3, <1>4, <1>5, <1>6, <1>7 DEF GroupsOf
<1> QED BY <1>5, <1>6, <1>7, <1>8 DEF kept, groups

LEMMA GroupProperties ==
  ASSUME NEW d \in Days, NEW k \in Keys, NEW g \in Seq(RowsOf(k, d)), g # <<>>
  PROVE  /\ Len(g) \in Nat /\ Len(g) # 0 /\ DOMAIN g = 1 .. Len(g)
         /\ \A i \in 1 .. Len(g) : g[i] \in RowsOf(k, d)
         /\ SectionOf(g) \in Days /\ SectionOf(g) <= d
<1>1. Len(g) \in Nat /\ Len(g) # 0 /\ DOMAIN g = 1 .. Len(g)
  BY EmptySeq, LenProperties
<1>2. \A i \in 1 .. Len(g) : g[i] \in RowsOf(k, d)
  BY <1>1, ElementOfSeq
<1>3. g[Len(g)] \in RowsOf(k, d)
  BY <1>1, <1>2
<1> QED BY <1>1, <1>2, <1>3 DEF SectionOf, RowsOf, RowType

\* The first row alone keeps its number; nothing else changes.
LEMMA WithHeadType ==
  ASSUME NEW d \in Days, NEW k \in Keys, NEW g \in Seq(RowsOf(k, d)), g # <<>>
  PROVE  /\ WithHead(g) \in Seq(RowsOf(k, d)) /\ Len(WithHead(g)) = Len(g)
         /\ \A i \in 1 .. Len(g) :
              /\ WithHead(g)[i].product = g[i].product /\ WithHead(g)[i].code = g[i].code
              /\ WithHead(g)[i].filled = g[i].filled
              /\ WithHead(g)[i].head = IF i = 1 THEN g[1].head ELSE "none"
<1> DEFINE row(i) == [g[i] EXCEPT !.head = IF i = 1 THEN g[1].head ELSE "none"]
<1>1. /\ Len(g) \in Nat /\ Len(g) # 0 /\ DOMAIN g = 1 .. Len(g)
      /\ \A i \in 1 .. Len(g) : g[i] \in RowsOf(k, d)
  BY GroupProperties
<1>2. WithHead(g) = [i \in 1 .. Len(g) |-> row(i)]
  BY <1>1 DEF WithHead
<1>3. ASSUME NEW i \in 1 .. Len(g)
      PROVE  /\ row(i) \in RowsOf(k, d)
             /\ row(i).product = g[i].product /\ row(i).code = g[i].code
             /\ row(i).filled = g[i].filled
             /\ row(i).head = IF i = 1 THEN g[1].head ELSE "none"
  <2>1. g[i] \in RowsOf(k, d) /\ g[1] \in RowsOf(k, d)
    BY <1>1
  <2> QED BY <2>1 DEF RowsOf, RowType, IsOrderRow
<1> HIDE DEF row
<1>4. [i \in 1 .. Len(g) |-> row(i)] \in Seq(RowsOf(k, d))
  BY <1>1, <1>3
<1>5. WithHead(g) \in Seq(RowsOf(k, d)) /\ Len(WithHead(g)) = Len(g)
  BY <1>1, <1>2, <1>4, LenProperties
<1> QED BY <1>2, <1>3, <1>5

-----------------------------------------------------------------------------
(* Sections.                                                               *)

LEMMA DayRowType ==
  ASSUME NEW e \in Days, NEW d \in Days, e <= d, NEW rate \in BOOLEAN
  PROVE  /\ DayRow(e, rate) \in Upto(d) /\ ReportRow(e) \in Upto(d)
         /\ DayRow(e, rate).key = NoKey /\ ReportRow(e).key = NoKey
BY DEF DayRow, ReportRow, Upto, RowType, IsOrderRow

\* The groups of a day, in the order of their keys.
OnDay(groups, e)   == {k \in DOMAIN groups : SectionOf(groups[k]) = e}
DayList(groups, e) == [i \in 1 .. Cardinality(OnDay(groups, e)) |->
                         WithHead(groups[Nth(OnDay(groups, e), i)])]

\* One after the other they have the orders of the day as blocks.
LEMMA DayGroups ==
  ASSUME NEW d \in Days, NEW groups, GroupsOf(groups, d), NEW e
  PROVE  /\ FlattenSeq(DayList(groups, e)) \in Seq(Upto(d))
         /\ \A k \in OnDay(groups, e) :
              Holds(FlattenSeq(DayList(groups, e)), WithHead(groups[k]), NotOf(k))
         /\ \A k \in Keys \ OnDay(groups, e) :
              FlattenSeq(DayList(groups, e)) \in Seq(NotOf(k))
<1> DEFINE here == OnDay(groups, e)
           list == DayList(groups, e)
           n == Cardinality(here)
<1>0. /\ here = {k \in DOMAIN groups : SectionOf(groups[k]) = e}
      /\ list = [i \in 1 .. n |-> WithHead(groups[Nth(here, i)])]
  BY DEF OnDay, DayList
<1> HIDE DEF here, list, n
<1>1. here \subseteq Keys /\ Keys \subseteq Nat /\ IsFiniteSet(Keys)
  BY <1>0, RebuildAssumption DEF GroupsOf
<1>2. IsFiniteSet(here) /\ here \subseteq Nat
  BY <1>1, FS_Subset
<1>3. n \in Nat
  BY <1>2, FS_CardinalityType DEF n
<1>4. \A i \in 1 .. n : Nth(here, i) \in here /\ CountUpTo(here, Nth(here, i)) = i
  BY <1>2, NthIsThere DEF n
<1>5. \A k \in here : CountUpTo(here, k) \in 1 .. n /\ Nth(here, CountUpTo(here, k)) = k
  BY <1>2, CountInRange, NthOfCount DEF n
<1>6. \A k \in here : WithHead(groups[k]) \in Seq(RowsOf(k, d))
  BY <1>0, <1>1, WithHeadType DEF GroupsOf
<1>7. \A k \in here : /\ Seq(RowsOf(k, d)) \subseteq Seq(Upto(d))
                     /\ \A l \in Keys : l # k => Seq(RowsOf(k, d)) \subseteq Seq(NotOf(l))
  <2>1. \A k \in here : RowsOf(k, d) \subseteq Upto(d)
    BY DEF RowsOf, Upto
  <2>2. \A k \in here : \A l \in Keys : l # k => RowsOf(k, d) \subseteq NotOf(l)
    BY DEF RowsOf, NotOf
  <2> QED BY <2>1, <2>2, SeqMonotonic
<1>8. list \in Seq(Seq(Upto(d))) /\ Len(list) = n
  <2>1. \A i \in 1 .. n : WithHead(groups[Nth(here, i)]) \in Seq(Upto(d))
    BY <1>4, <1>6, <1>7
  <2> QED BY <1>0, <1>3, <2>1, LenProperties
<1>9. FlattenSeq(list) \in Seq(Upto(d))
  BY <1>8, FlattenType
<1>10. ASSUME NEW k \in here
       PROVE  Holds(FlattenSeq(list), WithHead(groups[k]), NotOf(k))
  <2> DEFINE m == CountUpTo(here, k)
  <2>1. m \in 1 .. n /\ Nth(here, m) = k
    BY <1>5
  <2>2. list[m] = WithHead(groups[k])
    BY <1>0, <2>1
  <2>3. ASSUME NEW i \in 1 .. n, i # m PROVE list[i] \in Seq(NotOf(k))
    <3>1. Nth(here, i) # k
      BY <1>4, <2>1, <2>3
    <3> QED BY <1>0, <1>1, <1>4, <1>6, <1>7, <3>1
  <2>4. WithHead(groups[k]) \in Seq(Upto(d))
    BY <1>6, <1>7
  <2>5. Holds(list[m], WithHead(groups[k]), NotOf(k))
    BY <2>2, <2>4, HoldsItself
  <2> HIDE DEF m
  <2> QED BY <1>8, <2>1, <2>3, <2>4, <2>5, FlattenHolds
<1>11. ASSUME NEW k \in Keys \ here PROVE FlattenSeq(list) \in Seq(NotOf(k))
  <2>1. \A i \in 1 .. n : WithHead(groups[Nth(here, i)]) \in Seq(NotOf(k))
    BY <1>4, <1>6, <1>7
  <2>2. list \in Seq(Seq(NotOf(k)))
    BY <1>0, <1>3, <2>1, LenProperties
  <2> QED BY <2>2, FlattenType
<1> QED BY <1>9, <1>10, <1>11 DEF here, list

\* A section is the day row, the day's orders and, for a past day, the report.
LEMMA SectionProperties ==
  ASSUME NEW d \in Days, NEW groups, GroupsOf(groups, d), NEW s, NEW e \in Days, e <= d
  PROVE  /\ Section(groups, s, e, d) \in Seq(Upto(d))
         /\ \A k \in DOMAIN groups : SectionOf(groups[k]) = e =>
              Holds(Section(groups, s, e, d), WithHead(groups[k]), NotOf(k))
         /\ \A k \in Keys : (k \in DOMAIN groups => SectionOf(groups[k]) # e) =>
              Section(groups, s, e, d) \in Seq(NotOf(k))
         /\ Holds(Section(groups, s, e, d), <<DayRow(e, RateOf(s, e))>>, RowType)
<1> DEFINE here == OnDay(groups, e)
           day0 == <<DayRow(e, RateOf(s, e))>>
           body == FlattenSeq(DayList(groups, e))
           end  == IF e < d THEN <<ReportRow(e)>> ELSE <<>>
<1>1. Section(groups, s, e, d) = (day0 \o body) \o end
  BY DEF Section, OnDay, DayList
<1>2. /\ body \in Seq(Upto(d))
      /\ \A k \in here : Holds(body, WithHead(groups[k]), NotOf(k))
      /\ \A k \in Keys \ here : body \in Seq(NotOf(k))
  BY DayGroups
<1>3. /\ DayRow(e, RateOf(s, e)) \in Upto(d) /\ ReportRow(e) \in Upto(d)
      /\ DayRow(e, RateOf(s, e)).key = NoKey /\ ReportRow(e).key = NoKey
  <2>1. RateOf(s, e) \in BOOLEAN
    BY DEF RateOf
  <2> QED BY <2>1, DayRowType
<1>4. \A k \in Keys : k # NoKey
  BY RebuildAssumption DEF NoKey
<1>5. \A k \in Keys : DayRow(e, RateOf(s, e)) \in NotOf(k) /\ ReportRow(e) \in NotOf(k)
  BY <1>3, <1>4 DEF NotOf, Upto
<1>6. /\ day0 \in Seq(Upto(d)) /\ end \in Seq(Upto(d)) /\ Upto(d) \subseteq RowType
      /\ \A k \in Keys : day0 \in Seq(NotOf(k)) /\ end \in Seq(NotOf(k))
  <2>1. Upto(d) \subseteq RowType
    BY DEF Upto
  <2>2. day0 \in Seq(Upto(d)) /\ end \in Seq(Upto(d))
    BY <1>3
  <2>3. \A k \in Keys : day0 \in Seq(NotOf(k)) /\ end \in Seq(NotOf(k))
    BY <1>5
  <2> QED BY <2>1, <2>2, <2>3
<1> HIDE DEF here, day0, body, end
<1>7. day0 \o body \in Seq(Upto(d)) /\ (day0 \o body) \o end \in Seq(Upto(d))
  BY <1>2, <1>6, ConcatProperties
<1>8. ASSUME NEW k \in here
      PROVE  Holds((day0 \o body) \o end, WithHead(groups[k]), NotOf(k))
  <2>1. k \in DOMAIN groups /\ k \in Keys
    BY DEF here, OnDay, GroupsOf
  <2>2. WithHead(groups[k]) \in Seq(RowsOf(k, d)) /\ RowsOf(k, d) \subseteq Upto(d)
    BY <2>1, WithHeadType DEF GroupsOf, RowsOf, Upto
  <2>3. WithHead(groups[k]) \in Seq(Upto(d))
    BY <2>2, SeqMonotonic
  <2>4. Holds(day0 \o body, WithHead(groups[k]), NotOf(k))
    BY <1>2, <1>6, <2>1, <2>3, HoldsBehind
  <2> QED BY <1>6, <1>7, <2>1, <2>3, <2>4, HoldsBefore
<1>9. ASSUME NEW k \in Keys \ here PROVE (day0 \o body) \o end \in Seq(NotOf(k))
  <2>1. day0 \o body \in Seq(NotOf(k))
    BY <1>2, <1>6, ConcatProperties
  <2> QED BY <1>6, <2>1, ConcatProperties
<1>10. Holds((day0 \o body) \o end, day0, RowType)
  <2>1. Holds(day0, day0, RowType)
    BY <1>6, HoldsItself
  <2>2. body \in Seq(RowType) /\ end \in Seq(RowType)
    BY <1>2, <1>6, SeqMonotonic
  <2>3. Holds(day0 \o body, day0, RowType)
    BY <1>2, <1>6, <2>1, <2>2, HoldsBefore
  <2> QED BY <1>6, <1>7, <2>2, <2>3, HoldsBefore
<1> QED BY <1>1, <1>7, <1>8, <1>9, <1>10 DEF here, OnDay, day0

-----------------------------------------------------------------------------
(* Layouts.                                                                *)

LEMMA FirstDayProperties ==
  ASSUME NEW d \in Days, NEW groups, GroupsOf(groups, d), NEW s
  PROVE  /\ FirstDay(groups, s, d) \in Days /\ FirstDay(groups, s, d) <= d
         /\ \A k \in DOMAIN groups : FirstDay(groups, s, d) <= SectionOf(groups[k])
         /\ \A e \in LayoutDays(s) : FirstDay(groups, s, d) <= e
<1> DEFINE T == {d} \cup {SectionOf(groups[k]) : k \in DOMAIN groups} \cup LayoutDays(s)
<1>1. Days \subseteq Nat
  BY RebuildAssumption DEF Days
<1>2. \A k \in DOMAIN groups : SectionOf(groups[k]) \in Days
  BY GroupProperties DEF GroupsOf
<1>3. T \subseteq Days /\ d \in T
  BY <1>2 DEF LayoutDays
<1>4. \E x \in T : \A y \in T : x <= y
  <2>1. T \in SUBSET Nat /\ T # {}
    BY <1>1, <1>3
  <2> HIDE DEF T
  <2> QED BY <2>1, HasLeast
<1>5. FirstDay(groups, s, d) \in T /\ \A y \in T : FirstDay(groups, s, d) <= y
  <2>1. FirstDay(groups, s, d) = CHOOSE x \in T : \A y \in T : x <= y
    BY DEF FirstDay, Min
  <2> HIDE DEF T
  <2> QED BY <1>4, <2>1
<1> QED BY <1>3, <1>5

\* A layout has all groups as blocks, and a row for each of its days.
LEMMA LayoutProperties ==
  ASSUME NEW d \in Days, NEW groups, GroupsOf(groups, d), NEW s
  PROVE  /\ Layout(groups, s, d) \in Seq(Upto(d))
         /\ \A k \in DOMAIN groups :
              Holds(Layout(groups, s, d), WithHead(groups[k]), NotOf(k))
         /\ \A k \in Keys \ DOMAIN groups : Layout(groups, s, d) \in Seq(NotOf(k))
         /\ \A e \in Days : FirstDay(groups, s, d) <= e /\ e <= d =>
              Holds(Layout(groups, s, d), <<DayRow(e, RateOf(s, e))>>, RowType)
<1> DEFINE first == FirstDay(groups, s, d)
           n == d + 1 - first
           list == [i \in 1 .. n |-> Section(groups, s, first + i - 1, d)]
<1>0. Layout(groups, s, d) = FlattenSeq(list)
  BY DEF Layout
<1>1. /\ first \in Nat /\ d \in Nat /\ first <= d /\ Days = 0 .. MaxDay /\ MaxDay \in Nat
      /\ \A k \in DOMAIN groups : first <= SectionOf(groups[k])
  BY FirstDayProperties, RebuildAssumption DEF Days
<1> HIDE DEF first
<1>2. n \in Nat
  BY <1>1
<1>3. ASSUME NEW i \in 1 .. n
      PROVE  first + i - 1 \in Days /\ first + i - 1 <= d
  BY <1>1, <1>2
<1>4. ASSUME NEW e \in Days, first <= e, e <= d
      PROVE  e - first + 1 \in 1 .. n /\ first + (e - first + 1) - 1 = e
  BY <1>1, <1>4
<1>5. \A i \in 1 .. n : list[i] = Section(groups, s, first + i - 1, d)
  OBVIOUS
<1>6. list \in Seq(Seq(Upto(d))) /\ Len(list) = n
  <2>1. \A i \in 1 .. n : Section(groups, s, first + i - 1, d) \in Seq(Upto(d))
    BY <1>3, SectionProperties
  <2> HIDE DEF n
  <2> QED BY <1>2, <2>1, LenProperties
<1>7. FlattenSeq(list) \in Seq(Upto(d))
  BY <1>6, FlattenType
<1>8. ASSUME NEW k \in DOMAIN groups
      PROVE  Holds(FlattenSeq(list), WithHead(groups[k]), NotOf(k))
  <2> DEFINE e == SectionOf(groups[k])
             m == e - first + 1
  <2>1. k \in Keys /\ groups[k] \in Seq(RowsOf(k, d)) /\ groups[k] # <<>>
    BY DEF GroupsOf
  <2>2. e \in Days /\ first <= e /\ e <= d
    BY <1>1, <2>1, GroupProperties
  <2> HIDE DEF e
  <2>3. m \in 1 .. n /\ first + m - 1 = e
    BY <1>4, <2>2
  <2>4. Holds(list[m], WithHead(groups[k]), NotOf(k))
    BY <1>5, <2>2, <2>3, SectionProperties DEF e
  <2>5. ASSUME NEW i \in 1 .. n, i # m PROVE list[i] \in Seq(NotOf(k))
    <3>1. first + i - 1 # e
      BY <1>1, <1>2, <2>2, <2>5
    <3> QED BY <1>3, <1>5, <2>1, <3>1, SectionProperties DEF e
  <2>6. WithHead(groups[k]) \in Seq(Upto(d))
    <3>1. RowsOf(k, d) \subseteq Upto(d)
      BY DEF RowsOf, Upto
    <3> QED BY <2>1, <3>1, WithHeadType, SeqMonotonic
  <2> HIDE DEF m, n, list
  <2> QED BY <1>6, <2>3, <2>4, <2>5, <2>6, FlattenHolds
<1>9. ASSUME NEW k \in Keys \ DOMAIN groups PROVE FlattenSeq(list) \in Seq(NotOf(k))
  <2>1. \A i \in 1 .. n : Section(groups, s, first + i - 1, d) \in Seq(NotOf(k))
    BY <1>3, SectionProperties
  <2> HIDE DEF n
  <2>2. list \in Seq(Seq(NotOf(k)))
    BY <1>2, <2>1, LenProperties
  <2> QED BY <2>2, FlattenType
<1>10. ASSUME NEW e \in Days, first <= e, e <= d
       PROVE  Holds(FlattenSeq(list), <<DayRow(e, RateOf(s, e))>>, RowType)
  <2> DEFINE m == e - first + 1
             row == <<DayRow(e, RateOf(s, e))>>
  <2>1. m \in 1 .. n /\ first + m - 1 = e
    BY <1>4, <1>10
  <2>2. Holds(list[m], row, RowType)
    BY <1>5, <1>10, <2>1, SectionProperties
  <2>3. \A i \in 1 .. n : list[i] \in Seq(RowType)
    <3>1. Upto(d) \subseteq RowType
      BY DEF Upto
    <3>2. \A i \in 1 .. n : list[i] \in Seq(Upto(d))
      BY <1>3, <1>5, SectionProperties
    <3> QED BY <3>1, <3>2, SeqMonotonic
  <2>4. row \in Seq(Upto(d))
    <3>1. RateOf(s, e) \in BOOLEAN
      BY DEF RateOf
    <3>2. DayRow(e, RateOf(s, e)) \in Upto(d)
      BY <1>10, <3>1, DayRowType
    <3> QED BY <3>2
  <2> HIDE DEF m, n, list, row
  <2>5. Holds(FlattenSeq(list), row, RowType)
    BY <1>6, <2>1, <2>2, <2>3, <2>4, FlattenHolds
  <2> QED BY <2>5 DEF row
<1> QED BY <1>0, <1>7, <1>8, <1>9, <1>10 DEF first

-----------------------------------------------------------------------------
(* The invariant.                                                          *)

\* The rows are of days that have come, for a run of days up to its own.
TypeInv ==
  /\ TypeOK
  /\ rows \in Seq(Upto(day))
  /\ IF pc = "idle" THEN snap = <<>> /\ layout = <<>>
     ELSE /\ today <= day /\ rows \in Seq(Upto(today))
          /\ snap \in Seq(Upto(today)) /\ layout \in Seq(Upto(today))
  /\ pc \notin {"code", "mark"} => updates = {}
  /\ pc = "code" => \A u \in updates : u[3] \in Products \cup {NoProduct}

LaidOut == \E new \in SUBSET Keys :
             layout = Layout(Collect(snap, new, today), snap, today)

\* Where nobody disturbs the write, the worksheet is what was read, then the
\* layout over it, then the layout.
WriteInv ==
  /\ pc \in Phases \ {"reread", "write", "clear", "check"} => snap = <<>>
  /\ pc \in {"reread", "write", "clear"} => LaidOut
  /\ pc = "check" /\ snap # <<>> => LaidOut
  /\ pc = "write" /\ ~ touched => rows = snap
  /\ pc = "clear" /\ ~ touched =>
       rows = layout \o SubSeq(snap, Len(layout) + 1, Len(snap))
  /\ pc = "check" /\ ~ touched /\ snap # <<>> => rows = layout

\* A row with the number of its order is followed by all lines of the order. A
\* layout over a longer one keeps that: what it leaves of an order has no number.
HeadsLead(s) ==
  \A i \in DOMAIN s : IsOrderRow(s[i]) /\ s[i].head = "own" =>
    \A j \in DOMAIN Items[s[i].key] :
      /\ i + j - 1 \in DOMAIN s
      /\ s[i + j - 1].key = s[i].key /\ s[i + j - 1].product = Items[s[i].key][j]

Whole(s) == \A k \in KeysOf(s) : Lines(Group(s, k)) = Items[k]

\* The rows written are those of the layout, but for cells edited since.
Covered ==
  /\ Len(rows) >= Len(layout)
  /\ \A i \in 1 .. Len(layout) :
       /\ rows[i].kind = layout[i].kind /\ rows[i].key = layout[i].key
       /\ rows[i].product = layout[i].product
       /\ rows[i].head = "own" => layout[i].head = "own"

WholeInv ==
  ~ handmade =>
    /\ HeadsLead(rows)
    /\ pc \in {"refresh", "code", "update", "mark", "read", "reread", "write"} => Whole(rows)
    /\ pc \in {"reread", "write", "clear"} => HeadsLead(layout)
    /\ pc = "clear" => Covered

\* The updates are of the rows they were computed for until rows are moved.
UpdateInv ==
  /\ pc = "mark" /\ ~ shifted =>
       \A u \in updates : u[1] \in 1 .. Len(rows) /\ rows[u[1]].key = u[2]
  /\ pc = "code" /\ ~ handmade =>
       \A u \in updates : u[1] \in 1 .. Len(rows) /\ u[3] = rows[u[1]].product

-----------------------------------------------------------------------------
(* What steps do to the rows.                                              *)

LEMMA UncodedType ==
  ASSUME NEW d \in Days, NEW k \in Keys, NEW g \in Seq(RowsOf(k, d)), g # <<>>
  PROVE  /\ Uncoded(g) \in Seq(RowsOf(k, d)) /\ Len(Uncoded(g)) = Len(g)
         /\ Uncoded(g) # <<>>
         /\ \A i \in 1 .. Len(g) : Uncoded(g)[i].product = g[i].product
<1> DEFINE row(i) == [g[i] EXCEPT !.code = IF Len(g) > 1 THEN NoProduct ELSE @]
<1>1. /\ Len(g) \in Nat /\ Len(g) # 0 /\ DOMAIN g = 1 .. Len(g)
      /\ \A i \in 1 .. Len(g) : g[i] \in RowsOf(k, d)
  BY GroupProperties
<1>2. Uncoded(g) = [i \in 1 .. Len(g) |-> row(i)]
  BY <1>1 DEF Uncoded
<1>3. ASSUME NEW i \in 1 .. Len(g)
      PROVE  row(i) \in RowsOf(k, d) /\ row(i).product = g[i].product
  <2>1. g[i] \in RowsOf(k, d)
    BY <1>1
  <2> QED BY <2>1 DEF RowsOf, RowType, IsOrderRow
<1> HIDE DEF row
<1>4. [i \in 1 .. Len(g) |-> row(i)] \in Seq(RowsOf(k, d))
  BY <1>1, <1>3
<1>5. Uncoded(g) \in Seq(RowsOf(k, d)) /\ Len(Uncoded(g)) = Len(g)
  BY <1>1, <1>2, <1>4, LenProperties
<1>6. Uncoded(g) # <<>>
  BY <1>1, <1>5, EmptySeq
<1> QED BY <1>2, <1>3, <1>5, <1>6

LEMMA MinOfTwo ==
  ASSUME NEW m \in Nat, NEW n \in Nat
  PROVE  Min({m, n}) = IF m <= n THEN m ELSE n
BY DEF Min

\* Moving, copying and deleting brings no rows that were not there.
LEMMA RowsMoved ==
  ASSUME NEW S, NEW s \in Seq(S), NEW i \in DOMAIN s, NEW j \in DOMAIN s
  PROVE  /\ RemoveAt(s, i) \in Seq(S)
         /\ InsertAt(s, j, s[i]) \in Seq(S)
         /\ InsertAt(RemoveAt(s, i), j, s[i]) \in Seq(S)
<1>1. Len(s) \in Nat /\ DOMAIN s = 1 .. Len(s) /\ s[i] \in S
  BY LenProperties, ElementOfSeq
<1>2. ASSUME NEW t \in Seq(S), NEW p \in 1 .. Len(t) + 1
      PROVE  InsertAt(t, p, s[i]) \in Seq(S)
  <2>1. Len(t) \in Nat
    BY LenProperties
  <2>2. SubSeq(t, 1, p - 1) \in Seq(S) /\ SubSeq(t, p, Len(t)) \in Seq(S)
    BY <2>1, SubSeqProperties
  <2>3. <<s[i]>> \in Seq(S)
    BY <1>1
  <2>4. SubSeq(t, 1, p - 1) \o <<s[i]>> \in Seq(S)
    BY <2>2, <2>3, ConcatProperties
  <2> QED BY <2>2, <2>4, ConcatProperties DEF InsertAt
<1>3. RemoveAt(s, i) \in Seq(S) /\ Len(RemoveAt(s, i)) = Len(s) - 1
  <2>1. /\ \A p \in 1 .. i - 1 : s[p] \in S
        /\ \A p \in i + 1 .. Len(s) : s[p] \in S
    BY <1>1, ElementOfSeq
  <2>2. SubSeq(s, 1, i - 1) \in Seq(S) /\ Len(SubSeq(s, 1, i - 1)) = i - 1
    BY <1>1, <2>1, SubSeqProperties
  <2>3. SubSeq(s, i + 1, Len(s)) \in Seq(S) /\ Len(SubSeq(s, i + 1, Len(s))) = Len(s) - i
    BY <1>1, <2>1, SubSeqProperties
  <2> DEFINE u == SubSeq(s, 1, i - 1)
             v == SubSeq(s, i + 1, Len(s))
  <2>4. RemoveAt(s, i) = u \o v
    BY DEF RemoveAt
  <2> HIDE DEF u, v
  <2>5. u \o v \in Seq(S) /\ Len(u \o v) = Len(u) + Len(v)
    BY <2>2, <2>3, ConcatProperties DEF u, v
  <2>6. Len(u) = i - 1 /\ Len(v) = Len(s) - i /\ i \in Nat
    BY <1>1, <2>2, <2>3 DEF u, v
  <2> QED BY <1>1, <2>4, <2>5, <2>6
<1>4. j \in 1 .. Len(s) + 1 /\ j \in 1 .. Len(RemoveAt(s, i)) + 1
  BY <1>1, <1>3
<1> QED BY <1>2, <1>3, <1>4

LEMMA ShiftKeeps ==
  ASSUME NEW S, rows \in Seq(S), NEW i \in DOMAIN rows,
         DeleteRow(i) \/ \E j \in DOMAIN rows : MoveRow(i, j) \/ CopyRow(i, j)
  PROVE  rows' \in Seq(S)
BY RowsMoved DEF DeleteRow, MoveRow, CopyRow

\* The same rows but for cells that do not say which row it is.
Similar(s, t) ==
  /\ t \in Seq(RowType) /\ Len(t) = Len(s)
  /\ \A i \in 1 .. Len(s) :
       /\ t[i].kind = s[i].kind /\ t[i].day = s[i].day
       /\ t[i].key = s[i].key /\ t[i].product = s[i].product
       /\ t[i].head = "own" => s[i].head = "own"

LEMMA SimilarUpto ==
  ASSUME NEW d, NEW s \in Seq(Upto(d)), NEW t, Similar(s, t)
  PROVE  t \in Seq(Upto(d))
<1>1. Len(s) \in Nat /\ DOMAIN s = 1 .. Len(s) /\ \A i \in 1 .. Len(s) : s[i] \in Upto(d)
  BY LenProperties, ElementOfSeq
<1>2. t \in Seq(RowType) /\ Len(t) = Len(s)
  BY DEF Similar
<1>3. \A i \in 1 .. Len(t) : t[i] \in Upto(d)
  BY <1>1, <1>2, ElementOfSeq DEF Similar, Upto
<1> QED BY <1>2, <1>3, <1>1

\* Rows that differ in such cells only.
SimilarRow(r, q) ==
  /\ q \in RowType
  /\ q.kind = r.kind /\ q.day = r.day /\ q.key = r.key /\ q.product = r.product
  /\ q.head = "own" => r.head = "own"

\* A sequence given row by row.
LEMMA SimilarByRows ==
  ASSUME NEW s \in Seq(RowType), NEW t \in [1 .. Len(s) -> RowType],
         \A i \in 1 .. Len(s) : SimilarRow(s[i], t[i])
  PROVE  Similar(s, t)
<1>1. Len(s) \in Nat
  BY LenProperties
<1>2. t \in Seq(RowType) /\ Len(t) = Len(s)
  BY <1>1
<1> QED BY <1>2 DEF Similar, SimilarRow

\* What runs and managers write into cells.
LEMMA CellsWritten ==
  ASSUME TypeInv,
         WriteDetails \/ WriteUpdates \/ \E i \in DOMAIN rows : EditCell(i) \/ EditHead(i)
  PROVE  Similar(rows, rows')
<1>1. /\ rows \in Seq(RowType) /\ Len(rows) \in Nat /\ DOMAIN rows = 1 .. Len(rows)
      /\ \A i \in 1 .. Len(rows) : rows[i] \in RowType
      /\ rows \in [1 .. Len(rows) -> RowType]
  BY LenProperties, ElementOfSeq DEF TypeInv, TypeOK
<1>2. \A i \in 1 .. Len(rows) : SimilarRow(rows[i], rows[i])
  BY <1>1 DEF SimilarRow
<1>3. CASE WriteDetails
  <2>1. ASSUME NEW i \in 1 .. Len(rows), \E u \in updates : u[1] = i
        PROVE  SimilarRow(rows[i],
                 [rows[i] EXCEPT !.code = (CHOOSE u \in updates : u[1] = i)[3]])
    <3> DEFINE c == (CHOOSE u \in updates : u[1] = i)[3]
    <3>1. c \in Products \cup {NoProduct}
      BY <1>3, <2>1 DEF TypeInv, WriteDetails
    <3> HIDE DEF c
    <3>2. SimilarRow(rows[i], [rows[i] EXCEPT !.code = c])
      BY <1>1, <3>1 DEF SimilarRow, RowType, IsOrderRow
    <3> QED BY <3>2 DEF c
  <2>2. /\ rows' \in [1 .. Len(rows) -> RowType]
        /\ \A i \in 1 .. Len(rows) : rows'[i] =
             IF \E u \in updates : u[1] = i
             THEN [rows[i] EXCEPT !.code = (CHOOSE u \in updates : u[1] = i)[3]]
             ELSE rows[i]
    BY <1>1, <1>3, <2>1 DEF WriteDetails, SimilarRow
  <2>3. \A i \in 1 .. Len(rows) : SimilarRow(rows[i], rows'[i])
    BY <1>2, <2>1, <2>2
  <2> QED BY <1>1, <2>2, <2>3, SimilarByRows
<1>4. CASE WriteUpdates
  <2>1. ASSUME NEW i \in 1 .. Len(rows)
        PROVE  SimilarRow(rows[i], [rows[i] EXCEPT !.refused = TRUE])
    BY <1>1 DEF SimilarRow, RowType, IsOrderRow
  <2>2. /\ rows' \in [1 .. Len(rows) -> RowType]
        /\ \A i \in 1 .. Len(rows) : rows'[i] =
             IF Marked(i) THEN [rows[i] EXCEPT !.refused = TRUE] ELSE rows[i]
    BY <1>1, <1>4, <2>1 DEF WriteUpdates, SimilarRow
  <2>3. \A i \in 1 .. Len(rows) : SimilarRow(rows[i], rows'[i])
    BY <1>2, <2>1, <2>2
  <2> QED BY <1>1, <2>2, <2>3, SimilarByRows
<1>5. ASSUME NEW j \in DOMAIN rows, EditCell(j) PROVE Similar(rows, rows')
  <2>1. SimilarRow(rows[j], [rows[j] EXCEPT !.filled = ~ @])
    <3>1. rows[j] \in RowType
      BY <1>1
    <3>2. [rows[j] EXCEPT !.filled = ~ @] \in RowType
      BY <3>1 DEF RowType, IsOrderRow
    <3> QED BY <3>1, <3>2 DEF SimilarRow, RowType
  <2>2. /\ rows' \in [1 .. Len(rows) -> RowType]
        /\ \A i \in 1 .. Len(rows) : rows'[i] =
             IF i = j THEN [rows[j] EXCEPT !.filled = ~ @] ELSE rows[i]
    BY <1>1, <1>5, <2>1 DEF EditCell, SimilarRow
  <2>3. \A i \in 1 .. Len(rows) : SimilarRow(rows[i], rows'[i])
    BY <1>2, <2>1, <2>2
  <2> QED BY <1>1, <2>2, <2>3, SimilarByRows
<1>6. ASSUME NEW j \in DOMAIN rows, EditHead(j) PROVE Similar(rows, rows')
  <2>1. PICK head \in {"none", "other"} :
          rows[j].head = "own" /\ rows' = [rows EXCEPT ![j].head = head]
    BY <1>6 DEF EditHead
  <2>2. SimilarRow(rows[j], [rows[j] EXCEPT !.head = head])
    <3>1. rows[j] \in RowType /\ IsOrderRow(rows[j])
      BY <1>1, <2>1 DEF RowType
    <3>2. [rows[j] EXCEPT !.head = head] \in RowType
      BY <3>1 DEF RowType, IsOrderRow
    <3> QED BY <3>1, <3>2 DEF SimilarRow, RowType
  <2>3. /\ rows' \in [1 .. Len(rows) -> RowType]
        /\ \A i \in 1 .. Len(rows) : rows'[i] =
             IF i = j THEN [rows[j] EXCEPT !.head = head] ELSE rows[i]
    BY <1>1, <2>1, <2>2 DEF SimilarRow
  <2>4. \A i \in 1 .. Len(rows) : SimilarRow(rows[i], rows'[i])
    BY <1>2, <2>2, <2>3
  <2> QED BY <1>1, <2>3, <2>4, SimilarByRows
<1> QED BY <1>3, <1>4, <1>5, <1>6

-----------------------------------------------------------------------------
(* The types.                                                              *)

LEMMA UptoGrows ==
  ASSUME NEW d \in Days, NEW e \in Days, d <= e
  PROVE  Seq(Upto(d)) \subseteq Seq(Upto(e)) /\ Seq(Upto(e)) \subseteq Seq(RowType)
<1>1. Days \subseteq Nat
  BY RebuildAssumption DEF Days
<1>2. Upto(d) \subseteq Upto(e) /\ Upto(e) \subseteq RowType
  <2>1. \A r \in RowType : r.day \in Nat
    BY <1>1 DEF RowType
  <2> QED BY <1>1, <2>1 DEF Upto
<1> QED BY <1>2, SeqMonotonic

LEMMA NewLayoutType ==
  ASSUME TypeInv, pc # "idle", NEW new \in SUBSET Keys
  PROVE  Layout(Collect(rows, new, today), rows, today) \in Seq(Upto(today))
<1>1. today \in Days /\ rows \in Seq(Upto(today))
  BY DEF TypeInv, TypeOK
<1>2. GroupsOf(Collect(rows, new, today), today)
  BY <1>1, CollectType
<1> QED BY <1>1, <1>2, LayoutProperties

\* The groups of the first worksheet.
FirstGroups(placed) == [k \in DOMAIN placed |-> Uncoded(NewGroup(k, placed[k]))]

LEMMA FirstGroupsType ==
  ASSUME NEW d \in Days, NEW known \in SUBSET Keys, NEW placed \in [known -> 0 .. d]
  PROVE  /\ GroupsOf(FirstGroups(placed), d) /\ DOMAIN FirstGroups(placed) = known
         /\ \A k \in known :
              /\ Len(FirstGroups(placed)[k]) = Len(Items[k])
              /\ \A i \in 1 .. Len(Items[k]) :
                   FirstGroups(placed)[k][i].product = Items[k][i]
<1>0. d \in Nat /\ 0 .. d \subseteq Days
  BY RebuildAssumption DEF Days
<1>1. ASSUME NEW k \in known
      PROVE  /\ Uncoded(NewGroup(k, placed[k])) \in Seq(RowsOf(k, d))
             /\ Uncoded(NewGroup(k, placed[k])) # <<>>
             /\ Len(Uncoded(NewGroup(k, placed[k]))) = Len(Items[k])
             /\ \A i \in 1 .. Len(Items[k]) :
                  Uncoded(NewGroup(k, placed[k]))[i].product = Items[k][i]
  <2> DEFINE e == placed[k]
             g == NewGroup(k, e)
  <2>1. e \in Days /\ e <= d
    BY <1>0
  <2> HIDE DEF e
  <2>2. /\ g \in Seq(RowsOf(k, e)) /\ Len(g) = Len(Items[k]) /\ g # <<>>
        /\ \A i \in 1 .. Len(Items[k]) : g[i].product = Items[k][i]
    BY <2>1, NewGroupType
  <2> HIDE DEF g
  <2>3. /\ Uncoded(g) \in Seq(RowsOf(k, e)) /\ Len(Uncoded(g)) = Len(g)
        /\ Uncoded(g) # <<>>
        /\ \A i \in 1 .. Len(g) : Uncoded(g)[i].product = g[i].product
    BY <2>1, <2>2, UncodedType
  <2>4. RowsOf(k, e) \subseteq RowsOf(k, d)
    <3>1. \A r \in RowType : r.day \in Nat
      BY RebuildAssumption DEF RowType, Days
    <3> QED BY <1>0, <2>1, <3>1 DEF RowsOf, Days
  <2>5. Uncoded(g) \in Seq(RowsOf(k, d))
    BY <2>3, <2>4, SeqMonotonic
  <2> QED BY <2>2, <2>3, <2>5 DEF g, e
<1>2. /\ DOMAIN FirstGroups(placed) = known
      /\ \A k \in known : FirstGroups(placed)[k] = Uncoded(NewGroup(k, placed[k]))
  BY DEF FirstGroups
<1> QED BY <1>1, <1>2 DEF GroupsOf

LEMMA FirstRows ==
  ASSUME Init
  PROVE  \E known \in SUBSET Keys : \E placed \in [known -> 0 .. day] :
           rows = Layout(FirstGroups(placed), <<>>, day)
BY DEF Init, FirstGroups

LEMMA TypeInit == Init => TypeInv
<1> SUFFICES ASSUME Init PROVE TypeInv
  OBVIOUS
<1>1. day \in Days
  BY DEF Init
<1>2. rows \in Seq(Upto(day))
  <2>1. PICK known \in SUBSET Keys : \E placed \in [known -> 0 .. day] :
           rows = Layout(FirstGroups(placed), <<>>, day)
    BY FirstRows
  <2>2. PICK placed \in [known -> 0 .. day] : rows = Layout(FirstGroups(placed), <<>>, day)
    BY <2>1
  <2>3. GroupsOf(FirstGroups(placed), day)
    BY <1>1, FirstGroupsType
  <2> QED BY <1>1, <2>2, <2>3, LayoutProperties
<1>3. rows \in Seq(RowType) /\ 0 \in Days
  <2>1. 0 \in Days /\ day <= day
    BY <1>1, RebuildAssumption DEF Days
  <2> QED BY <1>1, <1>2, <2>1, UptoGrows
<1>4. <<>> \in Seq(RowType)
  OBVIOUS
<1>5. /\ pc = "idle" /\ today = 0 /\ existing = {}
      /\ snap = <<>> /\ layout = <<>> /\ updates = {}
      /\ shifted = FALSE /\ touched = FALSE /\ handmade = FALSE
      /\ disturbances = 0 /\ faults = 0
  BY DEF Init
<1>6. 0 \in 0 .. MaxDisturbances /\ 0 \in 0 .. MaxFaults
  BY RebuildAssumption
<1> QED BY <1>1, <1>2, <1>3, <1>4, <1>5, <1>6 DEF TypeInv, TypeOK, Phases

\* What a step leaves of the types when it ends the run.
LEMMA EndRunType ==
  ASSUME TypeInv, EndRun, UNCHANGED <<day, rows, handmade, disturbances>>,
         faults' \in 0 .. MaxFaults
  PROVE  TypeInv'
<1>1. 0 \in Days /\ <<>> \in Seq(RowType)
  BY RebuildAssumption DEF Days
<1> QED BY <1>1 DEF TypeInv, TypeOK, EndRun, Phases

\* What a step leaves of the types when it writes rows of the run's days.
LEMMA RowsType ==
  ASSUME TypeInv, pc' # "idle", pc # "idle", rows' \in Seq(Upto(today)), pc' \in Phases,
         UNCHANGED <<day, today, existing, snap, layout, handmade, touched,
                     disturbances, faults>>,
         shifted' \in BOOLEAN, updates' = {}
  PROVE  TypeInv'
<1>1. rows' \in Seq(Upto(day)) /\ rows' \in Seq(RowType)
  BY UptoGrows DEF TypeInv, TypeOK
<1> QED BY <1>1 DEF TypeInv, TypeOK

\* The line of a row is a product or what the row has.
LEMMA LineOfType ==
  ASSUME TypeInv, NEW i \in DOMAIN rows, rows[i].key \in Keys
  PROVE  LineOf(i) \in Products \cup {NoProduct}
<1> DEFINE k == rows[i].key
           n == CountUpTo(Places(rows, k), i)
<1>1. rows \in Seq(RowType) /\ DOMAIN rows = 1 .. Len(rows) /\ rows[i] \in RowType
  BY LenProperties, ElementOfSeq DEF TypeInv, TypeOK
<1>2. k \in Keys /\ k # NoKey /\ IsOrderRow(rows[i])
  <2>1. k \in Keys /\ k # NoKey
    BY RebuildAssumption DEF NoKey
  <2> QED BY <1>1, <2>1 DEF RowType
<1>3. i \in Places(rows, k)
  BY <1>2 DEF Places
<1> HIDE DEF k
<1>4. IsFiniteSet(Places(rows, k)) /\ Places(rows, k) \subseteq Nat
  BY <1>1, PlacesAreFinite
<1>5. n \in 1 .. Cardinality(Places(rows, k)) /\ Cardinality(Places(rows, k)) \in Nat
  BY <1>3, <1>4, CountInRange, FS_CardinalityType
<1> HIDE DEF n
<1>6. n <= Len(Items[k]) => Items[k][n] \in Products
  BY <1>2, <1>5, ItemsProperties
<1>7. rows[i].code \in Products \cup {NoProduct}
  BY <1>1 DEF RowType
<1> QED BY <1>6, <1>7 DEF LineOf, k, n

LEMMA TypeStep == TypeInv /\ [Next]_vars => TypeInv'
<1> SUFFICES ASSUME TypeInv, [Next]_vars PROVE TypeInv'
  OBVIOUS
<1> USE DEF Phases
<1>0. /\ day \in Days /\ today \in Days /\ Days = 0 .. MaxDay /\ MaxDay \in Nat
      /\ rows \in Seq(RowType) /\ rows \in Seq(Upto(day))
      /\ pc # "idle" => rows \in Seq(Upto(today)) /\ today <= day
      /\ \A e \in Days : <<>> \in Seq(Upto(e))
      /\ <<>> \in Seq(RowType)
  BY RebuildAssumption DEF TypeInv, TypeOK, Days
<1>1. ASSUME Start PROVE TypeInv'
  BY <1>0, <1>1 DEF Start, TypeInv, TypeOK
<1>2. ASSUME CheckBefore PROVE TypeInv'
  <2>1. KeysOf(rows) \subseteq Keys
    BY DEF KeysOf
  <2> QED BY <1>2, <2>1 DEF CheckBefore, TypeInv, TypeOK
<1>3. ASSUME RefuseBefore PROVE TypeInv'
  BY <1>3, EndRunType DEF RefuseBefore, TypeInv, TypeOK
<1>4. ASSUME PlanDetails PROVE TypeInv'
  <2>1. PICK fetched \in SUBSET existing :
          updates' = {<<i, rows[i].key, LineOf(i)>> : i \in {j \in DOMAIN rows :
                        rows[j].key \in fetched /\ rows[j].code # LineOf(j)}}
    BY <1>4 DEF PlanDetails
  <2>2. ASSUME NEW u \in updates'
        PROVE  u[1] \in Nat /\ u[2] \in existing /\ u[3] \in Products \cup {NoProduct}
    <3>1. PICK i \in DOMAIN rows : rows[i].key \in fetched /\ u = <<i, rows[i].key, LineOf(i)>>
      BY <2>1
    <3>2. existing \subseteq Keys /\ i \in Nat
      BY <1>0, LenProperties DEF TypeInv, TypeOK
    <3>3. LineOf(i) \in Products \cup {NoProduct}
      BY <3>1, <3>2, LineOfType
    <3> QED BY <3>1, <3>2, <3>3
  <2> QED BY <1>4, <2>2 DEF PlanDetails, TypeInv, TypeOK
<1>5. ASSUME WriteDetails \/ WriteUpdates PROVE TypeInv'
  <2>1. rows' \in Seq(Upto(today))
    BY <1>0, <1>5, CellsWritten, SimilarUpto DEF WriteDetails, WriteUpdates
  <2> QED BY <1>5, <2>1, RowsType DEF WriteDetails, WriteUpdates
<1>6. ASSUME PlanUpdates PROVE TypeInv'
  <2>1. PICK refusals \in SUBSET existing :
          updates' = {<<i, rows[i].key, "refused">> : i \in {j \in DOMAIN rows :
                        rows[j].key \in refusals /\ ~ rows[j].refused}}
    BY <1>6 DEF PlanUpdates
  <2>2. ASSUME NEW u \in updates'
        PROVE  u[1] \in Nat /\ u[2] \in existing
    <3>1. PICK i \in DOMAIN rows : rows[i].key \in refusals /\ u = <<i, rows[i].key, "refused">>
      BY <2>1
    <3>2. i \in Nat
      BY <1>0, LenProperties
    <3> QED BY <3>1, <3>2
  <2> QED BY <1>6, <2>2 DEF PlanUpdates, TypeInv, TypeOK
<1>7. ASSUME SkipRebuild \/ RereadRows PROVE TypeInv'
  BY <1>7 DEF SkipRebuild, RereadRows, locals, TypeInv, TypeOK
<1>8. ASSUME ReadRows PROVE TypeInv'
  <2>1. PICK new \in SUBSET (Keys \ existing) :
          layout' = Layout(Collect(rows, new, today), rows, today)
    BY <1>8 DEF ReadRows
  <2>2. layout' \in Seq(Upto(today))
    BY <1>8, <2>1, NewLayoutType DEF ReadRows
  <2>3. layout' \in Seq(RowType)
    BY <1>0, <2>2, UptoGrows
  <2> QED BY <1>0, <1>8, <2>2, <2>3 DEF ReadRows, TypeInv, TypeOK
<1>9. ASSUME RefuseConcurrentEdit \/ CheckAfter PROVE TypeInv'
  BY <1>9, EndRunType DEF RefuseConcurrentEdit, CheckAfter, TypeInv, TypeOK
<1>10. ASSUME WriteRows PROVE TypeInv'
  <2>1. rows \in Seq(Upto(today)) /\ layout \in Seq(Upto(today))
    BY <1>10 DEF WriteRows, TypeInv
  <2>2. Len(rows) \in Nat /\ Len(layout) \in Nat
    BY <2>1, LenProperties
  <2>3. SubSeq(rows, Len(layout) + 1, Len(rows)) \in Seq(Upto(today))
    BY <2>1, <2>2, SubSeqProperties, ElementOfSeq
  <2>4. rows' \in Seq(Upto(today))
    BY <1>10, <2>1, <2>3, ConcatProperties DEF WriteRows
  <2> QED BY <1>10, <2>4, RowsType DEF WriteRows, locals, TypeInv, TypeOK
<1>11. ASSUME ClearTail PROVE TypeInv'
  <2>1. rows \in Seq(Upto(today)) /\ Len(rows) \in Nat /\ Len(layout) \in Nat
    BY <1>11, LenProperties DEF ClearTail, TypeInv, TypeOK
  <2>2. Min({Len(rows), Len(layout)}) = IF Len(rows) <= Len(layout) THEN Len(rows)
                                        ELSE Len(layout)
    BY <2>1, MinOfTwo
  <2> DEFINE n == Min({Len(rows), Len(layout)})
  <2>3. n \in 0 .. Len(rows)
    BY <2>1, <2>2
  <2> HIDE DEF n
  <2>4. SubSeq(rows, 1, n) \in Seq(Upto(today))
    BY <2>1, <2>3, SubSeqProperties, ElementOfSeq
  <2>5. rows' \in Seq(Upto(today))
    BY <1>11, <2>4 DEF ClearTail, n
  <2> QED BY <1>11, <2>5, RowsType DEF ClearTail, locals, TypeInv, TypeOK
<1>12. ASSUME Crash PROVE TypeInv'
  <2>1. faults' \in 0 .. MaxFaults
    BY <1>12, RebuildAssumption DEF Crash, TypeInv, TypeOK
  <2> QED BY <1>12, <2>1, EndRunType DEF Crash
<1>13. ASSUME Disturb PROVE disturbances' \in 0 .. MaxDisturbances
  BY <1>13, RebuildAssumption DEF Disturb, TypeInv, TypeOK
<1>14. ASSUME Midnight PROVE TypeInv'
  <2>1. day' \in Days /\ day <= day'
    BY <1>0, <1>14 DEF Midnight
  <2>2. rows \in Seq(Upto(day'))
    BY <1>0, <2>1, UptoGrows
  <2>3. pc # "idle" => today <= day'
    BY <1>0, <2>1
  <2> QED BY <1>13, <1>14, <2>1, <2>2, <2>3 DEF Midnight, Disturb, locals, TypeInv, TypeOK
<1>15. ASSUME Edit, shifted' \in BOOLEAN, handmade' \in BOOLEAN,
              \A e \in Days : rows \in Seq(Upto(e)) => rows' \in Seq(Upto(e))
       PROVE  TypeInv'
  <2>1. rows' \in Seq(Upto(day)) /\ pc # "idle" => rows' \in Seq(Upto(today))
    BY <1>0, <1>15
  <2>2. rows' \in Seq(RowType)
    BY <1>0, <1>15, UptoGrows
  <2> QED BY <1>0, <1>13, <1>15, <2>2 DEF Edit, Disturb, locals, TypeInv, TypeOK
<1>16. ASSUME NEW i \in DOMAIN rows, EditCell(i) \/ EditHead(i) PROVE TypeInv'
  <2>1. \A e \in Days : rows \in Seq(Upto(e)) => rows' \in Seq(Upto(e))
    BY <1>16, CellsWritten, SimilarUpto
  <2> QED BY <1>15, <1>16, <2>1 DEF EditCell, EditHead, TypeInv, TypeOK
<1>17. ASSUME NEW i \in DOMAIN rows,
              DeleteRow(i) \/ \E j \in DOMAIN rows : MoveRow(i, j) \/ CopyRow(i, j)
       PROVE  TypeInv'
  <2>1. \A e \in Days : rows \in Seq(Upto(e)) => rows' \in Seq(Upto(e))
    BY <1>17, ShiftKeeps
  <2>2. Edit /\ shifted' \in BOOLEAN /\ handmade' \in BOOLEAN
    BY <1>17 DEF DeleteRow, MoveRow, CopyRow, Shift, TypeInv, TypeOK
  <2> QED BY <1>15, <2>1, <2>2
<1>18. CASE UNCHANGED vars
  BY <1>18 DEF vars, locals, TypeInv, TypeOK
<1> QED BY <1>1, <1>2, <1>3, <1>4, <1>5, <1>6, <1>7, <1>8, <1>9, <1>10, <1>11, <1>12,
           <1>14, <1>16, <1>17, <1>18 DEF Next, RunStep, Disturbance

\* Every variable keeps its type: the rows a run lays out, moves together or
\* leaves torn are rows of orders and of days that have come.
THEOREM TypeCorrect == Spec => []TypeOK
<1>1. TypeInv => TypeOK
  BY DEF TypeInv
<1> QED BY <1>1, TypeInit, TypeStep, PTL DEF Spec

-----------------------------------------------------------------------------
(* The write.                                                              *)

LEMMA WriteInit == Init => WriteInv
BY DEF Init, WriteInv

\* An ended run has read nothing.
LEMMA EndRunWrite ==
  ASSUME EndRun
  PROVE  WriteInv'
BY DEF EndRun, WriteInv

\* The rows below the layout are cleared, and the layout is left.
LEMMA Cleared ==
  ASSUME NEW S, NEW s \in Seq(S), NEW t \in Seq(S)
  PROVE  SubSeq(s \o t, 1, Min({Len(s \o t), Len(s)})) = s
<1>1. /\ s \o t \in Seq(S) /\ Len(s \o t) = Len(s) + Len(t)
      /\ Len(s) \in Nat /\ Len(t) \in Nat
      /\ \A i \in 1 .. Len(s) : (s \o t)[i] = s[i]
  BY ConcatProperties, LenProperties
<1>2. Min({Len(s \o t), Len(s)}) = Len(s)
  BY <1>1, MinOfTwo
<1> DEFINE c == SubSeq(s \o t, 1, Len(s))
<1>3. /\ c \in Seq(S) /\ Len(c) = Len(s)
      /\ \A i \in 1 .. Len(s) : c[i] = (s \o t)[i]
  BY <1>1, SubSeqProperties, ElementOfSeq
<1>4. c = s
  <2> HIDE DEF c
  <2> QED BY <1>1, <1>3, SeqEqual
<1> QED BY <1>2, <1>4

LEMMA WriteStep == TypeInv /\ WriteInv /\ [Next]_vars => WriteInv'
<1> SUFFICES ASSUME TypeInv, WriteInv, [Next]_vars PROVE WriteInv'
  OBVIOUS
<1> USE DEF Phases
<1>0. pc \in Phases
  BY DEF TypeInv, TypeOK
<1>1. ASSUME \/ Start \/ CheckBefore \/ PlanDetails \/ WriteDetails \/ PlanUpdates
             \/ WriteUpdates \/ SkipRebuild
      PROVE  WriteInv'
  <2>1. snap' = <<>> /\ pc' \in Phases \ {"reread", "write", "clear"}
    BY <1>1 DEF WriteInv, Start, CheckBefore, PlanDetails, WriteDetails, PlanUpdates,
                WriteUpdates, SkipRebuild, locals
  <2> QED BY <2>1 DEF WriteInv
<1>2. ASSUME RefuseBefore \/ RefuseConcurrentEdit \/ CheckAfter \/ Crash PROVE WriteInv'
  BY <1>2, EndRunWrite DEF RefuseBefore, RefuseConcurrentEdit, CheckAfter, Crash
<1>3. ASSUME ReadRows PROVE WriteInv'
  <2>1. PICK new \in SUBSET (Keys \ existing) :
          layout' = Layout(Collect(rows, new, today), rows, today)
    BY <1>3 DEF ReadRows
  <2>2. LaidOut'
    BY <1>3, <2>1 DEF ReadRows, LaidOut
  <2> QED BY <1>3, <2>2 DEF ReadRows, WriteInv
<1>4. ASSUME UNCHANGED <<snap, layout, today>>, LaidOut PROVE LaidOut'
  BY <1>4 DEF LaidOut
<1>5. ASSUME RereadRows PROVE WriteInv'
  BY <1>4, <1>5 DEF RereadRows, locals, WriteInv
<1>6. ASSUME WriteRows PROVE WriteInv'
  BY <1>4, <1>6 DEF WriteRows, locals, WriteInv
<1>7. ASSUME ClearTail PROVE WriteInv'
  <2>1. /\ layout \in Seq(RowType) /\ Len(layout) \in Nat
        /\ snap \in Seq(RowType) /\ Len(snap) \in Nat
    BY LenProperties DEF TypeInv, TypeOK
  <2>2. SubSeq(snap, Len(layout) + 1, Len(snap)) \in Seq(RowType)
    BY <2>1, SubSeqProperties, ElementOfSeq
  <2>3. ~ touched => rows' = layout
    BY <1>7, <2>1, <2>2, Cleared DEF ClearTail, WriteInv
  <2> QED BY <1>4, <1>7, <2>3 DEF ClearTail, locals, WriteInv
<1>8. ASSUME Midnight PROVE WriteInv'
  BY <1>4, <1>8 DEF Midnight, Disturb, locals, WriteInv
<1>9. ASSUME Edit PROVE WriteInv'
  BY <1>0, <1>4, <1>9 DEF Edit, Disturb, locals, WriteInv
<1>10. ASSUME NEW i \in DOMAIN rows,
              \/ EditCell(i) \/ EditHead(i) \/ DeleteRow(i)
              \/ \E j \in DOMAIN rows : MoveRow(i, j) \/ CopyRow(i, j)
       PROVE  WriteInv'
  BY <1>9, <1>10 DEF EditCell, EditHead, DeleteRow, MoveRow, CopyRow, Shift
<1>11. CASE UNCHANGED vars
  BY <1>4, <1>11 DEF vars, locals, WriteInv
<1> QED BY <1>1, <1>2, <1>3, <1>5, <1>6, <1>7, <1>8, <1>10, <1>11
        DEF Next, RunStep, Disturbance

\* What a complete rebuild has made of what it read.
LEMMA RebuiltRows ==
  ASSUME TypeInv, WriteInv, pc = "check", ~ touched, snap # <<>>
  PROVE  /\ today \in Days /\ snap \in Seq(Upto(today)) /\ rows \in Seq(Upto(today))
         /\ \E new \in SUBSET Keys :
              rows = Layout(Collect(snap, new, today), snap, today)
BY DEF TypeInv, TypeOK, WriteInv, LaidOut

\* A laid out group is found again as it was given, but for its numbers.
LEMMA GroupLaidOut ==
  ASSUME NEW d \in Days, NEW groups, GroupsOf(groups, d), NEW s, NEW k \in DOMAIN groups
  PROVE  /\ Group(Layout(groups, s, d), k) = WithHead(groups[k])
         /\ IsBlock(Layout(groups, s, d), k, WithHead(groups[k]))
<1> DEFINE l == Layout(groups, s, d)
           g == WithHead(groups[k])
<1>1. k \in Keys /\ groups[k] \in Seq(RowsOf(k, d)) /\ groups[k] # <<>>
  BY DEF GroupsOf
<1>2. g \in Seq(RowsOf(k, d))
  BY <1>1, WithHeadType
<1>3. l \in Seq(Upto(d)) /\ Holds(l, g, NotOf(k))
  BY LayoutProperties
<1>4. l \in Seq(RowType)
  BY <1>3, UptoGrows, RebuildAssumption DEF Days
<1> HIDE DEF l, g
<1>5. Group(l, k) = g /\ IsBlock(l, k, g)
  BY <1>1, <1>2, <1>3, <1>4, GroupOfBlock
<1> QED BY <1>2, <1>5 DEF l, g

\* A complete rebuild loses no row of an order it keeps and none of the cells
\* filled in it, whatever rows it has read: collect_order_groups brings the rows of
\* an order together again in the order they stood in, and build_sheet_snapshot
\* writes each group once, because it has every day from the first one to today.
THEOREM KeptRowsCorrect == Spec => []KeptRowsSurvive
<1>1. TypeInv /\ WriteInv => KeptRowsSurvive
  <2> SUFFICES ASSUME TypeInv, WriteInv, pc = "check", ~ touched, snap # <<>>,
                      NEW k \in KeysOf(snap) \ ToBeRemoved(snap)
               PROVE  /\ Lines(Group(snap, k)) = Lines(Group(rows, k))
                      /\ \A i \in DOMAIN Group(snap, k) :
                           /\ Group(snap, k)[i].filled = Group(rows, k)[i].filled
                           /\ Group(snap, k)[i].code = Group(rows, k)[i].code
    BY DEF KeptRowsSurvive
  <2>1. /\ today \in Days /\ snap \in Seq(Upto(today))
        /\ \E new \in SUBSET Keys :
             rows = Layout(Collect(snap, new, today), snap, today)
    BY RebuiltRows
  <2>2. PICK new \in SUBSET Keys : rows = Layout(Collect(snap, new, today), snap, today)
    BY <2>1
  <2> DEFINE groups == Collect(snap, new, today)
             g == groups[k]
  <2>3. GroupsOf(groups, today) /\ k \in DOMAIN groups /\ g = Group(snap, k)
    <3>1. /\ GroupsOf(groups, today)
          /\ DOMAIN groups = (KeysOf(snap) \ ToBeRemoved(snap)) \cup new
          /\ \A l \in KeysOf(snap) \ ToBeRemoved(snap) : groups[l] = Group(snap, l)
      BY <2>1, CollectType
    <3> HIDE DEF groups
    <3> QED BY <3>1
  <2>4. Group(rows, k) = WithHead(g)
    BY <2>1, <2>2, <2>3, GroupLaidOut
  <2>5. k \in Keys /\ g \in Seq(RowsOf(k, today)) /\ g # <<>>
    BY <2>3 DEF GroupsOf
  <2> HIDE DEF g
  <2>6. /\ DOMAIN WithHead(g) = DOMAIN g
        /\ \A i \in DOMAIN g : /\ WithHead(g)[i].product = g[i].product
                               /\ WithHead(g)[i].code = g[i].code
                               /\ WithHead(g)[i].filled = g[i].filled
    <3>1. DOMAIN g = 1 .. Len(g)
      BY <2>5, LenProperties
    <3>2. DOMAIN WithHead(g) = DOMAIN g
      BY DEF WithHead
    <3> QED BY <2>1, <2>5, <3>1, <3>2, WithHeadType
  <2>7. Lines(g) = Lines(WithHead(g))
    BY <2>6 DEF Lines
  <2> QED BY <2>3, <2>4, <2>6, <2>7
<1>2. Spec => [](TypeInv /\ WriteInv)
  BY TypeInit, TypeStep, WriteInit, WriteStep, PTL DEF Spec
<1> QED BY <1>1, <1>2, PTL

-----------------------------------------------------------------------------
(* What the integrity check accepts.                                       *)

LEMMA LeastOf ==
  ASSUME NEW P \in SUBSET Nat, P # {}
  PROVE  Min(P) \in P /\ \A i \in P : Min(P) <= i
BY HasLeast DEF Min

\* The first row of a group is the first of its rows.
LEMMA FirstOfGroup ==
  ASSUME NEW S, NEW s \in Seq(S), NEW k, Places(s, k) # {}
  PROVE  Group(s, k)[1] = s[Min(Places(s, k))] /\ Min(Places(s, k)) \in Places(s, k)
<1> DEFINE P == Places(s, k)
           m == Min(P)
<1>1. IsFiniteSet(P) /\ P \in SUBSET Nat
  BY PlacesAreFinite
<1>2. m \in P /\ \A i \in P : m <= i
  <2>1. P # {}
    OBVIOUS
  <2> HIDE DEF P
  <2> QED BY <1>1, <2>1, LeastOf
<1>3. {j \in P : j <= m} = {m}
  <2> HIDE DEF P, m
  <2>1. m \in Nat /\ \A j \in P : j \in Nat
    BY <1>1, <1>2
  <2>2. \A j \in P : j <= m => j = m
    BY <1>2, <2>1
  <2>3. m <= m
    BY <2>1
  <2> QED BY <1>2, <2>2, <2>3
<1>4. CountUpTo(P, m) = 1
  BY <1>3, FS_Singleton DEF CountUpTo
<1>5. Group(s, k)[CountUpTo(P, m)] = s[m]
  BY <1>2, GroupElements
<1> QED BY <1>2, <1>4, <1>5

\* Different places of a group are different rows.
LEMMA GroupIsOneToOne ==
  ASSUME NEW S, NEW s \in Seq(S), NEW k,
         \A i, j \in Places(s, k) : s[i].product = s[j].product => i = j,
         NEW m \in 1 .. Len(Group(s, k)), NEW n \in 1 .. Len(Group(s, k)),
         Group(s, k)[m].product = Group(s, k)[n].product
  PROVE  m = n
<1> DEFINE P == Places(s, k)
<1>1. IsFiniteSet(P) /\ P \subseteq Nat /\ Len(Group(s, k)) = Cardinality(P)
  BY PlacesAreFinite, GroupElements
<1>2. /\ Nth(P, m) \in P /\ CountUpTo(P, Nth(P, m)) = m
      /\ Nth(P, n) \in P /\ CountUpTo(P, Nth(P, n)) = n
  <2> HIDE DEF P
  <2> QED BY <1>1, NthIsThere
<1>3. Group(s, k)[m] = s[Nth(P, m)] /\ Group(s, k)[n] = s[Nth(P, n)]
  BY <1>1 DEF Group, Selected
<1> QED BY <1>2, <1>3

\* What of a group makes its block pass the check.
SoundGroup(g) ==
  /\ g[1].head = "own"
  /\ \A i, j \in 1 .. Len(g) : g[i].product = g[j].product => i = j

LEMMA SoundGroupIsSoundBlock ==
  ASSUME NEW d \in Days, NEW groups, GroupsOf(groups, d), NEW s, NEW k \in DOMAIN groups,
         SoundGroup(groups[k])
  PROVE  SoundBlock(Layout(groups, s, d), k)
<1> DEFINE l == Layout(groups, s, d)
           g == groups[k]
           h == WithHead(g)
<1>0. k \in Keys /\ g \in Seq(RowsOf(k, d)) /\ g # <<>>
  BY DEF GroupsOf
<1>1. Len(g) \in Nat /\ Len(g) # 0
  BY <1>0, GroupProperties
<1>2. \A i \in 1 .. Len(g) : /\ h[i].product = g[i].product
                             /\ h[i].head = IF i = 1 THEN g[1].head ELSE "none"
  BY <1>0, WithHeadType
<1>3. PICK a \in Nat : /\ Places(l, k) = a + 1 .. a + Len(g)
                       /\ \A i \in 1 .. Len(g) : l[a + i] = h[i]
  <2>1. IsBlock(l, k, h)
    BY GroupLaidOut
  <2>2. Len(h) = Len(g)
    BY <1>0, WithHeadType
  <2> HIDE DEF l, g, h
  <2> QED BY <2>1, <2>2 DEF IsBlock
<1>4. SoundGroup(g)
  OBVIOUS
<1> HIDE DEF l, g, h
<1>5. Min(Places(l, k)) = a + 1 /\ Max(Places(l, k)) = a + Len(g)
  BY <1>1, <1>3 DEF Min, Max
<1>6. \A i \in Places(l, k) : i - a \in 1 .. Len(g) /\ l[i] = h[i - a]
  <2>1. \A i \in a + 1 .. a + Len(g) : i - a \in 1 .. Len(g) /\ a + (i - a) = i
    BY <1>1
  <2> QED BY <1>3, <2>1
<1>7. Heads(l, k) = {a + 1}
  <2>1. a + 1 \in Places(l, k) /\ a + 1 - a = 1
    BY <1>1, <1>3
  <2>2. l[a + 1].head # "none"
    BY <1>1, <1>2, <1>4, <1>6, <2>1 DEF SoundGroup
  <2>3. ASSUME NEW i \in Places(l, k), l[i].head # "none" PROVE i = a + 1
    <3>1. i - a \in 1 .. Len(g) /\ h[i - a].head # "none"
      BY <1>6, <2>3
    <3>2. i - a = 1
      BY <1>2, <3>1
    <3>3. i \in Nat
      BY <1>1, <1>3
    <3> QED BY <3>2, <3>3
  <2> QED BY <2>1, <2>2, <2>3 DEF Heads
<1>8. l[a + 1].head = "own"
  BY <1>1, <1>2, <1>3, <1>4 DEF SoundGroup
<1>9. ASSUME NEW i \in Places(l, k), NEW j \in Places(l, k), l[i].product = l[j].product
      PROVE  i = j
  <2>1. /\ i - a \in 1 .. Len(g) /\ j - a \in 1 .. Len(g)
        /\ h[i - a].product = h[j - a].product
    BY <1>6, <1>9
  <2>2. i - a = j - a
    BY <1>2, <1>4, <2>1 DEF SoundGroup
  <2>3. i \in Nat /\ j \in Nat
    BY <1>1, <1>3
  <2> QED BY <2>2, <2>3
<1>10. SoundBlock(l, k)
  BY <1>3, <1>5, <1>7, <1>8, <1>9 DEF SoundBlock
<1> QED BY <1>10 DEF l

LEMMA SoundBlockIsSoundGroup ==
  ASSUME NEW S, NEW s \in Seq(S), NEW k, Places(s, k) # {}, SoundBlock(s, k)
  PROVE  SoundGroup(Group(s, k))
<1>1. Group(s, k)[1].head = "own"
  BY FirstOfGroup DEF SoundBlock
<1>2. \A i, j \in Places(s, k) : s[i].product = s[j].product => i = j
  BY DEF SoundBlock
<1>3. \A i, j \in 1 .. Len(Group(s, k)) :
        Group(s, k)[i].product = Group(s, k)[j].product => i = j
  BY <1>2, GroupIsOneToOne
<1> QED BY <1>1, <1>3 DEF SoundGroup

LEMMA NewGroupIsSound ==
  ASSUME NEW k \in Keys, ListsProductsOnce(k), NEW d \in Days
  PROVE  SoundGroup(NewGroup(k, d))
<1>1. /\ Len(NewGroup(k, d)) = Len(Items[k])
      /\ \A i \in 1 .. Len(Items[k]) :
           NewGroup(k, d)[i].product = Items[k][i] /\ NewGroup(k, d)[i].head = "own"
  BY NewGroupType
<1>2. Len(Items[k]) \in Nat /\ Len(Items[k]) # 0 /\ DOMAIN Items[k] = 1 .. Len(Items[k])
  BY ItemsProperties
<1>3. NewGroup(k, d)[1].head = "own"
  BY <1>1, <1>2
<1> QED BY <1>1, <1>2, <1>3 DEF SoundGroup, ListsProductsOnce

\* What is not laid out has no row in the layout.
LEMMA OnlyGroupsLaidOut ==
  ASSUME NEW d \in Days, NEW groups, GroupsOf(groups, d), NEW s, NEW k \in Keys,
         Places(Layout(groups, s, d), k) # {}
  PROVE  k \in DOMAIN groups
<1> SUFFICES ASSUME k \notin DOMAIN groups PROVE FALSE
  OBVIOUS
<1> DEFINE l == Layout(groups, s, d)
<1>1. l \in Seq(NotOf(k))
  BY LayoutProperties
<1> HIDE DEF l
<1>2. \A i \in DOMAIN l : l[i].key # k
  <2>1. DOMAIN l = 1 .. Len(l)
    BY <1>1, LenProperties
  <2>2. \A i \in 1 .. Len(l) : l[i] \in NotOf(k)
    BY <1>1, ElementOfSeq
  <2> QED BY <2>1, <2>2 DEF NotOf
<1>3. Places(l, k) = {}
  BY <1>2 DEF Places
<1> QED BY <1>3 DEF l

\* A complete rebuild leaves what validate_integrity accepts: each order it keeps, if
\* the rows it was read from were accepted, and each new one that lists no product
\* twice, is one block, its number in its first row only and no product in it twice.
THEOREM RebuildSound == Spec => []RebuildStaysSound
<1>1. TypeInv /\ WriteInv => RebuildStaysSound
  <2> SUFFICES ASSUME TypeInv, WriteInv, pc = "check", ~ touched, snap # <<>>,
                      NEW k \in KeysOf(rows),
                      IF k \in KeysOf(snap) \ ToBeRemoved(snap) THEN SoundBlock(snap, k)
                      ELSE ListsProductsOnce(k)
               PROVE  SoundBlock(rows, k)
    BY DEF RebuildStaysSound
  <2>1. /\ today \in Days /\ snap \in Seq(Upto(today))
        /\ \E new \in SUBSET Keys :
             rows = Layout(Collect(snap, new, today), snap, today)
    BY RebuiltRows
  <2>2. PICK new \in SUBSET Keys : rows = Layout(Collect(snap, new, today), snap, today)
    BY <2>1
  <2> DEFINE groups == Collect(snap, new, today)
  <2>3. /\ GroupsOf(groups, today)
        /\ DOMAIN groups = (KeysOf(snap) \ ToBeRemoved(snap)) \cup new
        /\ \A l \in KeysOf(snap) \ ToBeRemoved(snap) : groups[l] = Group(snap, l)
        /\ \A l \in new : \/ groups[l] = NewGroup(l, today)
                          \/ l \in KeysOf(snap) /\ groups[l] = Group(snap, l)
    BY <2>1, CollectType
  <2> HIDE DEF groups
  <2>4. k \in Keys /\ Places(rows, k) # {}
    BY DEF KeysOf
  <2>5. k \in DOMAIN groups
    BY <2>1, <2>2, <2>3, <2>4, OnlyGroupsLaidOut DEF groups
  <2>6. SoundGroup(groups[k])
    <3>1. CASE k \in KeysOf(snap) \ ToBeRemoved(snap)
      <4>1. Places(snap, k) # {} /\ SoundBlock(snap, k) /\ groups[k] = Group(snap, k)
        BY <2>3, <3>1 DEF KeysOf
      <4> QED BY <2>1, <4>1, SoundBlockIsSoundGroup
    <3>2. CASE k \notin KeysOf(snap) \ ToBeRemoved(snap)
      <4>1. groups[k] = NewGroup(k, today)
        BY <2>3, <2>5, <3>2 DEF Collect, groups
      <4> QED BY <2>1, <2>4, <3>2, <4>1, NewGroupIsSound
    <3> QED BY <3>1, <3>2
  <2>7. SoundBlock(Layout(groups, snap, today), k)
    BY <2>1, <2>3, <2>5, <2>6, SoundGroupIsSoundBlock
  <2> QED BY <2>2, <2>7 DEF groups
<1>2. Spec => [](TypeInv /\ WriteInv)
  BY TypeInit, TypeStep, WriteInit, WriteStep, PTL DEF Spec
<1> QED BY <1>1, <1>2, PTL

-----------------------------------------------------------------------------
(* The rates.                                                              *)

\* A layout has the rate of each day that was read with one row and a rate.
LEMMA RateLaidOut ==
  ASSUME TypeInv, pc # "idle", LaidOut, NEW e \in Days, RateFilled(snap, e),
         ~ (Cardinality(DayRowsOf(snap, e)) > 1)
  PROVE  RateFilled(layout, e)
<1>1. /\ today \in Days /\ snap \in Seq(Upto(today)) /\ DOMAIN snap = 1 .. Len(snap)
      /\ Len(snap) \in Nat /\ \A i \in 1 .. Len(snap) : snap[i] \in Upto(today)
  BY LenProperties, ElementOfSeq DEF TypeInv, TypeOK
<1>2. PICK i \in DayRowsOf(snap, e) : snap[i].filled
  BY DEF RateFilled
<1>3. DayRowsOf(snap, e) = {i}
  <2> DEFINE D == DayRowsOf(snap, e)
  <2>1. IsFiniteSet(1 .. Len(snap)) /\ D \subseteq 1 .. Len(snap)
    BY <1>1, FS_Interval DEF DayRowsOf
  <2>2. IsFiniteSet(D) /\ IsFiniteSet(D \ {i})
    BY <2>1, FS_Subset
  <2>3. i \in D /\ ~ (Cardinality(D) > 1)
    BY <1>2
  <2> HIDE DEF D
  <2>4. /\ Cardinality(D \ {i}) = Cardinality(D) - 1
        /\ Cardinality(D) \in Nat /\ Cardinality(D \ {i}) \in Nat
    BY <2>2, <2>3, FS_RemoveElement, FS_CardinalityType
  <2>5. Cardinality(D \ {i}) = 0
    BY <2>3, <2>4
  <2>6. D \ {i} = {}
    BY <2>2, <2>5, FS_EmptySet
  <2>7. D = {i}
    BY <2>3, <2>6
  <2> QED BY <2>7 DEF D
<1>4. RateOf(snap, e) = TRUE
  BY <1>2, <1>3 DEF RateOf
<1>5. e \in LayoutDays(snap) /\ e <= today
  <2>1. snap[i].day = e /\ i \in 1 .. Len(snap)
    BY <1>1, <1>2 DEF DayRowsOf
  <2>2. snap[i] \in Upto(today)
    BY <1>1, <2>1
  <2> QED BY <1>2, <2>1, <2>2 DEF LayoutDays, Upto
<1>6. PICK new \in SUBSET Keys : layout = Layout(Collect(snap, new, today), snap, today)
  BY DEF LaidOut
<1>7. GroupsOf(Collect(snap, new, today), today)
  BY <1>1, CollectType
<1>8. Holds(layout, <<DayRow(e, TRUE)>>, RowType)
  BY <1>1, <1>4, <1>5, <1>6, <1>7, FirstDayProperties, LayoutProperties
<1>9. PICK a \in Nat : a + 1 <= Len(layout) /\ layout[a + 1] = DayRow(e, TRUE)
  <2>1. Len(<<DayRow(e, TRUE)>>) = 1 /\ <<DayRow(e, TRUE)>>[1] = DayRow(e, TRUE)
    OBVIOUS
  <2>2. 1 \in 1 .. 1
    OBVIOUS
  <2> QED BY <1>8, <2>1, <2>2 DEF Holds
<1>10. a + 1 \in DOMAIN layout
  BY <1>9, LenProperties DEF TypeInv, TypeOK
<1>11. a + 1 \in DayRowsOf(layout, e) /\ layout[a + 1].filled
  BY <1>9, <1>10 DEF DayRowsOf, DayRow
<1> QED BY <1>11 DEF RateFilled

\* What stands in the first of two sequences stands in both together.
LEMMA RateInConcat ==
  ASSUME NEW s \in Seq(RowType), NEW t \in Seq(RowType), NEW e
  PROVE  /\ RateFilled(s, e) => RateFilled(s \o t, e)
         /\ RateFilled(s \o t, e) => RateFilled(s, e) \/ RateFilled(t, e)
<1>1. /\ s \o t \in Seq(RowType) /\ Len(s \o t) = Len(s) + Len(t)
      /\ Len(s) \in Nat /\ Len(t) \in Nat
      /\ DOMAIN s = 1 .. Len(s) /\ DOMAIN t = 1 .. Len(t)
      /\ DOMAIN (s \o t) = 1 .. Len(s \o t)
      /\ \A i \in 1 .. Len(s) + Len(t) :
           (s \o t)[i] = IF i <= Len(s) THEN s[i] ELSE t[i - Len(s)]
  BY ConcatProperties, LenProperties
<1>2. ASSUME NEW i \in DayRowsOf(s, e), s[i].filled PROVE RateFilled(s \o t, e)
  <2>1. i \in 1 .. Len(s) /\ i \in DOMAIN (s \o t) /\ (s \o t)[i] = s[i]
    BY <1>1 DEF DayRowsOf
  <2>2. i \in DayRowsOf(s \o t, e)
    BY <2>1 DEF DayRowsOf
  <2> QED BY <1>2, <2>1, <2>2 DEF RateFilled
<1>3. ASSUME NEW i \in DayRowsOf(s \o t, e), (s \o t)[i].filled
      PROVE  RateFilled(s, e) \/ RateFilled(t, e)
  <2>1. i \in 1 .. Len(s) + Len(t)
    BY <1>1 DEF DayRowsOf
  <2>2. CASE i <= Len(s)
    <3>1. i \in DOMAIN s /\ (s \o t)[i] = s[i]
      BY <1>1, <2>1, <2>2
    <3>2. i \in DayRowsOf(s, e)
      BY <3>1 DEF DayRowsOf
    <3> QED BY <1>3, <3>1, <3>2 DEF RateFilled
  <2>3. CASE ~ (i <= Len(s))
    <3>1. i - Len(s) \in DOMAIN t /\ (s \o t)[i] = t[i - Len(s)]
      BY <1>1, <2>1, <2>3
    <3>2. i - Len(s) \in DayRowsOf(t, e)
      BY <3>1 DEF DayRowsOf
    <3> QED BY <1>3, <3>1, <3>2 DEF RateFilled
  <2> QED BY <2>2, <2>3
<1> QED BY <1>2, <1>3 DEF RateFilled

LEMMA RateInTail ==
  ASSUME NEW s \in Seq(RowType), NEW m \in Nat, NEW e,
         RateFilled(SubSeq(s, m + 1, Len(s)), e)
  PROVE  SubSeq(s, m + 1, Len(s)) \in Seq(RowType) /\ RateFilled(s, e)
<1> DEFINE t == SubSeq(s, m + 1, Len(s))
<1>1. Len(s) \in Nat /\ DOMAIN s = 1 .. Len(s) /\ \A i \in 1 .. Len(s) : s[i] \in RowType
  BY LenProperties, ElementOfSeq
<1>2. /\ t \in Seq(RowType)
      /\ Len(t) = IF m + 1 <= Len(s) THEN Len(s) - (m + 1) + 1 ELSE 0
      /\ \A i \in 1 .. Len(s) - (m + 1) + 1 : t[i] = s[(m + 1) + i - 1]
  BY <1>1, SubSeqProperties
<1>3. PICK i \in DayRowsOf(t, e) : t[i].filled
  BY DEF RateFilled
<1> HIDE DEF t
<1>4. i \in 1 .. Len(t)
  BY <1>2, <1>3, LenProperties DEF DayRowsOf
<1>5. m + i \in 1 .. Len(s) /\ t[i] = s[m + i]
  <2>1. m + 1 <= Len(s) /\ i \in 1 .. Len(s) - (m + 1) + 1
    <3>1. CASE m + 1 <= Len(s)
      <4>1. Len(t) = Len(s) - (m + 1) + 1
        BY <1>2, <3>1
      <4> QED BY <1>4, <3>1, <4>1
    <3>2. CASE ~ (m + 1 <= Len(s))
      <4>1. Len(t) = 0
        BY <1>2, <3>2
      <4> QED BY <1>4, <4>1
    <3> QED BY <3>1, <3>2
  <2>2. i \in Nat /\ (m + 1) + i - 1 = m + i
    BY <2>1
  <2>3. t[i] = s[m + i]
    BY <1>2, <2>1, <2>2
  <2> QED BY <1>1, <2>1, <2>2, <2>3
<1>6. m + i \in DayRowsOf(s, e)
  BY <1>1, <1>3, <1>5 DEF DayRowsOf
<1> QED BY <1>2, <1>3, <1>5, <1>6 DEF RateFilled, t

\* Writing a code or a refusal fills and empties no rate.
LEMMA RatesInCells ==
  ASSUME TypeInv, WriteDetails \/ WriteUpdates, NEW e
  PROVE  RateFilled(rows, e) => RateFilled(rows', e)
<1>1. \A i \in DOMAIN rows : rows[i] \in RowType
  BY LenProperties, ElementOfSeq DEF TypeInv, TypeOK
<1>2. DOMAIN rows' = DOMAIN rows
  BY DEF WriteDetails, WriteUpdates
<1>3. ASSUME NEW i \in DOMAIN rows
      PROVE  /\ rows'[i].kind = rows[i].kind /\ rows'[i].day = rows[i].day
             /\ rows'[i].filled = rows[i].filled
  <2>1. rows[i] \in RowType
    BY <1>1
  <2> QED BY <2>1 DEF WriteDetails, WriteUpdates, RowType
<1>4. DayRowsOf(rows', e) = DayRowsOf(rows, e)
  BY <1>2, <1>3 DEF DayRowsOf
<1> QED BY <1>3, <1>4 DEF RateFilled, DayRowsOf

\* The dollar rate of a day, once entered, is lost only by the manager's hand as
\* long as the day stands once in the rows the run has read: the layout starts
\* with the first day they have, orders or not, and takes the rate from the only
\* row of each (_extract_daily_usd_rate_values, build_sheet_snapshot).
THEOREM RatesKeptCorrect == Spec => RatesKept
<1>1. TypeInv /\ WriteInv /\ [Next]_vars =>
        [\A d \in Days :
           RateFilled(rows, d) /\ ~ RateFilled(rows', d) =>
             \/ disturbances' # disturbances \/ touched
             \/ Cardinality(DayRowsOf(snap, d)) > 1]_vars
  <2> SUFFICES ASSUME TypeInv, WriteInv, [Next]_vars, NEW e \in Days,
                      RateFilled(rows, e), disturbances' = disturbances, ~ touched,
                      ~ (Cardinality(DayRowsOf(snap, e)) > 1)
               PROVE  RateFilled(rows', e)
    OBVIOUS
  <2>1. CASE WriteRows
    <3>1. /\ pc = "write" /\ rows = snap /\ LaidOut
          /\ rows' = layout \o SubSeq(rows, Len(layout) + 1, Len(rows))
      BY <2>1 DEF WriteRows, WriteInv
    <3>2. RateFilled(layout, e)
      BY <3>1, RateLaidOut
    <3>3. rows \in Seq(RowType) /\ layout \in Seq(RowType) /\ Len(rows) \in Nat
          /\ Len(layout) \in Nat
      BY LenProperties DEF TypeInv, TypeOK
    <3>4. SubSeq(rows, Len(layout) + 1, Len(rows)) \in Seq(RowType)
      BY <3>3, SubSeqProperties, ElementOfSeq
    <3> QED BY <3>1, <3>2, <3>3, <3>4, RateInConcat
  <2>2. CASE ClearTail
    <3> DEFINE tail == SubSeq(snap, Len(layout) + 1, Len(snap))
    <3>1. /\ snap \in Seq(RowType) /\ layout \in Seq(RowType) /\ Len(snap) \in Nat
          /\ Len(layout) \in Nat
      BY LenProperties DEF TypeInv, TypeOK
    <3>2. tail \in Seq(RowType)
      BY <3>1, SubSeqProperties, ElementOfSeq
    <3>3. /\ pc = "clear" /\ rows = layout \o tail /\ LaidOut
          /\ rows' = SubSeq(rows, 1, Min({Len(rows), Len(layout)}))
      BY <2>2 DEF ClearTail, WriteInv
    <3>4. rows' = layout
      BY <3>1, <3>2, <3>3, Cleared
    <3>5. RateFilled(layout, e) \/ RateFilled(tail, e)
      BY <3>1, <3>2, <3>3, RateInConcat
    <3>6. RateFilled(tail, e) => RateFilled(snap, e)
      BY <3>1, RateInTail
    <3>7. RateFilled(snap, e) => RateFilled(layout, e)
      BY <3>3, RateLaidOut
    <3> QED BY <3>4, <3>5, <3>6, <3>7
  <2>3. CASE WriteDetails \/ WriteUpdates
    BY <2>3, RatesInCells
  <2>4. CASE Disturbance
    <3>1. Disturb
      BY <2>4 DEF Disturbance, Midnight, EditCell, EditHead, DeleteRow, MoveRow, CopyRow,
                  Shift, Edit
    <3>2. disturbances' # disturbances
      BY <3>1 DEF Disturb, TypeInv, TypeOK
    <3> QED BY <3>2
  <2>5. CASE rows' = rows
    BY <2>5
  <2> QED BY <2>1, <2>2, <2>3, <2>4, <2>5
          DEF Next, RunStep, vars, Start, CheckBefore, RefuseBefore, PlanDetails,
              PlanUpdates, SkipRebuild, ReadRows, RereadRows, RefuseConcurrentEdit,
              CheckAfter, Crash
<1>2. Spec => [](TypeInv /\ WriteInv)
  BY TypeInit, TypeStep, WriteInit, WriteStep, PTL DEF Spec
<1> QED BY <1>1, <1>2, PTL DEF Spec, RatesKept

-----------------------------------------------------------------------------
(* Whole orders.                                                           *)

LEMMA LinesAreItems ==
  ASSUME NEW S, NEW g \in Seq(S), NEW k \in Keys, Len(g) = Len(Items[k]),
         \A i \in 1 .. Len(Items[k]) : g[i].product = Items[k][i]
  PROVE  Lines(g) = Items[k]
<1>1. DOMAIN g = 1 .. Len(Items[k])
  BY LenProperties
<1>2. Items[k] = [i \in 1 .. Len(Items[k]) |-> Items[k][i]]
  BY RebuildAssumption, LenProperties
<1>3. Lines(g) = [i \in 1 .. Len(Items[k]) |-> Items[k][i]]
  BY <1>1 DEF Lines
<1> QED BY <1>2, <1>3

\* An accepted block that follows a number has the lines of the order, because each
\* of its rows is one of them and none is there twice.
LEMMA SoundIsWhole ==
  ASSUME NEW s \in Seq(RowType), HeadsLead(s), Sound(s)
  PROVE  Whole(s)
<1> SUFFICES ASSUME NEW k \in KeysOf(s) PROVE Lines(Group(s, k)) = Items[k]
  BY DEF Whole
<1> DEFINE P == Places(s, k)
           m == Min(P)
           n == Len(Items[k])
<1>1. /\ k \in Keys /\ P # {} /\ SoundBlock(s, k) /\ k # NoKey
      /\ DOMAIN s = 1 .. Len(s) /\ Len(s) \in Nat
      /\ \A i \in 1 .. Len(s) : s[i] \in RowType
  BY LenProperties, ElementOfSeq, RebuildAssumption DEF KeysOf, Sound, NoKey
<1>2. n \in Nat /\ n # 0 /\ DOMAIN Items[k] = 1 .. n
  BY <1>1, ItemsProperties
<1>3. /\ m \in P /\ P \in SUBSET Nat /\ s[m].head = "own"
      /\ \A i, j \in P : s[i].product = s[j].product => i = j
  <2>1. m \in P /\ P \in SUBSET Nat
    BY <1>1, FirstOfGroup, PlacesAreFinite
  <2> QED BY <1>1, <2>1 DEF SoundBlock
<1>4. \A i \in P : i \in 1 .. Len(s) /\ IsOrderRow(s[i]) /\ s[i].key = k
  BY <1>1 DEF Places
<1> HIDE DEF m, n
<1>5. ASSUME NEW j \in 1 .. n PROVE m + j - 1 \in P /\ s[m + j - 1].product = Items[k][j]
  <2>1. /\ m + j - 1 \in DOMAIN s
        /\ s[m + j - 1].key = k /\ s[m + j - 1].product = Items[k][j]
    <3>1. /\ m \in DOMAIN s /\ IsOrderRow(s[m]) /\ s[m].head = "own" /\ s[m].key = k
          /\ j \in DOMAIN Items[k]
      BY <1>1, <1>2, <1>3, <1>4
    <3> HIDE DEF P
    <3>2. HeadsLead(s)
      OBVIOUS
    <3> QED BY <3>1, <3>2 DEF HeadsLead
  <2>2. s[m + j - 1] \in RowType
    BY <1>1, <2>1
  <2>3. IsOrderRow(s[m + j - 1])
    BY <1>1, <2>1, <2>2 DEF RowType
  <2> QED BY <2>1, <2>3 DEF Places
<1>6. ASSUME NEW i \in P PROVE \E j \in 1 .. n : i = m + j - 1
  <2>1. s[i] \in RowType /\ IsOrderRow(s[i]) /\ s[i].key = k
    BY <1>1, <1>4
  <2>2. s[i].product \in Range(Items[k])
    BY <2>1 DEF RowType
  <2>3. PICK j \in 1 .. n : s[i].product = Items[k][j]
    BY <1>2, <2>2 DEF Range
  <2>4. m + j - 1 \in P /\ s[m + j - 1].product = s[i].product
    BY <1>5, <2>3
  <2> QED BY <1>3, <2>4
<1> DEFINE a == m - 1
<1>7. a \in Nat /\ m \in Nat
  BY <1>1, <1>3, <1>4
<1>8. P = a + 1 .. a + n
  <2>1. ASSUME NEW i \in a + 1 .. a + n PROVE i \in P
    <3>1. i - a \in 1 .. n /\ m + (i - a) - 1 = i
      BY <1>2, <1>7
    <3> QED BY <1>5, <3>1
  <2>2. ASSUME NEW i \in P PROVE i \in a + 1 .. a + n
    <3>1. PICK j \in 1 .. n : i = m + j - 1
      BY <1>6
    <3> QED BY <1>2, <1>7, <3>1
  <2> QED BY <2>1, <2>2
<1>9. /\ Cardinality(a + 1 .. a + n) = n
      /\ \A i \in 1 .. n : Nth(a + 1 .. a + n, i) = a + i
  BY <1>2, <1>7, NthOfBlock
<1>10. Group(s, k) = [i \in 1 .. n |-> s[a + i]]
  BY <1>8, <1>9 DEF Group, Selected
<1>11. ASSUME NEW i \in 1 .. n
       PROVE  a + i \in 1 .. Len(s) /\ s[a + i].product = Items[k][i]
  <2>1. a + i = m + i - 1
    BY <1>2, <1>7
  <2> QED BY <1>4, <1>5, <2>1
<1> HIDE DEF a
<1>12. [i \in 1 .. n |-> s[a + i]] \in Seq(RowType)
  BY <1>1, <1>2, <1>11
<1>13. Len(Group(s, k)) = n
  BY <1>2, <1>10
<1>14. \A i \in 1 .. n : Group(s, k)[i].product = Items[k][i]
  BY <1>10, <1>11
<1>15. Group(s, k) \in Seq(RowType)
  BY <1>10, <1>12
<1> QED BY <1>1, <1>13, <1>14, <1>15, LinesAreItems DEF n

LEMMA SimilarGroups ==
  ASSUME NEW s \in Seq(RowType), NEW t, Similar(s, t), NEW k
  PROVE  Places(t, k) = Places(s, k) /\ Lines(Group(t, k)) = Lines(Group(s, k))
<1>1. /\ t \in Seq(RowType) /\ Len(t) = Len(s)
      /\ DOMAIN s = 1 .. Len(s) /\ DOMAIN t = 1 .. Len(s)
  BY LenProperties DEF Similar
<1>2. Places(t, k) = Places(s, k)
  BY <1>1 DEF Places, IsOrderRow, Similar
<1> DEFINE P == Places(s, k)
           n == Cardinality(P)
<1>3. IsFiniteSet(P) /\ P \subseteq Nat /\ P \subseteq 1 .. Len(s)
  BY <1>1, PlacesAreFinite DEF Places
<1>4. \A i \in 1 .. n : Nth(P, i) \in P
  <2> HIDE DEF P
  <2> QED BY <1>3, NthIsThere
<1>5. /\ Group(s, k) = [i \in 1 .. n |-> s[Nth(P, i)]]
      /\ Group(t, k) = [i \in 1 .. n |-> t[Nth(P, i)]]
  BY <1>2 DEF Group, Selected
<1> HIDE DEF P, n
<1>6. \A i \in 1 .. n : t[Nth(P, i)].product = s[Nth(P, i)].product
  BY <1>3, <1>4 DEF Similar
<1>7. /\ Lines(Group(s, k)) = [i \in 1 .. n |-> s[Nth(P, i)].product]
      /\ Lines(Group(t, k)) = [i \in 1 .. n |-> t[Nth(P, i)].product]
  BY <1>5 DEF Lines
<1> QED BY <1>2, <1>6, <1>7

LEMMA SimilarWhole ==
  ASSUME NEW s \in Seq(RowType), NEW t, Similar(s, t), Whole(s)
  PROVE  Whole(t)
BY SimilarGroups DEF Whole, KeysOf

LEMMA SimilarLeads ==
  ASSUME NEW s \in Seq(RowType), NEW t, Similar(s, t), HeadsLead(s)
  PROVE  HeadsLead(t)
<1>1. /\ t \in Seq(RowType) /\ Len(t) = Len(s)
      /\ DOMAIN s = 1 .. Len(s) /\ DOMAIN t = 1 .. Len(s)
  BY LenProperties DEF Similar
<1> SUFFICES ASSUME NEW i \in DOMAIN t, IsOrderRow(t[i]), t[i].head = "own",
                    NEW j \in DOMAIN Items[t[i].key]
             PROVE  /\ i + j - 1 \in DOMAIN t
                    /\ t[i + j - 1].key = t[i].key
                    /\ t[i + j - 1].product = Items[t[i].key][j]
  BY DEF HeadsLead
<1>2. /\ i \in DOMAIN s /\ IsOrderRow(s[i]) /\ s[i].head = "own" /\ s[i].key = t[i].key
  BY <1>1 DEF Similar, IsOrderRow
<1>3. /\ i + j - 1 \in DOMAIN s
      /\ s[i + j - 1].key = s[i].key /\ s[i + j - 1].product = Items[s[i].key][j]
  BY <1>2 DEF HeadsLead
<1> QED BY <1>1, <1>2, <1>3 DEF Similar

\* In a layout of whole orders each number is followed by the lines of its order.
LEMMA LayoutLeads ==
  ASSUME NEW d \in Days, NEW groups, GroupsOf(groups, d), NEW s,
         \A k \in DOMAIN groups : Lines(groups[k]) = Items[k]
  PROVE  HeadsLead(Layout(groups, s, d))
<1> DEFINE l == Layout(groups, s, d)
<1>1. l \in Seq(RowType) /\ DOMAIN l = 1 .. Len(l) /\ \A i \in 1 .. Len(l) : l[i] \in RowType
  <2>1. l \in Seq(Upto(d))
    BY LayoutProperties
  <2>2. Upto(d) \subseteq RowType
    BY DEF Upto
  <2> HIDE DEF l
  <2>3. l \in Seq(RowType)
    BY <2>1, <2>2, SeqMonotonic
  <2> QED BY <2>3, LenProperties, ElementOfSeq
<1> SUFFICES ASSUME NEW i \in DOMAIN l, IsOrderRow(l[i]), l[i].head = "own",
                    NEW j \in DOMAIN Items[l[i].key]
             PROVE  /\ i + j - 1 \in DOMAIN l
                    /\ l[i + j - 1].key = l[i].key
                    /\ l[i + j - 1].product = Items[l[i].key][j]
  BY DEF HeadsLead
<1> DEFINE k == l[i].key
           g == groups[k]
           h == WithHead(g)
<1>2. k \in Keys /\ i \in Places(l, k)
  <2>1. l[i] \in RowType
    BY <1>1
  <2> HIDE DEF l
  <2>2. k \in Keys
    BY <2>1 DEF RowType
  <2> QED BY <2>2 DEF Places
<1>3. k \in DOMAIN groups
  <2> HIDE DEF k
  <2> QED BY <1>2, OnlyGroupsLaidOut
<1>4. g \in Seq(RowsOf(k, d)) /\ g # <<>> /\ Lines(g) = Items[k]
  BY <1>3 DEF GroupsOf
<1>5. IsBlock(l, k, h)
  <2> HIDE DEF k
  <2> QED BY <1>3, GroupLaidOut
<1>6. Len(h) = Len(g) /\ \A n \in 1 .. Len(g) :
           h[n].product = g[n].product /\ h[n].head = IF n = 1 THEN g[1].head ELSE "none"
  <2> HIDE DEF k, g
  <2> QED BY <1>2, <1>4, WithHeadType
<1>7. Len(g) \in Nat /\ DOMAIN g = 1 .. Len(g)
  <2> HIDE DEF k, g
  <2> QED BY <1>4, LenProperties
<1>8. DOMAIN Items[k] = 1 .. Len(g) /\ \A n \in 1 .. Len(g) : Items[k][n] = g[n].product
  <2> HIDE DEF k, g
  <2> QED BY <1>4, <1>7 DEF Lines
<1>9. j \in 1 .. Len(g) /\ l[i].head = "own"
  BY <1>8
<1> HIDE DEF l, k, g, h
<1>10. PICK a \in Nat : /\ Places(l, k) = a + 1 .. a + Len(g)
                        /\ \A n \in 1 .. Len(g) : l[a + n] = h[n]
  BY <1>5, <1>6 DEF IsBlock
<1>11. i = a + 1
  <2>1. i - a \in 1 .. Len(g) /\ a + (i - a) = i
    BY <1>2, <1>7, <1>10
  <2>2. h[i - a].head = "own"
    BY <1>9, <1>10, <2>1
  <2>3. i - a = 1
    BY <1>6, <2>1, <2>2
  <2> QED BY <1>7, <2>1, <2>3
<1>12. i + j - 1 = a + j /\ a + j \in Places(l, k)
  <2>1. j \in Nat /\ a + j \in a + 1 .. a + Len(g)
    BY <1>7, <1>9
  <2>2. i + j - 1 = a + j
    BY <1>11, <2>1
  <2> QED BY <1>10, <2>1, <2>2
<1>13. a + j \in DOMAIN l /\ l[a + j].key = k
  BY <1>12 DEF Places
<1>14. l[a + j].product = Items[k][j]
  BY <1>6, <1>8, <1>9, <1>10
<1> QED BY <1>12, <1>13, <1>14 DEF k, l

\* Rows written over the first rows of a worksheet.
LEMMA Overlay ==
  ASSUME NEW s \in Seq(RowType), NEW t \in Seq(RowType)
  PROVE  LET u == s \o SubSeq(t, Len(s) + 1, Len(t))
         IN  /\ u \in Seq(RowType) /\ Len(u) \in Nat /\ Len(s) \in Nat /\ Len(t) \in Nat
             /\ Len(u) = IF Len(s) < Len(t) THEN Len(t) ELSE Len(s)
             /\ \A i \in 1 .. Len(s) : u[i] = s[i]
             /\ \A i \in 1 .. Len(t) : i > Len(s) => u[i] = t[i]
<1> DEFINE v == SubSeq(t, Len(s) + 1, Len(t))
           u == s \o v
<1>1. Len(s) \in Nat /\ Len(t) \in Nat /\ \A i \in 1 .. Len(t) : t[i] \in RowType
  BY LenProperties, ElementOfSeq
<1>2. /\ v \in Seq(RowType)
      /\ Len(v) = IF Len(s) + 1 <= Len(t) THEN Len(t) - (Len(s) + 1) + 1 ELSE 0
      /\ \A i \in 1 .. Len(t) - (Len(s) + 1) + 1 : v[i] = t[(Len(s) + 1) + i - 1]
  BY <1>1, SubSeqProperties
<1> HIDE DEF v
<1>3. /\ u \in Seq(RowType) /\ Len(u) = Len(s) + Len(v)
      /\ \A i \in 1 .. Len(s) + Len(v) : u[i] = IF i <= Len(s) THEN s[i] ELSE v[i - Len(s)]
  BY <1>2, ConcatProperties
<1> HIDE DEF u
<1>4. Len(v) = IF Len(s) < Len(t) THEN Len(t) - Len(s) ELSE 0
  <2>1. CASE Len(s) < Len(t)
    <3>1. Len(s) + 1 <= Len(t) /\ Len(t) - (Len(s) + 1) + 1 = Len(t) - Len(s)
      BY <1>1, <2>1
    <3> QED BY <1>2, <2>1, <3>1
  <2>2. CASE ~ (Len(s) < Len(t))
    <3>1. ~ (Len(s) + 1 <= Len(t))
      BY <1>1, <2>2
    <3> QED BY <1>2, <2>2, <3>1
  <2> QED BY <2>1, <2>2
<1>5. Len(u) \in Nat /\ Len(u) = IF Len(s) < Len(t) THEN Len(t) ELSE Len(s)
  BY <1>1, <1>3, <1>4
<1>6. \A i \in 1 .. Len(s) : u[i] = s[i]
  BY <1>1, <1>3, <1>4
<1>7. ASSUME NEW i \in 1 .. Len(t), i > Len(s) PROVE u[i] = t[i]
  <2>1. /\ Len(s) < Len(t) /\ i \in 1 .. Len(s) + Len(v) /\ ~ (i <= Len(s))
        /\ i - Len(s) \in 1 .. Len(t) - (Len(s) + 1) + 1
        /\ (Len(s) + 1) + (i - Len(s)) - 1 = i
    BY <1>1, <1>4, <1>7
  <2>2. u[i] = v[i - Len(s)]
    BY <1>3, <2>1
  <2>3. v[i - Len(s)] = t[i]
    BY <1>2, <2>1
  <2> QED BY <2>2, <2>3
<1> QED BY <1>1, <1>3, <1>5, <1>6, <1>7 DEF u, v

\* A torn write: the layout above, what it has not reached below.
LEMMA TornLeads ==
  ASSUME NEW s \in Seq(RowType), NEW t \in Seq(RowType), HeadsLead(s), HeadsLead(t)
  PROVE  HeadsLead(s \o SubSeq(t, Len(s) + 1, Len(t)))
<1> DEFINE u == s \o SubSeq(t, Len(s) + 1, Len(t))
<1>1. /\ u \in Seq(RowType) /\ Len(u) \in Nat /\ Len(s) \in Nat /\ Len(t) \in Nat
      /\ Len(u) = IF Len(s) < Len(t) THEN Len(t) ELSE Len(s)
      /\ \A i \in 1 .. Len(s) : u[i] = s[i]
      /\ \A i \in 1 .. Len(t) : i > Len(s) => u[i] = t[i]
  BY Overlay
<1>2. HeadsLead(s) /\ HeadsLead(t)
  OBVIOUS
<1> HIDE DEF u
<1>3. /\ DOMAIN u = 1 .. Len(u) /\ DOMAIN s = 1 .. Len(s) /\ DOMAIN t = 1 .. Len(t)
      /\ \A i \in 1 .. Len(u) : u[i] \in RowType
  BY <1>1, LenProperties, ElementOfSeq
<1> SUFFICES ASSUME NEW i \in DOMAIN u, IsOrderRow(u[i]), u[i].head = "own",
                    NEW j \in DOMAIN Items[u[i].key]
             PROVE  /\ i + j - 1 \in DOMAIN u
                    /\ u[i + j - 1].key = u[i].key
                    /\ u[i + j - 1].product = Items[u[i].key][j]
  BY DEF HeadsLead, u
<1>4. j \in Nat /\ j # 0 /\ i \in Nat
  <2>1. u[i] \in RowType
    BY <1>3
  <2>2. u[i].key \in Keys
    BY <2>1 DEF RowType
  <2> QED BY <1>1, <1>3, <2>2, ItemsProperties
<1>5. CASE i <= Len(s)
  <2>1. i \in DOMAIN s /\ u[i] = s[i]
    BY <1>1, <1>3, <1>4, <1>5
  <2>2. /\ i + j - 1 \in DOMAIN s
        /\ s[i + j - 1].key = s[i].key /\ s[i + j - 1].product = Items[s[i].key][j]
    BY <1>2, <2>1 DEF HeadsLead
  <2>3. i + j - 1 \in DOMAIN u /\ u[i + j - 1] = s[i + j - 1]
    BY <1>1, <1>3, <2>2
  <2> QED BY <2>1, <2>2, <2>3
<1>6. CASE ~ (i <= Len(s))
  <2>1. i \in DOMAIN t /\ i > Len(s) /\ u[i] = t[i]
    BY <1>1, <1>3, <1>4, <1>6
  <2>2. /\ i + j - 1 \in DOMAIN t
        /\ t[i + j - 1].key = t[i].key /\ t[i + j - 1].product = Items[t[i].key][j]
    BY <1>2, <2>1 DEF HeadsLead
  <2>3. i + j - 1 > Len(s)
    BY <1>1, <1>4, <2>1
  <2>4. i + j - 1 \in DOMAIN u /\ u[i + j - 1] = t[i + j - 1]
    BY <1>1, <1>3, <2>2, <2>3
  <2> QED BY <2>1, <2>2, <2>4
<1> QED BY <1>5, <1>6

\* A cleared write: the layout, but for cells edited since.
LEMMA ClearedLeads ==
  ASSUME NEW s \in Seq(RowType), NEW l \in Seq(RowType), HeadsLead(l),
         Len(s) >= Len(l),
         \A i \in 1 .. Len(l) :
            /\ s[i].kind = l[i].kind /\ s[i].key = l[i].key /\ s[i].product = l[i].product
            /\ s[i].head = "own" => l[i].head = "own"
  PROVE  HeadsLead(SubSeq(s, 1, Min({Len(s), Len(l)})))
<1>1. /\ Len(s) \in Nat /\ Len(l) \in Nat /\ DOMAIN l = 1 .. Len(l)
      /\ \A i \in 1 .. Len(s) : s[i] \in RowType
  BY LenProperties, ElementOfSeq
<1>2. Min({Len(s), Len(l)}) = Len(l)
  BY <1>1, MinOfTwo
<1> DEFINE u == SubSeq(s, 1, Len(l))
<1>3. /\ u \in Seq(RowType) /\ Len(u) = Len(l)
      /\ \A i \in 1 .. Len(l) : u[i] = s[i]
  BY <1>1, SubSeqProperties
<1>4. DOMAIN u = 1 .. Len(l)
  <2> HIDE DEF u
  <2> QED BY <1>3, LenProperties
<1>5. /\ HeadsLead(l)
      /\ \A i \in 1 .. Len(l) :
            /\ s[i].kind = l[i].kind /\ s[i].key = l[i].key /\ s[i].product = l[i].product
            /\ s[i].head = "own" => l[i].head = "own"
  OBVIOUS
<1> HIDE DEF u
<1>6. ASSUME NEW i \in DOMAIN u, IsOrderRow(u[i]), u[i].head = "own",
             NEW j \in DOMAIN Items[u[i].key]
      PROVE  /\ i + j - 1 \in DOMAIN u
             /\ u[i + j - 1].key = u[i].key
             /\ u[i + j - 1].product = Items[u[i].key][j]
  <2>1. /\ i \in DOMAIN l /\ IsOrderRow(l[i]) /\ l[i].head = "own" /\ l[i].key = u[i].key
    BY <1>1, <1>3, <1>4, <1>5, <1>6 DEF IsOrderRow
  <2>2. /\ i + j - 1 \in DOMAIN l
        /\ l[i + j - 1].key = l[i].key /\ l[i + j - 1].product = Items[l[i].key][j]
    BY <1>5, <2>1 DEF HeadsLead
  <2>3. /\ u[i + j - 1].key = l[i + j - 1].key /\ u[i + j - 1].product = l[i + j - 1].product
    BY <1>1, <1>3, <1>5, <2>2
  <2> QED BY <1>1, <1>4, <2>1, <2>2, <2>3
<1>7. HeadsLead(u)
  BY <1>6 DEF HeadsLead
<1> QED BY <1>2, <1>7 DEF u

LEMMA WholeInit == Init => WholeInv
<1> SUFFICES ASSUME Init PROVE WholeInv
  OBVIOUS
<1>1. PICK known \in SUBSET Keys : \E placed \in [known -> 0 .. day] :
         rows = Layout(FirstGroups(placed), <<>>, day)
  BY FirstRows
<1>2. PICK placed \in [known -> 0 .. day] : rows = Layout(FirstGroups(placed), <<>>, day)
  BY <1>1
<1> DEFINE groups == FirstGroups(placed)
<1>3. /\ day \in Days /\ GroupsOf(groups, day) /\ DOMAIN groups = known
      /\ \A k \in known :
           /\ Len(groups[k]) = Len(Items[k])
           /\ \A i \in 1 .. Len(Items[k]) : groups[k][i].product = Items[k][i]
  BY FirstGroupsType DEF Init
<1> HIDE DEF groups
<1>4. \A k \in DOMAIN groups : Lines(groups[k]) = Items[k]
  BY <1>3, LinesAreItems DEF GroupsOf
<1>5. HeadsLead(Layout(groups, <<>>, day))
  BY <1>3, <1>4, LayoutLeads
<1>6. HeadsLead(rows)
  BY <1>2, <1>5 DEF groups
<1> QED BY <1>6 DEF Init, WholeInv

\* The layout of whole orders, read from the worksheet or new.
LEMMA CollectLeads ==
  ASSUME NEW d \in Days, NEW s \in Seq(Upto(d)), NEW new \in SUBSET Keys, Whole(s)
  PROVE  HeadsLead(Layout(Collect(s, new, d), s, d))
<1> DEFINE groups == Collect(s, new, d)
<1>1. /\ GroupsOf(groups, d)
      /\ DOMAIN groups = (KeysOf(s) \ ToBeRemoved(s)) \cup new
      /\ \A l \in KeysOf(s) \ ToBeRemoved(s) : groups[l] = Group(s, l)
      /\ \A l \in new : \/ groups[l] = NewGroup(l, d)
                        \/ l \in KeysOf(s) /\ groups[l] = Group(s, l)
  BY CollectType
<1> HIDE DEF groups
<1>2. \A k \in KeysOf(s) : Lines(Group(s, k)) = Items[k]
  BY DEF Whole
<1>3. ASSUME NEW k \in Keys PROVE Lines(NewGroup(k, d)) = Items[k]
  BY NewGroupType, LinesAreItems
<1>4. \A k \in DOMAIN groups : Lines(groups[k]) = Items[k]
  <2> SUFFICES ASSUME NEW k \in DOMAIN groups PROVE Lines(groups[k]) = Items[k]
    OBVIOUS
  <2>1. CASE k \in KeysOf(s) \ ToBeRemoved(s)
    BY <1>1, <1>2, <2>1
  <2>2. CASE k \in new
    BY <1>1, <1>2, <1>3, <2>2
  <2> QED BY <1>1, <2>1, <2>2
<1> QED BY <1>1, <1>4, LayoutLeads DEF groups

LEMMA WholeStep == TypeInv /\ WholeInv /\ [Next]_vars => WholeInv'
<1> SUFFICES ASSUME TypeInv, WholeInv, [Next]_vars, ~ handmade'
             PROVE  /\ HeadsLead(rows)'
                    /\ pc' \in {"refresh", "code", "update", "mark", "read", "reread", "write"}
                         => Whole(rows)'
                    /\ pc' \in {"reread", "write", "clear"} => HeadsLead(layout)'
                    /\ pc' = "clear" => Covered'
  BY DEF WholeInv
<1> DEFINE Kept == /\ HeadsLead(rows)'
                   /\ pc' \in {"refresh", "code", "update", "mark", "read", "reread", "write"}
                        => Whole(rows)'
                   /\ pc' \in {"reread", "write", "clear"} => HeadsLead(layout)'
                   /\ pc' = "clear" => Covered'
<1>0. /\ rows \in Seq(RowType) /\ layout \in Seq(RowType)
      /\ Len(rows) \in Nat /\ Len(layout) \in Nat
  BY LenProperties DEF TypeInv, TypeOK
<1>1. ~ handmade
  <2>1. handmade' = handmade \/ handmade' = TRUE
    BY DEF Next, RunStep, Crash, Disturbance, Start, CheckBefore, RefuseBefore, PlanDetails,
           WriteDetails, PlanUpdates, WriteUpdates, SkipRebuild, ReadRows, RereadRows,
           RefuseConcurrentEdit, WriteRows, ClearTail, CheckAfter, Midnight, EditCell,
           EditHead, DeleteRow, MoveRow, CopyRow, Shift, vars
  <2> QED BY <2>1
<1>2. /\ HeadsLead(rows)
      /\ pc \in {"refresh", "code", "update", "mark", "read", "reread", "write"} => Whole(rows)
      /\ pc \in {"reread", "write", "clear"} => HeadsLead(layout)
      /\ pc = "clear" => Covered
  BY <1>1 DEF WholeInv
<1>3. ASSUME CheckBefore PROVE Kept
  <2>1. Whole(rows)
    BY <1>0, <1>2, <1>3, SoundIsWhole DEF CheckBefore
  <2> QED BY <1>2, <1>3, <2>1 DEF CheckBefore
<1>4. ASSUME \/ Start \/ RefuseBefore \/ PlanDetails \/ PlanUpdates \/ SkipRebuild \/ RereadRows
             \/ RefuseConcurrentEdit \/ CheckAfter \/ Crash
      PROVE  Kept
  <2>1. rows' = rows
    BY <1>4 DEF Start, RefuseBefore, PlanDetails, PlanUpdates, SkipRebuild, RereadRows,
                RefuseConcurrentEdit, CheckAfter, Crash
  <2>2. /\ pc' # "clear"
        /\ pc' \in {"refresh", "code", "update", "mark", "read", "reread", "write"} =>
             pc \in {"refresh", "code", "update", "mark", "read", "reread", "write"}
        /\ pc' \in {"reread", "write"} => pc \in {"reread", "write"} /\ layout' = layout
    BY <1>4 DEF Start, RefuseBefore, PlanDetails, PlanUpdates, SkipRebuild, RereadRows,
                RefuseConcurrentEdit, CheckAfter, Crash, EndRun, locals
  <2>3. pc' \in {"reread", "write", "clear"} => HeadsLead(layout)'
    BY <1>2, <2>2
  <2> QED BY <1>2, <2>1, <2>2, <2>3
<1>5. ASSUME Similar(rows, rows'), UNCHANGED layout,
             \/ pc' = pc
             \/ /\ pc \in {"refresh", "code", "update", "mark", "read", "reread", "write"}
                /\ pc' \in {"update", "read"}
      PROVE  Kept
  <2>1. HeadsLead(rows') /\ (Whole(rows) => Whole(rows'))
    BY <1>0, <1>2, <1>5, SimilarLeads, SimilarWhole
  <2>2. pc' = "clear" => Covered'
    <3> SUFFICES ASSUME pc' = "clear" PROVE Covered'
      OBVIOUS
    <3>1. Covered
      BY <1>2, <1>5
    <3>2. Len(rows') = Len(rows)
      BY <1>5 DEF Similar
    <3>3. \A i \in 1 .. Len(layout) : i \in 1 .. Len(rows)
      BY <1>0, <3>1 DEF Covered
    <3>4. \A i \in 1 .. Len(layout) :
            /\ rows'[i].kind = layout[i].kind /\ rows'[i].key = layout[i].key
            /\ rows'[i].product = layout[i].product
            /\ rows'[i].head = "own" => layout[i].head = "own"
      BY <1>5, <3>1, <3>3 DEF Covered, Similar
    <3> QED BY <1>5, <3>1, <3>2, <3>4 DEF Covered
  <2> QED BY <1>2, <1>5, <2>1, <2>2
<1>6. ASSUME WriteDetails \/ WriteUpdates PROVE Kept
  <2>1. Similar(rows, rows')
    BY <1>6, CellsWritten
  <2> QED BY <1>5, <1>6, <2>1 DEF WriteDetails, WriteUpdates
<1>7. ASSUME NEW i \in DOMAIN rows, EditCell(i) \/ EditHead(i) PROVE Kept
  <2>1. Similar(rows, rows')
    BY <1>7, CellsWritten
  <2> QED BY <1>5, <1>7, <2>1 DEF EditCell, EditHead, Edit, Disturb, locals
<1>8. ASSUME ReadRows PROVE Kept
  <2>1. PICK new \in SUBSET (Keys \ existing) :
          layout' = Layout(Collect(rows, new, today), rows, today)
    BY <1>8 DEF ReadRows
  <2>2. today \in Days /\ rows \in Seq(Upto(today)) /\ Whole(rows) /\ new \in SUBSET Keys
    BY <1>2, <1>8 DEF ReadRows, TypeInv, TypeOK
  <2>3. HeadsLead(layout')
    BY <2>1, <2>2, CollectLeads
  <2> QED BY <1>2, <1>8, <2>2, <2>3 DEF ReadRows
<1>9. ASSUME WriteRows PROVE Kept
  <2>1. /\ HeadsLead(layout) /\ layout' = layout /\ pc' = "clear"
        /\ rows' = layout \o SubSeq(rows, Len(layout) + 1, Len(rows))
    BY <1>2, <1>9 DEF WriteRows, locals
  <2>2. HeadsLead(rows')
    BY <1>0, <1>2, <2>1, TornLeads
  <2>3. /\ Len(rows') = IF Len(layout) < Len(rows) THEN Len(rows) ELSE Len(layout)
        /\ \A i \in 1 .. Len(layout) : rows'[i] = layout[i]
    BY <1>0, <2>1, Overlay
  <2>4. Len(rows') >= Len(layout)
    BY <1>0, <2>3
  <2>5. Covered'
    BY <2>1, <2>3, <2>4 DEF Covered
  <2> QED BY <2>1, <2>2, <2>5
<1>10. ASSUME ClearTail PROVE Kept
  <2>1. /\ HeadsLead(layout) /\ Covered /\ pc' = "check"
        /\ rows' = SubSeq(rows, 1, Min({Len(rows), Len(layout)}))
    BY <1>2, <1>10 DEF ClearTail
  <2>2. HeadsLead(rows')
    BY <1>0, <2>1, ClearedLeads DEF Covered
  <2> QED BY <2>1, <2>2
<1>11. ASSUME UNCHANGED <<rows, pc, layout>> PROVE Kept
  BY <1>2, <1>11 DEF Covered
<1>12. ASSUME Midnight PROVE Kept
  BY <1>11, <1>12 DEF Midnight, Disturb, locals
<1>13. CASE UNCHANGED vars
  BY <1>11, <1>13 DEF vars, locals
<1>14. ASSUME NEW i \in DOMAIN rows,
              DeleteRow(i) \/ \E j \in DOMAIN rows : MoveRow(i, j) \/ CopyRow(i, j)
       PROVE  Kept
  BY <1>14 DEF DeleteRow, MoveRow, CopyRow, Shift
<1>15. CASE Disturbance
  BY <1>7, <1>12, <1>14, <1>15 DEF Disturbance
<1>16. CASE RunStep \/ Crash
  BY <1>3, <1>4, <1>6, <1>8, <1>9, <1>10, <1>16 DEF RunStep
<1> QED BY <1>13, <1>15, <1>16 DEF Next

LEMMA WholeInvariant == Spec => [](TypeInv /\ WholeInv)
BY TypeInit, TypeStep, WholeInit, WholeStep, PTL DEF Spec

\* However a rebuild was torn, a run that gets past validate_integrity works on
\* whole orders, as long as nobody moved rows by hand: a row with an order number is
\* always followed by the lines of its order, also where the new layout ends within
\* the old one, and what it leaves of an order below has no number.
THEOREM CheckedOrdersCorrect == Spec => []CheckedOrdersAreWhole
<1>1. WholeInv => CheckedOrdersAreWhole
  BY DEF WholeInv, CheckedOrdersAreWhole, Whole
<1> QED BY <1>1, WholeInvariant, PTL

-----------------------------------------------------------------------------
(* What is written by row number.                                          *)

LEMMA UpdateInit == Init => UpdateInv
BY DEF Init, UpdateInv

\* In a worksheet of whole orders a row has the product of its line.
LEMMA LineIsProduct ==
  ASSUME TypeInv, Whole(rows), NEW i \in DOMAIN rows, rows[i].key \in Keys
  PROVE  LineOf(i) = rows[i].product
<1> DEFINE k == rows[i].key
           n == CountUpTo(Places(rows, k), i)
           g == Group(rows, k)
<1>1. rows \in Seq(RowType) /\ DOMAIN rows = 1 .. Len(rows) /\ rows[i] \in RowType
  BY LenProperties, ElementOfSeq DEF TypeInv, TypeOK
<1>2. k \in Keys /\ IsOrderRow(rows[i])
  <2>1. k # NoKey
    BY RebuildAssumption DEF NoKey
  <2> QED BY <1>1, <2>1 DEF RowType
<1>3. i \in Places(rows, k) /\ k \in KeysOf(rows)
  BY <1>2 DEF Places, KeysOf
<1>4. n \in 1 .. Len(g) /\ g[n] = rows[i] /\ g \in Seq({r \in RowType : IsOrderRow(r) /\ r.key = k})
  <2> HIDE DEF k
  <2> QED BY <1>1, <1>3, GroupElements
<1>5. Lines(g) = Items[k]
  BY <1>3 DEF Whole
<1> HIDE DEF k, n, g
<1>6. Len(g) \in Nat /\ DOMAIN g = 1 .. Len(g)
  BY <1>4, LenProperties
<1>7. Items[k] = [j \in 1 .. Len(g) |-> g[j].product]
  BY <1>5, <1>6 DEF Lines
<1>8. Len(Items[k]) \in Nat /\ DOMAIN Items[k] = 1 .. Len(Items[k])
  BY <1>2, ItemsProperties
<1>9. Len(Items[k]) = Len(g)
  BY <1>6, <1>7, <1>8
<1>10. n <= Len(Items[k]) /\ Items[k][n] = rows[i].product
  BY <1>4, <1>6, <1>7, <1>9
<1> QED BY <1>10 DEF LineOf, n, k

LEMMA UpdateStep == TypeInv /\ WholeInv /\ UpdateInv /\ [Next]_vars => UpdateInv'
<1> SUFFICES ASSUME TypeInv, WholeInv, UpdateInv, [Next]_vars PROVE UpdateInv'
  OBVIOUS
<1>0. rows \in Seq(RowType) /\ DOMAIN rows = 1 .. Len(rows)
  BY LenProperties DEF TypeInv, TypeOK
<1>1. ASSUME PlanDetails PROVE UpdateInv'
  <2>1. PICK fetched \in SUBSET existing :
          updates' = {<<i, rows[i].key, LineOf(i)>> : i \in {j \in DOMAIN rows :
                        rows[j].key \in fetched /\ rows[j].code # LineOf(j)}}
    BY <1>1 DEF PlanDetails
  <2>2. ASSUME ~ handmade, NEW u \in updates'
        PROVE  u[1] \in 1 .. Len(rows) /\ u[3] = rows[u[1]].product
    <3>1. PICK i \in DOMAIN rows : rows[i].key \in fetched /\ u = <<i, rows[i].key, LineOf(i)>>
      BY <2>1
    <3>2. rows[i].key \in Keys
      BY <3>1 DEF TypeInv, TypeOK
    <3>3. Whole(rows)
      BY <1>1, <2>2 DEF PlanDetails, WholeInv
    <3>4. LineOf(i) = rows[i].product
      BY <3>2, <3>3, LineIsProduct
    <3> QED BY <1>0, <3>1, <3>4
  <2> QED BY <1>1, <2>2 DEF PlanDetails, UpdateInv
<1>2. ASSUME PlanUpdates PROVE UpdateInv'
  <2>1. PICK refusals \in SUBSET existing :
          updates' = {<<i, rows[i].key, "refused">> : i \in {j \in DOMAIN rows :
                        rows[j].key \in refusals /\ ~ rows[j].refused}}
    BY <1>2 DEF PlanUpdates
  <2>2. ASSUME NEW u \in updates'
        PROVE  u[1] \in 1 .. Len(rows) /\ rows[u[1]].key = u[2]
    <3>1. PICK i \in DOMAIN rows : u = <<i, rows[i].key, "refused">>
      BY <2>1
    <3> QED BY <1>0, <3>1
  <2> QED BY <1>2, <2>2 DEF PlanUpdates, UpdateInv
<1>3. ASSUME \/ Start \/ CheckBefore \/ RefuseBefore \/ WriteDetails \/ WriteUpdates
             \/ SkipRebuild \/ ReadRows \/ RereadRows \/ RefuseConcurrentEdit \/ WriteRows
             \/ ClearTail \/ CheckAfter \/ Crash
      PROVE  UpdateInv'
  <2>1. pc' \notin {"code", "mark"}
    BY <1>3 DEF Start, CheckBefore, RefuseBefore, WriteDetails, WriteUpdates, SkipRebuild,
                ReadRows, RereadRows, RefuseConcurrentEdit, WriteRows, ClearTail, CheckAfter,
                Crash, EndRun
  <2> QED BY <2>1 DEF UpdateInv
<1>4. ASSUME NEW i \in DOMAIN rows, EditCell(i) \/ EditHead(i) PROVE UpdateInv'
  <2>1. Similar(rows, rows')
    BY <1>4, CellsWritten
  <2>2. /\ pc' = pc /\ updates' = updates /\ shifted' = shifted /\ handmade' = handmade
    BY <1>4 DEF EditCell, EditHead, Edit, Disturb, locals
  <2>3. /\ Len(rows') = Len(rows)
        /\ \A j \in 1 .. Len(rows) : rows'[j].key = rows[j].key
                                     /\ rows'[j].product = rows[j].product
    BY <2>1 DEF Similar
  <2> QED BY <2>2, <2>3 DEF UpdateInv
<1>5. ASSUME Shift PROVE UpdateInv'
  BY <1>5 DEF Shift, Edit, Disturb, UpdateInv
<1>6. ASSUME UNCHANGED <<rows, pc, updates, shifted, handmade>> PROVE UpdateInv'
  BY <1>6 DEF UpdateInv
<1>7. ASSUME Midnight PROVE UpdateInv'
  BY <1>6, <1>7 DEF Midnight, Disturb, locals
<1>8. CASE UNCHANGED vars
  BY <1>6, <1>8 DEF vars, locals
<1> QED BY <1>1, <1>2, <1>3, <1>4, <1>5, <1>7, <1>8
        DEF Next, RunStep, Disturbance, DeleteRow, MoveRow, CopyRow

LEMMA UpdateInvariant == Spec => [](TypeInv /\ UpdateInv)
BY WholeInvariant, UpdateInit, UpdateStep, PTL DEF Spec

\* A step that brings no row and refuses none refuses no order.
LEMMA NoneRefused ==
  ASSUME TypeInv, NEW k, ~ RefusedIn(rows, k),
         \/ rows' = rows
         \/ \E i \in DOMAIN rows :
              \/ EditCell(i) \/ EditHead(i) \/ DeleteRow(i)
              \/ \E j \in DOMAIN rows : MoveRow(i, j) \/ CopyRow(i, j)
  PROVE  ~ RefusedIn(rows', k)
<1> DEFINE S == {r \in RowType : ~ (IsOrderRow(r) /\ r.key = k /\ r.refused)}
<1>1. /\ rows \in Seq(RowType) /\ DOMAIN rows = 1 .. Len(rows) /\ Len(rows) \in Nat
      /\ \A i \in 1 .. Len(rows) : rows[i] \in RowType
  BY LenProperties, ElementOfSeq DEF TypeInv, TypeOK
<1>2. rows \in Seq(S)
  <2>1. \A i \in 1 .. Len(rows) : rows[i] \in S
    BY <1>1 DEF RefusedIn
  <2>2. rows = [i \in 1 .. Len(rows) |-> rows[i]]
    BY <1>1, LenProperties
  <2> HIDE DEF S
  <2>3. [i \in 1 .. Len(rows) |-> rows[i]] \in Seq(S)
    BY <1>1, <2>1
  <2> QED BY <2>2, <2>3
<1>3. rows' \in Seq(S) => ~ RefusedIn(rows', k)
  <2> SUFFICES ASSUME rows' \in Seq(S) PROVE ~ RefusedIn(rows', k)
    OBVIOUS
  <2>1. DOMAIN rows' = 1 .. Len(rows') /\ \A i \in 1 .. Len(rows') : rows'[i] \in S
    <3> HIDE DEF S
    <3> QED BY LenProperties, ElementOfSeq
  <2> QED BY <2>1 DEF RefusedIn
<1> HIDE DEF S
<1>4. ASSUME NEW i \in DOMAIN rows,
             DeleteRow(i) \/ \E j \in DOMAIN rows : MoveRow(i, j) \/ CopyRow(i, j)
      PROVE  rows' \in Seq(S)
  BY <1>2, <1>4, ShiftKeeps
<1>5. ASSUME NEW i \in DOMAIN rows, EditCell(i) \/ EditHead(i) PROVE ~ RefusedIn(rows', k)
  <2>1. Similar(rows, rows')
    BY <1>5, CellsWritten
  <2>2. DOMAIN rows' = DOMAIN rows /\ \A j \in DOMAIN rows : rows'[j].refused = rows[j].refused
    BY <1>1, <1>5 DEF EditCell, EditHead, RowType
  <2> QED BY <1>1, <2>1, <2>2 DEF RefusedIn, Similar, IsOrderRow
<1>6. rows' = rows => ~ RefusedIn(rows', k)
  OBVIOUS
<1> QED BY <1>3, <1>4, <1>5, <1>6

\* What is written by row number hits the row it was computed for, unless rows were
\* moved: the shipments' update marks orders the run knows as refused and no other,
\* and the refresh writes beside each product its own code, because it finds whole
\* orders whose n-th row is their n-th line (refresh_order_details,
\* update_existing_order_shipments).
THEOREM UpdatesCorrect == Spec => UpdatesHitTheirRow
<1>1. ASSUME TypeInv, UpdateInv, [Next]_vars, NEW k \in Keys,
             pc = "mark", RefusedIn(rows', k), ~ RefusedIn(rows, k), ~ shifted
      PROVE  \E u \in updates : u[2] = k
  <2>1. WriteUpdates
    <3>1. CASE Disturbance
      <4>1. rows' = rows \/ \E i \in DOMAIN rows :
              \/ EditCell(i) \/ EditHead(i) \/ DeleteRow(i)
              \/ \E j \in DOMAIN rows : MoveRow(i, j) \/ CopyRow(i, j)
        BY <3>1 DEF Disturbance, Midnight
      <4> QED BY <1>1, <4>1, NoneRefused
    <3>2. CASE rows' = rows
      BY <1>1, <3>2
    <3> QED BY <1>1, <3>1, <3>2
            DEF Next, RunStep, vars, Start, CheckBefore, RefuseBefore, PlanDetails,
                WriteDetails, PlanUpdates, SkipRebuild, ReadRows, RereadRows,
                RefuseConcurrentEdit, WriteRows, ClearTail, CheckAfter, Crash
  <2>2. \A i \in DOMAIN rows : rows[i] \in RowType
    BY <1>1, LenProperties, ElementOfSeq DEF TypeInv, TypeOK
  <2>3. PICK i \in DOMAIN rows' : IsOrderRow(rows'[i]) /\ rows'[i].key = k /\ rows'[i].refused
    BY <1>1 DEF RefusedIn
  <2>4. /\ i \in DOMAIN rows
        /\ rows'[i] = IF Marked(i) THEN [rows[i] EXCEPT !.refused = TRUE] ELSE rows[i]
    BY <2>1, <2>3 DEF WriteUpdates
  <2>5. IsOrderRow(rows[i]) /\ rows[i].key = k
    BY <2>2, <2>3, <2>4 DEF IsOrderRow, RowType
  <2>6. Marked(i)
    BY <1>1, <2>3, <2>4, <2>5 DEF RefusedIn
  <2>7. PICK u \in updates : u[1] = i
    BY <2>6 DEF Marked
  <2>8. rows[u[1]].key = u[2]
    BY <1>1, <2>7 DEF UpdateInv
  <2> QED BY <2>5, <2>7, <2>8
<1>2. ASSUME TypeInv, UpdateInv, [Next]_vars, pc = "code", ~ handmade',
             NEW i \in DOMAIN rows, rows'[i].code # rows[i].code
      PROVE  rows'[i].code = rows[i].product
  <2>1. \A j \in DOMAIN rows : rows[j] \in RowType
    BY <1>2, LenProperties, ElementOfSeq DEF TypeInv, TypeOK
  <2>2. WriteDetails
    <3>1. CASE Disturbance
      <4>1. ASSUME NEW j \in DOMAIN rows, EditCell(j) \/ EditHead(j)
            PROVE  rows'[i].code = rows[i].code
        <5>1. rows[i] \in RowType
          BY <2>1
        <5> QED BY <4>1, <5>1 DEF EditCell, EditHead, RowType
      <4>2. rows' = rows \/ \E j \in DOMAIN rows : EditCell(j) \/ EditHead(j)
        BY <1>2, <3>1 DEF Disturbance, Midnight, DeleteRow, MoveRow, CopyRow, Shift
      <4> QED BY <1>2, <4>1, <4>2
    <3>2. CASE rows' = rows
      BY <1>2, <3>2
    <3> QED BY <1>2, <3>1, <3>2
            DEF Next, RunStep, vars, Start, CheckBefore, RefuseBefore, PlanDetails,
                WriteUpdates, PlanUpdates, SkipRebuild, ReadRows, RereadRows,
                RefuseConcurrentEdit, WriteRows, ClearTail, CheckAfter, Crash
  <2>3. ~ handmade
    BY <1>2, <2>2 DEF WriteDetails
  <2>4. rows'[i] = IF \E u \in updates : u[1] = i
                   THEN [rows[i] EXCEPT !.code = (CHOOSE u \in updates : u[1] = i)[3]]
                   ELSE rows[i]
    BY <2>2 DEF WriteDetails
  <2>5. \E u \in updates : u[1] = i
    BY <1>2, <2>4
  <2> DEFINE u == CHOOSE u \in updates : u[1] = i
  <2>6. u \in updates /\ u[1] = i
    BY <2>5
  <2>7. rows'[i] = [rows[i] EXCEPT !.code = u[3]]
    BY <2>4, <2>5
  <2> HIDE DEF u
  <2>8. rows'[i].code = u[3]
    <3>1. rows[i] \in RowType
      BY <2>1
    <3> QED BY <2>7, <3>1 DEF RowType
  <2>9. u[3] = rows[i].product
    BY <1>2, <2>3, <2>6 DEF UpdateInv
  <2> QED BY <2>8, <2>9
<1>3. TypeInv /\ UpdateInv /\ [Next]_vars =>
       [/\ \A k \in Keys :
             pc = "mark" /\ RefusedIn(rows', k) /\ ~ RefusedIn(rows, k) =>
               \/ shifted
               \/ \E u \in updates : u[2] = k
        /\ pc = "code" /\ ~ handmade' =>
             \A i \in DOMAIN rows : rows'[i].code # rows[i].code =>
               rows'[i].code = rows[i].product]_vars
  BY <1>1, <1>2
<1> QED BY <1>3, UpdateInvariant, PTL DEF Spec, UpdatesHitTheirRow

=============================================================================
