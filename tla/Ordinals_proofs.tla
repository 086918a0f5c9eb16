--------------------------- MODULE Ordinals_proofs ---------------------------
(***************************************************************************)
(* What the operators of Ordinals return: the numbers of a finite set are  *)
(* counted from 1 on without a gap, so each has its place and each place   *)
(* its number, and a block of neighbours is selected as it stands.         *)
(***************************************************************************)
EXTENDS Ordinals, Integers, FiniteSetTheorems, WellFoundedInduction, TLAPS

\* The least-number principle. Induction on n is its use on the set of the n that
\* fail: the first of them contradicts the step.
LEMMA HasLeast ==
  ASSUME NEW S \in SUBSET Nat, S # {}
  PROVE  \E i \in S : \A j \in S : i <= j
<1>1. \E i \in S : \A j \in S : ~ (<<j, i>> \in OpToRel(<, Nat))
  BY WFMin, NatLessThanWellFounded
<1>2. \A i, j \in Nat : i < j => <<i, j>> \in OpToRel(<, Nat)
  BY DEF OpToRel
<1>3. \E i \in S : \A j \in S : ~ (j < i)
  BY <1>1, <1>2
<1> QED BY <1>3

\* A number of the set is counted itself, and nothing twice.
LEMMA CountInRange ==
  ASSUME NEW P, IsFiniteSet(P), P \subseteq Nat, NEW i \in P
  PROVE  CountUpTo(P, i) \in 1 .. Cardinality(P)
<1> DEFINE U == {j \in P : j <= i}
<1>1. IsFiniteSet(U) /\ Cardinality(U) <= Cardinality(P)
  BY FS_Subset
<1>2. Cardinality(U) \in Nat /\ Cardinality(P) \in Nat
  BY <1>1, FS_CardinalityType
<1>3. i \in U
  OBVIOUS
<1>4. Cardinality(U) # 0
  BY <1>1, <1>3, FS_EmptySet
<1> QED BY <1>1, <1>2, <1>4 DEF CountUpTo

\* Of two numbers the greater one comes later.
LEMMA CountGrows ==
  ASSUME NEW P, IsFiniteSet(P), P \subseteq Nat, NEW i \in P, NEW j \in P, i < j
  PROVE  CountUpTo(P, i) < CountUpTo(P, j)
<1> DEFINE U == {p \in P : p <= i}
           V == {p \in P : p <= j}
<1>1. IsFiniteSet(V)
  BY FS_Subset
<1>2. U \subseteq V /\ j \in V /\ j \notin U
  <2>1. i \in Nat /\ j \in Nat /\ \A p \in P : p \in Nat
    OBVIOUS
  <2>2. j \in V /\ j \notin U
    BY <2>1
  <2>3. ASSUME NEW p \in U PROVE p \in V
    BY <2>1
  <2> QED BY <2>2, <2>3
<1>3. Cardinality(U) <= Cardinality(V) /\ IsFiniteSet(U) /\ Cardinality(U) # Cardinality(V)
  BY <1>1, <1>2, FS_Subset
<1>4. Cardinality(U) \in Nat /\ Cardinality(V) \in Nat
  BY <1>1, <1>3, FS_CardinalityType
<1> QED BY <1>3, <1>4 DEF CountUpTo

LEMMA CountIsOneToOne ==
  ASSUME NEW P, IsFiniteSet(P), P \subseteq Nat, NEW i \in P, NEW j \in P,
         CountUpTo(P, i) = CountUpTo(P, j)
  PROVE  i = j
<1>1. CountUpTo(P, i) \in Nat
  <2>1. CountUpTo(P, i) \in 1 .. Cardinality(P)
    BY CountInRange
  <2> QED BY <2>1, FS_CardinalityType
<1>2. i \in Nat /\ j \in Nat
  OBVIOUS
<1>3. ~ (i < j)
  <2>1. i < j => CountUpTo(P, i) < CountUpTo(P, j)
    BY CountGrows
  <2> QED BY <1>1, <2>1
<1>4. ~ (j < i)
  <2>1. j < i => CountUpTo(P, j) < CountUpTo(P, i)
    BY CountGrows
  <2> QED BY <1>1, <2>1
<1> QED BY <1>2, <1>3, <1>4

\* There is an n-th number for every n up to the cardinality.
LEMMA NthIsThere ==
  ASSUME NEW P, IsFiniteSet(P), P \subseteq Nat, NEW n \in 1 .. Cardinality(P)
  PROVE  Nth(P, n) \in P /\ CountUpTo(P, Nth(P, n)) = n
<1> DEFINE N == 1 .. Cardinality(P)
           f == [i \in P |-> CountUpTo(P, i)]
<1>1. Cardinality(P) \in Nat
  BY FS_CardinalityType
<1>2. IsFiniteSet(N) /\ Cardinality(N) = Cardinality(P)
  BY <1>1, FS_Interval
<1>3. f \in Injection(P, N)
  <2>1. f \in [P -> N]
    BY CountInRange
  <2>2. \A i, j \in P : f[i] = f[j] => i = j
    BY CountIsOneToOne
  <2> QED BY <2>1, <2>2 DEF Injection, IsInjective
<1>4. f \in Surjection(P, N)
  BY <1>2, <1>3, FS_Injection
<1>5. \E i \in P : CountUpTo(P, i) = n
  BY <1>4 DEF Surjection
<1> QED BY <1>5 DEF Nth

\* The number in the place of i is i.
LEMMA NthOfCount ==
  ASSUME NEW P, IsFiniteSet(P), P \subseteq Nat, NEW i \in P
  PROVE  Nth(P, CountUpTo(P, i)) = i
<1>1. CountUpTo(P, i) \in 1 .. Cardinality(P)
  BY CountInRange
<1>2. /\ Nth(P, CountUpTo(P, i)) \in P
      /\ CountUpTo(P, Nth(P, CountUpTo(P, i))) = CountUpTo(P, i)
  BY <1>1, NthIsThere
<1> QED BY <1>2, CountIsOneToOne

\* Neighbours stand one after the other.
LEMMA NthOfBlock ==
  ASSUME NEW a \in Nat, NEW n \in Nat
  PROVE  /\ IsFiniteSet(a + 1 .. a + n) /\ Cardinality(a + 1 .. a + n) = n
         /\ \A i \in 1 .. n : Nth(a + 1 .. a + n, i) = a + i
<1> DEFINE P == a + 1 .. a + n
<1>1. IsFiniteSet(P) /\ Cardinality(P) = n
  BY FS_Interval
<1>2. ASSUME NEW i \in 1 .. n PROVE Nth(P, i) = a + i
  <2>1. {j \in P : j <= a + i} = a + 1 .. a + i
    OBVIOUS
  <2>2. Cardinality(a + 1 .. a + i) = i
    BY FS_Interval
  <2>3. CountUpTo(P, a + i) = i
    BY <2>1, <2>2 DEF CountUpTo
  <2>4. a + i \in P /\ P \subseteq Nat
    OBVIOUS
  <2> QED BY <1>1, <2>3, <2>4, NthOfCount
<1> QED BY <1>1, <1>2

\* What is selected stands at the positions selected, and all of it is.
LEMMA SelectedElements ==
  ASSUME NEW s, NEW P, IsFiniteSet(P), P \subseteq Nat
  PROVE  /\ Cardinality(P) \in Nat /\ DOMAIN Selected(s, P) = 1 .. Cardinality(P)
         /\ \A n \in 1 .. Cardinality(P) : \E i \in P : Selected(s, P)[n] = s[i]
         /\ \A i \in P : /\ CountUpTo(P, i) \in 1 .. Cardinality(P)
                         /\ Selected(s, P)[CountUpTo(P, i)] = s[i]
<1>1. Cardinality(P) \in Nat
  BY FS_CardinalityType
<1>2. \A n \in 1 .. Cardinality(P) : Nth(P, n) \in P
  BY NthIsThere
<1>3. \A i \in P : CountUpTo(P, i) \in 1 .. Cardinality(P) /\ Nth(P, CountUpTo(P, i)) = i
  BY CountInRange, NthOfCount
<1> QED BY <1>1, <1>2, <1>3 DEF Selected

=============================================================================
