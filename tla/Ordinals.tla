------------------------------ MODULE Ordinals ------------------------------
(***************************************************************************)
(* The elements of a sequence that stand at some of its positions, in the  *)
(* sequence's order. SelectSeq does the same, but no prover knows it; here *)
(* everything follows from the cardinalities of finite sets.               *)
(***************************************************************************)
EXTENDS Naturals, FiniteSets

\* How many of the numbers P come before i or are i.
CountUpTo(P, i) == Cardinality({j \in P : j <= i})

\* The n-th of the numbers P.
Nth(P, n) == CHOOSE i \in P : CountUpTo(P, i) = n

Selected(s, P) == [n \in 1 .. Cardinality(P) |-> s[Nth(P, n)]]

=============================================================================
