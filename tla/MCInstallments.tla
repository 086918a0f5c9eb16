--------------------------- MODULE MCInstallments ---------------------------
(* Instances of Installments for TLC. *)
EXTENDS Installments, TLC

CONSTANTS p1, p2, c1, c2

TwoParts == {p1, p2}
TwoCards == {c1, c2}

\* No order is treated differently from another of its kind.
Symmetry == Permutations(TwoParts) \cup Permutations(TwoCards)

=============================================================================
