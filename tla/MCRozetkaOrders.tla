--------------------------- MODULE MCRozetkaOrders ---------------------------
(* Instances of RozetkaOrders for TLC. *)
EXTENDS RozetkaOrders, TLC

CONSTANTS r1, r2

TwoOrders == {r1, r2}

\* Orders differ only in what happens to them.
Symmetry == Permutations(Orders)

=============================================================================
