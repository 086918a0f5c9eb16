--------------------------- MODULE MCSupplierCosts ---------------------------
(* Instances of SupplierCosts for TLC. *)
EXTENDS SupplierCosts

CONSTANTS t1, t2, x, y

Line(t, c, p) == [ttn |-> t, code |-> c, price |-> p]

TwoTtns  == {t1, t2}
OneTtn   == {t1}
TwoCodes == {x, y}

\* Nothing, two products, one line without a product code at another price.
Sheets   == {<<>>, <<Line(t1, x, 1), Line(t1, y, 2)>>, <<Line(t1, AnyCode, 2)>>}

=============================================================================
