----------------------------- MODULE MCSheetSync -----------------------------
(* Instances of SheetSync for TLC. *)
EXTENDS SheetSync, TLC

CONSTANTS o1, o2, prom, rozetka

\* One order whose payload dates its status.
OneOrder   == {o1}
OneSource  == {prom}
FromProm   == [o \in Orders |-> prom]

\* Two orders of two marketplaces.
TwoOrders  == {o1, o2}
TwoSources == {prom, rozetka}
OneEach    == (o1 :> prom) @@ (o2 :> rozetka)
First      == {o1}
\* The second one is from Rozetka. A supplier registry marks both as prepaid;
\* the parcel of the first is in the other registry too.
Second     == {o2}
Nothing    == {}

=============================================================================
