--------------------------- MODULE MCSheetRebuild ---------------------------
(* Instances of SheetRebuild for TLC. *)
EXTENDS SheetRebuild, TLC

CONSTANTS p, q, r

\* Orders of three and of five lines together.
TwoKeys    == {1, 2}
ThreeLines == (1 :> <<p, q>>) @@ (2 :> <<p>>)
FiveLines  == (1 :> <<p, q>>) @@ (2 :> <<p, q, r>>)

None   == {}
Second == {2}

=============================================================================
