------------------------------ MODULE MCShops -------------------------------
(***************************************************************************)
(* Instances of PromOrders and OpenCartOrders for TLC. _fetch_orders asks  *)
(* one client after the other, they share nothing, and the failure of one  *)
(* is not the other's: a behaviour here is one of a single client.         *)
(***************************************************************************)
EXTENDS PromOrders, Sequences

CONSTANTS Orders, Limit, MaxNow, MaxEdits

ASSUME OpenCartAssumption ==
  /\ IsFiniteSet(Orders)
  /\ Limit \in Nat \ {0} /\ MaxNow \in Nat \ {0} /\ MaxEdits \in Nat

VARIABLES client, complete, date_modified, now, phase, offset, fetched,
          begun, touched, left, edits

Cart == INSTANCE OpenCartOrders

cart == <<complete, date_modified, now, phase, offset, fetched, begun, touched, left, edits>>

FourIds   == 1 .. 4
OneBare   == {2}

\* The client that is not asked stays as it is.
PromAlone ==
  /\ client = "prom" /\ Init
  /\ complete = {} /\ date_modified = [o \in Orders |-> 0] /\ now = 1
  /\ phase = "idle" /\ offset = 0 /\ fetched = {}
  /\ begun = {} /\ touched = {} /\ left = <<>> /\ edits = 0

CartAlone ==
  /\ client = "opencart" /\ Cart!Init
  /\ status = [o \in Ids |-> "received"] /\ honours = TRUE
  /\ pc = "idle" /\ list = "delivered" /\ cursor = Top /\ seen_cursors = {}
  /\ pages = {} /\ raw_by_id = [o \in Ids |-> None] /\ attempt = 0
  /\ rejected = FALSE /\ late = FALSE /\ modified = {} /\ start = status /\ changes = 0

ShopsNext ==
  \/ client = "prom" /\ Next /\ UNCHANGED <<client, cart>>
  \/ client = "opencart" /\ Cart!Next /\ UNCHANGED <<client, vars>>

ShopsSpec ==
  /\ PromAlone \/ CartAlone
  /\ [][ShopsNext]_<<client, vars, cart>>

FairShopsSpec == ShopsSpec /\ WF_vars(Request) /\ WF_cart(Cart!Request)

-----------------------------------------------------------------------------
(* The properties of both.                                                 *)

\* Both clients keep their types.
BothTypeOK == TypeOK /\ Cart!TypeOK

\* What Cart!MissedOnlyByDrift says of the OpenCart client.
MissedOnlyByDrift == Cart!MissedOnlyByDrift

\* Every fetch of either client ends.
BothFetchesEnd == FetchesEnd /\ Cart!FetchesEnd

=============================================================================
