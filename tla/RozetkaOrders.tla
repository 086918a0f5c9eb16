---------------------------- MODULE RozetkaOrders ----------------------------
(***************************************************************************)
(* How RozetkaClient.fetch_orders collects orders: the lists of three      *)
(* types, page by page, newest change first, with a detail call for rows   *)
(* that leave something out, while orders move from list to list. Several  *)
(* payloads tell of the same order; they may be incomplete, and a detail   *)
(* may be older than the row.                                              *)
(***************************************************************************)
EXTENDS Naturals, Sequences, FiniteSets

CONSTANTS
  Orders,
  PageSize,   \* length of Rozetka's pages
  MaxMoves,   \* bound on the changes of orders at Rozetka
  MaxFlaws,   \* bound on the payloads that leave something out or garble it
  MaxFaults   \* bound on failed requests and expired tokens

ASSUME RozetkaAssumption ==
  /\ IsFiniteSet(Orders)
  /\ PageSize \in Nat \ {0}
  /\ MaxMoves \in Nat /\ MaxFlaws \in Nat /\ MaxFaults \in Nat

VARIABLES
  \* Rozetka
  status, place,    \* status of each order; its place, the newest change is first
  token,            \* the client's token: good, or refused and not renewable
  \* The fetch
  pc, type, page,
  last,      \* whether the page is the last of its type
  left,      \* rows of the page still to be handled
  row,       \* the row in hand
  details,   \* details_by_order_id
  orders,    \* orders_by_key
  \* Observations
  before,    \* the statuses when the fetch began
  drifted,   \* orders that moved towards the front of the list being read
  warned,    \* orders of which a row was left out with a message
  shown,     \* the statuses of the payloads an order has been kept from
  dates,     \* the dates of an order's versions
  moves, flaws, faults

rozetka == <<status, place, token>>
cursor  == <<type, page, last, left>>
notes   == <<before, drifted, warned, shown, dates>>
bounds  == <<moves, flaws, faults>>
vars    == <<rozetka, pc, cursor, row, details, orders, notes, bounds>>

-----------------------------------------------------------------------------
Statuses == {"processing", "shipped", "completed", "cancelled"}
Eligible == Statuses \ {"processing"}
Phases   == {"idle", "search", "rows", "detail", "keep", "returned"}

\* ROZETKA_STATUS_RANK, 0 for what is not eligible.
Rank(s) == CASE s = "shipped" -> 1 [] s = "completed" -> 2
             [] s = "cancelled" -> 3 [] OTHER -> 0

\* Mutant: the lists are read against the lifecycle.
TypesBackwards == <<"cancelled", "completed", "shipped">>

\* ROZETKA_ORDER_TYPES: 5, 3, 6
Types == <<"shipped", "completed", "cancelled">>

\* What dates a version: the shipment, its latest transition, or, without
\* either, the time of the fetch, which is not exact.
Dates == {"shipped", "changed", "observed"}

\* What a payload has of the parcel number and the items: all, not all, or
\* something that cannot be normalised.
Goods == {"whole", "partial", "garbled"}

NoVersion   == [status |-> "processing", at |-> "observed"]
NoRow       == [id |-> "none", status |-> "processing", dated |-> "observed",
                goods |-> "partial", asks |-> FALSE]
Unasked     == [status |-> "unasked", dated |-> "observed", goods |-> "partial"]
Unavailable == [Unasked EXCEPT !.status = "unavailable"]
Hydrated(d) == d.status \in Statuses

\* completed_at of _normalize: a completed order has a change at least.
At(s, dated) == IF s = "completed" /\ dated = "observed" THEN "changed" ELSE dated

\* _prefer_lifecycle_status
Prefer(current, candidate) ==
  IF Rank(candidate) > Rank(current) THEN candidate ELSE current

\* The earlier exact date.
Earlier(a, b) ==
  CASE "shipped" \in {a, b} -> "shipped"
    [] "changed" \in {a, b} -> "changed"
    [] OTHER -> "observed"

\* Mutant: the later version replaces the earlier one.
MergeLatest(existing, candidate) == candidate

\* _merge_order_versions
Merge(existing, candidate) ==
  [status |-> IF Rank(candidate.status) >= Rank(existing.status)
              THEN candidate.status ELSE existing.status,
   at     |-> Earlier(existing.at, candidate.at)]

-----------------------------------------------------------------------------
Places == {f \in [Orders -> 1 .. Cardinality(Orders)] :
             \A o, p \in Orders : f[o] = f[p] => o = p}

Init ==
  /\ status \in [Orders -> {"processing", "shipped", "completed"}]
  /\ place \in Places
  /\ token = "valid"
  /\ pc = "idle" /\ type = 1 /\ page = 1 /\ last = FALSE /\ left = <<>>
  /\ row = NoRow
  /\ details = [o \in Orders |-> Unasked]
  /\ orders = [o \in Orders |-> NoVersion]
  /\ before = status /\ drifted = {} /\ warned = {}
  /\ shown = [o \in Orders |-> {}] /\ dates = [o \in Orders |-> {}]
  /\ moves = 0 /\ flaws = 0 /\ faults = 0

FaultWhen(failed) ==
  /\ failed => faults < MaxFaults
  /\ faults' = IF failed THEN faults + 1 ELSE faults

FlawWhen(flawed) ==
  /\ flawed => flaws < MaxFlaws
  /\ flaws' = IF flawed THEN flaws + 1 ELSE flaws

\* _request_authorized: with username and password it logs in again when the
\* token is refused, and repeats the request: that token stays good.
Authorized == token # "refused"

\* The request or the login fails, or the token is refused for good.
Refused ==
  \/ FaultWhen(TRUE)
  \/ token = "refused" /\ UNCHANGED faults

Reset ==
  /\ type' = 1 /\ page' = 1 /\ last' = FALSE /\ left' = <<>> /\ row' = NoRow
  /\ details' = [o \in Orders |-> Unasked]
  /\ orders' = [o \in Orders |-> NoVersion]
  /\ drifted' = {} /\ warned' = {}
  /\ shown' = [o \in Orders |-> {}] /\ dates' = [o \in Orders |-> {}]

StartFetch ==
  /\ pc = "idle" /\ pc' = "search"
  /\ Reset
  /\ before' = status
  /\ UNCHANGED <<rozetka, bounds>>

-----------------------------------------------------------------------------
(* The lists.                                                              *)

\* Mutant: the request does not name the type.
ListOfAll(t) == Orders

\* The orders of a type, and the number of one in a list, as the request sorts it.
ListOf(t)       == {o \in Orders : status[o] = Types[t]}
Number(list, o) == Cardinality({p \in list : place[p] <= place[o]})

PageCount == (Cardinality(ListOf(type)) + PageSize - 1) \div PageSize

PageRows ==
  LET list  == ListOf(type)
      after == (page - 1) * PageSize
      upto  == IF page * PageSize < Cardinality(list) THEN page * PageSize
               ELSE Cardinality(list)
  IN  [i \in 1 .. upto - after |->
         LET o == CHOOSE p \in list : Number(list, p) = after + i
         IN  [id |-> o, status |-> status[o]]]

NextType ==
  /\ IF type = Len(Types) THEN pc' = "returned" /\ UNCHANGED type
     ELSE pc' = "search" /\ type' = type + 1
  /\ page' = 1 /\ last' = FALSE /\ left' = <<>>

SearchPage ==
  /\ pc = "search" /\ page <= PageCount
  /\ Authorized
  /\ pc' = "rows" /\ left' = PageRows /\ last' = (page = PageCount)
  /\ UNCHANGED <<rozetka, type, page, row, details, orders, notes, bounds>>

EmptyType ==
  /\ pc = "search" /\ page = 1 /\ PageCount = 0
  /\ Authorized
  /\ NextType
  /\ UNCHANGED <<rozetka, row, details, orders, notes, bounds>>

\* The list has become shorter: "invalid pageCount".
PageGone ==
  /\ pc = "search" /\ page > 1 /\ page > PageCount
  /\ Authorized
  /\ pc' = "idle" /\ Reset
  /\ UNCHANGED <<rozetka, before, bounds>>

SearchFails ==
  /\ pc = "search"
  /\ Refused
  /\ pc' = "idle" /\ Reset
  /\ UNCHANGED <<rozetka, before, moves, flaws>>

PageDone ==
  /\ pc = "rows" /\ left = <<>>
  /\ IF last THEN NextType
     ELSE pc' = "search" /\ page' = page + 1 /\ last' = FALSE /\ UNCHANGED <<type, left>>
  /\ UNCHANGED <<rozetka, row, details, orders, notes, bounds>>

-----------------------------------------------------------------------------
(* One row.                                                                *)

\* _search_order_needs_details. What cannot be normalised is not noticed here.
Incomplete(goods, commented) == goods = "partial" \/ ~ commented

\* _has_shipped_history
ShowsShipment(dated) == dated = "shipped"

\* Any row may hide its status or its dates, lack the comments, the parcel number
\* or the items, or be garbled. What lacks anything, or is completed and shows no
\* shipment, asks for details, once for the fetch.
TakeRow ==
  /\ pc = "rows" /\ left # <<>>
  /\ \E readable, commented \in BOOLEAN, dated \in Dates, goods \in Goods :
       LET r == Head(left)
           s == IF readable THEN r.status ELSE "processing"
           asks == \/ s = "processing" \/ Incomplete(goods, commented)
                   \/ s = "completed" /\ ~ ShowsShipment(dated)
       IN  /\ FlawWhen(~ readable \/ ~ commented \/ dated # "shipped" \/ goods # "whole")
           /\ row' = [id |-> r.id, status |-> s, dated |-> dated, goods |-> goods,
                      asks |-> asks]
           /\ pc' = IF asks /\ details[r.id] = Unasked THEN "detail" ELSE "keep"
  /\ left' = Tail(left)
  /\ UNCHANGED <<rozetka, type, page, last, details, orders, notes, moves, faults>>

\* The answer is of now or of an earlier time, and need not be whole or dated;
\* "observed" stands for no date at all.
GetDetail ==
  /\ pc = "detail" /\ pc' = "keep"
  /\ Authorized
  /\ \E s \in {t \in Statuses : Rank(t) <= Rank(status[row.id])},
        dated \in Dates, goods \in Goods :
       /\ FlawWhen(s # status[row.id] \/ dated # "shipped" \/ goods # "whole")
       /\ details' = [details EXCEPT ![row.id] =
                        [status |-> s, dated |-> dated, goods |-> goods]]
  /\ UNCHANGED <<rozetka, cursor, row, orders, notes, moves, faults>>

\* "details are unavailable; using search data", for the rest of the fetch.
DetailFails ==
  /\ pc = "detail" /\ pc' = "keep"
  /\ Refused
  /\ details' = [details EXCEPT ![row.id] = Unavailable]
  /\ UNCHANGED <<rozetka, cursor, row, orders, notes, moves, flaws>>

\* What dates the row once its detail is merged into it: the detail's history
\* takes the place of the row's, its other dates stand beside it.
MergedDates(d) ==
  IF d.dated = "observed" THEN {row.dated} ELSE {d.dated, Earlier(row.dated, d.dated)}

\* A whole detail gives what the row lacks; one that lacks something takes nothing
\* from the row; and one that is garbled spoils the row.
MergedGoods(d) == IF d.goods = "partial" THEN row.goods ELSE d.goods

\* The detail merged into the row, and the version into those before it. The row is
\* left out with a message when it shows no eligible status, cannot be normalised,
\* or still has no parcel number or no items; other rows of the order may be kept.
KeepRow ==
  /\ pc = "keep" /\ pc' = "rows"
  /\ LET o == row.id
         d == details[o]
         hydrated == row.asks /\ Hydrated(d)
         s == IF hydrated THEN Prefer(row.status, d.status) ELSE row.status
         goods == IF hydrated THEN MergedGoods(d) ELSE row.goods
     IN  \/ /\ s # "processing" /\ goods = "whole"
            /\ \E dated \in IF hydrated THEN MergedDates(d) ELSE {row.dated} :
                 LET version == [status |-> s, at |-> At(s, dated)] IN
                 /\ orders' = [orders EXCEPT ![o] = IF @ = NoVersion THEN version
                                                    ELSE Merge(@, version)]
                 /\ dates' = [dates EXCEPT ![o] = @ \cup {version.at}]
            /\ shown' = [shown EXCEPT ![o] = @ \cup {row.status}
                                               \cup (IF hydrated THEN {d.status} ELSE {})]
            /\ UNCHANGED warned
         \/ /\ s = "processing" \/ goods # "whole"
            /\ warned' = warned \cup {o}
            /\ UNCHANGED <<orders, dates, shown>>
  /\ row' = NoRow
  /\ UNCHANGED <<rozetka, cursor, details, before, drifted, bounds>>

EndFetch ==
  /\ pc = "returned" /\ pc' = "idle"
  /\ Reset
  /\ UNCHANGED <<rozetka, before, bounds>>

-----------------------------------------------------------------------------
(* Orders move on at Rozetka.                                              *)

Reading(s) == /\ pc \notin {"idle", "returned"}
              /\ pc # "search" \/ page > 1
              /\ Types[type] = s

Behind(o) == {p \in Orders : status[p] = status[o] /\ place[p] > place[o]}

ToFront(o) == [p \in Orders |-> IF p = o THEN 1
                               ELSE IF place[p] < place[o] THEN place[p] + 1 ELSE place[p]]

Disturb ==
  /\ moves < MaxMoves /\ moves' = moves + 1
  /\ UNCHANGED <<token, pc, cursor, row, details, orders, before, warned, shown,
                 dates, flaws, faults>>

\* An order goes on in its lifecycle; those behind it in its old list move up.
Move(o) ==
  /\ Disturb
  /\ \E s \in {t \in Statuses : Rank(t) > Rank(status[o])} :
       status' = [status EXCEPT ![o] = s]
  /\ place' = ToFront(o)
  /\ drifted' = IF Reading(status[o]) THEN drifted \cup Behind(o) ELSE drifted

\* Something else of it changes: it moves to the front of its own list.
Touch(o) ==
  /\ Disturb
  /\ place[o] # 1
  /\ place' = ToFront(o)
  /\ drifted' = IF Reading(status[o]) THEN drifted \cup {o} ELSE drifted
  /\ UNCHANGED status

\* The token of a client that cannot log in expires.
ExpireToken ==
  /\ token = "valid" /\ token' = "refused"
  /\ FaultWhen(TRUE)
  /\ UNCHANGED <<status, place, pc, cursor, row, details, orders, notes, moves, flaws>>

Search == SearchPage \/ EmptyType \/ PageGone \/ SearchFails \/ PageDone
Row    == TakeRow \/ GetDetail \/ DetailFails \/ KeepRow

Next == \/ StartFetch \/ Search \/ Row \/ EndFetch
        \/ \E o \in Orders : Move(o) \/ Touch(o)
        \/ ExpireToken

Spec == Init /\ [][Next]_vars

-----------------------------------------------------------------------------
(* What must hold.                                                         *)

\* Every variable keeps its type; an order is in hand exactly while it is
\* hydrated and kept, and every version that was kept has a status and a date.
TypeOK ==
  /\ status \in [Orders -> Statuses] /\ token \in {"valid", "refused"}
  /\ place \in Places
  /\ pc \in Phases /\ type \in 1 .. 3 /\ page \in Nat \ {0} /\ last \in BOOLEAN
  /\ left \in Seq([id : Orders, status : Eligible])
  /\ IF pc \in {"detail", "keep"}
     THEN row \in [id : Orders, status : Statuses, dated : Dates, goods : Goods,
                 asks : BOOLEAN]
     ELSE row = NoRow
  /\ details \in [Orders -> [status : Statuses \cup {"unasked", "unavailable"},
                             dated : Dates, goods : Goods]]
  /\ orders \in [Orders -> [status : Statuses, at : Dates]]
  /\ \A o \in Orders : IF dates[o] = {} THEN orders[o] = NoVersion
                       ELSE orders[o].status \in Eligible /\ orders[o].at \in dates[o]
  /\ before \in [Orders -> Statuses]
  /\ drifted \subseteq Orders /\ warned \subseteq Orders
  /\ shown \in [Orders -> SUBSET Statuses] /\ dates \in [Orders -> SUBSET Dates]
  /\ moves \in 0 .. MaxMoves /\ flaws \in 0 .. MaxFlaws /\ faults \in 0 .. MaxFaults

\* However the payloads an order is kept from disagree and in whatever sequence they
\* come, it has the furthest status any of them has shown, and the earliest of their
\* exact dates: no later row or older detail takes it back, and the shipment is not
\* forgotten for a later version. A row that is left out with a message, for want of
\* a parcel number or items or because it is garbled, counts for nothing: it may have
\* shown a further status, and the order then comes out with that of its other rows.
BestOfAll ==
  \A o \in Orders : orders[o] # NoVersion =>
    /\ \A s \in shown[o] : Rank(s) <= Rank(orders[o].status)
    /\ orders[o].status \in shown[o]
    /\ orders[o].at = CASE "shipped" \in dates[o] -> "shipped"
                        [] "changed" \in dates[o] -> "changed"
                        [] OTHER -> "observed"

\* A fetch that returns silently passes over no order that was eligible when it
\* began, also when the order itself goes on from list to list meanwhile, unless
\* the order has moved towards the front of the very list being read.
LostOnlyByDrift ==
  pc = "returned" =>
    \A o \in Orders :
      before[o] \in Eligible /\ o \notin drifted /\ orders[o] = NoVersion
        => o \in warned

=============================================================================
