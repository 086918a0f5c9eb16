--------------------------- MODULE OpenCartOrders ---------------------------
(***************************************************************************)
(* How OpenCartClient.fetch_orders collects the completed orders from the  *)
(* shop's crm_orders.php: page by page at growing offsets into a list that *)
(* is sorted by the second of the last change, while managers go on        *)
(* completing, reopening and editing orders. Nothing holds the list still  *)
(* between two pages.                                                      *)
(***************************************************************************)
EXTENDS Integers, FiniteSets, Sequences

CONSTANTS
  Orders,     \* orders of the shop changed since the beginning of the interval
  Limit,      \* limit
  MaxNow,     \* bound on the seconds that pass
  MaxEdits    \* bound on the changes of orders in the shop

VARIABLES
  \* The shop
  complete,       \* orders in a completed status
  date_modified,  \* second of the last change of each order
  now,
  \* The fetch
  phase, offset,
  fetched,        \* orders collected so far
  \* Observations
  begun,          \* orders complete when the fetch began
  touched,        \* orders changed since
  left,           \* the seconds at which orders changed since stood in the list
  edits

shop  == <<complete, date_modified, now>>
fetch == <<phase, offset, fetched>>
notes == <<begun, touched, left>>
vars  == <<shop, fetch, notes, edits>>

Seconds == 0 .. MaxNow

Init ==
  /\ complete \in SUBSET Orders
  /\ now = 1 /\ date_modified \in [Orders -> 0 .. now]
  /\ phase = "idle" /\ offset = 0 /\ fetched = {}
  /\ begun = {} /\ touched = {} /\ left = <<>>
  /\ edits = 0

-----------------------------------------------------------------------------
(* The endpoint: ORDER BY date_modified ASC LIMIT offset, limit. Orders of *)
(* the same second come in an order that each query chooses anew.          *)

Sorted(first) ==
  \A o \in first, p \in complete \ first : date_modified[o] <= date_modified[p]

\* The sets the first n of the list can be.
Firsts(n) == {first \in SUBSET complete :
                /\ \/ Cardinality(first) = n
                   \/ Cardinality(first) < n /\ first = complete
                /\ Sorted(first)}

Pages == UNION {{upto \ before : upto \in {u \in Firsts(offset + Limit) : before \subseteq u}} :
                  before \in Firsts(offset)}

-----------------------------------------------------------------------------
(* The client. What it leaves out of a page, orders without a parcel or    *)
(* without products, does not change the paging and is left out here.      *)

StartFetch ==
  /\ phase = "idle"
  /\ phase' = "page" /\ offset' = 0 /\ fetched' = {}
  /\ begun' = complete /\ touched' = {} /\ left' = <<>>
  /\ UNCHANGED <<shop, edits>>

\* Mutant: the offset skips one order with every page.
NextOffsetSkips == offset + Limit + 1

NextOffset == offset + Limit

FullPage ==
  /\ phase = "page"
  /\ \E page \in Pages : Cardinality(page) = Limit /\ fetched' = fetched \cup page
  /\ offset' = NextOffset
  /\ UNCHANGED <<shop, phase, notes, edits>>

\* The last page is the first one that is not full.
LastPage ==
  /\ phase = "page"
  /\ \E page \in Pages : Cardinality(page) < Limit /\ fetched' = fetched \cup page
  /\ phase' = "returned"
  /\ UNCHANGED <<shop, offset, notes, edits>>

Forget == phase' = "idle" /\ offset' = 0 /\ fetched' = {}

\* The HTTP client has used up its retries, or the answer is no list of orders:
\* what was collected is given up.
RequestFails ==
  /\ phase = "page"
  /\ Forget
  /\ UNCHANGED <<shop, notes, edits>>

EndFetch ==
  /\ phase = "returned"
  /\ Forget
  /\ UNCHANGED <<shop, notes, edits>>

-----------------------------------------------------------------------------
(* Managers change orders at any time, external.                           *)

Change(o) ==
  /\ edits < MaxEdits /\ edits' = edits + 1
  /\ date_modified' = [date_modified EXCEPT ![o] = now]
  /\ touched' = touched \cup {o}
  /\ left' = IF o \in complete /\ date_modified[o] < now
             THEN Append(left, date_modified[o]) ELSE left
  /\ UNCHANGED <<now, fetch, begun>>

Complete(o) == o \notin complete /\ Change(o) /\ complete' = complete \cup {o}
Edit(o)     == o \in complete /\ Change(o) /\ UNCHANGED complete

\* To a status that is not complete.
Reopen(o) ==
  /\ o \in complete
  /\ edits < MaxEdits /\ edits' = edits + 1
  /\ complete' = complete \ {o}
  /\ date_modified' = [date_modified EXCEPT ![o] = now]
  /\ touched' = touched \cup {o}
  /\ left' = Append(left, date_modified[o])
  /\ UNCHANGED <<now, fetch, begun>>

SecondPasses ==
  /\ now < MaxNow /\ now' = now + 1
  /\ UNCHANGED <<complete, date_modified, fetch, notes, edits>>

Request == FullPage \/ LastPage \/ RequestFails

Next ==
  \/ StartFetch \/ Request \/ EndFetch \/ SecondPasses
  \/ \E o \in Orders : Complete(o) \/ Edit(o) \/ Reopen(o)

Spec == Init /\ [][Next]_vars

FairSpec == Spec /\ WF_vars(Request)

-----------------------------------------------------------------------------
(* What must hold.                                                         *)

\* Every variable keeps its type; only a full page is followed by another.
TypeOK ==
  /\ complete \subseteq Orders
  /\ now \in Seconds /\ date_modified \in [Orders -> 0 .. now]
  /\ phase \in {"idle", "page", "returned"}
  /\ offset \in Nat /\ (offset > 0 => Cardinality(fetched) >= Limit)
  /\ fetched \subseteq Orders /\ begun \subseteq Orders /\ touched \subseteq Orders
  /\ left \in Seq(Seconds) /\ Len(left) <= MaxEdits
  /\ edits \in 0 .. MaxEdits

\* Complete from the beginning of a fetch that returned, untouched, and not in it.
Missed == {o \in begun \ touched : phase = "returned" /\ o \notin fetched}

\* Orders in the list with another of their second, now or before that one left:
\* no two queries need put them in the same place.
Tied(o) == \/ \E p \in complete \ {o} : date_modified[p] = date_modified[o]
           \/ \E i \in DOMAIN left : left[i] = date_modified[o]

\* A fetch passes over an order nobody touched only because another one gave up
\* its place before it meanwhile, at most one order for each place given up, or
\* because it was changed in the same second as another.
MissedOnlyByDrift ==
  \A o \in Missed :
    \/ Tied(o)
    \/ Cardinality({p \in Missed : ~ Tied(p) /\ date_modified[p] <= date_modified[o]})
         <= Cardinality({i \in DOMAIN left : left[i] <= date_modified[o]})

\* The list is finite, so a page that is not full comes at some offset, whatever
\* managers do meanwhile, or the fetch fails.
FetchesEnd == (phase = "page") ~> (phase # "page")

=============================================================================
