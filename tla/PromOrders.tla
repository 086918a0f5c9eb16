----------------------------- MODULE PromOrders -----------------------------
(***************************************************************************)
(* How PromClient.fetch_orders_between collects the orders of an interval: *)
(* first the list of delivered orders, then that of cancelled ones, page   *)
(* by page, while orders go on changing at Prom. The pages are cut by a    *)
(* cursor on the order number; the interval ends when the fetch begins, so *)
(* an order changed later is in neither list.                              *)
(***************************************************************************)
EXTENDS Integers, FiniteSets

CONSTANTS
  Ids,          \* numbers of Prom's orders
  Top,          \* the cursor of a first page, which asks for none: above them all
  Bare,         \* orders without a parcel number or without items
  PageSize,     \* limit
  MaxChanges,   \* bound on the changes of orders at Prom
  MaxRetries    \* max_retries of the HTTP client

ASSUME PromAssumption ==
  /\ Top \in Nat /\ Ids \subseteq 1 .. Top - 1 /\ Bare \subseteq Ids
  /\ PageSize \in Nat \ {0}
  /\ MaxChanges \in Nat /\ MaxRetries \in Nat

VARIABLES
  \* Prom
  status,     \* status of each order
  honours,    \* whether Prom heeds the cursor
  \* The fetch
  pc, list, cursor, seen_cursors,
  pages,      \* orders on the pages of the list so far
  raw_by_id,  \* status of the collected version of each order
  attempt,    \* attempts of the present request that have failed
  \* Observations
  rejected,   \* whether Prom has refused the list of cancelled orders
  late,       \* whether the second in which the interval ends has passed
  modified,   \* orders changed after that second
  start,      \* the status of the orders when the fetch, or their list, began
  changes

prom  == <<status, honours>>
fetch == <<pc, list, cursor, seen_cursors, pages, raw_by_id, attempt>>
notes == <<rejected, late, modified, start>>
vars  == <<prom, fetch, notes, changes>>

Statuses == {"received", "delivered", "canceled"}
Lists    == {"delivered", "canceled"}
Phases   == {"idle", "page", "returned"}
None     == "none"

Init ==
  /\ status \in [Ids -> Statuses]
  /\ honours \in BOOLEAN
  /\ pc = "idle" /\ list = "delivered" /\ cursor = Top /\ seen_cursors = {}
  /\ pages = {} /\ raw_by_id = [o \in Ids |-> None] /\ attempt = 0
  /\ rejected = FALSE /\ late = FALSE /\ modified = {} /\ start = status
  /\ changes = 0

-----------------------------------------------------------------------------
(* The pages of a list, external.                                          *)

Matching(c) ==
  {o \in Ids \ modified : status[o] = list /\ (honours => o <= c)}

\* The PageSize highest numbers.
Page(c) ==
  {o \in Matching(c) : Cardinality({p \in Matching(c) : p > o}) < PageSize}

-----------------------------------------------------------------------------
(* The client.                                                             *)

BeginList(l) ==
  /\ pc' = "page" /\ list' = l /\ cursor' = Top /\ seen_cursors' = {}
  /\ pages' = {} /\ attempt' = 0

\* The interval ends now; what has changed so far is inside.
StartFetch ==
  /\ pc = "idle"
  /\ BeginList("delivered")
  /\ raw_by_id' = [o \in Ids |-> None]
  /\ rejected' = FALSE /\ late' = FALSE /\ modified' = {} /\ start' = status
  /\ UNCHANGED <<prom, changes>>

\* Once all pages of a list are there its orders are collected. A later version
\* replaces an earlier one only if it is a cancellation.
Collect(listed) ==
  [o \in Ids |-> IF o \in listed /\ (raw_by_id[o] = None \/ list = "canceled")
                 THEN list ELSE raw_by_id[o]]

Return == /\ pc' = "returned" /\ pages' = {} /\ attempt' = 0
          /\ UNCHANGED <<list, cursor, seen_cursors>>

EndList ==
  IF list = "delivered"
  THEN /\ BeginList("canceled")
       /\ start' = [o \in Ids |-> IF status[o] = "canceled" /\ o \notin modified
                                 THEN "canceled" ELSE start[o]]
  ELSE Return /\ UNCHANGED start

\* Mutant: the cursor is the last order's number less one too many.
NextCursorTooLow(page) == (CHOOSE o \in page : \A p \in page : o <= p) - 2

\* The cursor is inclusive, so the next page begins below this one's last.
NextCursor(page) == (CHOOSE o \in page : \A p \in page : o <= p) - 1

\* Mutant: a cursor that does not advance is followed.
AdvancesAlways(next) == TRUE

Advances(next) == next \notin seen_cursors /\ next < cursor

\* The last page is the first one that is not full.
LastPage ==
  /\ pc = "page"
  /\ Cardinality(Page(cursor)) < PageSize
  /\ raw_by_id' = Collect(pages \cup Page(cursor))
  /\ EndList
  /\ UNCHANGED <<prom, rejected, late, modified, changes>>

FullPage ==
  /\ pc = "page"
  /\ Cardinality(Page(cursor)) = PageSize
  /\ LET next == NextCursor(Page(cursor)) IN
       /\ Advances(next)
       /\ cursor' = next /\ seen_cursors' = seen_cursors \cup {next} /\ attempt' = 0
  /\ pages' = pages \cup Page(cursor)
  /\ UNCHANGED <<prom, pc, list, raw_by_id, notes, changes>>

Raise ==
  /\ pc' = "idle" /\ list' = "delivered" /\ cursor' = Top /\ seen_cursors' = {}
  /\ pages' = {} /\ raw_by_id' = [o \in Ids |-> None] /\ attempt' = 0

\* "Prom pagination cursor did not advance"
StuckPage ==
  /\ pc = "page"
  /\ Cardinality(Page(cursor)) = PageSize
  /\ ~ Advances(NextCursor(Page(cursor)))
  /\ Raise
  /\ UNCHANGED <<prom, notes, changes>>

\* 400 or 422 to any page of the cancelled orders: go on without all of that list.
RejectedList ==
  /\ pc = "page" /\ list = "canceled"
  /\ Return
  /\ rejected' = TRUE
  /\ UNCHANGED <<prom, raw_by_id, late, modified, start, changes>>

\* No answer, 429, 5xx or no JSON: request_json asks the same again, later.
RetryRequest ==
  /\ pc = "page"
  /\ attempt < MaxRetries /\ attempt' = attempt + 1
  /\ UNCHANGED <<prom, pc, list, cursor, seen_cursors, pages, raw_by_id, notes, changes>>

\* The retries are used up, or Prom refuses the request for good.
RequestFails ==
  /\ pc = "page"
  /\ Raise
  /\ UNCHANGED <<prom, notes, changes>>

EndFetch ==
  /\ pc = "returned"
  /\ Raise
  /\ UNCHANGED <<prom, notes, changes>>

\* The orders the client returns: delivered ones only with parcel and items.
Fetched == {o \in Ids : \/ raw_by_id[o] = "canceled"
                        \/ raw_by_id[o] = "delivered" /\ o \notin Bare}

-----------------------------------------------------------------------------
(* Orders change at Prom at any time.                                      *)

Change(o) ==
  /\ changes < MaxChanges /\ changes' = changes + 1
  /\ modified' = IF late THEN modified \cup {o} ELSE modified
  /\ UNCHANGED <<honours, fetch, rejected, late, start>>

Deliver(o) == status[o] = "received" /\ Change(o)
              /\ status' = [status EXCEPT ![o] = "delivered"]
Cancel(o)  == status[o] # "canceled" /\ Change(o)
              /\ status' = [status EXCEPT ![o] = "canceled"]
Touch(o)   == late /\ o \notin modified /\ Change(o) /\ UNCHANGED status

SecondPasses ==
  /\ pc = "page" /\ ~ late
  /\ late' = TRUE
  /\ UNCHANGED <<prom, fetch, rejected, modified, start, changes>>

Request == \/ LastPage \/ FullPage \/ StuckPage \/ RejectedList
           \/ RetryRequest \/ RequestFails

Next ==
  \/ StartFetch \/ Request \/ EndFetch \/ SecondPasses
  \/ \E o \in Ids : Deliver(o) \/ Cancel(o) \/ Touch(o)

Spec == Init /\ [][Next]_vars

\* A request is answered or fails within its timeout.
FairSpec == Spec /\ WF_vars(Request)

-----------------------------------------------------------------------------
(* What must hold.                                                         *)

\* Every variable keeps its type; the cursors followed are those left behind,
\* down to the present one; a list that was refused is the last.
TypeOK ==
  /\ status \in [Ids -> Statuses] /\ honours \in BOOLEAN
  /\ pc \in Phases /\ list \in Lists
  /\ cursor \in Int /\ seen_cursors \subseteq Int
  /\ cursor < Top => cursor \in seen_cursors
  /\ \A c \in seen_cursors : cursor <= c /\ c < Top
  /\ raw_by_id \in [Ids -> Lists \cup {None}]
  /\ pages \subseteq Ids /\ (pc # "page" => pages = {})
  /\ rejected \in BOOLEAN /\ (rejected => pc # "page")
  /\ late \in BOOLEAN /\ modified \subseteq Ids
  /\ start \in [Ids -> Statuses]
  /\ attempt \in 0 .. MaxRetries /\ (pc # "page" => attempt = 0)
  /\ changes \in 0 .. MaxChanges

\* A fetch that returns has every order it should have: whatever changes at Prom
\* between two pages, no order is passed over that was not itself changed after
\* the interval had ended, none comes back in a status it never had, and one
\* cancelled before its list was begun comes back cancelled. Only where Prom has
\* refused a page of the cancelled orders, with 400 or 422, all of them are missing
\* and the fetch returns without an error.
UnmodifiedAreFetched ==
  pc = "returned" =>
    \A o \in Ids \ modified :
      /\ start[o] = "canceled" /\ ~ rejected => raw_by_id[o] = "canceled"
      /\ start[o] = "delivered" => raw_by_id[o] \in {"delivered", status[o]}
      /\ start[o] = "received" /\ status[o] = "received" => raw_by_id[o] = None

\* Every fetch ends, however often a request fails, also when Prom does not heed
\* the cursor.
FetchesEnd == (pc = "page") ~> (pc # "page")

=============================================================================
