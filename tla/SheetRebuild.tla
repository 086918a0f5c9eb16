---------------------------- MODULE SheetRebuild ----------------------------
(***************************************************************************)
(* The rows of the CRM worksheet and their rebuild: validate_integrity     *)
(* before the run, then append_orders reads the rows, lays them out anew,  *)
(* reads them again, writes the new layout over the old one and clears     *)
(* what is left below. A run may die between any two of these requests,    *)
(* and the manager works on the same rows meanwhile.                       *)
(*                                                                         *)
(* SheetSync abstracts all this to one row per order and the flag corrupt. *)
(* Month rows and the header rows of a day are one with its day row, the   *)
(* three report rows of a past day are one row.                            *)
(***************************************************************************)
EXTENDS Naturals, FiniteSets, FiniteSetsExt, SequencesExt, Ordinals

CONSTANTS
  Keys,             \* sync keys, in the order of the sheet's sort values
  Items,            \* the products of an order, line by line
  Prepaid,          \* orders with a prepayment
  MaxDay,           \* bound on the calendar
  MaxDisturbances,  \* bound on the manager's edits and on midnights
  MaxFaults         \* bound on lost runs

ASSUME RebuildAssumption ==
  /\ Keys \subseteq Nat \ {0} /\ IsFiniteSet(Keys) /\ Prepaid \subseteq Keys
  /\ DOMAIN Items = Keys
  /\ \A k \in Keys : Items[k] \in Seq(Range(Items[k])) /\ Items[k] # <<>>
  /\ MaxDay \in Nat /\ MaxDisturbances \in Nat /\ MaxFaults \in Nat

VARIABLES
  day,       \* calendar day
  rows,      \* the worksheet
  pc,        \* the request that comes next
  today,     \* operational day of the run
  existing,  \* keys the run found in the worksheet
  snap,      \* the rows the layout is computed from
  layout,    \* the new rows
  updates,   \* cells to be updated: row number, the order read there, new value
  shifted,   \* observed: rows were moved, copied or deleted since that read
  touched,   \* observed: the manager edited after the second read
  handmade,  \* observed: the manager moved, copied or deleted rows
  disturbances, faults

locals == <<today, existing, snap, layout, updates>>
vars   == <<day, rows, pc, locals, shifted, touched, handmade, disturbances, faults>>

Days     == 0 .. MaxDay
Phases   == {"idle", "preflight", "refresh", "code", "update", "mark", "read",
             "reread", "write", "clear", "check"}
Products == UNION {Range(Items[k]) : k \in Keys}

-----------------------------------------------------------------------------
(* Rows. filled: the manager's cell, the dollar rate of a day or the note  *)
(* of an order row; head: the order number of the group, with its total;   *)
(* code: what refresh_order_details repeats of the product beside its name *)
(* (code, quantity, price), blank while the marketplace has not named it.  *)

NoKey     == 0
NoProduct == "none"
DayRow(d, rate) ==
  [kind |-> "day", day |-> d, key |-> NoKey, product |-> NoProduct,
   code |-> NoProduct, head |-> "none", refused |-> FALSE, filled |-> rate]
ReportRow(d) == [DayRow(d, FALSE) EXCEPT !.kind = "report"]

IsOrderRow(r) == r.kind = "order"

\* The order rows of a key, in the order of the worksheet.
Places(s, k) == {i \in DOMAIN s : IsOrderRow(s[i]) /\ s[i].key = k}
Group(s, k)  == Selected(s, Places(s, k))
KeysOf(s)    == {k \in Keys : Places(s, k) # {}}

DayRowsOf(s, d) == {i \in DOMAIN s : s[i].kind = "day" /\ s[i].day = d}
LayoutDays(s)   == {d \in Days : DayRowsOf(s, d) # {}}

\* latest_layout_day
LayoutIsBehind(s, d) == \A e \in LayoutDays(s) : e < d

\* One refused row refuses the order.
RefusedIn(s, k) == \E i \in DOMAIN s : IsOrderRow(s[i]) /\ s[i].key = k /\ s[i].refused

\* needs_refusal_reconciliation, as far as rows are to be removed
ToBeRemoved(s) == {k \in KeysOf(s) \ Prepaid : RefusedIn(s, k)}

-----------------------------------------------------------------------------
(* validate_integrity.                                                     *)

Heads(s, k) == {i \in Places(s, k) : s[i].head # "none"}

\* Mutant: equal product rows are not looked for.
SoundBlockWithRepeats(s, k) ==
  LET first == Min(Places(s, k)) IN
  /\ Places(s, k) = first .. Max(Places(s, k))
  /\ Heads(s, k) = {first}
  /\ s[first].head = "own"

SoundBlock(s, k) ==
  LET first == Min(Places(s, k)) IN
  /\ Places(s, k) = first .. Max(Places(s, k))
  /\ Heads(s, k) = {first}
  /\ s[first].head = "own"
  /\ \A i, j \in Places(s, k) : s[i].product = s[j].product => i = j

Sound(s) == \A k \in KeysOf(s) : SoundBlock(s, k)

-----------------------------------------------------------------------------
(* The new layout.                                                         *)

\* _new_order_rows
NewGroup(k, d) ==
  [i \in DOMAIN Items[k] |->
     [kind |-> "order", day |-> d, key |-> k, product |-> Items[k][i],
      code |-> Items[k][i], head |-> "own", refused |-> FALSE, filled |-> FALSE]]

\* Mutant: each row of an order replaces the one before it.
CollectLastRow(s, new, d) ==
  LET kept == KeysOf(s) \ ToBeRemoved(s)
  IN  [k \in kept \cup new |-> IF k \in kept THEN <<Last(Group(s, k))>>
                               ELSE NewGroup(k, d)]

\* collect_order_groups, for the rows s, the new orders and their day
Collect(s, new, d) ==
  LET kept == KeysOf(s) \ ToBeRemoved(s)
  IN  [k \in kept \cup new |-> IF k \in kept THEN Group(s, k) ELSE NewGroup(k, d)]

\* Every row of a group sets its day; the last one stays.
SectionOf(group) == group[Len(group)].day

\* _append_order_group: number and total of the first row, and only there
WithHead(group) ==
  [i \in DOMAIN group |->
     [group[i] EXCEPT !.head = IF i = 1 THEN group[1].head ELSE "none"]]

\* _extract_daily_usd_rate_values: a doubled day has no rate any more.
RateOf(s, d) == \E i \in DayRowsOf(s, d) : DayRowsOf(s, d) = {i} /\ s[i].filled

\* Mutant: a day without orders starts no layout.
FirstDayOfOrders(groups, s, d) ==
  Min({d} \cup {SectionOf(groups[k]) : k \in DOMAIN groups})

FirstDay(groups, s, d) ==
  Min({d} \cup {SectionOf(groups[k]) : k \in DOMAIN groups} \cup LayoutDays(s))

Section(groups, s, e, d) ==
  LET here == {k \in DOMAIN groups : SectionOf(groups[k]) = e}
  IN  <<DayRow(e, RateOf(s, e))>>
        \o FlattenSeq([i \in 1 .. Cardinality(here) |->
                         WithHead(groups[Nth(here, i)])])
        \o (IF e < d THEN <<ReportRow(e)>> ELSE <<>>)

\* Mutant: the loop over the days goes one day too far.
LayoutPastToday(groups, s, d) ==
  LET first == FirstDay(groups, s, d)
  IN  FlattenSeq([n \in 1 .. d + 2 - first |-> Section(groups, s, first + n - 1, d)])

\* build_sheet_snapshot, for the operational day d
Layout(groups, s, d) ==
  LET first == FirstDay(groups, s, d)
  IN  FlattenSeq([n \in 1 .. d + 1 - first |-> Section(groups, s, first + n - 1, d)])

-----------------------------------------------------------------------------
\* An order of several lines, imported when its products had no codes.
Uncoded(group) ==
  [i \in DOMAIN group |->
     [group[i] EXCEPT !.code = IF Len(group) > 1 THEN NoProduct ELSE @]]

\* The worksheet as complete rebuilds have left it: some orders, each placed
\* on its day.
Init ==
  /\ day \in Days
  /\ \E known \in SUBSET Keys : \E placed \in [known -> 0 .. day] :
       rows = Layout([k \in known |-> Uncoded(NewGroup(k, placed[k]))], <<>>, day)
  /\ pc = "idle" /\ today = 0 /\ existing = {}
  /\ snap = <<>> /\ layout = <<>> /\ updates = {}
  /\ shifted = FALSE /\ touched = FALSE /\ handmade = FALSE
  /\ disturbances = 0 /\ faults = 0

EndRun ==
  /\ pc' = "idle" /\ today' = 0 /\ existing' = {}
  /\ snap' = <<>> /\ layout' = <<>> /\ updates' = {}
  /\ shifted' = FALSE /\ touched' = FALSE

\* clock()
Start ==
  /\ pc = "idle" /\ pc' = "preflight"
  /\ today' = day
  /\ UNCHANGED <<day, rows, existing, snap, layout, updates, shifted, touched, handmade,
                 disturbances, faults>>

\* validate_integrity and read_existing_sync_keys
CheckBefore ==
  /\ pc = "preflight" /\ pc' = "refresh"
  /\ Sound(rows)
  /\ existing' = KeysOf(rows)
  /\ UNCHANGED <<day, rows, today, snap, layout, updates, shifted, touched, handmade,
                 disturbances, faults>>

\* IntegrityError: an unsound worksheet ends the run before it does anything.
RefuseBefore ==
  /\ pc = "preflight"
  /\ ~ Sound(rows)
  /\ EndRun
  /\ UNCHANGED <<day, rows, handmade, disturbances, faults>>

\* Mutant: the lines of an order are counted over all rows above.
LineOfTheSheet(i) ==
  LET k == rows[i].key
      n == Cardinality({j \in 1 .. i : IsOrderRow(rows[j])})
  IN  IF n <= Len(Items[k]) THEN Items[k][n] ELSE rows[i].code

\* refresh_order_details: the order's lines are matched with its rows one by one,
\* from the first row down, whatever product a row names.
LineOf(i) ==
  LET k == rows[i].key
      n == CountUpTo(Places(rows, k), i)
  IN  IF n <= Len(Items[k]) THEN Items[k][n] ELSE rows[i].code

PlanDetails ==
  /\ pc = "refresh" /\ pc' = "code"
  /\ \E fetched \in SUBSET existing :
       updates' = {<<i, rows[i].key, LineOf(i)>> : i \in {j \in DOMAIN rows :
                     rows[j].key \in fetched /\ rows[j].code # LineOf(j)}}
  /\ UNCHANGED <<day, rows, today, existing, snap, layout, shifted, touched,
                 handmade, disturbances, faults>>

WriteDetails ==
  /\ pc = "code" /\ pc' = "update"
  /\ rows' = [i \in DOMAIN rows |->
                IF \E u \in updates : u[1] = i
                THEN [rows[i] EXCEPT !.code = (CHOOSE u \in updates : u[1] = i)[3]]
                ELSE rows[i]]
  /\ updates' = {} /\ shifted' = FALSE
  /\ UNCHANGED <<day, today, existing, snap, layout, touched, handmade,
                 disturbances, faults>>

\* The run learns of refusals, reads the rows and computes the cells to update:
\* row numbers, whatever stands there later.
PlanUpdates ==
  /\ pc = "update" /\ pc' = "mark"
  /\ \E refusals \in SUBSET existing :
       updates' = {<<i, rows[i].key, "refused">> : i \in {j \in DOMAIN rows :
                     rows[j].key \in refusals /\ ~ rows[j].refused}}
  /\ UNCHANGED <<day, rows, today, existing, snap, layout, shifted, touched,
                 handmade, disturbances, faults>>

\* Mutant: the rows are counted from zero.
MarkedBelow(i) == \E u \in updates : u[1] = i + 1

\* The status cell of this row is among the updates.
Marked(i) == \E u \in updates : u[1] = i

\* batch_update of those cells; cells below the last row are nobody's.
WriteUpdates ==
  /\ pc = "mark" /\ pc' = "read"
  /\ rows' = [i \in DOMAIN rows |->
                IF Marked(i) THEN [rows[i] EXCEPT !.refused = TRUE] ELSE rows[i]]
  /\ updates' = {} /\ shifted' = FALSE
  /\ UNCHANGED <<day, today, existing, snap, layout, touched, handmade,
                 disturbances, faults>>

\* Mutant: a refused order alone asks for no rebuild.
SkipRebuildOfRefused ==
  /\ pc = "read" /\ pc' = "check"
  /\ ~ LayoutIsBehind(rows, today)
  /\ UNCHANGED <<day, rows, locals, shifted, touched, handmade, disturbances, faults>>

\* append_orders without new orders and without force_rebuild
SkipRebuild ==
  /\ pc = "read" /\ pc' = "check"
  /\ ~ LayoutIsBehind(rows, today) /\ ToBeRemoved(rows) = {}
  /\ UNCHANGED <<day, rows, locals, shifted, touched, handmade, disturbances, faults>>

\* Some refreshed cell may be the only reason of a rebuild.
ReadRows ==
  /\ pc = "read" /\ pc' = "reread"
  /\ snap' = rows
  /\ \E new \in SUBSET (Keys \ existing) :
       layout' = Layout(Collect(rows, new, today), rows, today)
  /\ UNCHANGED <<day, rows, today, existing, updates, shifted, touched, handmade,
                 disturbances, faults>>

RereadRows ==
  /\ pc = "reread" /\ pc' = "write"
  /\ rows = snap
  /\ UNCHANGED <<day, rows, locals, shifted, touched, handmade, disturbances, faults>>

\* ConcurrentSheetEditError
RefuseConcurrentEdit ==
  /\ pc = "reread"
  /\ rows # snap
  /\ EndRun
  /\ UNCHANGED <<day, rows, handmade, disturbances, faults>>

WriteRows ==
  /\ pc = "write" /\ pc' = "clear"
  /\ rows' = layout \o SubSeq(rows, Len(layout) + 1, Len(rows))
  /\ UNCHANGED <<day, locals, shifted, touched, handmade, disturbances, faults>>

\* Mutant: the clearing starts one row too low.
ClearTailOneLower ==
  /\ pc = "clear" /\ pc' = "check"
  /\ rows' = SubSeq(rows, 1, Min({Len(rows), Len(layout) + 1}))
  /\ UNCHANGED <<day, locals, shifted, touched, handmade, disturbances, faults>>

\* batch_clear below last_used_row
ClearTail ==
  /\ pc = "clear" /\ pc' = "check"
  /\ rows' = SubSeq(rows, 1, Min({Len(rows), Len(layout)}))
  /\ UNCHANGED <<day, locals, shifted, touched, handmade, disturbances, faults>>

\* validate_integrity again; whatever it says, the run is over.
CheckAfter ==
  /\ pc = "check"
  /\ EndRun
  /\ UNCHANGED <<day, rows, handmade, disturbances, faults>>

\* A failed request, the step timeout or a lost runner.
Crash ==
  /\ pc # "idle"
  /\ faults < MaxFaults
  /\ faults' = faults + 1
  /\ EndRun
  /\ UNCHANGED <<day, rows, handmade, disturbances>>

RunStep == \/ Start \/ CheckBefore \/ RefuseBefore \/ PlanDetails \/ WriteDetails
           \/ PlanUpdates \/ WriteUpdates \/ SkipRebuild \/ ReadRows \/ RereadRows \/ RefuseConcurrentEdit
           \/ WriteRows \/ ClearTail \/ CheckAfter

-----------------------------------------------------------------------------
(* The manager, and the calendar.                                          *)

Disturb ==
  /\ disturbances < MaxDisturbances
  /\ disturbances' = disturbances + 1
  /\ UNCHANGED <<pc, locals, faults>>

Midnight ==
  /\ Disturb
  /\ day < MaxDay /\ day' = day + 1
  /\ UNCHANGED <<rows, shifted, touched, handmade>>

Edit ==
  /\ Disturb
  /\ touched' = (touched \/ pc \in {"write", "clear", "check"})
  /\ UNCHANGED day

\* The rate of a day or the note of an order row, written or emptied.
EditCell(i) ==
  /\ Edit
  /\ rows[i].kind \in {"day", "order"}
  /\ rows' = [rows EXCEPT ![i].filled = ~ @]
  /\ UNCHANGED <<shifted, handmade>>

\* The order number, overwritten or emptied.
EditHead(i) ==
  /\ Edit
  /\ \E head \in {"none", "other"} :
       rows[i].head = "own" /\ rows' = [rows EXCEPT ![i].head = head]
  /\ UNCHANGED <<shifted, handmade>>

Shift ==
  /\ Edit
  /\ handmade' = TRUE
  /\ shifted' = (shifted \/ pc \in {"code", "mark"})

MoveRow(i, j) ==
  /\ Shift
  /\ i # j
  /\ rows' = InsertAt(RemoveAt(rows, i), j, rows[i])

CopyRow(i, j) ==
  /\ Shift
  /\ rows' = InsertAt(rows, j, rows[i])

DeleteRow(i) ==
  /\ Shift
  /\ rows' = RemoveAt(rows, i)

Disturbance ==
  \/ Midnight
  \/ \E i \in DOMAIN rows :
       \/ EditCell(i) \/ EditHead(i) \/ DeleteRow(i)
       \/ \E j \in DOMAIN rows : MoveRow(i, j) \/ CopyRow(i, j)

Next == RunStep \/ Crash \/ Disturbance

\* The scheduler starts runs, and no call of a run lasts for ever.
CallEnds == pc' \in Phases

Fairness == WF_pc(CallEnds)

Spec     == Init /\ [][Next]_vars
FairSpec == Spec /\ Fairness

-----------------------------------------------------------------------------
(* What must hold.                                                         *)

RowType ==
  {r \in [kind : {"day", "report", "order"}, day : Days, key : Keys \cup {NoKey},
          product : Products \cup {NoProduct}, code : Products \cup {NoProduct},
          head : {"none", "own", "other"}, refused : BOOLEAN, filled : BOOLEAN] :
     IF IsOrderRow(r) THEN r.key # NoKey /\ r.product \in Range(Items[r.key])
     ELSE r.key = NoKey /\ r.head = "none"}

\* Every variable keeps its type; an order row is one of an order's lines.
TypeOK ==
  /\ day \in Days /\ today \in Days
  /\ rows \in Seq(RowType) /\ snap \in Seq(RowType) /\ layout \in Seq(RowType)
  /\ pc \in Phases
  /\ existing \subseteq Keys
  /\ \A u \in updates : u[1] \in Nat /\ u[2] \in existing
  /\ shifted \in BOOLEAN /\ touched \in BOOLEAN /\ handmade \in BOOLEAN
  /\ disturbances \in 0 .. MaxDisturbances /\ faults \in 0 .. MaxFaults

Lines(group) == [i \in DOMAIN group |-> group[i].product]

\* However a rebuild was torn, a run that gets past the integrity check works
\* on whole orders: each one in the worksheet has all of its lines, once and
\* in their order, as long as nobody moved rows by hand. (Anything else a torn
\* rebuild leaves is refused.)
CheckedOrdersAreWhole ==
  pc = "refresh" /\ ~ handmade =>
    \A k \in KeysOf(rows) : Lines(Group(rows, k)) = Items[k]

ListsProductsOnce(k) == \A i, j \in DOMAIN Items[k] : Items[k][i] = Items[k][j] => i = j

\* What a complete rebuild leaves passes the check that follows, whatever
\* became longer, shorter, older or came anew, order by order: a kept one if the
\* rows it was read from did, a new one unless it lists a product twice (the
\* check never passes one that does).
RebuildStaysSound ==
  pc = "check" /\ ~ touched /\ snap # <<>> =>
    \A k \in KeysOf(rows) :
      IF k \in KeysOf(snap) \ ToBeRemoved(snap)
      THEN SoundBlock(snap, k) => SoundBlock(rows, k)
      ELSE ListsProductsOnce(k) => SoundBlock(rows, k)

\* A complete rebuild loses no row of an order it keeps and none of the cells
\* the manager or a refresh filled, even if it has read rows that were moved, copied or
\* torn apart: they come out together again, in the order they stood in.
KeptRowsSurvive ==
  pc = "check" /\ ~ touched /\ snap # <<>> =>
    \A k \in KeysOf(snap) \ ToBeRemoved(snap) :
      SectionOf(Group(snap, k)) <= today =>
        LET before == Group(snap, k)
            after  == Group(rows, k)
        IN  /\ Lines(before) = Lines(after)
            /\ \A i \in DOMAIN before : /\ before[i].filled = after[i].filled
                                         /\ before[i].code = after[i].code

RateFilled(s, d) == \E i \in DayRowsOf(s, d) : s[i].filled

\* The dollar rate of a day, once entered, is lost only by the manager's hand
\* as long as the day stands in the worksheet once: not by a rebuild that
\* removes the last order of the day, moves the day or is torn.
RatesKept ==
  [][\A d \in Days :
       RateFilled(rows, d) /\ ~ RateFilled(rows', d) =>
         \/ disturbances' # disturbances \/ touched
         \/ Cardinality(DayRowsOf(snap, d)) > 1]_vars

\* What is written by row number hits the row it was computed for. The update of
\* the shipments marks no other order than those refused, unless rows were moved,
\* copied or deleted between its read and its write: then it marks what stands
\* there by now, and the rebuild removes that order. The refresh gives each row
\* the code of its own product, also after torn rebuilds and new layouts, unless
\* rows were ever moved by hand: it matches them by their place in the order.
UpdatesHitTheirRow ==
  [][/\ \A k \in Keys :
          pc = "mark" /\ RefusedIn(rows', k) /\ ~ RefusedIn(rows, k) =>
            \/ shifted
            \/ \E u \in updates : u[2] = k
     /\ pc = "code" /\ ~ handmade' =>
          \A i \in DOMAIN rows : rows'[i].code # rows[i].code =>
            rows'[i].code = rows[i].product]_vars

\* A refused order without prepayment ends up outside the worksheet, also one
\* that a torn rebuild has brought back, unless the check refuses the rows.
RefusedOrdersLeave ==
  \A k \in Keys \ Prepaid : []<> ~ (RefusedIn(rows, k) /\ Sound(rows))

(* What the documentation says and the program does not do.                *)

\* "Preserve user-entered daily rates during structural sheet rebuilds"
\* (_extract_daily_usd_rate_values). A rebuild torn before its clearing can
\* leave the last day twice; the check does not look at day rows, and the next
\* rebuild empties the rate of that day.
RatesSurviveRebuilds ==
  [][\A d \in Days :
       RateFilled(rows, d) /\ ~ RateFilled(rows', d) =>
         disturbances' # disturbances \/ touched]_vars

=============================================================================
