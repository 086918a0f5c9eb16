------------------------------ MODULE SheetSync ------------------------------
(***************************************************************************)
(* One production synchronisation after another, SyncService.run, against  *)
(* the CRM worksheet: every remote call of the run is a step, and between  *)
(* two steps the marketplaces move on, parcels change status, the manager  *)
(* edits the worksheet, midnight passes or the process dies.               *)
(*                                                                         *)
(* The worksheet is abstracted to one row per order key (SheetRebuild has  *)
(* the rows and their positions); a row keeps what decides whether the     *)
(* order stays, is counted, or is destroyed.                               *)
(***************************************************************************)
EXTENDS Naturals

CONSTANTS
  Orders,            \* sync keys
  Sources,           \* marketplaces
  SourceOf,          \* marketplace of an order
  Exact,             \* orders whose payload dates their status
  Pinned,            \* orders whose rows never move between days (Rozetka)
  SupplierPrepaid,   \* orders a supplier registry marks as prepaid
  Contradicted,      \* orders whose parcel both suppliers list
  CashOnDelivery,    \* orders whose parcel shows a cash sum below the goods total
  Malformed,         \* orders whose payloads may have a flaw
  MaxAge,            \* NEW_ORDER_MAX_AGE_DAYS
  MaxDay,            \* bound on the calendar
  MaxDisturbances,   \* bound on what happens around the synchronisation
  MaxFaults          \* bound on failed calls, crashes and timeouts

ASSUME ConstantsAssumption ==
  /\ SourceOf \in [Orders -> Sources]
  /\ Exact \subseteq Orders
  /\ Pinned \subseteq Orders
  /\ SupplierPrepaid \subseteq Orders
  /\ Contradicted \subseteq Orders
  /\ CashOnDelivery \subseteq Orders
  /\ Malformed \subseteq Orders
  /\ MaxAge \in Nat
  /\ MaxDay \in Nat
  /\ MaxDisturbances \in Nat
  /\ MaxFaults \in Nat

VARIABLES
  \* The world around the program
  day,           \* calendar day
  market,        \* what each marketplace would answer for an order
  parcel,        \* what Nova Poshta would answer for its TTN
  \* The spreadsheet
  sheet,         \* the row of each order, or NoRow
  layoutDay,     \* newest day section of the layout
  schema,        \* "old", "headers" (migration under way), "current"
  corrupt,       \* an order's rows stand in two places or lost their head
  \* Locals of the run
  pc, today, migrating, repairing, existing, feed, quarantine, supplierPaid,
  statuses, refreshed, force, hasBackup, backup, snap, tail, events,
  \* Observations used by properties only
  done,          \* what this run really changed
  journal,       \* what this run wrote to the audit sheet
  late,          \* orders edited between the second read and the write
  disturbances, faults

world  == <<day, market, parcel>>
book   == <<sheet, layoutDay, schema, corrupt>>
plan   == <<today, migrating, repairing, existing, quarantine, supplierPaid>>
locals == <<plan, feed, statuses, refreshed, force, hasBackup, backup, snap,
            tail, events>>
seen   == <<done, journal, late>>
vars   == <<world, book, pc, locals, seen, disturbances, faults>>

-----------------------------------------------------------------------------
Days  == 0 .. MaxDay
Notes == {"empty", "memo", "prepaid"}

\* What breaks a rule of validate_incoming_orders: no tracking number, no
\* items, or an amount, say a prepayment above the total.
Flaws == {"none", "untracked", "itemless", "amount"}

\* An order as a marketplace returns it; "none" is not offered at all.
Offer   == [st : {"none", "shipped", "done", "cancelled"},
            paid : BOOLEAN, day : Days, flaw : Flaws]
NoOffer == [st |-> "none", paid |-> FALSE, day |-> 0, flaw |-> "none"]

Parcel == {"transit", "received", "refused"}

\* "typed" rows carry the technical columns; a row entered by hand does not.
\* broken: a formula shows an error; ttn: the tracking cell is not empty.
Row == [typed : BOOLEAN, st : {"none", "shipped", "done", "cancelled"},
        ship : Parcel \cup {"unknown"}, paid : BOOLEAN, excl : BOOLEAN,
        day : Days, note : Notes, broken : BOOLEAN, ttn : BOOLEAN]

Phases == {"idle", "migration backup", "migrate", "preflight", "fetch",
           "suppliers", "backfill", "tracking", "completion", "details",
           "shipments", "decide", "backup", "read", "reread", "write", "clear",
           "costs", "audit", "postcheck", "unaudited"}

NoRow == [typed |-> FALSE, st |-> "absent"]

Event == {"added", "status", "ship", "removed"} \X Orders

HasRow(s, o)  == s[o] # NoRow
IsTyped(s, o) == HasRow(s, o) /\ s[o].typed
TypedKeys(s)  == {o \in Orders : IsTyped(s, o)}

\* row_is_refused, row_has_prepayment
RowRefused(r) == r.ship = "refused" \/ r.st = "cancelled"
RowPrepaid(r) == r.paid \/ r.note = "prepaid"

\* The supplier's registry is matched by the tracking cell.
SupplierMarks(r, o) == r.ttn /\ o \in supplierPaid

\* Orders of the feed that stay in `fetched`: a cancelled one only when prepaid.
Fetched == {o \in Orders : /\ feed[o].st # "none"
                           /\ feed[o].st = "cancelled" => feed[o].paid}

CancelledExisting == {o \in existing : feed[o].st = "cancelled"}

\* _select_new_orders: a cancelled order without tracking number or items stays
\* out, and so does an order that is missing for too long.
NewOrders ==
  {o \in Fetched \ existing :
     /\ feed[o].st = "cancelled" => feed[o].flaw \notin {"untracked", "itemless"}
     /\ feed[o].day + MaxAge >= today}

-----------------------------------------------------------------------------
(* The rebuild: collect_order_groups and build_sheet_snapshot.             *)

RefusedKey(o) == RowRefused(snap[o]) \/ o \in CancelledExisting

\* Mutant: the manager's note is not asked.
PrepaidKeyIgnoringNote(o) == snap[o].paid \/ SupplierMarks(snap[o], o)

PrepaidKey(o) == RowPrepaid(snap[o]) \/ SupplierMarks(snap[o], o)

\* Mutant: refusals are trusted while a supplier registry cannot be read.
KeptIgnoringQuarantine(o) ==
  /\ IsTyped(snap, o) /\ snap[o].ttn
  /\ RefusedKey(o) => PrepaidKey(o)

\* _normalize_existing_row: a typed row survives unless it has no tracking
\* number or is an unpaid, verified refusal.
Kept(o) == /\ IsTyped(snap, o) /\ snap[o].ttn
           /\ RefusedKey(o) => (PrepaidKey(o) \/ quarantine)

\* Mutant: a retained refusal is not marked.
KeptRowUnmarked(o) == [snap[o] EXCEPT !.broken = FALSE]

KeptRow(o) == [snap[o] EXCEPT !.excl = RefusedKey(o), !.broken = FALSE]

\* _new_order_rows: a refused order without prepayment has no rows.
NewRefused(o) == statuses[o] = "refused" \/ feed[o].st = "cancelled"
Added(o) == /\ o \in NewOrders
            /\ ~ Kept(o)
            /\ NewRefused(o) => feed[o].paid

\* Mutant: the reporting cell of a new row is forgotten.
AddedRowUnreported(o) ==
  [typed |-> TRUE, st |-> feed[o].st, ship |-> statuses[o],
   paid |-> feed[o].paid, day |-> today, note |-> "empty", broken |-> FALSE,
   ttn |-> TRUE]

AddedRow(o) == [typed |-> TRUE, st |-> feed[o].st, ship |-> statuses[o],
                paid |-> feed[o].paid, excl |-> NewRefused(o),
                day |-> IF o \in Exact THEN feed[o].day ELSE today,
                note |-> "empty", broken |-> FALSE, ttn |-> TRUE]

Collected(o) == IF Kept(o) THEN KeptRow(o)
                ELSE IF Added(o) THEN AddedRow(o) ELSE NoRow

\* Mutant: the operational day itself gets no section.
EmittedBeforeToday(o) == Collected(o) # NoRow /\ Collected(o).day < today

\* The layout has no section after the operational day.
Emitted(o) == Collected(o) # NoRow /\ Collected(o).day <= today

Rebuilt == [o \in Orders |-> IF Emitted(o) THEN Collected(o) ELSE NoRow]

\* Keys that may stand below the last row of a layout that became shorter.
Leftover == IF \E o \in Orders : HasRow(snap, o) /\ ~ Emitted(o)
            THEN SUBSET {o \in Orders : HasRow(snap, o)}
            ELSE {{}}

\* Mutant: only what can be removed asks for a rebuild.
NeedsRemoval ==
  \E o \in TypedKeys(sheet) :
    /\ RowRefused(sheet[o])
    /\ ~ (RowPrepaid(sheet[o]) \/ SupplierMarks(sheet[o], o)) /\ ~ quarantine

\* needs_refusal_reconciliation
NeedsReconciliation ==
  \E o \in TypedKeys(sheet) :
    /\ RowRefused(sheet[o])
    /\ \/ ~ sheet[o].excl
       \/ ~ (RowPrepaid(sheet[o]) \/ SupplierMarks(sheet[o], o)) /\ ~ quarantine

-----------------------------------------------------------------------------
RestLocals ==
  /\ today = 0 /\ migrating = FALSE /\ repairing = FALSE /\ existing = {}
  /\ feed = [o \in Orders |-> NoOffer]
  /\ quarantine = FALSE /\ supplierPaid = {}
  /\ statuses = [o \in Orders |-> "unknown"]
  /\ refreshed = FALSE /\ force = FALSE /\ hasBackup = FALSE /\ backup = {}
  /\ snap = [o \in Orders |-> NoRow]
  /\ tail = {} /\ events = {} /\ done = {} /\ journal = {} /\ late = {}

\* A row an earlier run has left, still agreeing with its marketplace.
SettledRow(m) == [typed |-> TRUE, st |-> m.st, ship |-> "transit",
                  paid |-> m.paid, excl |-> FALSE, day |-> 0,
                  note |-> "empty", broken |-> FALSE, ttn |-> TRUE]

Init ==
  /\ day = 0
  /\ market \in [Orders -> {m \in Offer : /\ m.st \in {"none", "shipped", "done"}
                                          /\ m.day = 0 /\ m.flaw = "none"
                                          /\ m.st = "none" => ~ m.paid}]
  /\ parcel = [o \in Orders |-> "transit"]
  /\ \E known \in SUBSET {o \in Orders : market[o].st # "none"} :
       sheet = [o \in Orders |-> IF o \in known THEN SettledRow(market[o])
                                 ELSE NoRow]
  /\ layoutDay = 0
  /\ schema \in {"old", "current"}
  /\ corrupt = FALSE
  /\ pc = "idle"
  /\ RestLocals
  /\ disturbances = 0
  /\ faults = 0

\* The process ends; nothing of it is left but the spreadsheet.
EndRun ==
  /\ pc' = "idle"
  /\ today' = 0 /\ migrating' = FALSE /\ repairing' = FALSE /\ existing' = {}
  /\ feed' = [o \in Orders |-> NoOffer]
  /\ quarantine' = FALSE /\ supplierPaid' = {}
  /\ statuses' = [o \in Orders |-> "unknown"]
  /\ refreshed' = FALSE /\ force' = FALSE /\ hasBackup' = FALSE /\ backup' = {}
  /\ snap' = [o \in Orders |-> NoRow]
  /\ tail' = {} /\ events' = {} /\ done' = {} /\ journal' = {} /\ late' = {}

Goto(from, to) == pc = from /\ pc' = to

\* A call that may fail uses one of the faults the model allows.
FaultWhen(failed) ==
  /\ failed => faults < MaxFaults
  /\ faults' = IF failed THEN faults + 1 ELSE faults

-----------------------------------------------------------------------------
(* The run, in the order of SyncService.run.                               *)

\* clock(), requires_schema_migration()
Start ==
  /\ pc = "idle"
  /\ pc' = IF schema # "current" THEN "migration backup" ELSE "preflight"
  /\ migrating' = (schema # "current")
  /\ today' = day
  /\ UNCHANGED <<world, book, repairing, existing, quarantine, supplierPaid,
                 feed, statuses, refreshed, force, hasBackup, backup, snap,
                 tail, events, seen, disturbances, faults>>

\* duplicate_sheet
TakeBackup ==
  /\ hasBackup' = TRUE
  /\ backup' = TypedKeys(sheet)
  /\ UNCHANGED <<world, book, plan, feed, statuses, refreshed, force, snap,
                 tail, events, seen, disturbances, faults>>

BackupBeforeMigration ==
  Goto("migration backup", "migrate") /\ TakeBackup

\* ensure_schema(apply_changes=True) on an outdated worksheet: the headers are
\* current afterwards, the day sections only after a rebuild.
MigrateSchema ==
  /\ Goto("migrate", "preflight")
  /\ schema' \in {"headers", "current"}
  /\ UNCHANGED <<world, sheet, layoutDay, corrupt, locals, seen,
                 disturbances, faults>>

\* validate_integrity, then read_existing_sync_keys
Preflight ==
  /\ Goto("preflight", "fetch")
  /\ ~ corrupt
  /\ repairing' = (\E o \in TypedKeys(sheet) : sheet[o].broken)
  /\ existing' = {o \in Orders : HasRow(sheet, o)}
  /\ UNCHANGED <<world, book, today, migrating, quarantine, supplierPaid,
                 feed, statuses, refreshed, force, hasBackup, backup, snap,
                 tail, events, seen, disturbances, faults>>

RefusePreflight ==
  /\ pc = "preflight"
  /\ corrupt
  /\ EndRun
  /\ UNCHANGED <<world, book, disturbances, faults>>

\* _fetch_orders: a failing marketplace contributes nothing, the rest go on.
Answer(down) == [o \in Orders |-> IF SourceOf[o] \in down THEN NoOffer
                                  ELSE market[o]]

\* validate_incoming_orders asks nothing of a cancelled order.
Invalid(answer) ==
  \E o \in Orders : answer[o].flaw # "none" /\ answer[o].st # "cancelled"

FetchOrders ==
  /\ Goto("fetch", "suppliers")
  /\ \E down \in SUBSET Sources :
       /\ FaultWhen(down # {})
       /\ ~ Invalid(Answer(down))
       /\ feed' = Answer(down)
  /\ UNCHANGED <<world, book, plan, statuses, refreshed, force, hasBackup,
                 backup, snap, tail, events, seen, disturbances>>

\* IntegrityError: one bad order ends the run of all marketplaces.
RefuseIncoming ==
  /\ pc = "fetch"
  /\ \E down \in SUBSET Sources :
       FaultWhen(down # {}) /\ Invalid(Answer(down))
  /\ EndRun
  /\ UNCHANGED <<world, book, disturbances>>

\* What is left of the marks when all registries are read: a parcel both
\* suppliers list loses its records, the mark among them.
Resolved == SupplierPrepaid \ Contradicted

\* _fetch_supplier_costs: with a supplier missing, refusals are unverified, and
\* any mark may be there, that of a contradicted parcel too, or not.
\* _resolve_supplier_costs: otherwise the resolved ones are.
FetchSuppliers ==
  /\ Goto("suppliers", "backfill")
  /\ quarantine' \in BOOLEAN
  /\ FaultWhen(quarantine')
  /\ supplierPaid' \in IF quarantine' THEN SUBSET SupplierPrepaid ELSE {Resolved}
  /\ UNCHANGED <<world, book, today, migrating, repairing, existing, feed,
                 statuses, refreshed, force, hasBackup, backup, snap, tail,
                 events, seen, disturbances>>

\* backfill_completion_state and the other cells no property looks at:
\* whether one of them differed is left open.
Backfill ==
  /\ Goto("backfill", "tracking")
  /\ refreshed' \in IF TypedKeys(sheet) = {} THEN {FALSE} ELSE BOOLEAN
  /\ UNCHANGED <<world, book, plan, feed, statuses, force, hasBackup, backup,
                 snap, tail, events, seen, disturbances, faults>>

\* pending_tracking_numbers, get_statuses, _apply_tracking_prepayments
TrackParcels ==
  LET pending == {o \in Orders : /\ HasRow(sheet, o) /\ sheet[o].ttn
                                 /\ sheet[o].ship \notin {"received", "refused"}}
      tracked == {o \in Fetched : feed[o].flaw # "untracked"}
      priced  == {o \in tracked : feed[o].flaw # "itemless"}
      wanted  == pending \cup tracked
  IN
  /\ Goto("tracking", "completion")
  /\ \E answered \in SUBSET wanted :
       /\ FaultWhen(answered # wanted)
       /\ statuses' = [o \in Orders |-> IF o \in answered THEN parcel[o]
                                        ELSE "unknown"]
       /\ feed' = [o \in Orders |->
                     IF o \in answered \cap priced \cap CashOnDelivery
                     THEN [feed[o] EXCEPT !.paid = TRUE] ELSE feed[o]]
  /\ UNCHANGED <<world, book, plan, refreshed, force, hasBackup, backup, snap,
                 tail, events, seen, disturbances>>

\* record_completion_observations
Observed == {o \in TypedKeys(sheet) : feed[o].st # "none"}

RecordCompletion ==
  LET changed == {o \in Observed : sheet[o].st # feed[o].st} IN
  /\ Goto("completion", "details")
  /\ sheet' = [o \in Orders |-> IF o \in changed
                                THEN [sheet[o] EXCEPT !.st = feed[o].st]
                                ELSE sheet[o]]
  /\ events' = events \cup ({"status"} \X changed)
  /\ done' = done \cup ({"status"} \X changed)
  /\ UNCHANGED <<world, layoutDay, schema, corrupt, plan, feed, statuses,
                 refreshed, force, hasBackup, backup, snap, tail, journal,
                 late, disturbances, faults>>

\* refresh_order_details
DetailedRow(o) ==
  [sheet[o] EXCEPT !.paid = @ \/ feed[o].paid,
                   !.day = IF o \in Exact \ Pinned THEN feed[o].day ELSE @,
                   !.ttn = @ \/ feed[o].flaw # "untracked", !.broken = FALSE]

RefreshDetails ==
  /\ Goto("details", "shipments")
  /\ sheet' = [o \in Orders |-> IF o \in Observed THEN DetailedRow(o)
                                ELSE sheet[o]]
  /\ refreshed' = (refreshed \/ sheet' # sheet)
  /\ UNCHANGED <<world, layoutDay, schema, corrupt, plan, feed, statuses,
                 force, hasBackup, backup, snap, tail, events, seen,
                 disturbances, faults>>

\* update_shipment_statuses: rows entered by hand are tracked too.
UpdateShipments ==
  LET changed == {o \in Orders : /\ HasRow(sheet, o) /\ sheet[o].ttn
                                 /\ statuses[o] \notin {"unknown", sheet[o].ship}}
  IN
  /\ Goto("shipments", "decide")
  /\ sheet' = [o \in Orders |-> IF o \in changed
                                THEN [sheet[o] EXCEPT !.ship = statuses[o]]
                                ELSE sheet[o]]
  /\ events' = events \cup ({"ship"} \X changed)
  /\ done' = done \cup ({"ship"} \X changed)
  /\ UNCHANGED <<world, layoutDay, schema, corrupt, plan, feed, statuses,
                 refreshed, force, hasBackup, backup, snap, tail, journal,
                 late, disturbances, faults>>

\* Mutant: a refusal alone asks for no backup.
BackupReasonWithoutRefusals ==
  \/ NewOrders # {} \/ layoutDay < today \/ CancelledExisting # {}
  \/ refreshed \/ repairing

\* The two lists of reasons of SyncService.run, one for a backup ...
BackupReason ==
  \/ NewOrders # {} \/ layoutDay < today \/ NeedsReconciliation
  \/ CancelledExisting # {} \/ refreshed \/ repairing

\* ... and one for a rebuild without new orders.
RebuildReason ==
  \/ layoutDay < today \/ NeedsReconciliation \/ CancelledExisting # {}
  \/ refreshed \/ migrating \/ repairing

\* needs_refusal_reconciliation, latest_layout_day
Decide ==
  /\ pc = "decide"
  /\ pc' = IF BackupReason /\ ~ hasBackup THEN "backup" ELSE "read"
  /\ force' = RebuildReason
  /\ UNCHANGED <<world, book, plan, feed, statuses, refreshed, hasBackup,
                 backup, snap, tail, events, seen, disturbances, faults>>

BackupBeforeRebuild == Goto("backup", "read") /\ TakeBackup

\* append_orders returns at once when it has nothing to do ...
SkipRebuild ==
  /\ Goto("read", "costs")
  /\ NewOrders = {} /\ ~ force
  /\ UNCHANGED <<world, book, locals, seen, disturbances, faults>>

\* ... and otherwise reads the worksheet, computes the new one,
ReadForRebuild ==
  /\ Goto("read", "reread")
  /\ NewOrders # {} \/ force
  /\ snap' = sheet
  /\ UNCHANGED <<world, book, plan, feed, statuses, refreshed, force,
                 hasBackup, backup, tail, events, seen, disturbances, faults>>

\* Mutant: the second read is compared with nothing.
RereadUnchecked ==
  /\ Goto("reread", "write")
  /\ UNCHANGED <<world, book, locals, seen, disturbances, faults>>

\* reads it again: ConcurrentSheetEditError unless nothing moved,
Reread ==
  /\ Goto("reread", "write")
  /\ sheet = snap
  /\ UNCHANGED <<world, book, locals, seen, disturbances, faults>>

RefuseConcurrentEdit ==
  /\ pc = "reread"
  /\ sheet # snap
  /\ EndRun
  /\ UNCHANGED <<world, book, disturbances, faults>>

\* writes the rows in one request,
WriteRows ==
  /\ Goto("write", "clear")
  /\ sheet' = Rebuilt
  /\ tail' \in Leftover
  /\ layoutDay' = today
  /\ schema' = "current"
  /\ done' = done
       \cup ({"added"} \X {o \in Orders : ~ Kept(o) /\ Emitted(o)})
       \cup ({"removed"} \X {o \in CancelledExisting : IsTyped(snap, o) /\ ~ Kept(o)})
  /\ UNCHANGED <<world, corrupt, plan, feed, statuses, refreshed, force,
                 hasBackup, backup, snap, events, journal, late,
                 disturbances, faults>>

\* and clears what the previous, longer layout left below.
ClearTail ==
  /\ Goto("clear", "costs")
  /\ tail' = {}
  /\ UNCHANGED <<world, book, plan, feed, statuses, refreshed, force,
                 hasBackup, backup, snap, events, seen, disturbances, faults>>

\* update_supplier_costs: marks empty cost cells of prepaid parcels; it may
\* fail after some of its requests.
WriteSupplierCosts ==
  /\ Goto("costs", "audit")
  /\ \E marked \in SUBSET {o \in TypedKeys(sheet) : SupplierMarks(sheet[o], o)} :
       sheet' = [o \in Orders |-> IF o \in marked
                                  THEN [sheet[o] EXCEPT !.paid = TRUE]
                                  ELSE sheet[o]]
  /\ UNCHANGED <<world, layoutDay, schema, corrupt, locals, seen,
                 disturbances, faults>>

\* Mutant: the changes of existing rows are left out.
AuditOfNewOrders ==
  ({"added"} \X NewOrders)
    \cup ({"removed"} \X {o \in CancelledExisting : <<"status", o>> \in events})

\* _build_audit_events
AuditEvents ==
  events \cup ({"added"} \X NewOrders)
         \cup ({"removed"} \X {o \in CancelledExisting : <<"status", o>> \in events})

AppendAudit ==
  /\ Goto("audit", "postcheck")
  /\ journal' = AuditEvents
  /\ UNCHANGED <<world, book, locals, done, late, disturbances, faults>>

\* The audit sheet is unavailable: a warning, the run goes on.
LoseAudit ==
  /\ Goto("audit", "unaudited")
  /\ FaultWhen(TRUE)
  /\ UNCHANGED <<world, book, locals, seen, disturbances>>

\* validate_integrity and record_sync_health; a failed check raises, and
\* either way the run is over.
PostCheck ==
  /\ pc \in {"postcheck", "unaudited"}
  /\ EndRun
  /\ UNCHANGED <<world, book, disturbances, faults>>

\* An exception nobody handles, the step timeout or a lost runner. Before the
\* clearing the previous layout's end still stands below the new one: an order
\* that is in both is doubled, a removed one is back, or back without its head.
Crash ==
  /\ pc # "idle"
  /\ FaultWhen(TRUE)
  /\ EndRun
  /\ sheet' = [o \in Orders |-> IF o \in tail /\ ~ HasRow(sheet, o)
                                THEN snap[o] ELSE sheet[o]]
  /\ corrupt' \in {corrupt \/ \E o \in tail : HasRow(sheet, o), corrupt \/ tail # {}}
  /\ UNCHANGED <<world, layoutDay, schema, disturbances>>

RunStep ==
  \/ Start \/ BackupBeforeMigration \/ MigrateSchema
  \/ Preflight \/ RefusePreflight \/ FetchOrders \/ RefuseIncoming
  \/ FetchSuppliers
  \/ Backfill \/ TrackParcels \/ RecordCompletion \/ RefreshDetails
  \/ UpdateShipments \/ Decide \/ BackupBeforeRebuild
  \/ SkipRebuild \/ ReadForRebuild \/ Reread \/ RefuseConcurrentEdit
  \/ WriteRows \/ ClearTail \/ WriteSupplierCosts
  \/ AppendAudit \/ LoseAudit \/ PostCheck

-----------------------------------------------------------------------------
(* Everything else that happens.                                           *)

Disturb ==
  /\ disturbances < MaxDisturbances
  /\ disturbances' = disturbances + 1
  /\ UNCHANGED <<pc, locals, done, journal, faults>>

Midnight ==
  /\ Disturb
  /\ day < MaxDay
  /\ day' = day + 1
  /\ UNCHANGED <<market, parcel, book, late>>

\* The order appears, is completed, or is cancelled at its marketplace.
NextOffer(o, m) ==
  [st : CASE m.st = "none"    -> {"shipped", "done"}
          [] m.st = "shipped" -> {"done", "cancelled"}
          [] m.st = "done"    -> {"cancelled"}
          [] OTHER            -> {},
   paid : IF m.st = "none" THEN BOOLEAN ELSE {m.paid},
   day : {day},
   flaw : IF o \in Malformed THEN Flaws ELSE {"none"}]

MarketMoves(o) ==
  /\ Disturb
  /\ \E m \in NextOffer(o, market[o]) : market' = [market EXCEPT ![o] = m]
  /\ UNCHANGED <<day, parcel, book, late>>

ParcelMoves(o) ==
  /\ Disturb
  /\ parcel[o] # "received"
  /\ \E p \in Parcel \ {parcel[o]} : parcel' = [parcel EXCEPT ![o] = p]
  /\ UNCHANGED <<day, market, book, late>>

Edit ==
  /\ Disturb
  /\ UNCHANGED <<world, layoutDay, schema, corrupt>>

NoteLate(o) == late' = IF pc = "write" THEN late \cup {o} ELSE late

\* The manager writes, changes or empties the note or the manual cost.
EditNote(o) ==
  /\ Edit
  /\ HasRow(sheet, o)
  /\ \E n \in Notes \ {sheet[o].note} : sheet' = [sheet EXCEPT ![o].note = n]
  /\ NoteLate(o)

\* The manager overwrites a formula of a managed row.
BreakFormula(o) ==
  /\ Edit
  /\ IsTyped(sheet, o) /\ ~ sheet[o].broken
  /\ sheet' = [sheet EXCEPT ![o].broken = TRUE]
  /\ NoteLate(o)

\* The manager empties the tracking cell, say of a parcel to be sent anew.
ClearTracking(o) ==
  /\ Edit
  /\ IsTyped(sheet, o) /\ sheet[o].ttn
  /\ sheet' = [sheet EXCEPT ![o].ttn = FALSE]
  /\ NoteLate(o)

\* The manager copies an order by hand, without the technical columns.
EnterByHand(o) ==
  /\ Edit
  /\ ~ HasRow(sheet, o) /\ market[o].st # "none"
  /\ sheet' = [sheet EXCEPT ![o] =
                 [typed |-> FALSE, st |-> "none", ship |-> "unknown",
                  paid |-> FALSE, excl |-> FALSE, day |-> day,
                  note |-> "memo", broken |-> FALSE, ttn |-> TRUE]]
  /\ NoteLate(o)

\* The manager removes the rows a torn rebuild has left.
RepairByHand ==
  /\ Disturb
  /\ corrupt
  /\ corrupt' = FALSE
  /\ UNCHANGED <<world, sheet, layoutDay, schema, late>>

Disturbance ==
  \/ Midnight
  \/ RepairByHand
  \/ \E o \in Orders : \/ MarketMoves(o) \/ ParcelMoves(o) \/ EditNote(o)
                       \/ BreakFormula(o) \/ ClearTracking(o) \/ EnterByHand(o)

Next == RunStep \/ Crash \/ Disturbance

\* The scheduler starts a run every hour, and no call of a run lasts for ever:
\* it returns, raises, or is killed with the step (then it was a fault).
CallEnds == pc' \in Phases

Fairness == WF_pc(CallEnds)

Spec     == Init /\ [][Next]_vars
FairSpec == Spec /\ Fairness

-----------------------------------------------------------------------------
(* What must hold.                                                         *)

WorldType ==
  /\ day \in Days
  /\ market \in [Orders -> Offer]
  /\ parcel \in [Orders -> Parcel]

BookType ==
  /\ sheet \in [Orders -> Row \cup {NoRow}]
  /\ layoutDay \in Days
  /\ schema \in {"old", "headers", "current"}
  /\ corrupt \in BOOLEAN

RunType ==
  /\ pc \in Phases
  /\ today \in Days
  /\ migrating \in BOOLEAN /\ repairing \in BOOLEAN /\ quarantine \in BOOLEAN
  /\ existing \subseteq Orders /\ supplierPaid \subseteq SupplierPrepaid
  /\ feed \in [Orders -> Offer]
  /\ statuses \in [Orders -> Parcel \cup {"unknown"}]
  /\ refreshed \in BOOLEAN /\ force \in BOOLEAN /\ hasBackup \in BOOLEAN
  /\ backup \subseteq Orders
  /\ snap \in [Orders -> Row \cup {NoRow}]
  /\ tail \subseteq Orders

SeenType ==
  /\ events \subseteq Event /\ done \subseteq Event /\ journal \subseteq Event
  /\ late \subseteq Orders
  /\ disturbances \in 0 .. MaxDisturbances
  /\ faults \in 0 .. MaxFaults

\* Every variable keeps its type: no step of the run or of the world leaves a
\* row, an offer or an event that is none.
TypeOK == WorldType /\ BookType /\ RunType /\ SeenType

\* A managed row disappears only when its order is really refused or cancelled
\* and nothing says that it was prepaid: neither the row, nor the manager's
\* note, nor the supplier registry its parcel is in, though that could not be
\* read in this run. (Excepted: the mark of a parcel that both suppliers list,
\* which the run drops with the rest of their records; a row dated after the day
\* the run started on; a row without its tracking number; and a row edited in the
\* moment between the second read and the write.)
RowsDeletedOnlyWhenRefused ==
  [][\A o \in Orders :
       IsTyped(sheet, o) /\ ~ IsTyped(sheet', o) =>
         \/ o \in late
         \/ sheet[o].day > today \/ ~ sheet[o].ttn
         \/ /\ sheet[o].ship = "refused" \/ market[o].st = "cancelled"
            /\ ~ RowPrepaid(sheet[o])
            /\ o \notin Resolved]_vars

\* The note and the manual cost of a managed row change only at the manager's
\* hand as long as the row stays: whatever the run reads, computes and writes
\* back, a row edited during the run is not overwritten (the same moment
\* excepted).
NotesPreserved ==
  [][\A o \in Orders :
       /\ IsTyped(sheet, o) /\ IsTyped(sheet', o)
       /\ sheet'[o].note # sheet[o].note
       => disturbances' = disturbances + 1 \/ o \in late]_vars

\* Whatever step removes a managed row, this run has taken a backup before, and
\* the backup has that row.
DeletedRowsAreInBackup ==
  [][\A o \in Orders :
       IsTyped(sheet, o) /\ ~ IsTyped(sheet', o) => hasBackup /\ o \in backup]_vars

\* Why it holds: a run gets to the rebuild only with a backup, and up to the
\* write no step brings a managed row the backup does not have.
BackupCoversSheet ==
  /\ migrating /\ pc # "migration backup" => hasBackup
  /\ pc = "read" /\ (NewOrders # {} \/ force) => hasBackup
  /\ pc \in {"reread", "write"} => hasBackup
  /\ hasBackup /\ pc \notin {"clear", "costs", "audit", "postcheck", "unaudited"}
       => TypedKeys(sheet) \subseteq backup

\* When a run reaches the audit, every managed row whose refusal the run has
\* found is out of the totals; and right after the write a row is out of them
\* only for a refusal.
RefusedOutOfTotals ==
  /\ pc = "clear" => \A o \in TypedKeys(sheet) :
                       /\ sheet[o].excl => RowRefused(sheet[o])
                       /\ RowRefused(sheet[o]) => sheet[o].excl
  /\ pc \in {"audit", "postcheck"} =>
       \A o \in TypedKeys(sheet) : RowRefused(sheet[o]) => sheet[o].excl

\* A run that ends with its audit written has reported every status it changed
\* and every order it added. (Removals are excepted: the run reports one only if
\* it has also seen the status change, which an earlier, lost run may have done.)
AuditComplete ==
  pc = "postcheck" => {e \in done : e[1] # "removed"} \subseteq journal

\* An order on sale ends up in the worksheet, whatever marketplaces failed and
\* runs were lost on the way, unless it is refused or cancelled meanwhile, has
\* become too old, or the worksheet waits for a repair by hand or a marketplace
\* sends bad data.
OrdersAreRecorded ==
  \A o \in Orders :
    market[o].st \in {"shipped", "done"}
      ~> \/ HasRow(sheet, o)
         \/ market[o].st = "cancelled" \/ parcel[o] = "refused"
         \/ corrupt \/ \E bad \in Orders : market[bad].flaw # "none"
         \/ market[o].day + MaxAge < day

\* A refusal that stands in a managed row ends up excluded or removed.
RefusalsAreSettled ==
  \A o \in Orders :
    IsTyped(sheet, o) /\ RowRefused(sheet[o])
      ~> \/ ~ IsTyped(sheet, o) \/ sheet[o].excl
         \/ ~ RowRefused(sheet[o]) \/ corrupt

(* The worksheet as a ledger.                                              *)

EntryOf(o) ==
  IF IsTyped(sheet, o)
  THEN IF sheet[o].excl THEN "excluded"
       ELSE IF RowRefused(sheet[o]) THEN "refused" ELSE "counted"
  ELSE IF HasRow(sheet, o) THEN "byhand" ELSE "absent"

Entry == [o \in Orders |-> EntryOf(o)]
Loose == {o \in TypedKeys(sheet) : ~ sheet[o].ttn \/ sheet[o].day > today}

Book == INSTANCE Ledger WITH entry <- Entry, loose <- Loose, saved <- backup

\* The synchronisation implements the ledger: with marketplaces that fail, rows
\* that are edited between any two requests and runs that are lost anywhere, no
\* order takes another way through the worksheet than Ledger allows.
ImplementsLedger == Book!Spec

(* What the documentation says and the program does not do.                *)

\* README.md: the manager's notes are preserved. A row with a note goes only
\* with a refused or cancelled order; but a run that began before midnight
\* and reads an order dated after it drops the row.
NotesGoOnlyWithRefusals ==
  [][\A o \in Orders \ late :
       /\ IsTyped(sheet, o) /\ ~ IsTyped(sheet', o)
       /\ sheet[o].note # "empty" /\ sheet[o].ttn
       => sheet[o].ship = "refused" \/ market[o].st = "cancelled"]_vars

=============================================================================
