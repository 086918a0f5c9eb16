# Verification of the CRM synchronisation

This directory holds TLA+ models of the program in `src/crm_sync`, the TLC
configurations that check them and proofs for TLAPS. Paths such as
`services.py:393` are relative to `src/crm_sync`.

The program runs once an hour as a GitHub workflow. A run reads orders from
three marketplaces, prices and prepayments from the sheets of two suppliers and
parcel statuses from Nova Poshta, and brings one Google worksheet, the CRM, up
to date. Managers work in the same worksheet all day: notes, manual costs, the
daily dollar rate. There is no database and no lock. Every write is a request of
its own, the workflow may be killed between any two of them, and the worksheet
is at once the program's only memory and somebody else's document.

## Inventory

| Component | State it keeps | Operations | Interacts with | What is hard |
|---|---|---|---|---|
| Synchronisation run, `services.py`, `main.py` | locals of one run | `SyncService.run`, twenty remote calls in order | everything below | lost runs between calls, failed sources, midnight, decisions made from data read earlier |
| Order rows and refusals, `sheet_orders.py` | none | `collect_order_groups`, `row_is_refused`, `row_has_prepayment` | called by the rebuild | which row stays, is excluded from totals, or goes |
| Sheet layout and rebuild, `sheet_snapshot.py`, `sheet_layout.py`, `sheet_schema.py`, `append_orders` | rows of the worksheet | read, lay out, re-read, write, clear the tail | managers | edits between requests, a torn write, positions that shift |
| Integrity checks, `integrity.py`, `validate_integrity` | none | before and after a run, and for incoming orders | aborts a run | what a torn rebuild leaves must not be taken for good |
| Row updates in place, `google_sheets.py` | cells of one row | completion, details, shipments | managers | rows addressed by number |
| Schema migration, `google_sheets.py` | header row, technical columns | `migrate_schema_if_needed` | first step of a run | two requests, a crash between them |
| Audit, backup, health worksheets, `sheet_meta.py` | three hidden worksheets | `create_backup`, `append_audit_events`, `record_sheet_sync_health` | the run | order of backup and deletion, lost audit |
| GitHub alert, `github_notifier.py` | issues of the repository | list, create, comment, close | health state, people | failed calls, one page of answers |
| Supplier costs, `supplier_melad.py`, `supplier_imaxi.py`, `update_supplier_costs` | cost cells with their hidden origin | resolve, read, re-read, write in requests | managers, suppliers | stale prices, moved rows, half-written batches |
| Installment commissions, `installment_commissions.py`, `installment_backfill.py` | commission cells with their source, audit markers | resolve a fee, reconcile all fees | hourly run, Prom, audit worksheet | several requests, lost jobs, silence that is no answer |
| Payment backfill, `payment_backfill.py` | payment labels, audit markers | preview, correct labels | worksheet, managers | journal first, then several requests |
| Prom, Rozetka and OpenCart clients, the shop's `crm_orders.php` | cursors, pages, a token, a circuit breaker | fetch the orders of an interval | marketplaces | lists that change between two pages, merged versions, an expired token |
| Nova Poshta client | none | track parcels in batches | Nova Poshta | partial answers |
| HTTP retries, `http.py` | attempts | retry with delays | all clients | delays against the step timeout |
| Configuration, values, reporting | none | parse, format | all | none of their own |
| Workflow, `.github/workflows/cron.yml` | none | hourly start, concurrency group, step timeout | starts runs | a queued run, a killed run |

What makes each part correct:

- **Run and rows.** A managed row, with all a manager wrote into it, leaves the
  worksheet only for a refusal that is verified and unpaid; whatever leaves is in
  a backup of the same run; refusals leave the totals; orders on sale are
  recorded in the end; the audit has what the run did.
- **Rebuild and integrity.** A rebuild loses no line, note or daily rate; what it
  writes passes the check; what a torn one leaves is either whole or refused.
- **Alert.** One open issue at most, never before the threshold, always after it,
  closed after a recovery.
- **Fees and labels.** A fee Prom has named is never destroyed by silence; what was
  corrected is journaled, once, also after a lost job.
- **Clients.** A fetch that returns has every order it should have, whatever
  changes between two pages; an order never comes out in an earlier status or
  with a later date than the payloads it is made of show; every fetch ends.
- **Costs.** A written cost says where it came from and fits its parcel; manual
  costs stay; dollar costs follow the rate; the journal says only what was written.

## Modules

| Module | Models | Lines of code it stands for |
|---|---|---|
| `SheetSync` | `SyncService.run` from its start to its end, one row per order | `services.py`, `sheet_orders.py`, parts of `google_sheets.py`, `sheet_meta.py` |
| `SheetRebuild` | the rows in their positions: integrity check and `append_orders` | `sheet_snapshot.py`, `google_sheets.py` |
| `SupplierCosts` | prices of both suppliers and `update_supplier_costs` | `supplier_*.py`, `google_sheets.py`, `services.py` |
| `HealthAlert` | `record_sheet_sync_health` and `GitHubIssueNotifier.notify` | `sheet_meta.py`, `github_notifier.py` |
| `Installments` | fees for instalments and payment labels: three jobs on the same rows | `installment_*.py`, `payment_backfill.py`, `google_sheets.py`, `prom.py` |
| `PromOrders` | the two lists of a Prom fetch, with retries | `prom.py`, `http.py` |
| `RozetkaOrders` | the lists and details of a Rozetka fetch, versions merged | `rozetka.py` |
| `OpenCartOrders` | the pages of an OpenCart fetch | `opencart.py`, `crm_orders.php` |
| `Ledger` | abstract: the life of an order's entry in the worksheet | implemented by `SheetSync` |
| `Ordinals` | the elements of a sequence at some of its positions, in its order | used by `SheetRebuild` |
| `SheetSync_proofs` | theorems about `SheetSync`: types and backups, what becomes of rows and notes, totals and journal, and that it implements `Ledger` | |
| `Shops_proofs` | theorems about `PromOrders`, `OpenCartOrders` and `MCShops` | |
| `SheetRebuild_proofs`, `SupplierCosts_proofs`, `Installments_proofs`, `RozetkaOrders_proofs`, `HealthAlert_proofs`, `Ordinals_proofs` | theorems and lemmas about the module of that name | |
| `MCSheetSync`, `MCSheetRebuild`, `MCSupplierCosts`, `MCInstallments`, `MCRozetkaOrders`, `MCShops` | instances for TLC; `MCShops` is a fetch of `PromOrders` or of `OpenCartOrders` | |

The models share one shape. `pc` names the remote call that comes next; each
call is one action, so anything else may happen between two calls. `RunStep` is
the program, `Crash` a lost run (a call that raises, the step timeout, a dead
runner), and `Disturbance` everybody else. A run is sequential and the workflow's
concurrency group keeps a second one out, so the locals of one run are enough. The
models of the clients have, in the place of crashes, requests that fail.
A definition named "Mutant" in its comment is a plausible mistake in the code; it
is used by no specification and shows that a property notices the mistake.

### SheetSync

State: `market` and `parcel` are what marketplaces and Nova Poshta would answer;
`sheet`, `layoutDay`, `schema` and `corrupt` are the worksheet; the other
variables are locals of the run (`existing`, `feed`, `statuses`, `snap`,
`backup`, ...) and observations for properties (`done`, `journal`, `late`). A row
keeps what decides its fate: whether it carries the technical columns, its
status, its shipment, its prepayment, whether it is excluded from the totals, its
day, the manager's note, a broken formula, and whether it has a tracking number.
`corrupt` stands for the positions that only `SheetRebuild` has. An order a
marketplace sends may have a flaw: no tracking number, no items, or an amount that
breaks a rule.

`SupplierPrepaid` are the orders some registry marks as prepaid, `Contradicted` those
whose parcel both suppliers list. A run that reads both registries knows `Resolved`,
the marks without the contradicted ones, because `_resolve_supplier_costs` drops both
records of such a parcel; a run that could not read one may have any of the marks, and
does not remove refusals.

The actions follow the run: `Start`, `BackupBeforeMigration`, `MigrateSchema`,
`Preflight` or `RefusePreflight`, `FetchOrders` or `RefuseIncoming`,
`FetchSuppliers`, `Backfill`, `TrackParcels`, `RecordCompletion`,
`RefreshDetails`, `UpdateShipments`, `Decide`, `BackupBeforeRebuild`,
`SkipRebuild` or `ReadForRebuild`, `Reread` or `RefuseConcurrentEdit`,
`WriteRows`, `ClearTail`, `WriteSupplierCosts`, `AppendAudit` or `LoseAudit`,
`PostCheck`. The rebuild itself is the function `Rebuilt` of `snap`, made of the
same parts as the code: `RefusedKey`, `PrepaidKey`, `Kept`, `KeptRow`, `Added`,
`AddedRow`, `Emitted`.

### SheetRebuild

The worksheet is a sequence of day rows, report rows and order rows. `Sound` is
`validate_integrity` as far as rows are concerned, `Collect` and `Layout` are
`collect_order_groups` and `build_sheet_snapshot`, `WriteRows` and `ClearTail`
are the two requests that may be torn apart. The rows of an order (`Group`) are those at
its `Places`, selected in the worksheet's order by `Ordinals`; `SelectSeq` would say
the same, but nothing can be proved of it, and of the n-th element of a set of numbers a
great deal. Two writers of
single cells come before: `PlanDetails` and `WriteDetails` are
`refresh_order_details`, which matches an order's lines with its rows by their place,
`PlanUpdates` and `WriteUpdates` are `update_shipment_statuses`, which marks refusals
by row number. `code` stands for all a refresh repeats of a line. The manager edits a cell, overwrites
an order number, and moves, copies or deletes any row.

### SupplierCosts

`Resolved` turns what the suppliers list into prices; `WithProvenance` adds the
stored prices of lines Melad has dropped; `Candidates` are the cells of the first
read that get a cost and `Confirmed` those the second read still allows.
`WriteCosts` sends `BatchSize` bundles at a time (100 in the code). The manager
edits costs, rates and tracking numbers and moves rows; suppliers edit theirs.

### HealthAlert

`RecordSuccess` and `RecordFailure` are the whole health update of a run;
`FindBeforeAlert`, `CreateIssue`, `FindAfterRecovery`, `Comment` and `CloseIssue`
are single GitHub calls. `CallFails` covers both a failed call and a run killed
there. People open and close issues at any time.

### Installments

`cell` is the amount and source of the fee in an order's first row, `pay` the
payment label, `journal` how often the audit sheet has a marker; `job` is the one
job of the workflow that is at work. The hourly run goes through `ListOrders`,
`AskDetail`, `DetailFails` or `SkipDetails`, and then `PlanRefresh`, which reads the
rows and computes what differs, and `WriteRefresh`, the one request that writes it,
also over a label set in between; the
reconciliation asks the same details and goes on with `PlanFees`, `BackupFees`,
`WriteFees` (one request) and `AuditFees`; the correction of labels is
`PlanPayments`, `BackupPayments`, `AuditPayments` and `WritePayments` (a request
for each batch). `Resolve` is `resolve_installment_commission`, `PlanOfAll`
`_plan_installment_row`. The manager edits labels and order numbers, Prom learns
fees and refunds payments.

### PromOrders, OpenCartOrders, RozetkaOrders

Each is one fetch after the other, a request being a step, while orders change at
the marketplace. They differ in how a list is cut, which decides what can be lost:

- Prom's pages are cut by the order number, which never changes. `NextCursor` is
  one less than the last number of a page; `StuckPage` is a cursor that does not
  advance; `RetryRequest` and `RequestFails` are `HttpClient.request_json`. The pages
  of a list (`pages`) count once the whole list is there; `RejectedList` is the 400 or
  422 to any page of the cancelled orders, which drops all of that list.
- The shop's are cut by an offset into a list sorted by the second of the last
  change. `Pages` are all answers its SQL allows (equal seconds come in any
  sequence). An order that leaves the list moves those behind it one place up.
- Rozetka's are cut by page number, newest change first, in three lists one after
  the other. `place` numbers all orders by their latest change, `Number` those of a
  list, and a change brings an order to the front (`ToFront`). What a payload has of
  the parcel number and the items is its own (`Goods`), so that rows of one order may
  be kept in part. An incomplete row (`Incomplete`) asks for a detail, which is merged
  into it (`Hydrated`, `MergedGoods`); what still lacks something, or cannot be
  normalised, is left out with a message (`warned`); versions of an order meet in
  `Merge`; a refused token is replaced once (`Authorized`, `Refused`).

`changes`, `edits` and `moves` count what happens at the marketplace; `left`,
`drifted`, `modified` and `late` record it for the properties.

### Ledger

What `SheetSync` promises about the entry of an order, without requests and
cells: absent, counted in the totals, refused, excluded from them, or entered by
hand. A refusal is recorded by one step (`Learn`) and settled by another
(`Rebuild`), which removes an entry only if a backup of the same run has it.
`SheetSync` maps a row to its entry with `EntryOf`, the set `loose` to the rows a
rebuild drops because they have no tracking number or a day after the run's own,
and `saved` to the managed rows of its backup; its instance `Book` is the property
`ImplementsLedger`.

## Runs

| Run | Question | Bounds |
|---|---|---|
| `sync_one` | Does one order's row live and die as it should through whole runs, and does every order on sale get its row, every refusal settle? | 1 order, 2 days, 3 disturbances, 1 fault, fairness |
| `sync_two` | Does one order's trouble cost another its row, and does the worksheet implement `Ledger`? | 2 orders of 2 marketplaces, both marked by a supplier and one of them contradicted, one pinned to its day, one that may have a flaw; 1 disturbance, 1 fault |
| `health` | One alert, in time, and gone after the recovery? | threshold 3, 3 issues a page, 2 outages, 4 disturbances, 2 faults, fairness |
| `rebuild` | Does a rebuild lose or break anything, does the check see what a torn one leaves, does an update hit its row, and does a refused order leave? | 2 orders with 2 and 3 lines, 2 days, 1 edit or midnight, 1 lost run, fairness |
| `costs` | Are written costs traceable, manual ones safe, parcels not mixed up, and do Melad's costs reach the day's rate? | 2 rows, 2 parcels, 2 products, rates 0 to 2, one bundle a request, 2 disturbances, 1 fault, fairness |
| `installments` | Do three jobs on the same rows keep the fees, and journal what they correct? | 2 orders by instalments, 2 by card, fees 1 and 2, circuit opens after 1 failure, 1 label a request, 1 disturbance, 1 fault, symmetry |
| `shops` | Do the fetches of Prom and OpenCart return what they should, and end? | 4 orders, 2 a page, 2 changes, 1 retry; seconds 0 to 2; fairness |
| `rozetka` | Is an order lost between three lists that change while they are read, and does it come out with the best of the rows and details it is kept from? | 2 orders, 1 a page, 2 moves, 2 flawed payloads, 1 fault, symmetry |
| `sync_midnight` | Violation: a note goes with a row that was not refused | 1 order, 2 days, 3 disturbances |
| `rebuild_rate` | Violation: a rate the manager entered is emptied | 2 orders, 1 midnight or edit, 1 lost run |
| `costs_manual` | Violation: a manual correction of Melad's cost is overwritten | 1 parcel, 1 disturbance |
| `costs_failed` | Violation: a failed write has changed costs it says it preserved | 1 parcel, 1 edit, 1 fault |

Why these bounds are enough for what they are asked. Disturbances and faults are
counted because a run has some twenty points where each may fall: three
disturbances and a fault give every placement of, say, an edit, a cancellation
and a midnight around every call of several runs. Two days are the day of a row
and the one after, with midnight anywhere. Two orders let one be kept while the
other goes, in both sort orders; with two and three lines a torn layout
can be longer, shorter, and shifted by a part of an order, and two lines of an order
can change places without disturbing its first one. Two positions of costs give a swap, a
shared parcel, and two requests. Two orders of each kind in `installments` give
one that was asked and one the open circuit skips, and two label requests with a
lost job between them; its single disturbance meets every point of every job,
and what several at once do is covered by the proofs, which bound nothing. Four
orders on pages of two give a full page, a second one and a short one, with a place
given up before, inside and behind the page being read; two orders in
three of Rozetka's lists let a list be empty, a list have a second page whose order
moves up to the first, and an order go through all three lists. Two
flawed payloads, of the same order or of two, let a row be kept, a later one lack what
its detail does not give, and the detail be stale. All
runs check for deadlock; a run can always go
on.

### What the passing runs show

- *Deletion* (`RowsDeletedOnlyWhenRefused`, `BackupCoversSheet`): across
  failed registries, quarantine, cancelled offers, migration and lost runs a
  managed row goes only if it is refused or cancelled and neither its marketplace,
  nor its note, nor a registry says it was prepaid, and only with a backup that has
  it. The property names its exceptions: the mark of a parcel both suppliers list, an
  edit between the second read and the write, a row dated after the day the run
  started on, and a row whose tracking cell is empty. Each is a way the program
  really loses a row.
- *Notes* (`NotesPreserved`): the second read protects every edit made up to it.
- *Totals and journal* (`RefusedOutOfTotals`, `AuditComplete`).
- *Refinement* (`ImplementsLedger`): seen from outside, orders enter, are refused,
  are excluded or leave as `Ledger` says, through crashes, torn rebuilds and edits.
- *Liveness* (`OrdersAreRecorded`, `RefusalsAreSettled`, `RefusedOrdersLeave`,
  `CostsSettle`, `AlertIsRaised`, `BothFetchesEnd`): no lost run or failed source leaves the
  system stuck, and no marketplace holds a fetch for ever, apart from the states the properties except: a worksheet the
  check refuses until somebody repairs it, and a marketplace that keeps sending an
  order that breaks a rule.
- *Structure* (`CheckedOrdersAreWhole`, `RebuildStaysSound`, `KeptRowsSurvive`,
  `RatesKept`): what a torn rebuild leaves is refused or whole.
- *Row numbers* (`UpdatesHitTheirRow`): a refusal is marked in the row of its
  order, unless rows were shifted between the read and the write; then the program
  marks another order, which a later rebuild removes. A refresh gives each row the
  data of its own product, unless rows were ever moved by hand: the check accepts an
  order whose second and third row have changed places, and every refresh from
  then on writes the code, quantity and price of one into the row that names the
  other.
- *Fees* (`KnownFeesSurvive`, `UnresolvedOnlyIfAsked`, `ReconciledIsJournaled`,
  `LabelsJournaledFirst`): a failed call or an open circuit is no answer; a lost
  job is made up for by the next one; a label is protected by what stands there when
  a job reads it, not by what is written between that and the job's own write.
- *Fetches* (`UnmodifiedAreFetched`, `MissedOnlyByDrift`, `LostOnlyByDrift`,
  `BestOfAll`): a cursor on order numbers loses nothing, as long as Prom refuses no
  page of the cancelled orders. An order of Rozetka has the furthest status and the
  earliest exact date of the payloads it is kept from; a payload that is left out
  counts for nothing, also if it has shown a further status. An offset loses, at most,
  one untouched order for each place given up before it, or one whose second of
  change is another's too; a page of "newest first" loses only an order that was
  itself moved towards the front.
- *Costs* (`FilledCostsHaveOrigin`, `ManualCostsUntouched`,
  `CostsFitTheirParcel`, `JournaledCostsWereWritten`).
- *Alert* (`OneAlertPerPage`, `StaleAlertOnlyAfterFault`,
  `AlertOnlyAfterThreshold`).

### Disagreements between the program and its documentation

Four runs show one each.

- `sync_midnight`: `build_sheet_snapshot` lays out days up to the day the run
  started on. An order completed after midnight is dated to the next day by
  `refresh_order_details`, and the rebuild of the same run drops its row with the
  note of the manager.
- `rebuild_rate`: a rebuild torn before its clearing can leave a day twice. The
  integrity check does not look at day rows, and the next rebuild gives a doubled
  day an empty rate.
- `costs_manual`: the hidden origin of a cost stays when the manager overwrites
  it, so a correction of Melad's cost is recalculated away.
- `costs_failed`: requests before the failed one have recalculated costs that the
  warning calls preserved.

The models also contain these behaviours, each named as an exception by the
property it would break: an edit between the second read and the write is
overwritten (`late`); a rebuild drops a row whose tracking cell is empty; a refused
order whose parcel both suppliers list is removed although a registry marks it as
prepaid (`Contradicted`); a label protected between the read and the write of the
hourly refresh, or of the correction, becomes "prom"; a 400 or 422 to one page of
Prom's cancelled orders makes a fetch return without any of them (`rejected`); the
further status of a Rozetka row that is left out is lost for that fetch; one
malformed order stops the import of all marketplaces; a refused new order is
journaled as added; a removal is not journaled when a lost run had recorded its
cancellation; the one call that closes an issue is never repeated; an alert
beyond the first page of issues is raised again; an order that lists a product
twice never passes the check; a Melad cost shadowed by a price for its whole
parcel stops following the rate (`Shadowed`); a manual cost entered between the
two reads into a cell that was IMAXI's and had been emptied is overwritten.

## Fairness

`WF_pc(CallEnds)` in the models of a run (`pc` changes again and again; only the run's
own steps and its loss change it), `WF_vars(Run)` in `HealthAlert`, and `WF_vars(Request)` in
the models of the clients are the only fairness. The workflow is started every
hour, and a call ends: it answers, fails, or meets its timeout
(`cron.yml:104` for the step, `timeout` of `HttpClient` for a request). Whether it
ends well is not assumed.
Nothing is assumed of people, suppliers, parcels or marketplaces. `Crash` and
failed calls are bounded by `MaxFaults`, so from some point on runs are not
lost; without that no progress could be promised. The concurrency group of
`cron.yml:37-39` keeps runs from overlapping, and its step timeout
(`cron.yml:104`) is one of the reasons for `Crash`.

## Proofs

For every value of the constants that satisfies their named assumption
(`ConstantsAssumption`, `HealthAssumption`, `SupplierAssumption`,
`InstallmentsAssumption`, `RebuildAssumption`, `PromAssumption`, `OpenCartAssumption`,
`RozetkaAssumption`), that is for any number of orders,
marketplaces, days, rows, disturbances and faults, any threshold, page and batch
size:

- `SheetSync_proofs!TypeCorrect`: `Spec => []TypeOK`. Steps that rewrite cells
  share lemmas saying what each makes of a row (`RowUpdates`, `Rewritten`); the
  rebuild has a lemma that its result is a worksheet.
- `SheetSync_proofs!BackupCovers`: `Spec => []BackupCoversSheet`. The property
  "a deletion is in the backup" is not inductive: at the step that deletes,
  nothing says a backup was taken. `BackupCoversSheet` adds when the run must
  have one (after a migration's backup, before a rebuild that can remove a row)
  and that up to the write no step brings a managed row the backup lacks.
- `SheetSync_proofs!BackupBeforeDeletion`: `Spec => DeletedRowsAreInBackup`, by
  cases on the steps that can remove a row, from `BackupCoversSheet`.
- `SheetSync_proofs!RemovalsAreRefusals`: `Spec => RowsDeletedOnlyWhenRefused`.
  What the write of a rebuild does follows from data read several calls before,
  so the invariant `RowsInv` says what those data still mean: a feed, a row or a
  snapshot says "cancelled" only of cancelled orders; past the registries a run
  without quarantine knows exactly the marks that are left when contradicted parcels
  are dropped; no managed row enters behind the
  run's back; and at the write the worksheet is what was read, late edits aside.
- `SheetSync_proofs!NotesStay`: `Spec => NotesPreserved`, from the same invariant:
  the writers of single cells touch no note, and the rebuild writes back the one
  that stands there, because it never adds an order that has a managed row.
- `SheetSync_proofs!RefusalsOutOfTotals`: `Spec => []RefusedOutOfTotals`. Its
  invariant `TotalsInv` carries the statuses the marketplaces reported from the
  completion update to the write (a cancellation found in the feed is by then
  in the row, too), and, when nothing forces a rebuild, the finding of
  `needs_refusal_reconciliation` from the decision to the audit.
- `SheetSync_proofs!ChangesAreJournaled`: `Spec => []AuditComplete`. From its
  first write to its audit, all a run has done is in its events or an order it
  means to add, and which orders those are no longer changes (`JournalInv`).
- `HealthAlert_proofs!TypeCorrect`, `OneAlert`, `RecoveryClosesUnlessFault`,
  `NoEarlyAlert`. Their invariants say what the point a run has reached tells of
  the failure counter (`CallInv`: an alert is created at or above the threshold,
  commented on and closed only after a recovery); that, unless a page has
  overflowed, there is at most one open alert, none when a run is about to create
  one, and only the found one when it is about to close it (`AlertInv`); and that
  without a fault or an overflow an open alert means an outage or a recovery that
  is just being reported (`StaleInv`).

- `SheetSync_proofs!SyncImplementsLedger`: `Spec => ImplementsLedger`. Initial states
  map to initial states; each step of `SheetSync` maps to a step of `Ledger` or
  leaves the entries as they are. It needs the backup (`BackupCoversSheet`), what
  is known about the rows (`RowsInv`), and `LedgerInv`: up to the write the managed
  rows are those the rebuild decided by, also if the manager edits one at the last
  moment, and a cancellation the run knows of stands in the row before its removal.
- `SupplierCosts_proofs!TypeCorrect`, `CostsHaveOrigin`, `JournalIsTrue`,
  `ManualCostsStay`, `CostsFit`. The write follows two reads, so the invariant says
  what the two still mean when it comes: every cell still to be written has a usable
  price, and, unless it is in `late`, its parcel, product and source are those of
  the first read; what is reported was written or is still to be. A lemma on the least element of a set of
  positions (`Min`) rests on the well-foundedness of the naturals.
- `Installments_proofs!TypeCorrect`, `FeesJournaled`, `FeesSurvive`,
  `SilenceIsNoAnswer`, `LabelsAfterJournal`. `ReconciledIsJournaled` holds at the end
  of a job for a reason found at its beginning (the orders asked about are all that
  lack a marker, so one that is not asked has its own), and the invariant
  carries that reason through the plan, the write and the audit. The proof found
  that an order renumbered back in mid-job escapes it; the property says so now.
  Between the read and the write of the hourly refresh, `RefreshInv` says that what is
  about to be written still follows from the fees that stand there and, edits in
  between aside, from the labels.
- `SheetRebuild_proofs!TypeCorrect`, `KeptRowsCorrect`, `RebuildSound`,
  `RatesKeptCorrect`, `CheckedOrdersCorrect`, `UpdatesCorrect`. The lemmas say what is
  in a layout without computing it: every group stands in it as one block, with its
  number in the first row only, a day has one day row, and no row of another order is
  in between (`GroupLaidOut`, `LayoutProperties`, `RateLaidOut`). Three facts carry the
  rest. `TypeInv` adds to the types that no row is dated after the calendar's day (so
  that every group has its section) and that the run's day is no later. `WriteInv`
  says that the layout was made of the rows read, that those still stand at the write,
  late edits aside, and what stands at the clearing and after it. `WholeInv` says what a
  torn rebuild can leave: as long as nobody moved rows, a row with the number of its
  order is followed by all lines of the order (`HeadsLead`), because a layout is written
  from the first row down, and what it leaves of an older block below has no number;
  it is why the check is enough. `UpdateInv` keeps the row number of a planned cell true until rows are shifted.
- `Ordinals_proofs`: that the n-th of a finite set of numbers exists, is its own
  number, and grows with n; and that the n-th of a block is its n-th place. The
  induction theorems cannot be used here (see below), so a fact that needs one is
  proved of a least counterexample; so are those about `FlattenSeq` in
  `SheetRebuild_proofs`.
- `Shops_proofs!NothingIsPassedOver` (Prom). Lemmas on cardinalities say that a page
  has every order of its list above its last one, that a page that is not full is the
  rest, and that nothing lies between two pages; the invariant says which orders above
  the cursor are on the pages so far, and which are collected from the lists read
  before, in which status.
- `Shops_proofs!MissedByDrift` (OpenCart). The property speaks of the end of a fetch;
  `CartInv` says the same while it goes on: of the untouched orders that stand before the
  offset uncollected (`Lost`), those up to any second are no more than the places
  given up there (`LeftUpto`). A page collects as many orders as the offset
  advances, and an order that leaves the list takes at most one with it.
  `BothTypesCorrect` and `NothingIsPassedOverInShops` bring the results to the
  instance that TLC runs; they rest on `ShopsRunBoth`.
- `RozetkaOrders_proofs!LostByDrift`. `ReachInv`: an order that was eligible when the
  fetch began and did not drift is handled, in a row still to be taken, in hand, or
  ahead, that is, further back in the list being read than what was read of it, or in a
  later list. Orders advance with the sequence of the lists, so none of the steps
  takes one of these behind the cursor. Lemmas on numbers in a list say that a page
  has the orders whose numbers are its own (`NumbersGrow`, `PageType`).
- `RozetkaOrders_proofs!BestIsKept`. A kept row carries the further of the statuses it
  and its detail show, and `Merge` the further of two versions and the earliest exact
  date of both, so each version is the best of all before it. `BestInv` adds that an
  order without a version has shown nothing: a row that is left out disturbs neither.

TLC confirms each inductive invariant, those of the lemmas included, with seconds up to
`MaxNow` where a proof says all of them, on the constants
of its component's runs (`sync_one` and `sync_two` for `SheetSync`).

So every invariant, every action property and the refinement that a passing run checks is
proved. Only model-checked are the liveness properties (`OrdersAreRecorded`,
`RefusalsAreSettled`, `RefusedOrdersLeave`, `CostsSettle`, `AlertIsRaised`,
`BothFetchesEnd`), because fairness and `ENABLED` are out of the prover's reach, and
the four disagreements, which are counterexamples. The theorems about `MCShops` are
about its specification without fairness; fairness removes behaviours, so they hold of
`FairShopsSpec` too.

Two models have a form that was chosen because it can be reasoned about: the rows of
an order are taken by their positions and not by `SelectSeq`, and the sequence of
Rozetka's changes is numbers (`place`) and not a sequence. The library's
theorems on induction take an operator as a parameter, which the provers cannot
instantiate, so that little can be proved of what a recursive definition
computes, and a good deal of what a finite set contains.

## Not modelled

- Text and money: formulas, formatting, merges, report figures, amounts. The
  numeric rules of `integrity.py` are one flag of an offer, or of a row.
- Row numbers of `record_completion_observations`: it addresses rows as
  `update_shipment_statuses` does; in `SheetSync` it writes to its order.
- Marketplaces that change the lines of an order already in the worksheet.
- The columns of the legacy migration: `SheetSync` has its place, its backup and
  the rebuild it asks for.
- Finance expenses, among them `fetch_expenses` of Rozetka, and warnings about
  instalments: figures of a report that no later run reads.
- The fields of an order, which every client normalises for itself.
- Delays between retries, and their sum against the step timeout.
- The composition of `SupplierCosts` with the prepaid parcels of `SheetSync`: which
  orders a registry marks, and which parcels both suppliers list, are constants there
  and not derived from what the suppliers list.
- Configuration, value parsing, reporting: no state.
- Dry runs write nothing.

## Plan

Done: the modules, runs and theorems above. What is left, in order of what a
failure would cost:

1. In `SheetRebuild`, lines that the marketplace changes, and the third writer by row
   number.
2. `SupplierCosts` as the source of `SheetSync`'s prepaid and contradicted parcels.
3. The legacy migration with its columns, copied and cleared in two requests.
4. Delays between retries against the step timeout.
