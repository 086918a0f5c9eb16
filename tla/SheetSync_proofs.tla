--------------------------- MODULE SheetSync_proofs ---------------------------
(***************************************************************************)
(* Theorems about SheetSync, for any number of orders, marketplaces, days, *)
(* disturbances and faults.                                                *)
(*                                                                         *)
(*   TypeCorrect     every reachable state is well typed;                  *)
(*   BackupCovers    the inductive invariant of the backups;               *)
(*   BackupBeforeDeletion   no managed row is ever removed unless this     *)
(*                   run's backup has it;                                  *)
(*   RemovalsAreRefusals    a managed row is removed only for a refusal    *)
(*                   that is real and that nothing says was prepaid;       *)
(*   NotesStay       a run changes no note of a row that stays;            *)
(*   RefusalsOutOfTotals    every refusal a run that gets to its end has   *)
(*                   found is out of the totals, and the write of a        *)
(*                   rebuild takes nothing else out of them;               *)
(*   ChangesAreJournaled    the audit it wrote has every order it added    *)
(*                   and every status it changed;                          *)
(*   SyncImplementsLedger   every step of a run, of the manager and of the *)
(*                   world is a step of Ledger or none.                    *)
(***************************************************************************)
EXTENDS SheetSync, TLAPS

USE DEF Goto, FaultWhen, EndRun, TakeBackup, Disturb, Edit, NoteLate,
        world, book, plan, locals, seen

-----------------------------------------------------------------------------
(* Rows and offers.                                                        *)

\* q is the row r with some of its cells rewritten.
Revises(q, r) == q \in Row /\ q.typed = r.typed

\* Every cell the run or the manager writes leaves the row a row, of the same
\* kind.
LEMMA RowUpdates ==
  ASSUME NEW r \in Row
  PROVE  /\ \A s \in {"none", "shipped", "done", "cancelled"} :
              Revises([r EXCEPT !.st = s], r)
         /\ \A s \in Parcel : Revises([r EXCEPT !.ship = s], r)
         /\ \A p \in BOOLEAN : Revises([r EXCEPT !.paid = p], r)
         /\ \A b \in BOOLEAN : Revises([r EXCEPT !.broken = b], r)
         /\ \A b \in BOOLEAN : Revises([r EXCEPT !.ttn = b], r)
         /\ \A n \in Notes : Revises([r EXCEPT !.note = n], r)
         /\ \A e, b \in BOOLEAN : Revises([r EXCEPT !.excl = e, !.broken = b], r)
         /\ \A p, t, b \in BOOLEAN, d \in Days :
              Revises([r EXCEPT !.paid = p, !.day = d, !.ttn = t, !.broken = b], r)
BY DEF Row, Revises

\* A prepayment inferred from a parcel leaves the offer an offer.
LEMMA OfferPaid == \A m \in Offer : [m EXCEPT !.paid = TRUE] \in Offer
BY DEF Offer

\* The absent row is not a row: its status is none of the four.
LEMMA NoRowIsNone == NoRow \notin Row
BY DEF NoRow, Row

\* A cell that is not empty belongs to a row.
LEMMA PresentIsRow ==
  TypeOK => \A o \in Orders : HasRow(sheet, o) \/ IsTyped(sheet, o) => sheet[o] \in Row
BY DEF TypeOK, BookType, HasRow, IsTyped

\* The managed keys are orders, and each has a row.
LEMMA TypedKeysAreRows ==
  TypeOK => \A o \in TypedKeys(sheet) : o \in Orders /\ sheet[o] \in Row
BY PresentIsRow DEF TypedKeys

-----------------------------------------------------------------------------
(* The steps that rewrite cells: what each makes of a row.                 *)

\* The worksheet after a step, when it only rewrites cells of rows.
Rewritten == \A o \in Orders : \/ sheet'[o] = sheet[o]
                               \/ sheet[o] \in Row /\ Revises(sheet'[o], sheet[o])

LEMMA RecordCompletionRows ==
  ASSUME TypeOK, RecordCompletion
  PROVE  sheet' \in [Orders -> Row \cup {NoRow}] /\ Rewritten
<1>1. \A o \in Orders : feed[o].st \in {"none", "shipped", "done", "cancelled"}
  BY DEF TypeOK, RunType, Offer
<1>2. \A o \in Observed : o \in Orders /\ sheet[o] \in Row
  BY TypedKeysAreRows DEF Observed
<1>3. \A o \in Observed : Revises([sheet[o] EXCEPT !.st = feed[o].st], sheet[o])
  BY <1>1, <1>2, RowUpdates
<1>4. Rewritten
  BY <1>2, <1>3 DEF RecordCompletion, Rewritten
<1>5. sheet' \in [Orders -> Row \cup {NoRow}]
  BY <1>3 DEF TypeOK, BookType, RecordCompletion, Revises
<1> QED BY <1>4, <1>5

LEMMA RefreshDetailsRows ==
  ASSUME TypeOK, RefreshDetails
  PROVE  sheet' \in [Orders -> Row \cup {NoRow}] /\ Rewritten
<1>1. \A o \in Orders : feed[o].paid \in BOOLEAN /\ feed[o].day \in Days
  BY DEF TypeOK, RunType, Offer
<1>2. \A o \in Observed : o \in Orders /\ sheet[o] \in Row
  BY TypedKeysAreRows DEF Observed
<1>3. \A o \in Observed : Revises(DetailedRow(o), sheet[o])
  <2> TAKE o \in Observed
  <2>1. sheet[o] \in Row
    BY <1>2
  <2>2. /\ sheet[o].paid \in BOOLEAN /\ sheet[o].day \in Days
       /\ sheet[o].ttn \in BOOLEAN
    BY <2>1 DEF Row
  <2> QED BY <1>1, <1>2, <2>1, <2>2, RowUpdates DEF DetailedRow
<1>4. Rewritten
  BY <1>2, <1>3 DEF RefreshDetails, Rewritten
<1>5. sheet' \in [Orders -> Row \cup {NoRow}]
  BY <1>3 DEF TypeOK, BookType, RefreshDetails, Revises
<1> QED BY <1>4, <1>5

LEMMA UpdateShipmentsRows ==
  ASSUME TypeOK, UpdateShipments
  PROVE  sheet' \in [Orders -> Row \cup {NoRow}] /\ Rewritten
<1>1. \A o \in Orders : statuses[o] \in Parcel \cup {"unknown"}
  BY DEF TypeOK, RunType
<1>2. Rewritten
  BY <1>1, PresentIsRow, RowUpdates DEF UpdateShipments, Rewritten
<1>3. sheet' \in [Orders -> Row \cup {NoRow}]
  BY <1>1, PresentIsRow, RowUpdates DEF TypeOK, BookType, UpdateShipments, Revises
<1> QED BY <1>2, <1>3

LEMMA WriteSupplierCostsRows ==
  ASSUME TypeOK, WriteSupplierCosts
  PROVE  sheet' \in [Orders -> Row \cup {NoRow}] /\ Rewritten
<1>1. PICK marked \in SUBSET {o \in TypedKeys(sheet) : SupplierMarks(sheet[o], o)} :
        sheet' = [o \in Orders |-> IF o \in marked
                                   THEN [sheet[o] EXCEPT !.paid = TRUE]
                                   ELSE sheet[o]]
  BY DEF WriteSupplierCosts
<1>2. \A o \in marked : sheet[o] \in Row
  BY TypedKeysAreRows
<1>3. \A o \in marked : Revises([sheet[o] EXCEPT !.paid = TRUE], sheet[o])
  BY <1>2, RowUpdates
<1>4. Rewritten
  BY <1>1, <1>2, <1>3 DEF Rewritten
<1>5. sheet' \in [Orders -> Row \cup {NoRow}]
  BY <1>1, <1>3 DEF TypeOK, BookType, Revises
<1> QED BY <1>4, <1>5

LEMMA EditNoteRows ==
  ASSUME TypeOK, NEW o \in Orders, EditNote(o)
  PROVE  sheet' \in [Orders -> Row \cup {NoRow}] /\ Rewritten
<1>1. sheet[o] \in Row
  BY PresentIsRow DEF EditNote
<1>2. PICK n \in Notes : sheet' = [sheet EXCEPT ![o] = [sheet[o] EXCEPT !.note = n]]
  BY DEF EditNote
<1>3. Revises([sheet[o] EXCEPT !.note = n], sheet[o])
  BY <1>1, RowUpdates
<1>4. Rewritten
  BY <1>1, <1>2, <1>3 DEF TypeOK, BookType, Rewritten
<1>5. sheet' \in [Orders -> Row \cup {NoRow}]
  BY <1>2, <1>3 DEF TypeOK, BookType, Revises
<1> QED BY <1>4, <1>5

LEMMA BreakFormulaRows ==
  ASSUME TypeOK, NEW o \in Orders, BreakFormula(o)
  PROVE  sheet' \in [Orders -> Row \cup {NoRow}] /\ Rewritten
<1>1. sheet[o] \in Row
  BY PresentIsRow DEF BreakFormula
<1>2. Rewritten
  BY <1>1, RowUpdates DEF TypeOK, BookType, BreakFormula, Rewritten
<1>3. sheet' \in [Orders -> Row \cup {NoRow}]
  BY <1>1, RowUpdates DEF TypeOK, BookType, BreakFormula, Revises
<1> QED BY <1>2, <1>3

LEMMA ClearTrackingRows ==
  ASSUME TypeOK, NEW o \in Orders, ClearTracking(o)
  PROVE  sheet' \in [Orders -> Row \cup {NoRow}] /\ Rewritten
<1>1. sheet[o] \in Row
  BY PresentIsRow DEF ClearTracking
<1>2. Rewritten
  BY <1>1, RowUpdates DEF TypeOK, BookType, ClearTracking, Rewritten
<1>3. sheet' \in [Orders -> Row \cup {NoRow}]
  BY <1>1, RowUpdates DEF TypeOK, BookType, ClearTracking, Revises
<1> QED BY <1>2, <1>3

\* A rebuild computes rows.
LEMMA RebuiltType == TypeOK => Rebuilt \in [Orders -> Row \cup {NoRow}]
<1> SUFFICES ASSUME TypeOK, NEW o \in Orders
             PROVE  Collected(o) \in Row \cup {NoRow}
  BY DEF Rebuilt
<1>1. RefusedKey(o) \in BOOLEAN
  BY DEF RefusedKey, RowRefused
<1>2. ASSUME Kept(o) PROVE KeptRow(o) \in Row
  BY <1>1, <1>2, RowUpdates
  DEF Kept, KeptRow, IsTyped, HasRow, TypeOK, RunType, Revises
<1>3. ASSUME Added(o) PROVE AddedRow(o) \in Row
  BY <1>3 DEF AddedRow, Row, Added, TypeOK, RunType, Offer, Notes, NewRefused
<1> QED BY <1>2, <1>3 DEF Collected

-----------------------------------------------------------------------------
(* Type correctness.                                                       *)

\* A process that ends leaves well-typed locals.
LEMMA EndRunType == EndRun => RunType' /\ late' = {} /\ done' = {} /\ journal' = {} /\ events' = {}
<1> SUFFICES ASSUME EndRun PROVE RunType'
  OBVIOUS
<1>1. 0 \in Days
  BY ConstantsAssumption DEF Days
<1>2. feed' \in [Orders -> Offer]
  BY <1>1 DEF Offer, NoOffer, Flaws
<1>3. statuses' \in [Orders -> Parcel \cup {"unknown"}]
  OBVIOUS
<1>4. snap' \in [Orders -> Row \cup {NoRow}]
  OBVIOUS
<1> QED BY <1>1, <1>2, <1>3, <1>4 DEF RunType, Phases

\* What is left alone keeps its type.
LEMMA Untouched ==
  /\ WorldType /\ UNCHANGED world => WorldType'
  /\ BookType /\ UNCHANGED book => BookType'
  /\ SeenType /\ UNCHANGED <<events, seen, disturbances, faults>> => SeenType'
<1>1. WorldType /\ UNCHANGED world => WorldType'
  BY DEF WorldType
<1>2. BookType /\ UNCHANGED book => BookType'
  BY DEF BookType
<1>3. SeenType /\ UNCHANGED <<events, seen, disturbances, faults>> => SeenType'
  BY DEF SeenType
<1> QED BY <1>1, <1>2, <1>3

LEMMA StartType == TypeOK /\ Start => TypeOK'
<1> SUFFICES ASSUME TypeOK, Start PROVE TypeOK'
  OBVIOUS
<1>1. WorldType'
  BY Untouched DEF TypeOK, Start
<1>2. BookType'
  BY Untouched DEF TypeOK, Start
<1>3. RunType'
  BY ConstantsAssumption
  DEF TypeOK, RunType, WorldType, Start, Phases, NoOffer, Offer, Parcel, Days, NoRow, TypedKeys
<1>4. SeenType'
  BY Untouched DEF TypeOK, Start
<1> QED BY <1>1, <1>2, <1>3, <1>4 DEF TypeOK

LEMMA BackupBeforeMigrationType == TypeOK /\ BackupBeforeMigration => TypeOK'
<1> SUFFICES ASSUME TypeOK, BackupBeforeMigration PROVE TypeOK'
  OBVIOUS
<1>1. WorldType'
  BY Untouched DEF TypeOK, BackupBeforeMigration
<1>2. BookType'
  BY Untouched DEF TypeOK, BackupBeforeMigration
<1>3. RunType'
  BY ConstantsAssumption
  DEF TypeOK, RunType, BackupBeforeMigration, Phases, NoOffer, Offer, Parcel, Days, NoRow, TypedKeys
<1>4. SeenType'
  BY Untouched DEF TypeOK, BackupBeforeMigration
<1> QED BY <1>1, <1>2, <1>3, <1>4 DEF TypeOK

LEMMA MigrateSchemaType == TypeOK /\ MigrateSchema => TypeOK'
<1> SUFFICES ASSUME TypeOK, MigrateSchema PROVE TypeOK'
  OBVIOUS
<1>1. WorldType'
  BY Untouched DEF TypeOK, MigrateSchema
<1>2. BookType'
  BY ConstantsAssumption
  DEF TypeOK, BookType, MigrateSchema, Row, NoRow, HasRow, Notes, Parcel
<1>3. RunType'
  BY ConstantsAssumption
  DEF TypeOK, RunType, MigrateSchema, Phases, NoOffer, Offer, Parcel, Days, NoRow, TypedKeys
<1>4. SeenType'
  BY Untouched DEF TypeOK, MigrateSchema
<1> QED BY <1>1, <1>2, <1>3, <1>4 DEF TypeOK

LEMMA PreflightType == TypeOK /\ Preflight => TypeOK'
<1> SUFFICES ASSUME TypeOK, Preflight PROVE TypeOK'
  OBVIOUS
<1>1. WorldType'
  BY Untouched DEF TypeOK, Preflight
<1>2. BookType'
  BY Untouched DEF TypeOK, Preflight
<1>3. RunType'
  BY ConstantsAssumption
  DEF TypeOK, RunType, Preflight, Phases, NoOffer, Offer, Parcel, Days, NoRow, TypedKeys
<1>4. SeenType'
  BY Untouched DEF TypeOK, Preflight
<1> QED BY <1>1, <1>2, <1>3, <1>4 DEF TypeOK

LEMMA RefusePreflightType == TypeOK /\ RefusePreflight => TypeOK'
<1> SUFFICES ASSUME TypeOK, RefusePreflight PROVE TypeOK'
  OBVIOUS
<1>1. WorldType'
  BY Untouched DEF TypeOK, RefusePreflight
<1>2. BookType'
  BY Untouched DEF TypeOK, RefusePreflight
<1>3. RunType'
  BY EndRunType DEF RefusePreflight
<1>4. SeenType'
  BY ConstantsAssumption
  DEF TypeOK, SeenType, RefusePreflight, Event
<1> QED BY <1>1, <1>2, <1>3, <1>4 DEF TypeOK

LEMMA FetchOrdersType == TypeOK /\ FetchOrders => TypeOK'
<1> SUFFICES ASSUME TypeOK, FetchOrders PROVE TypeOK'
  OBVIOUS
<1>1. WorldType'
  BY Untouched DEF TypeOK, FetchOrders
<1>2. BookType'
  BY Untouched DEF TypeOK, FetchOrders
<1>3. RunType'
  BY ConstantsAssumption
  DEF TypeOK, RunType, WorldType, FetchOrders, Answer, Phases, NoOffer, Offer, Flaws, Parcel, Days, NoRow, TypedKeys
<1>4. SeenType'
  BY ConstantsAssumption
  DEF TypeOK, SeenType, FetchOrders, Event
<1> QED BY <1>1, <1>2, <1>3, <1>4 DEF TypeOK

LEMMA RefuseIncomingType == TypeOK /\ RefuseIncoming => TypeOK'
<1> SUFFICES ASSUME TypeOK, RefuseIncoming PROVE TypeOK'
  OBVIOUS
<1>1. WorldType'
  BY Untouched DEF TypeOK, RefuseIncoming
<1>2. BookType'
  BY Untouched DEF TypeOK, RefuseIncoming
<1>3. RunType'
  BY EndRunType DEF RefuseIncoming
<1>4. SeenType'
  BY ConstantsAssumption
  DEF TypeOK, SeenType, RefuseIncoming, Event
<1> QED BY <1>1, <1>2, <1>3, <1>4 DEF TypeOK

LEMMA FetchSuppliersType == TypeOK /\ FetchSuppliers => TypeOK'
<1> SUFFICES ASSUME TypeOK, FetchSuppliers PROVE TypeOK'
  OBVIOUS
<1>1. WorldType'
  BY Untouched DEF TypeOK, FetchSuppliers
<1>2. BookType'
  BY Untouched DEF TypeOK, FetchSuppliers
<1>3. RunType'
  BY ConstantsAssumption
  DEF TypeOK, RunType, FetchSuppliers, Resolved, Phases, NoOffer, Offer, Parcel, Days, NoRow, TypedKeys
<1>4. SeenType'
  BY ConstantsAssumption
  DEF TypeOK, SeenType, FetchSuppliers, Event
<1> QED BY <1>1, <1>2, <1>3, <1>4 DEF TypeOK

LEMMA BackfillType == TypeOK /\ Backfill => TypeOK'
<1> SUFFICES ASSUME TypeOK, Backfill PROVE TypeOK'
  OBVIOUS
<1>1. WorldType'
  BY Untouched DEF TypeOK, Backfill
<1>2. BookType'
  BY Untouched DEF TypeOK, Backfill
<1>3. RunType'
  BY ConstantsAssumption
  DEF TypeOK, RunType, Backfill, Phases, NoOffer, Offer, Parcel, Days, NoRow, TypedKeys
<1>4. SeenType'
  BY Untouched DEF TypeOK, Backfill
<1> QED BY <1>1, <1>2, <1>3, <1>4 DEF TypeOK

LEMMA TrackParcelsType == TypeOK /\ TrackParcels => TypeOK'
<1> SUFFICES ASSUME TypeOK, TrackParcels PROVE TypeOK'
  OBVIOUS
<1>1. WorldType'
  BY Untouched DEF TypeOK, TrackParcels
<1>2. BookType'
  BY Untouched DEF TypeOK, TrackParcels
<1>3. RunType'
  <2>1. feed' \in [Orders -> Offer]
    BY OfferPaid DEF TypeOK, RunType, TrackParcels
  <2>2. statuses' \in [Orders -> Parcel \cup {"unknown"}]
    BY DEF TypeOK, WorldType, TrackParcels
  <2> QED BY <2>1, <2>2 DEF TypeOK, RunType, TrackParcels, Phases
<1>4. SeenType'
  BY ConstantsAssumption
  DEF TypeOK, SeenType, TrackParcels, Event
<1> QED BY <1>1, <1>2, <1>3, <1>4 DEF TypeOK

LEMMA RecordCompletionType == TypeOK /\ RecordCompletion => TypeOK'
<1> SUFFICES ASSUME TypeOK, RecordCompletion PROVE TypeOK'
  OBVIOUS
<1>1. WorldType'
  BY Untouched DEF TypeOK, RecordCompletion
<1>2. BookType'
  BY RecordCompletionRows DEF TypeOK, BookType, RecordCompletion
<1>3. RunType'
  BY ConstantsAssumption
  DEF TypeOK, RunType, RecordCompletion, Phases, NoOffer, Offer, Parcel, Days, NoRow, TypedKeys
<1>4. SeenType'
  <2>1. Observed \subseteq Orders
    BY DEF Observed, TypedKeys
  <2> QED BY <2>1 DEF TypeOK, SeenType, RecordCompletion, Event
<1> QED BY <1>1, <1>2, <1>3, <1>4 DEF TypeOK

LEMMA RefreshDetailsType == TypeOK /\ RefreshDetails => TypeOK'
<1> SUFFICES ASSUME TypeOK, RefreshDetails PROVE TypeOK'
  OBVIOUS
<1>1. WorldType'
  BY Untouched DEF TypeOK, RefreshDetails
<1>2. BookType'
  BY RefreshDetailsRows DEF TypeOK, BookType, RefreshDetails
<1>3. RunType'
  BY ConstantsAssumption
  DEF TypeOK, RunType, RefreshDetails, Phases, NoOffer, Offer, Parcel, Days, NoRow, TypedKeys
<1>4. SeenType'
  BY Untouched DEF TypeOK, RefreshDetails
<1> QED BY <1>1, <1>2, <1>3, <1>4 DEF TypeOK

LEMMA UpdateShipmentsType == TypeOK /\ UpdateShipments => TypeOK'
<1> SUFFICES ASSUME TypeOK, UpdateShipments PROVE TypeOK'
  OBVIOUS
<1>1. WorldType'
  BY Untouched DEF TypeOK, UpdateShipments
<1>2. BookType'
  BY UpdateShipmentsRows DEF TypeOK, BookType, UpdateShipments
<1>3. RunType'
  BY ConstantsAssumption
  DEF TypeOK, RunType, UpdateShipments, Phases, NoOffer, Offer, Parcel, Days, NoRow, TypedKeys
<1>4. SeenType'
  BY ConstantsAssumption
  DEF TypeOK, SeenType, UpdateShipments, Event
<1> QED BY <1>1, <1>2, <1>3, <1>4 DEF TypeOK

LEMMA DecideType == TypeOK /\ Decide => TypeOK'
<1> SUFFICES ASSUME TypeOK, Decide PROVE TypeOK'
  OBVIOUS
<1>1. WorldType'
  BY Untouched DEF TypeOK, Decide
<1>2. BookType'
  BY Untouched DEF TypeOK, Decide
<1>3. RunType'
  BY DEF TypeOK, RunType, Decide, RebuildReason, Phases
<1>4. SeenType'
  BY Untouched DEF TypeOK, Decide
<1> QED BY <1>1, <1>2, <1>3, <1>4 DEF TypeOK

LEMMA BackupBeforeRebuildType == TypeOK /\ BackupBeforeRebuild => TypeOK'
<1> SUFFICES ASSUME TypeOK, BackupBeforeRebuild PROVE TypeOK'
  OBVIOUS
<1>1. WorldType'
  BY Untouched DEF TypeOK, BackupBeforeRebuild
<1>2. BookType'
  BY Untouched DEF TypeOK, BackupBeforeRebuild
<1>3. RunType'
  BY ConstantsAssumption
  DEF TypeOK, RunType, BackupBeforeRebuild, Phases, NoOffer, Offer, Parcel, Days, NoRow, TypedKeys
<1>4. SeenType'
  BY Untouched DEF TypeOK, BackupBeforeRebuild
<1> QED BY <1>1, <1>2, <1>3, <1>4 DEF TypeOK

LEMMA SkipRebuildType == TypeOK /\ SkipRebuild => TypeOK'
<1> SUFFICES ASSUME TypeOK, SkipRebuild PROVE TypeOK'
  OBVIOUS
<1>1. WorldType'
  BY Untouched DEF TypeOK, SkipRebuild
<1>2. BookType'
  BY Untouched DEF TypeOK, SkipRebuild
<1>3. RunType'
  BY ConstantsAssumption
  DEF TypeOK, RunType, SkipRebuild, Phases, NoOffer, Offer, Parcel, Days, NoRow, TypedKeys
<1>4. SeenType'
  BY Untouched DEF TypeOK, SkipRebuild
<1> QED BY <1>1, <1>2, <1>3, <1>4 DEF TypeOK

LEMMA ReadForRebuildType == TypeOK /\ ReadForRebuild => TypeOK'
<1> SUFFICES ASSUME TypeOK, ReadForRebuild PROVE TypeOK'
  OBVIOUS
<1>1. WorldType'
  BY Untouched DEF TypeOK, ReadForRebuild
<1>2. BookType'
  BY Untouched DEF TypeOK, ReadForRebuild
<1>3. RunType'
  BY DEF TypeOK, RunType, BookType, ReadForRebuild, Phases
<1>4. SeenType'
  BY Untouched DEF TypeOK, ReadForRebuild
<1> QED BY <1>1, <1>2, <1>3, <1>4 DEF TypeOK

LEMMA RereadType == TypeOK /\ Reread => TypeOK'
<1> SUFFICES ASSUME TypeOK, Reread PROVE TypeOK'
  OBVIOUS
<1>1. WorldType'
  BY Untouched DEF TypeOK, Reread
<1>2. BookType'
  BY Untouched DEF TypeOK, Reread
<1>3. RunType'
  BY ConstantsAssumption
  DEF TypeOK, RunType, Reread, Phases, NoOffer, Offer, Parcel, Days, NoRow, TypedKeys
<1>4. SeenType'
  BY Untouched DEF TypeOK, Reread
<1> QED BY <1>1, <1>2, <1>3, <1>4 DEF TypeOK

LEMMA RefuseConcurrentEditType == TypeOK /\ RefuseConcurrentEdit => TypeOK'
<1> SUFFICES ASSUME TypeOK, RefuseConcurrentEdit PROVE TypeOK'
  OBVIOUS
<1>1. WorldType'
  BY Untouched DEF TypeOK, RefuseConcurrentEdit
<1>2. BookType'
  BY Untouched DEF TypeOK, RefuseConcurrentEdit
<1>3. RunType'
  BY EndRunType DEF RefuseConcurrentEdit
<1>4. SeenType'
  BY ConstantsAssumption
  DEF TypeOK, SeenType, RefuseConcurrentEdit, Event
<1> QED BY <1>1, <1>2, <1>3, <1>4 DEF TypeOK

LEMMA WriteRowsType == TypeOK /\ WriteRows => TypeOK'
<1> SUFFICES ASSUME TypeOK, WriteRows PROVE TypeOK'
  OBVIOUS
<1>1. WorldType'
  BY Untouched DEF TypeOK, WriteRows
<1>2. BookType'
  BY RebuiltType DEF TypeOK, BookType, RunType, WriteRows
<1>3. RunType'
  <2>1. tail' \subseteq Orders
    BY DEF WriteRows, Leftover
  <2> QED BY <2>1 DEF TypeOK, RunType, WriteRows, Phases
<1>4. SeenType'
  <2>1. CancelledExisting \subseteq Orders
    BY DEF TypeOK, RunType, CancelledExisting
  <2> QED BY <2>1 DEF TypeOK, SeenType, WriteRows, Event
<1> QED BY <1>1, <1>2, <1>3, <1>4 DEF TypeOK

LEMMA ClearTailType == TypeOK /\ ClearTail => TypeOK'
<1> SUFFICES ASSUME TypeOK, ClearTail PROVE TypeOK'
  OBVIOUS
<1>1. WorldType'
  BY Untouched DEF TypeOK, ClearTail
<1>2. BookType'
  BY Untouched DEF TypeOK, ClearTail
<1>3. RunType'
  BY ConstantsAssumption
  DEF TypeOK, RunType, ClearTail, Phases, NoOffer, Offer, Parcel, Days, NoRow, TypedKeys
<1>4. SeenType'
  BY Untouched DEF TypeOK, ClearTail
<1> QED BY <1>1, <1>2, <1>3, <1>4 DEF TypeOK

LEMMA WriteSupplierCostsType == TypeOK /\ WriteSupplierCosts => TypeOK'
<1> SUFFICES ASSUME TypeOK, WriteSupplierCosts PROVE TypeOK'
  OBVIOUS
<1>1. WorldType'
  BY Untouched DEF TypeOK, WriteSupplierCosts
<1>2. BookType'
  BY WriteSupplierCostsRows DEF TypeOK, BookType, WriteSupplierCosts
<1>3. RunType'
  BY ConstantsAssumption
  DEF TypeOK, RunType, WriteSupplierCosts, Phases, NoOffer, Offer, Parcel, Days, NoRow, TypedKeys
<1>4. SeenType'
  BY Untouched DEF TypeOK, WriteSupplierCosts
<1> QED BY <1>1, <1>2, <1>3, <1>4 DEF TypeOK

LEMMA AppendAuditType == TypeOK /\ AppendAudit => TypeOK'
<1> SUFFICES ASSUME TypeOK, AppendAudit PROVE TypeOK'
  OBVIOUS
<1>1. WorldType'
  BY Untouched DEF TypeOK, AppendAudit
<1>2. BookType'
  BY Untouched DEF TypeOK, AppendAudit
<1>3. RunType'
  BY ConstantsAssumption
  DEF TypeOK, RunType, AppendAudit, Phases, NoOffer, Offer, Parcel, Days, NoRow, TypedKeys
<1>4. SeenType'
  <2>1. CancelledExisting \subseteq Orders /\ NewOrders \subseteq Orders
    BY DEF TypeOK, RunType, CancelledExisting, NewOrders, Fetched
  <2>2. AuditEvents \subseteq Event
    BY <2>1 DEF TypeOK, SeenType, AuditEvents, Event
  <2> QED BY <2>2 DEF TypeOK, SeenType, AppendAudit
<1> QED BY <1>1, <1>2, <1>3, <1>4 DEF TypeOK

LEMMA LoseAuditType == TypeOK /\ LoseAudit => TypeOK'
<1> SUFFICES ASSUME TypeOK, LoseAudit PROVE TypeOK'
  OBVIOUS
<1>1. WorldType'
  BY Untouched DEF TypeOK, LoseAudit
<1>2. BookType'
  BY Untouched DEF TypeOK, LoseAudit
<1>3. RunType'
  BY ConstantsAssumption
  DEF TypeOK, RunType, LoseAudit, Phases, NoOffer, Offer, Parcel, Days, NoRow, TypedKeys
<1>4. SeenType'
  BY ConstantsAssumption
  DEF TypeOK, SeenType, LoseAudit, Event
<1> QED BY <1>1, <1>2, <1>3, <1>4 DEF TypeOK

LEMMA PostCheckType == TypeOK /\ PostCheck => TypeOK'
<1> SUFFICES ASSUME TypeOK, PostCheck PROVE TypeOK'
  OBVIOUS
<1>1. WorldType'
  BY Untouched DEF TypeOK, PostCheck
<1>2. BookType'
  BY Untouched DEF TypeOK, PostCheck
<1>3. RunType'
  BY EndRunType DEF PostCheck
<1>4. SeenType'
  BY ConstantsAssumption
  DEF TypeOK, SeenType, PostCheck, Event
<1> QED BY <1>1, <1>2, <1>3, <1>4 DEF TypeOK

LEMMA CrashType == TypeOK /\ Crash => TypeOK'
<1> SUFFICES ASSUME TypeOK, Crash PROVE TypeOK'
  OBVIOUS
<1>1. WorldType'
  BY Untouched DEF TypeOK, Crash
<1>2. BookType'
  <2>1. sheet' \in [Orders -> Row \cup {NoRow}]
    BY DEF TypeOK, BookType, RunType, Crash
  <2>2. corrupt' \in BOOLEAN
    BY DEF TypeOK, BookType, Crash
  <2> QED BY <2>1, <2>2 DEF TypeOK, BookType, Crash
<1>3. RunType'
  BY EndRunType DEF Crash
<1>4. SeenType'
  BY ConstantsAssumption
  DEF TypeOK, SeenType, Crash, Event
<1> QED BY <1>1, <1>2, <1>3, <1>4 DEF TypeOK

LEMMA MidnightType == TypeOK /\ Midnight => TypeOK'
<1> SUFFICES ASSUME TypeOK, Midnight PROVE TypeOK'
  OBVIOUS
<1>1. WorldType'
  BY ConstantsAssumption
  DEF TypeOK, WorldType, Midnight, Days, Offer, Parcel, NextOffer
<1>2. BookType'
  BY Untouched DEF TypeOK, Midnight
<1>3. RunType'
  BY ConstantsAssumption
  DEF TypeOK, RunType, Midnight, Phases, NoOffer, Offer, Parcel, Days, NoRow, TypedKeys
<1>4. SeenType'
  BY ConstantsAssumption
  DEF TypeOK, SeenType, Midnight, Event
<1> QED BY <1>1, <1>2, <1>3, <1>4 DEF TypeOK

LEMMA RepairByHandType == TypeOK /\ RepairByHand => TypeOK'
<1> SUFFICES ASSUME TypeOK, RepairByHand PROVE TypeOK'
  OBVIOUS
<1>1. WorldType'
  BY Untouched DEF TypeOK, RepairByHand
<1>2. BookType'
  BY ConstantsAssumption
  DEF TypeOK, BookType, RepairByHand, Row, NoRow, HasRow, Notes, Parcel
<1>3. RunType'
  BY ConstantsAssumption
  DEF TypeOK, RunType, RepairByHand, Phases, NoOffer, Offer, Parcel, Days, NoRow, TypedKeys
<1>4. SeenType'
  BY ConstantsAssumption
  DEF TypeOK, SeenType, RepairByHand, Event
<1> QED BY <1>1, <1>2, <1>3, <1>4 DEF TypeOK

LEMMA MarketMovesType ==
  ASSUME TypeOK, NEW o \in Orders, MarketMoves(o)
  PROVE  TypeOK'
<1>1. WorldType'
  <2>1. \A m \in Offer : NextOffer(o, m) \subseteq Offer
    BY DEF TypeOK, WorldType, Offer, NextOffer, Flaws
  <2>2. market' \in [Orders -> Offer]
    BY <2>1 DEF TypeOK, WorldType, MarketMoves
  <2> QED BY <2>2 DEF TypeOK, WorldType, MarketMoves
<1>2. BookType'
  BY Untouched DEF TypeOK, MarketMoves
<1>3. RunType'
  BY ConstantsAssumption
  DEF TypeOK, RunType, MarketMoves, Phases, NoOffer, Offer, Parcel, Days, NoRow, TypedKeys
<1>4. SeenType'
  BY ConstantsAssumption
  DEF TypeOK, SeenType, MarketMoves, Event
<1> QED BY <1>1, <1>2, <1>3, <1>4 DEF TypeOK

LEMMA ParcelMovesType ==
  ASSUME TypeOK, NEW o \in Orders, ParcelMoves(o)
  PROVE  TypeOK'
<1>1. WorldType'
  BY ConstantsAssumption
  DEF TypeOK, WorldType, ParcelMoves, Days, Offer, Parcel, NextOffer
<1>2. BookType'
  BY Untouched DEF TypeOK, ParcelMoves
<1>3. RunType'
  BY ConstantsAssumption
  DEF TypeOK, RunType, ParcelMoves, Phases, NoOffer, Offer, Parcel, Days, NoRow, TypedKeys
<1>4. SeenType'
  BY ConstantsAssumption
  DEF TypeOK, SeenType, ParcelMoves, Event
<1> QED BY <1>1, <1>2, <1>3, <1>4 DEF TypeOK

LEMMA EditNoteType ==
  ASSUME TypeOK, NEW o \in Orders, EditNote(o)
  PROVE  TypeOK'
<1>1. WorldType'
  BY Untouched DEF TypeOK, EditNote
<1>2. BookType'
  BY EditNoteRows DEF TypeOK, BookType, EditNote
<1>3. RunType'
  BY ConstantsAssumption
  DEF TypeOK, RunType, EditNote, Phases, NoOffer, Offer, Parcel, Days, NoRow, TypedKeys
<1>4. SeenType'
  BY ConstantsAssumption
  DEF TypeOK, SeenType, EditNote, Event
<1> QED BY <1>1, <1>2, <1>3, <1>4 DEF TypeOK

LEMMA BreakFormulaType ==
  ASSUME TypeOK, NEW o \in Orders, BreakFormula(o)
  PROVE  TypeOK'
<1>1. WorldType'
  BY Untouched DEF TypeOK, BreakFormula
<1>2. BookType'
  BY BreakFormulaRows DEF TypeOK, BookType, BreakFormula
<1>3. RunType'
  BY ConstantsAssumption
  DEF TypeOK, RunType, BreakFormula, Phases, NoOffer, Offer, Parcel, Days, NoRow, TypedKeys
<1>4. SeenType'
  BY ConstantsAssumption
  DEF TypeOK, SeenType, BreakFormula, Event
<1> QED BY <1>1, <1>2, <1>3, <1>4 DEF TypeOK

LEMMA ClearTrackingType ==
  ASSUME TypeOK, NEW o \in Orders, ClearTracking(o)
  PROVE  TypeOK'
<1>1. WorldType'
  BY Untouched DEF TypeOK, ClearTracking
<1>2. BookType'
  BY ClearTrackingRows DEF TypeOK, BookType, ClearTracking
<1>3. RunType'
  BY ConstantsAssumption
  DEF TypeOK, RunType, ClearTracking, Phases, NoOffer, Offer, Parcel, Days, NoRow, TypedKeys
<1>4. SeenType'
  BY ConstantsAssumption
  DEF TypeOK, SeenType, ClearTracking, Event
<1> QED BY <1>1, <1>2, <1>3, <1>4 DEF TypeOK

LEMMA EnterByHandType ==
  ASSUME TypeOK, NEW o \in Orders, EnterByHand(o)
  PROVE  TypeOK'
<1>1. WorldType'
  BY Untouched DEF TypeOK, EnterByHand
<1>2. BookType'
  BY ConstantsAssumption
  DEF TypeOK, BookType, WorldType, EnterByHand, Row, NoRow, HasRow, Notes, Parcel
<1>3. RunType'
  BY ConstantsAssumption
  DEF TypeOK, RunType, EnterByHand, Phases, NoOffer, Offer, Parcel, Days, NoRow, TypedKeys
<1>4. SeenType'
  BY ConstantsAssumption
  DEF TypeOK, SeenType, EnterByHand, Event
<1> QED BY <1>1, <1>2, <1>3, <1>4 DEF TypeOK

LEMMA TypeInit == Init => TypeOK
<1> SUFFICES ASSUME Init PROVE TypeOK
  OBVIOUS
<1>1. market \in [Orders -> Offer] /\ parcel \in [Orders -> Parcel]
  BY DEF Init, Parcel
<1>2. 0 \in Days
  BY ConstantsAssumption DEF Days
<1>3. BookType
  <2>1. \A o \in Orders : market[o].st # "none" => SettledRow(market[o]) \in Row
    BY <1>1, <1>2 DEF Offer, SettledRow, Row, Parcel, Notes
  <2>2. sheet \in [Orders -> Row \cup {NoRow}]
    BY <2>1 DEF Init
  <2> QED BY <1>2, <2>2 DEF Init, BookType
<1>4. RunType
  <2>1. feed \in [Orders -> Offer]
    BY <1>2 DEF Init, RestLocals, Offer, NoOffer
  <2> QED BY <1>2, <2>1 DEF Init, RestLocals, RunType, Phases
<1>5. SeenType
  BY ConstantsAssumption DEF Init, RestLocals, SeenType
<1> QED BY <1>1, <1>2, <1>3, <1>4, <1>5 DEF TypeOK, WorldType, Init

LEMMA TypeStep == TypeOK /\ [Next]_vars => TypeOK'
<1> SUFFICES ASSUME TypeOK, [Next]_vars PROVE TypeOK'
  OBVIOUS
<1>1. CASE RunStep
  BY <1>1, StartType, BackupBeforeMigrationType, MigrateSchemaType,
     PreflightType, RefusePreflightType, FetchOrdersType, RefuseIncomingType,
     FetchSuppliersType, BackfillType, TrackParcelsType,
     RecordCompletionType, RefreshDetailsType, UpdateShipmentsType,
     DecideType, BackupBeforeRebuildType, SkipRebuildType,
     ReadForRebuildType, RereadType, RefuseConcurrentEditType,
     WriteRowsType, ClearTailType, WriteSupplierCostsType, AppendAuditType,
     LoseAuditType, PostCheckType
  DEF RunStep
<1>2. CASE Crash
  BY <1>2, CrashType
<1>3. CASE Disturbance
  BY <1>3, MidnightType, RepairByHandType, MarketMovesType, ParcelMovesType,
     EditNoteType, BreakFormulaType, ClearTrackingType, EnterByHandType
  DEF Disturbance
<1>4. CASE UNCHANGED vars
  BY <1>4 DEF vars, TypeOK, WorldType, BookType, RunType, SeenType
<1> QED BY <1>1, <1>2, <1>3, <1>4 DEF Next

\* Every state of every behaviour is well typed: whatever the run reads, computes
\* and writes, a row stays a row and an offer an offer.
THEOREM TypeCorrect == Spec => []TypeOK
<1> QED BY TypeInit, TypeStep, PTL DEF Spec

-----------------------------------------------------------------------------
(* The backup.                                                             *)

\* A step that only rewrites cells keeps the managed keys.
LEMMA RewrittenKeepsKeys == Rewritten => TypedKeys(sheet') = TypedKeys(sheet)
BY NoRowIsNone DEF Rewritten, Revises, TypedKeys, IsTyped, HasRow

\* Only the rebuild and a crash in the middle of it change which orders have
\* managed rows, and only the rebuild removes one.
LEMMA KeysMove ==
  ASSUME TypeOK, [Next]_vars
  PROVE  \/ TypedKeys(sheet') = TypedKeys(sheet)
         \/ WriteRows
         \/ Crash /\ TypedKeys(sheet) \subseteq TypedKeys(sheet')
<1>1. CASE RunStep
  <2>1. CASE RecordCompletion \/ RefreshDetails \/ UpdateShipments \/ WriteSupplierCosts
    BY <2>1, RecordCompletionRows, RefreshDetailsRows, UpdateShipmentsRows,
       WriteSupplierCostsRows, RewrittenKeepsKeys
  <2>2. CASE WriteRows
    BY <2>2
  <2>3. CASE ~ (RecordCompletion \/ RefreshDetails \/ UpdateShipments
                  \/ WriteSupplierCosts \/ WriteRows)
    <3>1. UNCHANGED sheet
      BY <1>1, <2>3
      DEF RunStep, Start, BackupBeforeMigration, MigrateSchema, Preflight,
          RefusePreflight, FetchOrders, RefuseIncoming, FetchSuppliers, Backfill,
          TrackParcels,
          Decide, BackupBeforeRebuild, SkipRebuild, ReadForRebuild, Reread,
          RefuseConcurrentEdit, ClearTail, AppendAudit, LoseAudit, PostCheck
    <3> QED BY <3>1
  <2> QED BY <2>1, <2>2, <2>3
<1>2. CASE Crash
  <2>1. \A o \in Orders : IsTyped(sheet, o) => sheet'[o] = sheet[o]
    BY <1>2 DEF Crash, IsTyped
  <2>2. TypedKeys(sheet) \subseteq TypedKeys(sheet')
    BY <2>1 DEF TypedKeys, IsTyped, HasRow
  <2> QED BY <1>2, <2>2
<1>3. CASE Disturbance
  <2>1. CASE Midnight \/ RepairByHand
    BY <2>1 DEF Midnight, RepairByHand
  <2>2. ASSUME NEW o \in Orders, MarketMoves(o) \/ ParcelMoves(o)
        PROVE  UNCHANGED sheet
    BY <2>2 DEF MarketMoves, ParcelMoves
  <2>3. ASSUME NEW o \in Orders, EditNote(o) \/ BreakFormula(o) \/ ClearTracking(o)
        PROVE  TypedKeys(sheet') = TypedKeys(sheet)
    BY <2>3, EditNoteRows, BreakFormulaRows, ClearTrackingRows, RewrittenKeepsKeys
  <2>4. ASSUME NEW o \in Orders, EnterByHand(o)
        PROVE  TypedKeys(sheet') = TypedKeys(sheet)
    <3>1. \A p \in Orders \ {o} : sheet'[p] = sheet[p]
      BY <2>4 DEF EnterByHand, TypeOK, BookType
    <3>2. ~ sheet'[o].typed /\ ~ HasRow(sheet, o)
      BY <2>4 DEF EnterByHand, TypeOK, BookType
    <3> QED BY <3>1, <3>2 DEF TypedKeys, IsTyped, HasRow
  <2> QED BY <1>3, <2>1, <2>2, <2>3, <2>4 DEF Disturbance
<1>4. CASE UNCHANGED vars
  BY <1>4 DEF vars
<1> QED BY <1>1, <1>2, <1>3, <1>4 DEF Next

LEMMA BackupInit == Init => BackupCoversSheet
BY DEF Init, RestLocals, BackupCoversSheet

\* What stands before the write in the program: after Decide a run either has
\* a backup or nothing to rebuild.
LEMMA BackupStep ==
  TypeOK /\ BackupCoversSheet /\ [Next]_vars => BackupCoversSheet'
<1> SUFFICES ASSUME TypeOK, BackupCoversSheet, [Next]_vars
             PROVE  BackupCoversSheet'
  OBVIOUS
<1> DEFINE After == {"clear", "costs", "audit", "postcheck", "unaudited"}
<1>1. CASE EndRun
  BY <1>1 DEF BackupCoversSheet
<1>2. CASE BackupBeforeMigration \/ BackupBeforeRebuild
  BY <1>2 DEF BackupCoversSheet, BackupBeforeMigration, BackupBeforeRebuild
<1>3. CASE Decide
  <2>1. UNCHANGED <<sheet, migrating, hasBackup, backup>> /\ NewOrders' = NewOrders
    BY <1>3 DEF Decide, NewOrders, Fetched
  <2>2. pc' = "read" /\ (NewOrders # {} \/ force') => hasBackup
    BY <1>3 DEF Decide, BackupCoversSheet, BackupReason, RebuildReason
  <2>3. pc' \in {"read", "backup"} /\ pc = "decide"
    BY <1>3 DEF Decide
  <2> QED BY <2>1, <2>2, <2>3 DEF BackupCoversSheet
<1>4. CASE Start
  BY <1>4 DEF Start, BackupCoversSheet
<1>5. CASE WriteRows
  BY <1>5 DEF WriteRows, BackupCoversSheet
<1>6. CASE ReadForRebuild
  BY <1>6 DEF ReadForRebuild, BackupCoversSheet
<1>7. CASE Disturbance \/ UNCHANGED vars
  <2>1. TypedKeys(sheet') = TypedKeys(sheet)
    <3>1. ~ WriteRows /\ ~ Crash
      BY <1>7, ConstantsAssumption DEF Disturbance, WriteRows, Crash, Midnight, RepairByHand,
         MarketMoves, ParcelMoves, EditNote, BreakFormula, ClearTracking, EnterByHand, vars, TypeOK, RunType, SeenType
    <3> QED BY <3>1, KeysMove
  <2>2. UNCHANGED <<pc, locals>>
    BY <1>7 DEF Disturbance, Midnight, RepairByHand, MarketMoves, ParcelMoves,
       EditNote, BreakFormula, ClearTracking, EnterByHand, vars
  <2>3. NewOrders' = NewOrders
    BY <2>2 DEF NewOrders, Fetched
  <2> QED BY <2>1, <2>2, <2>3 DEF BackupCoversSheet
<1>8. CASE \/ MigrateSchema \/ Preflight \/ FetchOrders \/ FetchSuppliers
           \/ Backfill \/ TrackParcels \/ RecordCompletion \/ RefreshDetails
           \/ UpdateShipments
  <2>1. TypedKeys(sheet') = TypedKeys(sheet)
    <3>1. pc # "write" /\ pc' # "idle"
      BY <1>8 DEF MigrateSchema, Preflight, FetchOrders, FetchSuppliers, Backfill,
         TrackParcels, RecordCompletion, RefreshDetails, UpdateShipments
    <3> QED BY <3>1, KeysMove DEF WriteRows, Crash
  <2>2. /\ UNCHANGED <<migrating, hasBackup, backup>>
        /\ pc \notin After \cup {"migration backup"}
        /\ pc' \notin {"read", "reread", "write", "migration backup"}
    BY <1>8 DEF MigrateSchema, Preflight, FetchOrders, FetchSuppliers, Backfill,
       TrackParcels, RecordCompletion, RefreshDetails, UpdateShipments
  <2> QED BY <2>1, <2>2 DEF BackupCoversSheet
<1>9. CASE Reread
  BY <1>9 DEF Reread, BackupCoversSheet
<1>10. CASE SkipRebuild \/ ClearTail \/ WriteSupplierCosts \/ AppendAudit \/ LoseAudit
  <2>1. /\ UNCHANGED <<migrating, hasBackup, backup>>
        /\ pc # "migration backup" /\ pc' \in After
    BY <1>10 DEF SkipRebuild, ClearTail, WriteSupplierCosts, AppendAudit, LoseAudit
  <2> QED BY <2>1 DEF BackupCoversSheet
<1>11. CASE \/ RefusePreflight \/ RefuseIncoming \/ RefuseConcurrentEdit
            \/ PostCheck \/ Crash
  BY <1>1, <1>11
  DEF RefusePreflight, RefuseIncoming, RefuseConcurrentEdit, PostCheck, Crash
<1> QED
  BY <1>2, <1>3, <1>4, <1>5, <1>6, <1>7, <1>8, <1>9, <1>10, <1>11 DEF Next, RunStep

\* Whenever a run may remove a managed row, it has a backup that has the row.
THEOREM BackupCovers == Spec => []BackupCoversSheet
<1> QED BY TypeCorrect, BackupInit, BackupStep, PTL DEF Spec

\* A managed row leaves the worksheet only in the write of a rebuild, and then
\* the backup of this run has it.
THEOREM BackupBeforeDeletion == Spec => DeletedRowsAreInBackup
<1>1. ASSUME TypeOK, BackupCoversSheet, [Next]_vars
      PROVE  [\A o \in Orders :
                IsTyped(sheet, o) /\ ~ IsTyped(sheet', o)
                  => hasBackup /\ o \in backup]_vars
  <2>1. ASSUME NEW o \in Orders, IsTyped(sheet, o), ~ IsTyped(sheet', o)
        PROVE  hasBackup /\ o \in backup
    <3>1. WriteRows
      <4>1. o \in TypedKeys(sheet) /\ o \notin TypedKeys(sheet')
        BY <2>1 DEF TypedKeys
      <4> QED BY <1>1, <4>1, KeysMove
    <3>2. pc = "write"
      BY <3>1 DEF WriteRows
    <3> QED BY <1>1, <2>1, <3>2 DEF BackupCoversSheet, TypedKeys
  <2> QED BY <2>1
<1> QED BY <1>1, TypeCorrect, BackupCovers, PTL DEF Spec, DeletedRowsAreInBackup

-----------------------------------------------------------------------------
(* Removals: the invariant.                                                *)

\* What the run was told, what it has read and what stands in the worksheet
\* say "cancelled" only of orders that are: no marketplace takes it back.
CancellationsAreReal ==
  \A o \in Orders :
    /\ feed[o].st = "cancelled" => market[o].st = "cancelled"
    /\ sheet[o].st = "cancelled" => market[o].st = "cancelled"
    /\ snap[o].st = "cancelled" => market[o].st = "cancelled"

\* The phases between the suppliers' answers and the write.
Informed == {"backfill", "tracking", "completion", "details", "shipments",
             "decide", "backup", "read", "reread", "write"}

\* A run that trusts refusals knows every parcel a registry marks as prepaid and
\* no other contradicts.
RegistriesKnown == pc \in Informed => quarantine \/ supplierPaid = Resolved

\* No managed row comes into the worksheet behind the run's back.
RowsKnown ==
  pc \in Informed \cup {"fetch", "suppliers"} => TypedKeys(sheet) \subseteq existing

\* Before the write, what was read is what stands there, late edits excepted.
SnapIsCurrent == pc = "write" => \A o \in Orders \ late : sheet[o] = snap[o]

RowsInv == CancellationsAreReal /\ RegistriesKnown /\ RowsKnown /\ SnapIsCurrent

-----------------------------------------------------------------------------
(* Removals: the cells that are written.                                   *)

\* No writer of single cells touches a note, and only the first one a status.
LEMMA CellWriters ==
  ASSUME TypeOK, NEW o \in Orders
  PROVE  /\ RecordCompletion =>
              /\ sheet'[o].note = sheet[o].note
              /\ sheet'[o].st \in {sheet[o].st, feed[o].st}
         /\ RefreshDetails \/ UpdateShipments \/ WriteSupplierCosts =>
              /\ sheet'[o].note = sheet[o].note
              /\ sheet'[o].st = sheet[o].st
<1>1. ASSUME RecordCompletion
      PROVE  sheet'[o].note = sheet[o].note /\ sheet'[o].st \in {sheet[o].st, feed[o].st}
  <2>1. \/ sheet'[o] = sheet[o]
        \/ sheet[o] \in Row /\ sheet'[o] = [sheet[o] EXCEPT !.st = feed[o].st]
    BY <1>1, TypedKeysAreRows DEF RecordCompletion, Observed
  <2> QED BY <2>1 DEF Row
<1>2. ASSUME RefreshDetails
      PROVE  sheet'[o].note = sheet[o].note /\ sheet'[o].st = sheet[o].st
  <2>1. \/ sheet'[o] = sheet[o]
        \/ sheet[o] \in Row /\ sheet'[o] = DetailedRow(o)
    BY <1>2, TypedKeysAreRows DEF RefreshDetails, Observed
  <2> QED BY <2>1 DEF Row, DetailedRow
<1>3. ASSUME UpdateShipments
      PROVE  sheet'[o].note = sheet[o].note /\ sheet'[o].st = sheet[o].st
  <2>1. \/ sheet'[o] = sheet[o]
        \/ sheet[o] \in Row /\ sheet'[o] = [sheet[o] EXCEPT !.ship = statuses[o]]
    BY <1>3, PresentIsRow DEF UpdateShipments
  <2> QED BY <2>1 DEF Row
<1>4. ASSUME WriteSupplierCosts
      PROVE  sheet'[o].note = sheet[o].note /\ sheet'[o].st = sheet[o].st
  <2>1. \/ sheet'[o] = sheet[o]
        \/ sheet[o] \in Row /\ sheet'[o] = [sheet[o] EXCEPT !.paid = TRUE]
    BY <1>4, TypedKeysAreRows DEF WriteSupplierCosts
  <2> QED BY <2>1 DEF Row
<1> QED BY <1>1, <1>2, <1>3, <1>4

\* What the manager writes is no status, and no row comes or goes.
LEMMA ManagerWrites ==
  ASSUME TypeOK, NEW o \in Orders,
         EditNote(o) \/ BreakFormula(o) \/ ClearTracking(o) \/ EnterByHand(o)
  PROVE  /\ \A q \in Orders \ {o} : sheet'[q] = sheet[q]
         /\ sheet'[o].st \in {sheet[o].st, "none"}
<1>1. CASE EditNote(o) \/ BreakFormula(o) \/ ClearTracking(o)
  <2>1. sheet[o] \in Row
    BY <1>1, PresentIsRow DEF EditNote, BreakFormula, ClearTracking
  <2>2. sheet \in [Orders -> Row \cup {NoRow}]
    BY DEF TypeOK, BookType
  <2>3. CASE EditNote(o)
    <3>1. PICK n \in Notes : sheet' = [sheet EXCEPT ![o] = [sheet[o] EXCEPT !.note = n]]
      BY <2>3 DEF EditNote
    <3> QED BY <2>1, <2>2, <3>1 DEF Row
  <2>4. CASE BreakFormula(o)
    <3>1. sheet' = [sheet EXCEPT ![o] = [sheet[o] EXCEPT !.broken = TRUE]]
      BY <2>4 DEF BreakFormula
    <3> QED BY <2>1, <2>2, <3>1 DEF Row
  <2>5. CASE ClearTracking(o)
    <3>1. sheet' = [sheet EXCEPT ![o] = [sheet[o] EXCEPT !.ttn = FALSE]]
      BY <2>5 DEF ClearTracking
    <3> QED BY <2>1, <2>2, <3>1 DEF Row
  <2> QED BY <1>1, <2>3, <2>4, <2>5
<1>2. CASE EnterByHand(o)
  BY <1>2 DEF EnterByHand, TypeOK, BookType
<1> QED BY <1>1, <1>2

-----------------------------------------------------------------------------
(* Removals: the invariant holds in every state.                           *)

\* The steps by their names: the ones that move the run on without touching
\* a row, the market or what was fetched and read.
QuietStep ==
  \/ Start \/ BackupBeforeMigration \/ MigrateSchema \/ Preflight
  \/ FetchSuppliers \/ Backfill \/ Decide \/ BackupBeforeRebuild \/ SkipRebuild
  \/ Reread \/ ClearTail \/ AppendAudit \/ LoseAudit

LEMMA QuietStepUnchanged == QuietStep => UNCHANGED <<sheet, market, feed, snap>>
BY DEF QuietStep, Start, BackupBeforeMigration, MigrateSchema, Preflight,
   FetchSuppliers, Backfill, Decide, BackupBeforeRebuild, SkipRebuild, Reread,
   ClearTail, AppendAudit, LoseAudit

\* The ones that end the run and leave the worksheet as it is.
EndStep == RefusePreflight \/ RefuseIncoming \/ RefuseConcurrentEdit \/ PostCheck

LEMMA EndStepEnds == EndStep => EndRun /\ UNCHANGED <<sheet, market>>
BY DEF EndStep, RefusePreflight, RefuseIncoming, RefuseConcurrentEdit, PostCheck

LEMMA NoRowNoOffer == NoRow.st # "cancelled" /\ NoOffer.st # "cancelled"
BY DEF NoRow, NoOffer

\* A rebuild writes the status it has read, or the one it has fetched.
LEMMA RebuiltStatus ==
  ASSUME TypeOK, NEW o \in Orders
  PROVE  Rebuilt[o].st \in {snap[o].st, feed[o].st, NoRow.st}
<1>1. Kept(o) => snap[o] \in Row
  BY DEF Kept, IsTyped, HasRow, TypeOK, RunType
<1>2. Kept(o) => KeptRow(o).st = snap[o].st
  BY <1>1 DEF KeptRow, Row
<1>3. AddedRow(o).st = feed[o].st
  BY DEF AddedRow
<1> QED BY <1>2, <1>3 DEF Rebuilt, Collected

LEMMA CancellationsStep ==
  TypeOK /\ CancellationsAreReal /\ [Next]_vars => CancellationsAreReal'
<1> SUFFICES ASSUME TypeOK, CancellationsAreReal, [Next]_vars, NEW o \in Orders
             PROVE  /\ feed'[o].st = "cancelled" => market'[o].st = "cancelled"
                    /\ sheet'[o].st = "cancelled" => market'[o].st = "cancelled"
                    /\ snap'[o].st = "cancelled" => market'[o].st = "cancelled"
  BY DEF CancellationsAreReal
<1> USE NoRowNoOffer DEF CancellationsAreReal
<1>1. CASE QuietStep \/ UNCHANGED vars
  BY <1>1, QuietStepUnchanged DEF vars
<1>2. CASE EndStep
  BY <1>2, EndStepEnds
<1>3. CASE Crash
  <2>1. sheet'[o] \in {sheet[o], snap[o]}
    BY <1>3 DEF Crash
  <2> QED BY <1>3, <2>1 DEF Crash
<1>4. CASE FetchOrders
  <2>1. feed'[o] \in {NoOffer, market[o]}
    BY <1>4 DEF FetchOrders, Answer
  <2> QED BY <1>4, <2>1 DEF FetchOrders
<1>5. CASE TrackParcels
  <2>1. feed'[o] \in {feed[o], [feed[o] EXCEPT !.paid = TRUE]}
    BY <1>5 DEF TrackParcels
  <2>2. feed'[o].st = feed[o].st
    BY <2>1 DEF TypeOK, RunType, Offer
  <2> QED BY <1>5, <2>2 DEF TrackParcels
<1>6. CASE RecordCompletion
  BY <1>6, CellWriters DEF RecordCompletion
<1>7. CASE RefreshDetails \/ UpdateShipments \/ WriteSupplierCosts
  <2>1. UNCHANGED <<market, feed, snap>>
    BY <1>7 DEF RefreshDetails, UpdateShipments, WriteSupplierCosts
  <2> QED BY <1>7, <2>1, CellWriters
<1>8. CASE ReadForRebuild
  BY <1>8 DEF ReadForRebuild
<1>9. CASE WriteRows
  <2>1. sheet'[o].st \in {snap[o].st, feed[o].st, NoRow.st}
    BY <1>9, RebuiltStatus DEF WriteRows
  <2> QED BY <1>9, <2>1 DEF WriteRows
<1>10. CASE Midnight \/ RepairByHand
  BY <1>10 DEF Midnight, RepairByHand
<1>11. ASSUME NEW p \in Orders, ParcelMoves(p)
       PROVE  UNCHANGED <<sheet, market, feed, snap>>
  BY <1>11 DEF ParcelMoves
<1>12. ASSUME NEW p \in Orders, MarketMoves(p)
       PROVE  /\ UNCHANGED <<sheet, feed, snap>>
              /\ market[o].st = "cancelled" => market'[o] = market[o]
  <2>1. market[p].st # "cancelled"
    <3>1. \A m \in Offer : m.st = "cancelled" => NextOffer(p, m) = {}
      BY DEF NextOffer
    <3> QED BY <1>12, <3>1 DEF MarketMoves, TypeOK, WorldType
  <2>2. \A q \in Orders \ {p} : market'[q] = market[q]
    BY <1>12 DEF MarketMoves, TypeOK, WorldType
  <2> QED BY <1>12, <2>1, <2>2 DEF MarketMoves
<1>13. ASSUME NEW p \in Orders,
              EditNote(p) \/ BreakFormula(p) \/ ClearTracking(p) \/ EnterByHand(p)
       PROVE  UNCHANGED <<market, feed, snap>> /\ sheet'[o].st \in {sheet[o].st, "none"}
  BY <1>13, ManagerWrites DEF EditNote, BreakFormula, ClearTracking, EnterByHand
<1> QED
  BY <1>1, <1>2, <1>3, <1>4, <1>5, <1>6, <1>7, <1>8, <1>9, <1>10, <1>11, <1>12, <1>13
  DEF Next, RunStep, Disturbance, QuietStep, EndStep

LEMMA RegistriesStep == RegistriesKnown /\ [Next]_vars => RegistriesKnown'
<1> SUFFICES ASSUME RegistriesKnown, [Next]_vars PROVE RegistriesKnown'
  OBVIOUS
<1> USE DEF RegistriesKnown, Informed
<1>1. CASE RunStep
  <2>1. CASE FetchSuppliers
    BY <2>1 DEF FetchSuppliers
  <2>2. CASE EndStep
    BY <2>2, EndStepEnds
  <2>3. CASE ~ (FetchSuppliers \/ EndStep)
    <3>1. /\ pc' \in Informed => pc \in Informed
          /\ pc' \in Informed => UNCHANGED <<quarantine, supplierPaid>>
      BY <1>1, <2>3
      DEF RunStep, EndStep, Start, BackupBeforeMigration, MigrateSchema, Preflight,
          FetchOrders, Backfill, TrackParcels, RecordCompletion, RefreshDetails,
          UpdateShipments, Decide, BackupBeforeRebuild, SkipRebuild,
          ReadForRebuild, Reread, WriteRows, ClearTail, WriteSupplierCosts,
          AppendAudit, LoseAudit
    <3> QED BY <3>1
  <2> QED BY <2>1, <2>2, <2>3
<1>2. CASE Crash
  BY <1>2 DEF Crash
<1>3. CASE Disturbance \/ UNCHANGED vars
  BY <1>3 DEF Disturbance, Midnight, RepairByHand, MarketMoves, ParcelMoves,
     EditNote, BreakFormula, ClearTracking, EnterByHand, vars
<1> QED BY <1>1, <1>2, <1>3 DEF Next

LEMMA RowsKnownStep == TypeOK /\ RowsKnown /\ [Next]_vars => RowsKnown'
<1> SUFFICES ASSUME TypeOK, RowsKnown, [Next]_vars PROVE RowsKnown'
  OBVIOUS
<1> USE DEF RowsKnown, Informed
<1>1. CASE Preflight
  BY <1>1 DEF Preflight, TypedKeys, IsTyped, HasRow
<1>2. CASE WriteRows
  BY <1>2 DEF WriteRows
<1>3. CASE Crash
  BY <1>3 DEF Crash
<1>4. CASE EndStep
  BY <1>4, EndStepEnds
<1>5. CASE ~ (Preflight \/ WriteRows \/ Crash \/ EndStep)
  <2>1. TypedKeys(sheet') = TypedKeys(sheet)
    BY <1>5, KeysMove
  <2>2. /\ pc' \in Informed \cup {"fetch", "suppliers"} =>
             pc \in Informed \cup {"fetch", "suppliers"}
        /\ pc' \in Informed \cup {"fetch", "suppliers"} => UNCHANGED existing
    <3>1. CASE RunStep
      BY <1>5, <3>1
      DEF RunStep, EndStep, Start, BackupBeforeMigration, MigrateSchema,
          FetchOrders, FetchSuppliers, Backfill, TrackParcels, RecordCompletion,
          RefreshDetails, UpdateShipments, Decide, BackupBeforeRebuild,
          SkipRebuild, ReadForRebuild, Reread, ClearTail, WriteSupplierCosts,
          AppendAudit, LoseAudit
    <3>2. CASE Disturbance \/ UNCHANGED vars
      BY <3>2 DEF Disturbance, Midnight, RepairByHand, MarketMoves, ParcelMoves,
         EditNote, BreakFormula, ClearTracking, EnterByHand, vars
    <3> QED BY <1>5, <3>1, <3>2 DEF Next
  <2> QED BY <2>1, <2>2
<1> QED BY <1>1, <1>2, <1>3, <1>4, <1>5

LEMMA SnapStep == TypeOK /\ SnapIsCurrent /\ [Next]_vars => SnapIsCurrent'
<1> SUFFICES ASSUME TypeOK, SnapIsCurrent, [Next]_vars, pc' = "write"
             PROVE  \A o \in Orders \ late' : sheet'[o] = snap'[o]
  BY DEF SnapIsCurrent
<1>1. CASE RunStep \/ Crash
  <2>1. Reread
    BY <1>1
    DEF RunStep, Start, BackupBeforeMigration, MigrateSchema, Preflight,
        RefusePreflight, FetchOrders, RefuseIncoming, FetchSuppliers, Backfill,
        TrackParcels, RecordCompletion, RefreshDetails, UpdateShipments, Decide,
        BackupBeforeRebuild, SkipRebuild, ReadForRebuild, RefuseConcurrentEdit,
        WriteRows, ClearTail, WriteSupplierCosts, AppendAudit, LoseAudit,
        PostCheck, Crash
  <2> QED BY <2>1 DEF Reread
<1>2. CASE Midnight \/ RepairByHand \/ UNCHANGED vars
  BY <1>2 DEF Midnight, RepairByHand, vars, SnapIsCurrent
<1>3. ASSUME NEW p \in Orders, MarketMoves(p) \/ ParcelMoves(p)
      PROVE  \A o \in Orders \ late' : sheet'[o] = snap'[o]
  BY <1>3 DEF MarketMoves, ParcelMoves, SnapIsCurrent
<1>4. ASSUME NEW p \in Orders,
             EditNote(p) \/ BreakFormula(p) \/ ClearTracking(p) \/ EnterByHand(p)
      PROVE  \A o \in Orders \ late' : sheet'[o] = snap'[o]
  <2>1. late' = late \cup {p} /\ UNCHANGED snap /\ pc = "write"
    BY <1>4 DEF EditNote, BreakFormula, ClearTracking, EnterByHand
  <2> QED BY <1>4, <2>1, ManagerWrites DEF SnapIsCurrent
<1> QED BY <1>1, <1>2, <1>3, <1>4 DEF Next, Disturbance

LEMMA RowsInit == Init => RowsInv
<1> SUFFICES ASSUME Init PROVE CancellationsAreReal
  BY DEF Init, RestLocals, RowsInv, RegistriesKnown, RowsKnown, SnapIsCurrent, Informed
<1>1. \A o \in Orders : sheet[o].st \in {market[o].st, NoRow.st}
  <2>1. PICK known \in SUBSET {o \in Orders : market[o].st # "none"} :
          sheet = [o \in Orders |-> IF o \in known THEN SettledRow(market[o])
                                    ELSE NoRow]
    BY DEF Init
  <2>2. \A m : SettledRow(m).st = m.st
    BY DEF SettledRow
  <2>3. TAKE o \in Orders
  <2>4. sheet[o] = IF o \in known THEN SettledRow(market[o]) ELSE NoRow
    BY <2>1
  <2> QED BY <2>2, <2>4
<1> QED BY <1>1, NoRowNoOffer DEF Init, RestLocals, CancellationsAreReal

\* What the data of a run still mean holds in every state.
THEOREM RowsInvariant == Spec => []RowsInv
<1>1. TypeOK /\ RowsInv /\ [Next]_vars => RowsInv'
  BY CancellationsStep, RegistriesStep, RowsKnownStep, SnapStep DEF RowsInv
<1> QED BY <1>1, RowsInit, TypeCorrect, PTL DEF Spec

-----------------------------------------------------------------------------
(* Removals: what becomes of the rows.                                     *)

\* A managed row disappears only in the write of a rebuild, which has found
\* its order refused, trusts the refusal, and has seen no mark of a prepayment;
\* the invariant says that what it has found is so.
THEOREM RemovalsAreRefusals == Spec => RowsDeletedOnlyWhenRefused
<1>1. ASSUME TypeOK, RowsInv, [Next]_vars, NEW o \in Orders,
             IsTyped(sheet, o), ~ IsTyped(sheet', o), o \notin late,
             sheet[o].day <= today, sheet[o].ttn
      PROVE  /\ sheet[o].ship = "refused" \/ market[o].st = "cancelled"
             /\ ~ RowPrepaid(sheet[o])
             /\ o \notin Resolved
  <2>1. WriteRows
    <3>1. o \in TypedKeys(sheet) /\ o \notin TypedKeys(sheet')
      BY <1>1 DEF TypedKeys
    <3> QED BY <1>1, <3>1, KeysMove
  <2>2. snap[o] = sheet[o] /\ snap[o] \in Row
    BY <1>1, <2>1, PresentIsRow DEF WriteRows, RowsInv, SnapIsCurrent
  <2>3. ~ Kept(o)
    <3> SUFFICES ASSUME Kept(o) PROVE FALSE
      OBVIOUS
    <3>1. KeptRow(o).typed /\ KeptRow(o).day = sheet[o].day
      BY <1>1, <2>2 DEF KeptRow, Row, IsTyped
    <3>2. Collected(o) = KeptRow(o) /\ KeptRow(o) # NoRow
      BY <3>1 DEF Collected, NoRow
    <3>3. sheet'[o] = KeptRow(o)
      BY <1>1, <2>1, <3>1, <3>2 DEF WriteRows, Rebuilt, Emitted
    <3> QED BY <1>1, <3>1, <3>2, <3>3 DEF IsTyped, HasRow
  <2>4. RefusedKey(o) /\ ~ PrepaidKey(o) /\ ~ quarantine
    BY <1>1, <2>2, <2>3 DEF Kept, IsTyped, HasRow
  <2>5. supplierPaid = Resolved
    BY <1>1, <2>1, <2>4 DEF WriteRows, RowsInv, RegistriesKnown, Informed
  <2>6. sheet[o].ship = "refused" \/ market[o].st = "cancelled"
    BY <1>1, <2>2, <2>4
    DEF RefusedKey, RowRefused, CancelledExisting, RowsInv, CancellationsAreReal
  <2> QED BY <1>1, <2>2, <2>4, <2>5, <2>6 DEF PrepaidKey, SupplierMarks
<1>2. ASSUME TypeOK, RowsInv, [Next]_vars
      PROVE  [\A o \in Orders :
                IsTyped(sheet, o) /\ ~ IsTyped(sheet', o) =>
                  \/ o \in late
                  \/ sheet[o].day > today \/ ~ sheet[o].ttn
                  \/ /\ sheet[o].ship = "refused" \/ market[o].st = "cancelled"
                     /\ ~ RowPrepaid(sheet[o])
                     /\ o \notin Resolved]_vars
  <2>1. \A o \in Orders : IsTyped(sheet, o) =>
          (sheet[o].day > today \/ sheet[o].day <= today)
    <3>1. \A o \in Orders : IsTyped(sheet, o) => sheet[o].day \in Nat
      BY <1>2, PresentIsRow DEF Row, Days
    <3>2. today \in Nat
      BY <1>2 DEF TypeOK, RunType, Days
    <3> QED BY <3>1, <3>2
  <2> QED BY <1>1, <1>2, <2>1
<1> QED BY <1>2, TypeCorrect, RowsInvariant, PTL DEF Spec, RowsDeletedOnlyWhenRefused

\* The rebuild finds a managed row that stands there as it has read it, and
\* when the row stays, its note stays with it.
LEMMA RebuildKeepsNotes ==
  ASSUME TypeOK, RowsInv, WriteRows, NEW o \in Orders, o \notin late,
         IsTyped(sheet, o), IsTyped(sheet', o)
  PROVE  sheet'[o].note = sheet[o].note
<1>1. snap[o] = sheet[o] /\ snap[o] \in Row
  BY PresentIsRow DEF WriteRows, RowsInv, SnapIsCurrent, IsTyped
<1>2. o \in existing
  BY DEF WriteRows, RowsInv, RowsKnown, Informed, TypedKeys
<1>3. ~ Added(o)
  BY <1>2 DEF Added, NewOrders
<1>4. sheet'[o] # NoRow
  BY DEF IsTyped, HasRow
<1>5. sheet'[o] = KeptRow(o)
  BY <1>3, <1>4 DEF WriteRows, Rebuilt, Emitted, Collected
<1> QED BY <1>1, <1>5 DEF KeptRow, Row

\* A note changes at the manager's hand, which counts as a disturbance; the
\* steps of the run leave it alone, the rebuild by RebuildKeepsNotes.
THEOREM NotesStay == Spec => NotesPreserved
<1>1. ASSUME TypeOK, RowsInv, [Next]_vars, NEW o \in Orders,
             IsTyped(sheet, o), IsTyped(sheet', o), o \notin late,
             disturbances' # disturbances + 1
      PROVE  sheet'[o].note = sheet[o].note
  <2>1. CASE QuietStep \/ EndStep \/ UNCHANGED vars
    BY <2>1, QuietStepUnchanged, EndStepEnds DEF vars
  <2>2. CASE FetchOrders \/ TrackParcels \/ ReadForRebuild
    BY <2>2 DEF FetchOrders, TrackParcels, ReadForRebuild
  <2>3. CASE \/ RecordCompletion \/ RefreshDetails \/ UpdateShipments
             \/ WriteSupplierCosts
    BY <1>1, <2>3, CellWriters
  <2>4. CASE WriteRows
    BY <1>1, <2>4, RebuildKeepsNotes
  <2>5. CASE Crash
    BY <1>1, <2>5 DEF Crash, IsTyped
  <2>6. ~ Disturbance
    BY <1>1 DEF Disturbance, Midnight, RepairByHand, MarketMoves, ParcelMoves,
       EditNote, BreakFormula, ClearTracking, EnterByHand
  <2> QED
    BY <1>1, <2>1, <2>2, <2>3, <2>4, <2>5, <2>6 DEF Next, RunStep, QuietStep, EndStep
<1>2. ASSUME TypeOK, RowsInv, [Next]_vars
      PROVE  [\A o \in Orders :
                /\ IsTyped(sheet, o) /\ IsTyped(sheet', o)
                /\ sheet'[o].note # sheet[o].note
                => disturbances' = disturbances + 1 \/ o \in late]_vars
  BY <1>1, <1>2
<1> QED BY <1>2, TypeCorrect, RowsInvariant, PTL DEF Spec, NotesPreserved

-----------------------------------------------------------------------------
(* Totals: the invariant.                                                  *)

\* The managed rows of s have the status the marketplaces have reported.
StatusCurrent(s) ==
  \A o \in TypedKeys(s) : feed[o].st # "none" => s[o].st = feed[o].st

\* Every refusal of a managed row is out of the totals, ...
Settled == \A o \in TypedKeys(sheet) : RowRefused(sheet[o]) => sheet[o].excl

\* ... and nothing but refusals is.
OnlyRefusals == \A o \in TypedKeys(sheet) : sheet[o].excl => RowRefused(sheet[o])

TotalsInv ==
  /\ pc \in {"details", "shipments", "decide", "backup", "read", "reread", "write"}
       => StatusCurrent(sheet)
  /\ pc \in {"reread", "write"} => StatusCurrent(snap)
  /\ pc \in {"backup", "read"} /\ ~ force => Settled
  /\ pc \in {"clear", "costs", "audit", "postcheck"} => Settled
  /\ pc = "clear" => OnlyRefusals

-----------------------------------------------------------------------------
(* Totals: the cells it is about.                                          *)

\* A managed row has the same status, shipment and exclusion as it had.
Judged == \A o \in TypedKeys(sheet') :
            /\ o \in TypedKeys(sheet)
            /\ sheet'[o].st = sheet[o].st
            /\ sheet'[o].ship = sheet[o].ship
            /\ sheet'[o].excl = sheet[o].excl

\* Only four steps judge a row anew.
LEMMA JudgedStep ==
  ASSUME TypeOK, [Next]_vars,
         ~ (RecordCompletion \/ UpdateShipments \/ WriteRows \/ Crash)
  PROVE  Judged
<1>1. CASE QuietStep \/ EndStep \/ UNCHANGED vars
  BY <1>1, QuietStepUnchanged, EndStepEnds DEF vars, Judged
<1>2. CASE FetchOrders \/ TrackParcels \/ ReadForRebuild
  BY <1>2 DEF FetchOrders, TrackParcels, ReadForRebuild, Judged
<1>3. CASE RefreshDetails
  <2>1. \A o \in Orders :
          \/ sheet'[o] = sheet[o]
          \/ sheet[o] \in Row /\ IsTyped(sheet, o) /\ sheet'[o] = DetailedRow(o)
    BY <1>3, TypedKeysAreRows DEF RefreshDetails, Observed, TypedKeys
  <2>2. ASSUME NEW o \in Orders, sheet[o] \in Row
        PROVE  /\ DetailedRow(o).st = sheet[o].st
               /\ DetailedRow(o).ship = sheet[o].ship
               /\ DetailedRow(o).excl = sheet[o].excl
    BY <2>2 DEF Row, DetailedRow
  <2> QED BY <2>1, <2>2 DEF Judged, TypedKeys, IsTyped, HasRow
<1>4. CASE WriteSupplierCosts
  <2>1. \A o \in Orders :
          \/ sheet'[o] = sheet[o]
          \/ /\ sheet[o] \in Row /\ IsTyped(sheet, o)
             /\ sheet'[o] = [sheet[o] EXCEPT !.paid = TRUE]
    BY <1>4, TypedKeysAreRows DEF WriteSupplierCosts, TypedKeys
  <2> QED BY <2>1 DEF Row, Judged, TypedKeys, IsTyped, HasRow
<1>5. CASE Midnight \/ RepairByHand
  BY <1>5 DEF Midnight, RepairByHand, Judged
<1>6. ASSUME NEW p \in Orders, MarketMoves(p) \/ ParcelMoves(p)
      PROVE  Judged
  BY <1>6 DEF MarketMoves, ParcelMoves, Judged
<1>7. ASSUME NEW p \in Orders, EditNote(p) \/ BreakFormula(p) \/ ClearTracking(p)
      PROVE  Judged
  <2>1. sheet[p] \in Row
    BY <1>7, PresentIsRow DEF EditNote, BreakFormula, ClearTracking
  <2>2. /\ \A q \in Orders \ {p} : sheet'[q] = sheet[q]
        /\ \/ \E n \in Notes : sheet'[p] = [sheet[p] EXCEPT !.note = n]
           \/ sheet'[p] = [sheet[p] EXCEPT !.broken = TRUE]
           \/ sheet'[p] = [sheet[p] EXCEPT !.ttn = FALSE]
    BY <1>7 DEF EditNote, BreakFormula, ClearTracking, TypeOK, BookType
  <2>3. /\ sheet'[p].typed = sheet[p].typed
        /\ sheet'[p].st = sheet[p].st
        /\ sheet'[p].ship = sheet[p].ship
        /\ sheet'[p].excl = sheet[p].excl
    BY <2>1, <2>2 DEF Row
  <2> QED BY <2>1, <2>2, <2>3, NoRowIsNone DEF Judged, TypedKeys, IsTyped, HasRow
<1>8. ASSUME NEW p \in Orders, EnterByHand(p)
      PROVE  Judged
  <2>1. \A q \in Orders \ {p} : sheet'[q] = sheet[q]
    BY <1>8 DEF EnterByHand, TypeOK, BookType
  <2>2. ~ sheet'[p].typed
    BY <1>8 DEF EnterByHand, TypeOK, BookType
  <2> QED BY <2>1, <2>2 DEF Judged, TypedKeys, IsTyped, HasRow
<1> QED
  BY <1>1, <1>2, <1>3, <1>4, <1>5, <1>6, <1>7, <1>8
  DEF Next, RunStep, Disturbance, QuietStep, EndStep

\* A step after which the rows are judged as before keeps what was known.
LEMMA JudgedKeeps ==
  ASSUME Judged, UNCHANGED feed
  PROVE  /\ StatusCurrent(sheet) => StatusCurrent(sheet)'
         /\ Settled => Settled'
         /\ OnlyRefusals => OnlyRefusals'
BY DEF Judged, StatusCurrent, Settled, OnlyRefusals, TypedKeys, IsTyped, HasRow, RowRefused

\* What the write of a rebuild makes of refusals.
LEMMA WrittenRefusals ==
  ASSUME TypeOK, TotalsInv, WriteRows
  PROVE  Settled' /\ OnlyRefusals'
<1> SUFFICES ASSUME NEW o \in Orders, IsTyped(sheet', o)
             PROVE  sheet'[o].excl <=> RowRefused(sheet'[o])
  BY DEF Settled, OnlyRefusals, TypedKeys, IsTyped, HasRow
<1>1. sheet'[o] = Collected(o) /\ Collected(o) # NoRow
  BY DEF WriteRows, Rebuilt, Emitted, IsTyped, HasRow
<1>2. CASE Kept(o)
  <2>1. snap[o] \in Row /\ o \in TypedKeys(snap)
    BY <1>2 DEF Kept, IsTyped, HasRow, TypedKeys, TypeOK, RunType
  <2>2. /\ KeptRow(o).excl = RefusedKey(o)
        /\ KeptRow(o).st = snap[o].st
        /\ KeptRow(o).ship = snap[o].ship
    BY <2>1 DEF KeptRow, Row
  <2>3. o \in CancelledExisting => snap[o].st = "cancelled"
    BY <2>1 DEF CancelledExisting, WriteRows, TotalsInv, StatusCurrent
  <2>4. RowRefused(KeptRow(o)) <=> RefusedKey(o)
    BY <2>2, <2>3 DEF RefusedKey, RowRefused
  <2>5. sheet'[o] = KeptRow(o)
    BY <1>1, <1>2 DEF Collected
  <2> QED BY <2>2, <2>4, <2>5
<1>3. CASE ~ Kept(o)
  <2>1. sheet'[o] = AddedRow(o)
    BY <1>1, <1>3 DEF Collected
  <2>2. /\ AddedRow(o).excl = NewRefused(o)
        /\ AddedRow(o).ship = statuses[o]
        /\ AddedRow(o).st = feed[o].st
    BY DEF AddedRow
  <2>3. RowRefused(AddedRow(o)) <=> NewRefused(o)
    BY <2>2 DEF NewRefused, RowRefused
  <2> QED BY <2>1, <2>2, <2>3
<1> QED BY <1>2, <1>3

-----------------------------------------------------------------------------
(* Totals: the invariant holds in every state.                             *)

LEMMA TotalsInit == Init => TotalsInv
BY DEF Init, TotalsInv

LEMMA TotalsStep == TypeOK /\ TotalsInv /\ [Next]_vars => TotalsInv'
<1> SUFFICES ASSUME TypeOK, TotalsInv, [Next]_vars PROVE TotalsInv'
  OBVIOUS
<1>1. CASE Crash \/ EndStep
  BY <1>1, EndStepEnds DEF Crash, TotalsInv
<1>2. CASE RecordCompletion
  <2>1. \A o \in TypedKeys(sheet') :
          feed'[o].st # "none" => sheet'[o].st = feed'[o].st
    <3> SUFFICES ASSUME NEW o \in Orders, o \in TypedKeys(sheet'),
                        feed[o].st # "none"
                 PROVE  sheet'[o].st = feed[o].st
      BY <1>2 DEF RecordCompletion, TypedKeys
    <3>1. TypedKeys(sheet') = TypedKeys(sheet)
      BY <1>2, RecordCompletionRows, RewrittenKeepsKeys
    <3>2. o \in Observed /\ sheet[o] \in Row
      BY <3>1, TypedKeysAreRows DEF Observed
    <3> QED BY <1>2, <3>2 DEF RecordCompletion, Row
  <2>2. pc' = "details"
    BY <1>2 DEF RecordCompletion
  <2> QED BY <2>1, <2>2 DEF TotalsInv, StatusCurrent
<1>3. CASE UpdateShipments
  <2>1. TypedKeys(sheet') = TypedKeys(sheet)
    BY <1>3, UpdateShipmentsRows, RewrittenKeepsKeys
  <2>2. \A o \in TypedKeys(sheet) : sheet'[o].st = sheet[o].st
    BY <1>3, CellWriters DEF TypedKeys
  <2>3. StatusCurrent(sheet)'
    BY <1>3, <2>1, <2>2 DEF UpdateShipments, TotalsInv, StatusCurrent
  <2>4. pc' = "decide"
    BY <1>3 DEF UpdateShipments
  <2> QED BY <2>3, <2>4 DEF TotalsInv
<1>4. CASE WriteRows
  <2>1. pc' = "clear"
    BY <1>4 DEF WriteRows
  <2> QED BY <1>4, <2>1, WrittenRefusals DEF TotalsInv
<1>5. CASE ReadForRebuild
  <2>1. StatusCurrent(snap)' /\ StatusCurrent(sheet)' /\ pc' = "reread"
    BY <1>5 DEF ReadForRebuild, TotalsInv, StatusCurrent
  <2> QED BY <2>1 DEF TotalsInv
<1>6. CASE Decide
  <2>1. /\ UNCHANGED <<sheet, feed>> /\ StatusCurrent(sheet)
        /\ pc' \in {"backup", "read"}
    BY <1>6 DEF Decide, TotalsInv
  <2>2. ~ force' => Settled
    BY <1>6 DEF Decide, RebuildReason, NeedsReconciliation, Settled
  <2>3. StatusCurrent(sheet)' /\ (Settled => Settled')
    BY <2>1 DEF StatusCurrent, Settled
  <2> QED BY <2>1, <2>2, <2>3 DEF TotalsInv
<1>7. CASE FetchOrders \/ TrackParcels
  BY <1>7 DEF FetchOrders, TrackParcels, TotalsInv
<1>8. CASE ~ (\/ Crash \/ EndStep \/ RecordCompletion \/ UpdateShipments \/ WriteRows
              \/ ReadForRebuild \/ Decide \/ FetchOrders \/ TrackParcels)
  <2>1. Judged
    BY <1>8, JudgedStep
  <2>2. CASE Disturbance \/ UNCHANGED vars
    <3>1. UNCHANGED <<pc, feed, snap, force>>
      BY <2>2 DEF Disturbance, Midnight, RepairByHand, MarketMoves, ParcelMoves,
         EditNote, BreakFormula, ClearTracking, EnterByHand, vars
    <3>2. StatusCurrent(snap) => StatusCurrent(snap)'
      BY <3>1 DEF StatusCurrent
    <3> QED BY <2>1, <3>1, <3>2, JudgedKeeps DEF TotalsInv
  <2>3. CASE RefreshDetails \/ SkipRebuild \/ BackupBeforeRebuild \/ Reread
    <3>1. UNCHANGED <<feed, snap, force>>
      BY <2>3 DEF RefreshDetails, SkipRebuild, BackupBeforeRebuild, Reread
    <3>2. \/ pc = "details" /\ pc' = "shipments"
          \/ pc = "read" /\ pc' = "costs" /\ ~ force
          \/ pc = "backup" /\ pc' = "read"
          \/ pc = "reread" /\ pc' = "write"
      BY <2>3 DEF RefreshDetails, SkipRebuild, BackupBeforeRebuild, Reread
    <3>3. StatusCurrent(snap) => StatusCurrent(snap)'
      BY <3>1 DEF StatusCurrent
    <3> QED BY <2>1, <3>1, <3>2, <3>3, JudgedKeeps DEF TotalsInv
  <2>4. CASE ClearTail \/ WriteSupplierCosts \/ AppendAudit \/ LoseAudit
    <3>1. UNCHANGED feed
      BY <2>4 DEF ClearTail, WriteSupplierCosts, AppendAudit, LoseAudit
    <3>2. /\ pc \in {"clear", "costs", "audit"}
          /\ pc' \in {"costs", "audit", "postcheck", "unaudited"}
      BY <2>4 DEF ClearTail, WriteSupplierCosts, AppendAudit, LoseAudit
    <3> QED BY <2>1, <3>1, <3>2, JudgedKeeps DEF TotalsInv
  <2>5. CASE \/ Start \/ BackupBeforeMigration \/ MigrateSchema \/ Preflight
             \/ FetchSuppliers \/ Backfill
    <3>1. pc' \in {"migration backup", "migrate", "preflight", "fetch", "backfill", "tracking"}
      BY <2>5 DEF Start, BackupBeforeMigration, MigrateSchema, Preflight,
         FetchSuppliers, Backfill
    <3> QED BY <3>1 DEF TotalsInv
  <2> QED BY <1>8, <2>2, <2>3, <2>4, <2>5 DEF Next, RunStep, EndStep
<1> QED BY <1>1, <1>2, <1>3, <1>4, <1>5, <1>6, <1>7, <1>8

\* When a run reaches its audit, every refusal a managed row shows is out of
\* the totals, with or without a rebuild; and the write of a rebuild leaves
\* only refusals out of them.
THEOREM RefusalsOutOfTotals == Spec => []RefusedOutOfTotals
<1>1. TotalsInv => RefusedOutOfTotals
  BY DEF TotalsInv, Settled, OnlyRefusals, RefusedOutOfTotals
<1> QED BY <1>1, TotalsInit, TotalsStep, TypeCorrect, PTL DEF Spec

-----------------------------------------------------------------------------
(* The journal.                                                            *)

\* Before the first write of a run nothing is done; from then on every change
\* is one the run keeps in its events or an order it means to add.
Unwritten == {"idle", "migration backup", "migrate", "preflight", "fetch",
              "suppliers", "backfill", "tracking", "completion"}

Reported == {e \in done : e[1] # "removed"}

JournalInv ==
  /\ pc \in Unwritten => done = {}
  /\ Reported \subseteq events \cup ({"added"} \X NewOrders)
  /\ pc = "postcheck" => Reported \subseteq journal

\* The rebuild adds no order but the new ones.
LEMMA WrittenOrdersAreNew ==
  ASSUME NEW o \in Orders, ~ Kept(o), Emitted(o)
  PROVE  o \in NewOrders
BY DEF Emitted, Collected, Added

LEMMA JournalStep == JournalInv /\ [Next]_vars => JournalInv'
<1> SUFFICES ASSUME JournalInv, [Next]_vars PROVE JournalInv'
  OBVIOUS
<1>1. CASE Crash \/ EndStep
  BY <1>1, EndStepEnds DEF Crash, JournalInv, Unwritten, Reported
<1>2. CASE RecordCompletion \/ UpdateShipments
  <2>1. PICK kind \in {"status", "ship"}, changed \in SUBSET Orders :
          /\ events' = events \cup ({kind} \X changed)
          /\ done' = done \cup ({kind} \X changed)
    BY <1>2 DEF RecordCompletion, UpdateShipments, Observed, TypedKeys
  <2>2. NewOrders' = NewOrders /\ pc' \in {"details", "decide"}
    BY <1>2 DEF RecordCompletion, UpdateShipments, NewOrders, Fetched
  <2> QED BY <2>1, <2>2 DEF JournalInv, Unwritten, Reported
<1>3. CASE WriteRows
  <2>1. NewOrders' = NewOrders /\ pc' = "clear" /\ UNCHANGED events
    BY <1>3 DEF WriteRows, NewOrders, Fetched
  <2>2. Reported' \subseteq
          Reported \cup ({"added"} \X {o \in Orders : ~ Kept(o) /\ Emitted(o)})
    BY <1>3 DEF WriteRows, Reported
  <2>3. {o \in Orders : ~ Kept(o) /\ Emitted(o)} \subseteq NewOrders
    BY WrittenOrdersAreNew
  <2> QED BY <2>1, <2>2, <2>3 DEF JournalInv, Unwritten
<1>4. CASE AppendAudit
  <2>1. /\ UNCHANGED <<done, events>> /\ NewOrders' = NewOrders
        /\ pc' = "postcheck" /\ journal' = AuditEvents
    BY <1>4 DEF AppendAudit, NewOrders, Fetched
  <2> QED BY <2>1 DEF JournalInv, Unwritten, Reported, AuditEvents
<1>5. CASE ~ (Crash \/ EndStep \/ RecordCompletion \/ UpdateShipments
              \/ WriteRows \/ AppendAudit)
  <2>1. UNCHANGED <<done, events, journal>>
    <3>1. CASE RunStep
      BY <1>5, <3>1
      DEF RunStep, EndStep, Start, BackupBeforeMigration, MigrateSchema, Preflight,
          FetchOrders, FetchSuppliers, Backfill, TrackParcels, RefreshDetails,
          Decide, BackupBeforeRebuild, SkipRebuild, ReadForRebuild, Reread,
          ClearTail, WriteSupplierCosts, LoseAudit
    <3>2. CASE Disturbance \/ UNCHANGED vars
      BY <3>2 DEF Disturbance, Midnight, RepairByHand, MarketMoves, ParcelMoves,
         EditNote, BreakFormula, ClearTracking, EnterByHand, vars
    <3> QED BY <1>5, <3>1, <3>2 DEF Next
  <2>2. CASE Start \/ Preflight \/ FetchOrders \/ TrackParcels
    <3>1. pc \in Unwritten /\ pc' \in Unwritten
      BY <2>2 DEF Start, Preflight, FetchOrders, TrackParcels, Unwritten
    <3> QED BY <2>1, <3>1 DEF JournalInv, Unwritten, Reported
  <2>3. CASE ~ (Start \/ Preflight \/ FetchOrders \/ TrackParcels)
    <3>1. /\ NewOrders' = NewOrders
          /\ pc' \in Unwritten => pc \in Unwritten
          /\ pc' = "postcheck" => pc = "postcheck"
      <4>1. CASE RunStep
        BY <1>5, <2>3, <4>1
        DEF RunStep, EndStep, BackupBeforeMigration, MigrateSchema, FetchSuppliers,
            Backfill, RefreshDetails, Decide, BackupBeforeRebuild, SkipRebuild,
            ReadForRebuild, Reread, ClearTail, WriteSupplierCosts, LoseAudit,
            NewOrders, Fetched, Unwritten
      <4>2. CASE Disturbance \/ UNCHANGED vars
        BY <4>2 DEF Disturbance, Midnight, RepairByHand, MarketMoves, ParcelMoves,
           EditNote, BreakFormula, ClearTracking, EnterByHand, vars, NewOrders, Fetched
      <4> QED BY <1>5, <4>1, <4>2 DEF Next
    <3> QED BY <2>1, <3>1 DEF JournalInv, Reported
  <2> QED BY <2>2, <2>3
<1> QED BY <1>1, <1>2, <1>3, <1>4, <1>5

\* A run that has written its audit has reported every order it added and every
\* status it changed: the events of _build_audit_events miss none of them.
THEOREM ChangesAreJournaled == Spec => []AuditComplete
<1>1. Init => JournalInv
  BY DEF Init, RestLocals, JournalInv, Reported
<1>2. JournalInv => AuditComplete
  BY DEF JournalInv, Reported, AuditComplete
<1> QED BY <1>1, <1>2, JournalStep, PTL DEF Spec

-----------------------------------------------------------------------------
(* The ledger: the invariant.                                              *)

\* q is the row r, as far as a rebuild decides by it; a tracking number may be
\* gone.
Akin(q, r) ==
  /\ q.typed = r.typed /\ q.excl = r.excl /\ q.st = r.st /\ q.ship = r.ship
  /\ q.day = r.day
  /\ ~ r.ttn => ~ q.ttn

\* Up to the write the managed rows are those the rebuild has read, also if the
\* manager edits one of them at the last moment.
ReadIsCurrent ==
  pc = "write" =>
    \A o \in Orders : /\ IsTyped(sheet, o) <=> IsTyped(snap, o)
                      /\ IsTyped(sheet, o) => Akin(sheet[o], snap[o])

\* The phases from the recording of statuses to the write.
Recorded == {"details", "shipments", "decide", "backup", "read", "reread", "write"}

\* A cancellation the run knows of stands in the row long before the rebuild
\* removes it.
CancellationsRecorded ==
  pc \in Recorded =>
    \A o \in CancelledExisting : IsTyped(sheet, o) => sheet[o].st = "cancelled"

LedgerInv == ReadIsCurrent /\ CancellationsRecorded

-----------------------------------------------------------------------------
(* The ledger: the cells it is about.                                      *)

LEMMA AkinToItself == \A r : Akin(r, r)
BY DEF Akin

\* The manager's edits leave a row akin to what it was.
LEMMA EditedRows ==
  ASSUME TypeOK, NEW p \in Orders, NEW o \in Orders,
         EditNote(p) \/ BreakFormula(p) \/ ClearTracking(p)
  PROVE  /\ HasRow(sheet', o) <=> HasRow(sheet, o)
         /\ IsTyped(sheet', o) <=> IsTyped(sheet, o)
         /\ Akin(sheet'[o], sheet[o])
<1>1. CASE o # p
  <2>1. sheet'[o] = sheet[o]
    BY <1>1, ManagerWrites
  <2> QED BY <2>1, AkinToItself DEF HasRow, IsTyped
<1>2. CASE o = p
  <2>1. sheet[o] \in Row
    BY <1>2, PresentIsRow DEF EditNote, BreakFormula, ClearTracking
  <2>2. \/ \E n \in Notes : sheet'[o] = [sheet[o] EXCEPT !.note = n]
        \/ sheet'[o] = [sheet[o] EXCEPT !.broken = TRUE]
        \/ sheet'[o] = [sheet[o] EXCEPT !.ttn = FALSE]
    BY <1>2 DEF EditNote, BreakFormula, ClearTracking, TypeOK, BookType
  <2>3. sheet'[o] \in Row /\ Akin(sheet'[o], sheet[o])
    BY <2>1, <2>2 DEF Row, Akin
  <2> QED BY <2>1, <2>3, NoRowIsNone DEF HasRow, IsTyped, Akin
<1> QED BY <1>1, <1>2

\* A row entered by hand is not managed, and no other row changes.
LEMMA EnteredRow ==
  ASSUME TypeOK, NEW p \in Orders, EnterByHand(p)
  PROVE  /\ \A o \in Orders \ {p} : sheet'[o] = sheet[o]
         /\ ~ HasRow(sheet, p) /\ HasRow(sheet', p)
         /\ ~ IsTyped(sheet, p) /\ ~ IsTyped(sheet', p)
<1>1. sheet'[p] = [typed |-> FALSE, st |-> "none", ship |-> "unknown",
                   paid |-> FALSE, excl |-> FALSE, day |-> day,
                   note |-> "memo", broken |-> FALSE, ttn |-> TRUE]
  BY DEF EnterByHand, TypeOK, BookType
<1>2. sheet'[p].st = "none" /\ ~ sheet'[p].typed /\ NoRow.st = "absent"
  BY <1>1 DEF NoRow
<1> QED BY <1>2 DEF EnterByHand, TypeOK, BookType, HasRow, IsTyped

CellWriter ==
  RecordCompletion \/ RefreshDetails \/ UpdateShipments \/ WriteSupplierCosts

\* The run's writers of single cells neither exclude a row nor take it back
\* into the totals.
LEMMA WrittenRows ==
  ASSUME TypeOK, CellWriter, NEW o \in Orders
  PROVE  /\ HasRow(sheet', o) <=> HasRow(sheet, o)
         /\ IsTyped(sheet', o) <=> IsTyped(sheet, o)
         /\ sheet'[o].excl = sheet[o].excl
<1>1. \/ sheet'[o] = sheet[o]
      \/ /\ sheet[o] \in Row
         /\ \/ sheet'[o] = [sheet[o] EXCEPT !.st = feed[o].st]
            \/ sheet'[o] = DetailedRow(o)
            \/ sheet'[o] = [sheet[o] EXCEPT !.ship = statuses[o]]
            \/ sheet'[o] = [sheet[o] EXCEPT !.paid = TRUE]
  BY TypedKeysAreRows, PresentIsRow
  DEF CellWriter, RecordCompletion, RefreshDetails, UpdateShipments,
      WriteSupplierCosts, Observed
<1>2. Rewritten
  BY RecordCompletionRows, RefreshDetailsRows, UpdateShipmentsRows,
     WriteSupplierCostsRows DEF CellWriter
<1>3. sheet'[o].excl = sheet[o].excl
  BY <1>1 DEF Row, DetailedRow
<1> QED BY <1>2, <1>3, NoRowIsNone DEF Rewritten, Revises, HasRow, IsTyped

-----------------------------------------------------------------------------
(* The ledger: the invariant holds in every state.                         *)

LEMMA ReadIsCurrentStep == TypeOK /\ ReadIsCurrent /\ [Next]_vars => ReadIsCurrent'
<1> SUFFICES ASSUME TypeOK, ReadIsCurrent, [Next]_vars, pc' = "write", NEW o \in Orders
             PROVE  /\ IsTyped(sheet', o) <=> IsTyped(snap', o)
                    /\ IsTyped(sheet', o) => Akin(sheet'[o], snap'[o])
  BY DEF ReadIsCurrent
<1>1. CASE RunStep \/ Crash
  <2>1. Reread
    BY <1>1
    DEF RunStep, Start, BackupBeforeMigration, MigrateSchema, Preflight,
        RefusePreflight, FetchOrders, RefuseIncoming, FetchSuppliers, Backfill,
        TrackParcels, RecordCompletion, RefreshDetails, UpdateShipments, Decide,
        BackupBeforeRebuild, SkipRebuild, ReadForRebuild, RefuseConcurrentEdit,
        WriteRows, ClearTail, WriteSupplierCosts, AppendAudit, LoseAudit,
        PostCheck, Crash
  <2> QED BY <2>1, AkinToItself DEF Reread
<1>2. CASE Midnight \/ RepairByHand \/ UNCHANGED vars
  BY <1>2 DEF Midnight, RepairByHand, vars, ReadIsCurrent
<1>3. ASSUME NEW p \in Orders, MarketMoves(p) \/ ParcelMoves(p)
      PROVE  UNCHANGED <<pc, sheet, snap>>
  BY <1>3 DEF MarketMoves, ParcelMoves
<1>4. ASSUME NEW p \in Orders, EditNote(p) \/ BreakFormula(p) \/ ClearTracking(p)
      PROVE  /\ IsTyped(sheet', o) <=> IsTyped(snap', o)
             /\ IsTyped(sheet', o) => Akin(sheet'[o], snap'[o])
  <2>1. UNCHANGED <<pc, snap>>
    BY <1>4 DEF EditNote, BreakFormula, ClearTracking
  <2> QED BY <1>4, <2>1, EditedRows DEF ReadIsCurrent, Akin
<1>5. ASSUME NEW p \in Orders, EnterByHand(p)
      PROVE  /\ IsTyped(sheet', o) <=> IsTyped(snap', o)
             /\ IsTyped(sheet', o) => Akin(sheet'[o], snap'[o])
  <2>1. UNCHANGED <<pc, snap>>
    BY <1>5 DEF EnterByHand
  <2>2. IsTyped(sheet', o) <=> IsTyped(sheet, o)
    BY <1>5, EnteredRow DEF IsTyped, HasRow
  <2> QED BY <1>5, <2>1, <2>2, EnteredRow DEF ReadIsCurrent
<1> QED BY <1>1, <1>2, <1>3, <1>4, <1>5 DEF Next, Disturbance, ReadIsCurrent

LEMMA CancellationsRecordedStep ==
  TypeOK /\ CancellationsRecorded /\ [Next]_vars => CancellationsRecorded'
<1> SUFFICES ASSUME TypeOK, CancellationsRecorded, [Next]_vars, pc' \in Recorded,
                    NEW o \in CancelledExisting', IsTyped(sheet', o)
             PROVE  sheet'[o].st = "cancelled"
  BY DEF CancellationsRecorded
<1> USE DEF Recorded
<1>1. CASE RecordCompletion
  <2>1. UNCHANGED <<feed, existing>>
    BY <1>1 DEF RecordCompletion
  <2>2. o \in Orders /\ feed[o].st = "cancelled"
    BY <2>1 DEF CancelledExisting, TypeOK, RunType
  <2>3. IsTyped(sheet, o)
    BY <1>1, <2>2, WrittenRows DEF CellWriter
  <2>4. o \in Observed /\ sheet[o] \in Row
    BY <2>2, <2>3, PresentIsRow DEF Observed, TypedKeys
  <2>5. sheet[o].st # feed[o].st => sheet'[o] = [sheet[o] EXCEPT !.st = feed[o].st]
    BY <1>1, <2>2, <2>4 DEF RecordCompletion
  <2>6. sheet[o].st = feed[o].st => sheet'[o] = sheet[o]
    BY <1>1, <2>2 DEF RecordCompletion
  <2> QED BY <2>2, <2>4, <2>5, <2>6 DEF Row
<1>2. CASE RefreshDetails \/ UpdateShipments
  <2>1. UNCHANGED <<feed, existing>> /\ pc \in Recorded
    BY <1>2 DEF RefreshDetails, UpdateShipments
  <2>2. o \in CancelledExisting /\ o \in Orders
    BY <2>1 DEF CancelledExisting, TypeOK, RunType
  <2>3. IsTyped(sheet, o)
    BY <1>2, <2>2, WrittenRows DEF CellWriter
  <2>4. sheet'[o].st = sheet[o].st
    BY <1>2, <2>2, CellWriters
  <2> QED BY <2>1, <2>2, <2>3, <2>4 DEF CancellationsRecorded
<1>3. CASE RunStep /\ ~ (RecordCompletion \/ RefreshDetails \/ UpdateShipments)
  <2>1. UNCHANGED <<feed, existing, sheet>> /\ pc \in Recorded
    BY <1>3
    DEF RunStep, Start, BackupBeforeMigration, MigrateSchema, Preflight,
        RefusePreflight, FetchOrders, RefuseIncoming, FetchSuppliers, Backfill,
        TrackParcels, Decide, BackupBeforeRebuild, SkipRebuild, ReadForRebuild,
        Reread, RefuseConcurrentEdit, WriteRows, ClearTail, WriteSupplierCosts,
        AppendAudit, LoseAudit, PostCheck
  <2> QED BY <2>1 DEF CancellationsRecorded, CancelledExisting
<1>4. CASE Crash
  BY <1>4 DEF Crash
<1>5. CASE Disturbance \/ UNCHANGED vars
  <2>1. UNCHANGED <<pc, feed, existing>>
    BY <1>5 DEF Disturbance, Midnight, RepairByHand, MarketMoves, ParcelMoves,
       EditNote, BreakFormula, ClearTracking, EnterByHand, vars
  <2>2. o \in CancelledExisting /\ o \in Orders
    BY <2>1 DEF CancelledExisting, TypeOK, RunType
  <2>3. CASE Midnight \/ RepairByHand \/ UNCHANGED vars
    BY <2>1, <2>2, <2>3 DEF Midnight, RepairByHand, vars, CancellationsRecorded
  <2>4. ASSUME NEW p \in Orders, MarketMoves(p) \/ ParcelMoves(p)
        PROVE  UNCHANGED sheet
    BY <2>4 DEF MarketMoves, ParcelMoves
  <2>5. ASSUME NEW p \in Orders, EditNote(p) \/ BreakFormula(p) \/ ClearTracking(p)
        PROVE  IsTyped(sheet, o) /\ sheet'[o].st = sheet[o].st
    BY <2>2, <2>5, EditedRows DEF Akin
  <2>6. ASSUME NEW p \in Orders, EnterByHand(p)
        PROVE  sheet'[o] = sheet[o] /\ IsTyped(sheet, o)
    BY <2>2, <2>6, EnteredRow DEF IsTyped, HasRow
  <2> QED
    BY <1>5, <2>1, <2>2, <2>3, <2>4, <2>5, <2>6
    DEF Disturbance, CancellationsRecorded
<1> QED BY <1>1, <1>2, <1>3, <1>4, <1>5 DEF Next

LEMMA LedgerInvInit == Init => LedgerInv
BY DEF Init, LedgerInv, ReadIsCurrent, CancellationsRecorded, Recorded

\* What a rebuild decides by holds in every state.
THEOREM LedgerInvariant == Spec => []LedgerInv
<1>1. TypeOK /\ LedgerInv /\ [Next]_vars => LedgerInv'
  BY ReadIsCurrentStep, CancellationsRecordedStep DEF LedgerInv
<1> QED BY <1>1, LedgerInvInit, TypeCorrect, PTL DEF Spec

-----------------------------------------------------------------------------
(* The ledger: the refinement.                                             *)

LEMMA EntryType == Entry \in [Orders -> Book!Entries]
BY DEF Entry, EntryOf, Book!Entries, Book!Managed

LEMMA EntryManaged ==
  \A o \in Orders : Entry[o] \in Book!Managed <=> IsTyped(sheet, o)
BY DEF Entry, EntryOf, Book!Managed

\* A step that leaves each row among the absent, the unmanaged, the excluded or
\* the counted ones is one that learns at most.
LEMMA LearningStep ==
  ASSUME UNCHANGED backup,
         \A o \in Orders : /\ HasRow(sheet', o) <=> HasRow(sheet, o)
                           /\ IsTyped(sheet', o) <=> IsTyped(sheet, o)
                           /\ IsTyped(sheet, o) => sheet'[o].excl = sheet[o].excl
  PROVE  Book!Learn
<1>1. ASSUME NEW o \in Orders
      PROVE  \/ Entry'[o] = Entry[o]
             \/ {Entry[o], Entry'[o]} = {"counted", "refused"}
  BY <1>1 DEF Entry, EntryOf
<1> QED BY <1>1 DEF Book!Learn

\* A rebuild lets every order enter, stay or leave as the ledger says.
LEMMA RebuildingStep ==
  ASSUME TypeOK, BackupCoversSheet, RowsInv, LedgerInv, WriteRows, NEW o \in Orders
  PROVE  Book!Enters(o) \/ Book!Stays(o) \/ Book!Leaves(o)
<1>1. pc = "write" /\ sheet' = Rebuilt
  BY DEF WriteRows
<1>2. sheet'[o] = IF Emitted(o) THEN Collected(o) ELSE NoRow
  BY <1>1 DEF Rebuilt
<1>3. NoRow.st = "absent" /\ AddedRow(o).typed /\ AddedRow(o).st = feed[o].st
      /\ AddedRow(o).ship = statuses[o] /\ AddedRow(o).excl = NewRefused(o)
  BY DEF NoRow, AddedRow
<1>4. CASE ~ IsTyped(sheet, o)
  <2>1. ~ Kept(o)
    BY <1>1, <1>4 DEF Kept, LedgerInv, ReadIsCurrent
  <2>2. sheet'[o] \in {NoRow, AddedRow(o)}
    BY <1>2, <2>1 DEF Collected
  <2>3. Entry'[o] \in {"absent", "counted", "excluded"}
    BY <1>3, <2>2 DEF Entry, EntryOf, IsTyped, HasRow, RowRefused, NewRefused
  <2> QED BY <1>4, <2>3, EntryManaged DEF Book!Enters
<1>5. CASE IsTyped(sheet, o)
  <2>1. IsTyped(snap, o) /\ Akin(sheet[o], snap[o]) /\ snap[o] \in Row
    BY <1>1, <1>5 DEF LedgerInv, ReadIsCurrent, TypeOK, RunType, IsTyped, HasRow
  <2>2. o \in existing /\ o \in backup
    BY <1>1, <1>5 DEF RowsInv, RowsKnown, Informed, BackupCoversSheet, TypedKeys
  <2>3. RefusedKey(o) <=> RowRefused(sheet[o])
    BY <1>1, <1>5, <2>1
    DEF RefusedKey, RowRefused, Akin, LedgerInv, CancellationsRecorded, Recorded
  <2>4. CASE Emitted(o)
    <3>1. sheet'[o] = KeptRow(o)
      BY <1>2, <2>2, <2>4 DEF Emitted, Collected, Added, NewOrders
    <3>2. /\ sheet'[o].typed /\ sheet'[o].excl = RefusedKey(o)
          /\ sheet'[o].st = snap[o].st /\ sheet'[o].ship = snap[o].ship
          /\ sheet'[o] # NoRow
      BY <1>2, <2>1, <2>4, <3>1 DEF KeptRow, Row, Emitted, IsTyped
    <3>3. Entry'[o] = IF RowRefused(sheet[o]) THEN "excluded" ELSE "counted"
      BY <2>1, <2>3, <3>2 DEF Entry, EntryOf, IsTyped, HasRow, RowRefused, Akin
    <3>4. Entry[o] = IF sheet[o].excl THEN "excluded"
                     ELSE IF RowRefused(sheet[o]) THEN "refused" ELSE "counted"
      BY <1>5 DEF Entry, EntryOf
    <3> QED BY <3>3, <3>4 DEF Book!Stays
  <2>5. CASE ~ Emitted(o)
    <3>1. Entry'[o] = "absent"
      BY <1>2, <2>5 DEF Entry, EntryOf, IsTyped, HasRow
    <3>2. CASE Kept(o)
      <4>1. Collected(o) = KeptRow(o) /\ KeptRow(o).typed /\ KeptRow(o).day = sheet[o].day
        BY <2>1, <3>2 DEF Collected, KeptRow, Row, Akin, IsTyped
      <4>2. KeptRow(o) # NoRow
        BY <2>1 DEF KeptRow, Row, NoRow
      <4>3. sheet[o].day \in Nat /\ today \in Nat
        BY <1>5, PresentIsRow DEF Row, Days, TypeOK, RunType
      <4>4. sheet[o].day > today
        BY <2>5, <4>1, <4>2, <4>3 DEF Emitted
      <4> QED BY <1>5, <2>2, <3>1, <4>4 DEF Book!Leaves, Loose, TypedKeys
    <3>3. CASE ~ Kept(o) /\ ~ snap[o].ttn
      BY <1>5, <2>1, <2>2, <3>1, <3>3 DEF Book!Leaves, Loose, TypedKeys, Akin
    <3>4. CASE ~ Kept(o) /\ snap[o].ttn
      <4>1. RowRefused(sheet[o])
        BY <2>1, <2>3, <3>4 DEF Kept
      <4>2. Entry[o] \in {"refused", "excluded"}
        BY <1>5, <4>1 DEF Entry, EntryOf
      <4> QED BY <2>2, <3>1, <4>2 DEF Book!Leaves
    <3> QED BY <3>2, <3>3, <3>4
  <2> QED BY <2>4, <2>5
<1> QED BY <1>4, <1>5

LEMMA LedgerInit == Init => Book!Init
<1> SUFFICES ASSUME Init PROVE Book!Init
  OBVIOUS
<1>1. PICK known \in SUBSET {o \in Orders : market[o].st # "none"} :
        sheet = [o \in Orders |-> IF o \in known THEN SettledRow(market[o])
                                  ELSE NoRow]
  BY DEF Init
<1>2. /\ NoRow.st = "absent"
      /\ \A m : /\ SettledRow(m).typed /\ SettledRow(m).st = m.st
                /\ SettledRow(m).ship = "transit" /\ SettledRow(m).ttn
                /\ ~ SettledRow(m).excl /\ SettledRow(m).day = 0
  BY DEF NoRow, SettledRow
<1>3. ASSUME NEW o \in Orders
      PROVE  /\ Entry[o] \in {"absent", "counted"}
             /\ IsTyped(sheet, o) => sheet[o].ttn /\ sheet[o].day = 0
  <2>1. market[o].st \in {"none", "shipped", "done"}
    BY <1>3 DEF Init
  <2>2. sheet[o] = IF o \in known THEN SettledRow(market[o]) ELSE NoRow
    BY <1>1, <1>3
  <2> QED BY <1>2, <1>3, <2>1, <2>2 DEF Entry, EntryOf, IsTyped, HasRow, RowRefused
<1>4. today = 0 /\ backup = {}
  BY DEF Init, RestLocals
<1>5. Loose = {}
  BY <1>3, <1>4 DEF Loose, TypedKeys
<1>6. Entry \in [Orders -> {"absent", "counted"}]
  BY <1>3 DEF Entry
<1> QED BY <1>4, <1>5, <1>6 DEF Book!Init

LEMMA LedgerStep ==
  ASSUME TypeOK, BackupCoversSheet, RowsInv, LedgerInv, [Next]_vars
  PROVE  [Book!Next]_(Book!vars)
<1>1. Entry' \in [Orders -> Book!Entries]
  BY DEF Entry, EntryOf, Book!Entries, Book!Managed
<1>2. Loose' \subseteq Orders
  BY DEF Loose, TypedKeys
<1>3. CASE UNCHANGED <<sheet, backup>> \/ CellWriter
  <2>1. UNCHANGED backup
    BY <1>3 DEF CellWriter, RecordCompletion, RefreshDetails, UpdateShipments,
       WriteSupplierCosts
  <2>2. Book!Learn
    BY <1>3, <2>1, WrittenRows, LearningStep DEF HasRow, IsTyped
  <2> QED BY <1>1, <1>2, <2>2 DEF Book!Next
<1>4. CASE BackupBeforeMigration \/ BackupBeforeRebuild
  <2>1. UNCHANGED sheet /\ backup' = TypedKeys(sheet)
    BY <1>4 DEF BackupBeforeMigration, BackupBeforeRebuild
  <2>2. UNCHANGED Entry
    BY <2>1 DEF Entry, EntryOf, IsTyped, HasRow
  <2>3. Book!Save
    BY <2>1, <2>2, EntryManaged DEF Book!Save, TypedKeys
  <2> QED BY <1>1, <1>2, <2>3 DEF Book!Next
<1>5. CASE EndStep \/ Crash
  <2>1. backup' = {}
    BY <1>5, EndStepEnds DEF Crash
  <2>2. \A o \in Orders : sheet'[o] = sheet[o] \/ ~ HasRow(sheet, o)
    BY <1>5, EndStepEnds DEF Crash
  <2>3. \A o \in Orders : Entry'[o] = Entry[o] \/ Entry[o] = "absent"
    BY <2>2 DEF Entry, EntryOf, IsTyped, HasRow
  <2>4. Book!EndRun
    BY <2>1, <2>3 DEF Book!EndRun
  <2> QED BY <1>1, <1>2, <2>4 DEF Book!Next
<1>6. CASE WriteRows
  <2>1. UNCHANGED backup
    BY <1>6 DEF WriteRows
  <2>2. Book!Rebuild
    BY <1>6, <2>1, RebuildingStep DEF Book!Rebuild
  <2> QED BY <1>1, <1>2, <2>2 DEF Book!Next
<1>7. ASSUME NEW p \in Orders, EditNote(p) \/ BreakFormula(p) \/ ClearTracking(p)
      PROVE  [Book!Next]_(Book!vars)
  <2>1. UNCHANGED backup
    BY <1>7 DEF EditNote, BreakFormula, ClearTracking
  <2>2. Book!Learn
    BY <1>7, <2>1, EditedRows, LearningStep DEF Akin
  <2> QED BY <1>1, <1>2, <2>2 DEF Book!Next
<1>8. ASSUME NEW p \in Orders, EnterByHand(p)
      PROVE  [Book!Next]_(Book!vars)
  <2>1. UNCHANGED backup
    BY <1>8 DEF EnterByHand
  <2>2. Entry[p] = "absent" /\ Entry'[p] = "byhand"
    BY <1>8, EnteredRow DEF Entry, EntryOf, IsTyped
  <2>3. \A o \in Orders \ {p} : Entry'[o] = Entry[o]
    BY <1>8, EnteredRow DEF Entry, EntryOf, IsTyped, HasRow
  <2>4. Entry' = [Entry EXCEPT ![p] = "byhand"]
    BY <2>2, <2>3 DEF Entry
  <2>5. Book!EnterByHand(p)
    BY <2>1, <2>2, <2>4 DEF Book!EnterByHand
  <2> QED BY <1>1, <1>2, <2>5 DEF Book!Next
<1>9. CASE RunStep
  <2>1. \/ CellWriter \/ BackupBeforeMigration \/ BackupBeforeRebuild \/ EndStep
        \/ WriteRows \/ UNCHANGED <<sheet, backup>>
    BY <1>9
    DEF RunStep, CellWriter, EndStep, Start, MigrateSchema, Preflight, FetchOrders,
        FetchSuppliers, Backfill, TrackParcels, Decide, SkipRebuild,
        ReadForRebuild, Reread, ClearTail, AppendAudit, LoseAudit
  <2> QED BY <1>3, <1>4, <1>5, <1>6, <2>1
<1>10. CASE Disturbance \/ UNCHANGED vars
  <2>1. \/ UNCHANGED <<sheet, backup>>
        \/ \E p \in Orders : \/ EditNote(p) \/ BreakFormula(p) \/ ClearTracking(p)
                             \/ EnterByHand(p)
    BY <1>10 DEF Disturbance, Midnight, RepairByHand, MarketMoves, ParcelMoves, vars
  <2> QED BY <1>3, <1>7, <1>8, <2>1
<1> QED BY <1>5, <1>9, <1>10 DEF Next

\* The synchronisation implements the ledger: the initial states map to initial
\* states, and every step to one of the ledger or to none, by the invariants of
\* the backups, of the rows and of what a rebuild decides by.
THEOREM SyncImplementsLedger == Spec => ImplementsLedger
BY LedgerInit, LedgerStep, TypeCorrect, BackupCovers, RowsInvariant,
   LedgerInvariant, PTL DEF Spec, ImplementsLedger, Book!Spec

=============================================================================
