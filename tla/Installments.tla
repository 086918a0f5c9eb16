---------------------------- MODULE Installments ----------------------------
(***************************************************************************)
(* Prom's fees for payment by instalments and its settled payments: who    *)
(* writes them into the worksheet, and what the audit sheet says of it.    *)
(*                                                                         *)
(* Three jobs of one workflow, never two at a time, work on the same rows: *)
(* the hourly synchronisation (PromClient's detail calls and               *)
(* refresh_order_details), the reconciliation of fees                      *)
(* (installment_backfill.main) and the correction of payment labels        *)
(* (payment_backfill.main). Each remote call that matters is a step, and   *)
(* any of them may be the last one of its job.                             *)
(***************************************************************************)
EXTENDS Naturals, FiniteSets

CONSTANTS
  Parts,             \* orders of Prom paid by instalments
  Cards,             \* orders of Prom paid through its own payment service
  MaxFee,            \* bound on the fees Prom reports
  DetailLimit,       \* _DETAIL_FAILURE_LIMIT
  BatchSize,         \* _SHEETS_UPDATE_BATCH_SIZE
  MaxDisturbances,   \* bound on what Prom and the manager do
  MaxFaults          \* bound on failed calls and lost jobs

ASSUME InstallmentsAssumption ==
  /\ IsFiniteSet(Parts) /\ IsFiniteSet(Cards) /\ Parts \cap Cards = {}
  /\ MaxFee \in Nat \ {0} /\ DetailLimit \in Nat \ {0}
  /\ BatchSize \in Nat \ {0}
  /\ MaxDisturbances \in Nat /\ MaxFaults \in Nat

VARIABLES
  \* Prom
  fee,        \* the fee of an order's instalments, 0 while Prom names none
  refunded,   \* orders whose payment was returned in full
  \* The spreadsheet
  cell,       \* amount and source of the fee in an order's first row
  pay,        \* the payment label of an order's rows
  renumbered, \* orders whose visible number the manager has overwritten
  journal,    \* how often the audit sheet has a marker
  \* Locals of a job
  pc, job,
  ids,        \* orders the reconciliation asks about
  answers,    \* what the fetched orders say of their fee
  todo,       \* orders whose detail call is still to come, then updates
  failures, skipped,
  plan,       \* what is written for which order, or the orders whose label is
              \* corrected
  \* Observations used by properties only
  asked,      \* orders whose fee this job knows from Prom itself
  edited,     \* orders whose label the manager changed after it was read, and
              \* instalment orders renumbered while a job ran
  disturbances, faults

prom   == <<fee, refunded>>
book   == <<cell, pay, renumbered, journal>>
locals == <<job, ids, answers, todo, failures, skipped, plan, asked, edited>>
vars   == <<prom, book, pc, locals, disturbances, faults>>

-----------------------------------------------------------------------------
Estimated == {"fallback", "tariff", "unresolved"}
FeeState  == [amount : 0 .. MaxFee,
              source : Estimated \cup {"", "reported", "legacy"}]
Unresolved == [amount |-> 0, source |-> "unresolved"]
NoAnswer   == [amount |-> 0, source |-> ""]

Labels == {"cod", "cod with prepayment", "prom", "other"}
Jobs   == {"none", "sync", "reconcile", "payments"}
Phases == {"idle", "list", "details", "refresh", "rewrite", "plan", "backup",
           "write", "audit", "reconciled", "settled", "correct", "secure",
           "record", "label"}

\* The marker a correction leaves in the audit sheet's column of details.
FeeMarker(o, s) == <<o, s.amount, s.source>>
PayMarker(o)    == <<o, 0, "prom">>
Markers == {FeeMarker(o, s) : o \in Parts, s \in FeeState}
             \cup {PayMarker(o) : o \in Cards}

Journaled(m) == journal[m] > 0

\* append_audit_events after the markers already there are left out.
WithMissing(M) ==
  [m \in Markers |-> IF m \in M /\ ~ Journaled(m) THEN journal[m] + 1
                     ELSE journal[m]]

\* Mutant: an unresolved fee takes the place of any fee.
ResolveToPromsAnswer(current, incoming) ==
  IF incoming.source = "" THEN current ELSE incoming

\* resolve_installment_commission
Resolve(current, incoming) ==
  LET kept == [current EXCEPT !.source = IF @ = "" THEN "legacy" ELSE @] IN
  CASE incoming.source = "reported" -> incoming
    [] incoming.source = "unresolved" ->
         IF current.amount > 0 /\ current.source \notin Estimated THEN kept
         ELSE Unresolved
    [] OTHER -> IF current.amount > 0 THEN kept ELSE incoming

\* installment_reconciliation_order_ids: what is not reported, and what is but
\* has no marker. The orders are known by their visible number, so the one of a
\* renumbered row is nobody's.
ReconciliationIds ==
  {o \in Parts \ renumbered : \/ cell[o].source # "reported"
                              \/ ~ Journaled(FeeMarker(o, cell[o]))}

-----------------------------------------------------------------------------
\* Cells as earlier versions have left them: no fee, one of unknown origin, or a
\* tariff.
Init ==
  /\ fee \in [Parts -> {0, 1}]
  /\ refunded = {}
  /\ cell \in [Parts -> {NoAnswer,
                         [amount |-> 1, source |-> ""],
                         [amount |-> 1, source |-> "tariff"]}]
  /\ pay = [o \in Cards |-> "cod"]
  /\ renumbered = {}
  /\ journal = [m \in Markers |-> 0]
  /\ pc = "idle" /\ job = "none"
  /\ ids = {} /\ answers = [o \in Parts |-> NoAnswer] /\ todo = {}
  /\ failures = 0 /\ skipped = FALSE
  /\ plan = {} /\ asked = {} /\ edited = {}
  /\ disturbances = 0 /\ faults = 0

EndJob ==
  /\ pc' = "idle" /\ job' = "none"
  /\ ids' = {} /\ answers' = [o \in Parts |-> NoAnswer] /\ todo' = {}
  /\ failures' = 0 /\ skipped' = FALSE
  /\ plan' = {} /\ asked' = {} /\ edited' = {}

Goto(from, to) == pc = from /\ pc' = to

FaultWhen(failed) ==
  /\ failed => faults < MaxFaults
  /\ faults' = IF failed THEN faults + 1 ELSE faults

-----------------------------------------------------------------------------
(* Fetching: fetch_orders_between with its detail calls.                   *)

StartSync ==
  /\ Goto("idle", "list")
  /\ job' = "sync" /\ ids' = Parts
  /\ UNCHANGED <<prom, book, answers, todo, failures, skipped, plan, asked,
                 edited, disturbances, faults>>

StartReconciliation ==
  /\ Goto("idle", "list")
  /\ job' = "reconcile" /\ ids' = ReconciliationIds
  /\ UNCHANGED <<prom, book, answers, todo, failures, skipped, plan, asked,
                 edited, disturbances, faults>>

\* The lists of orders: some of the window's orders, some with their fee. The
\* others need a detail call, except refunded ones and those nobody asks about.
ListOrders ==
  /\ Goto("list", "details")
  /\ \E offered \in SUBSET Parts :
     \E named \in SUBSET {o \in offered \ refunded : fee[o] > 0} :
       /\ answers' = [o \in Parts |->
                        CASE o \in named -> [amount |-> fee[o], source |-> "reported"]
                          [] o \in offered \ (named \cup refunded) -> Unresolved
                          [] OTHER -> NoAnswer]
       /\ todo' = (offered \ (named \cup refunded)) \cap ids
       /\ asked' = named
  /\ UNCHANGED <<prom, book, job, ids, failures, skipped, plan, edited,
                 disturbances, faults>>

CircuitOpen == failures >= DetailLimit

\* _with_installment_detail: one call, no retry.
AskDetail(o) ==
  /\ pc = "details" /\ o \in todo
  /\ ~ CircuitOpen
  /\ todo' = todo \ {o}
  /\ asked' = asked \cup {o}
  /\ answers' = IF fee[o] = 0 THEN answers
                ELSE [answers EXCEPT ![o] = [amount |-> fee[o], source |-> "reported"]]
  /\ UNCHANGED <<prom, book, pc, job, ids, failures, skipped, plan, edited,
                 disturbances, faults>>

\* _record_detail_failure: no answer, an unknown shape, or another order's.
DetailFails(o) ==
  /\ pc = "details" /\ o \in todo
  /\ ~ CircuitOpen
  /\ FaultWhen(TRUE)
  /\ todo' = todo \ {o}
  /\ failures' = failures + 1
  /\ UNCHANGED <<prom, book, pc, job, ids, answers, skipped, plan, asked,
                 edited, disturbances>>

\* The open circuit leaves the rest unresolved.
SkipDetails ==
  /\ pc = "details" /\ todo # {}
  /\ CircuitOpen
  /\ todo' = {} /\ skipped' = TRUE
  /\ UNCHANGED <<prom, book, pc, job, ids, answers, failures, plan, asked,
                 edited, disturbances, faults>>

\* Mutant: the calls the open circuit has left out do not count.
DegradedWhenAllFail == failures > 0 /\ failures >= Cardinality(ids)

\* InstallmentDetailDiagnostics.degraded
Degraded == failures > 0 \/ skipped

\* Only a health warning to the synchronisation ...
FetchedForSync ==
  /\ Goto("details", "refresh")
  /\ todo = {} /\ job = "sync"
  /\ UNCHANGED <<prom, book, locals, disturbances, faults>>

\* ... while the reconciliation gives up.
FetchedForReconciliation ==
  /\ Goto("details", "plan")
  /\ todo = {} /\ job = "reconcile"
  /\ ~ Degraded
  /\ UNCHANGED <<prom, book, locals, disturbances, faults>>

RefuseDegraded ==
  /\ pc = "details" /\ todo = {} /\ job = "reconcile"
  /\ Degraded
  /\ EndJob
  /\ UNCHANGED <<prom, book, disturbances, faults>>

-----------------------------------------------------------------------------
(* The hourly synchronisation: refresh_order_details.                      *)

Offered == {o \in Parts : answers[o].source # "" \/ o \in refunded}

\* A label written over another one; the prepayment is a cell of its own.
Overwritten(label, new) ==
  IF new = "cod" /\ label = "cod with prepayment" THEN label ELSE new

\* What refresh_order_details makes of a label when Prom's order says offered:
\* "prom" replaces cash on delivery without prepayment, cash on delivery
\* replaces anything.
RefreshedLabel(label, offered) ==
  CASE offered = "unseen" -> label
    [] offered = "prom"   -> IF label = "cod" THEN "prom" ELSE label
    [] offered = "cod"    -> Overwritten(label, "cod")

\* Of the orders it fetched and finds in the worksheet the run refreshes all but
\* the refunded ones without prepayment. From what it reads now it computes the
\* cells that differ ...
PlanRefresh ==
  /\ Goto("refresh", "rewrite")
  /\ \E seen \in SUBSET Offered, offered \in [Cards -> {"unseen", "cod", "prom"}] :
       /\ {o \in Offered : answers[o].source # ""} \subseteq seen
       /\ plan' = {<<o, Resolve(cell[o], answers[o])>> :
                      o \in {p \in seen : Resolve(cell[p], answers[p]) # cell[p]}}
                  \cup {<<o, RefreshedLabel(pay[o], offered[o])>> :
                      o \in {c \in Cards : RefreshedLabel(pay[c], offered[c]) # pay[c]}}
  /\ UNCHANGED <<prom, book, job, ids, answers, todo, failures, skipped, asked,
                 edited, disturbances, faults>>

PlannedNow(o)   == \E p \in plan : p[1] = o
PlannedValue(o) == (CHOOSE p \in plan : p[1] = o)[2]

\* The fees after the planned ones are written.
FeesByPlan == [o \in Parts |-> IF PlannedNow(o) THEN PlannedValue(o) ELSE cell[o]]

\* ... and writes them in one request, whatever the manager has done to a label
\* in between; nothing of it is journaled.
WriteRefresh ==
  /\ pc = "rewrite"
  /\ cell' = FeesByPlan
  /\ pay' = [o \in Cards |-> IF PlannedNow(o)
                             THEN Overwritten(pay[o], PlannedValue(o)) ELSE pay[o]]
  /\ EndJob
  /\ UNCHANGED <<prom, renumbered, journal, disturbances, faults>>

-----------------------------------------------------------------------------
(* The reconciliation: reconcile_prom_installments.                        *)

\* A refunded order has no fee to reconcile; _plan_installment_row skips a row
\* with another order's number.
Planned == {o \in ids \ renumbered : answers[o].source # ""}

\* Mutant: only what changes is journaled.
PlanOfChanges ==
  {<<o, Resolve(cell[o], answers[o])>> :
     o \in {p \in Planned : Resolve(cell[p], answers[p]) # cell[p]}}

\* Every planned order has an event, also one whose cells are as they should be.
PlanOfAll == {<<o, Resolve(cell[o], answers[o])>> : o \in Planned}

PlanFees ==
  /\ pc = "plan"
  /\ plan' = PlanOfAll
  /\ pc' = IF \E p \in PlanOfAll : cell[p[1]] # p[2] THEN "backup" ELSE "audit"
  /\ UNCHANGED <<prom, book, job, ids, answers, todo, failures, skipped, asked,
                 edited, disturbances, faults>>

BackupFees ==
  /\ Goto("backup", "write")
  /\ UNCHANGED <<prom, book, locals, disturbances, faults>>

\* "Keep reconciliation atomic": all cells in one request.
WriteFees ==
  /\ Goto("write", "audit")
  /\ cell' = FeesByPlan
  /\ UNCHANGED <<prom, pay, renumbered, journal, locals, disturbances, faults>>

\* Mutant: what an earlier job has journaled is journaled again.
AuditFeesAgain ==
  /\ Goto("audit", "reconciled")
  /\ LET M == {FeeMarker(p[1], p[2]) : p \in plan}
     IN  journal' = [m \in Markers |-> IF m \in M THEN journal[m] + 1 ELSE journal[m]]
  /\ UNCHANGED <<prom, cell, pay, renumbered, locals, disturbances, faults>>

\* _existing_audit_details and append_audit_events
AuditFees ==
  /\ Goto("audit", "reconciled")
  /\ journal' = WithMissing({FeeMarker(p[1], p[2]) : p \in plan})
  /\ UNCHANGED <<prom, cell, pay, renumbered, locals, disturbances, faults>>

EndReconciliation ==
  /\ pc = "reconciled"
  /\ EndJob
  /\ UNCHANGED <<prom, book, disturbances, faults>>

-----------------------------------------------------------------------------
(* The correction of labels: payment_backfill.main.                        *)

\* The candidates are the orders of the history window whose payment has reached
\* Prom, which can be any.
StartPayments ==
  /\ Goto("idle", "settled")
  /\ job' = "payments"
  /\ todo' \in SUBSET Cards
  /\ UNCHANGED <<prom, book, ids, answers, failures, skipped, plan, asked,
                 edited, disturbances, faults>>

\* "Prom returned no authoritative paid payment candidates"
RefuseNoCandidates ==
  /\ pc = "settled"
  /\ todo = {}
  /\ EndJob
  /\ UNCHANGED <<prom, book, disturbances, faults>>

Preview ==
  /\ Goto("settled", "correct")
  /\ todo # {}
  /\ UNCHANGED <<prom, book, locals, disturbances, faults>>

\* backfill_prom_payments: cash on delivery of a candidate whose row has no
\* prepayment, no other label and no other number.
Correctable == {o \in (todo \cap Cards) \ renumbered : pay[o] = "cod"}

NothingToCorrect ==
  /\ pc = "correct"
  /\ Correctable = {}
  /\ EndJob
  /\ UNCHANGED <<prom, book, disturbances, faults>>

PlanPayments ==
  /\ Goto("correct", "secure")
  /\ Correctable # {}
  /\ plan' = Correctable /\ todo' = Correctable
  /\ UNCHANGED <<prom, book, job, ids, answers, failures, skipped, asked,
                 edited, disturbances, faults>>

BackupPayments ==
  /\ Goto("secure", "record")
  /\ UNCHANGED <<prom, book, locals, disturbances, faults>>

\* Mutant: the labels come first, and a lost job leaves no trace of them.
AuditPaymentsLater ==
  /\ Goto("record", "label")
  /\ UNCHANGED <<prom, book, locals, disturbances, faults>>

\* The audit comes before the cells.
AuditPayments ==
  /\ Goto("record", "label")
  /\ journal' = WithMissing({PayMarker(o) : o \in plan})
  /\ UNCHANGED <<prom, cell, pay, renumbered, locals, disturbances, faults>>

\* One request of BatchSize cells.
WritePayments ==
  /\ pc = "label" /\ todo # {}
  /\ \E batch \in SUBSET todo :
       /\ Cardinality(batch) = BatchSize \/ batch = todo
       /\ Cardinality(batch) <= BatchSize
       /\ pay' = [o \in Cards |-> IF o \in batch THEN "prom" ELSE pay[o]]
       /\ todo' = todo \ batch
  /\ UNCHANGED <<prom, cell, renumbered, journal, pc, job, ids, answers,
                 failures, skipped, plan, asked, edited, disturbances, faults>>

EndPayments ==
  /\ pc = "label" /\ todo = {}
  /\ EndJob
  /\ UNCHANGED <<prom, book, disturbances, faults>>

-----------------------------------------------------------------------------
\* A call that raises, the step timeout or a lost runner.
Crash ==
  /\ pc # "idle"
  /\ FaultWhen(TRUE)
  /\ EndJob
  /\ UNCHANGED <<prom, book, disturbances>>

Sync == StartSync \/ FetchedForSync \/ PlanRefresh \/ WriteRefresh

Fetch == \/ ListOrders \/ SkipDetails
         \/ \E o \in Parts : AskDetail(o) \/ DetailFails(o)

Reconciliation ==
  \/ StartReconciliation \/ FetchedForReconciliation \/ RefuseDegraded
  \/ PlanFees \/ BackupFees \/ WriteFees \/ AuditFees \/ EndReconciliation

Payments ==
  \/ StartPayments \/ RefuseNoCandidates \/ Preview \/ NothingToCorrect
  \/ PlanPayments \/ BackupPayments \/ AuditPayments \/ WritePayments
  \/ EndPayments

Disturb ==
  /\ disturbances < MaxDisturbances
  /\ disturbances' = disturbances + 1
  /\ UNCHANGED <<pc, job, ids, answers, todo, failures, skipped, plan, asked,
                 faults>>

\* Prom comes to know a fee, or corrects one.
FeeMoves(o) ==
  /\ Disturb
  /\ \E f \in (1 .. MaxFee) \ {fee[o]} : fee' = [fee EXCEPT ![o] = f]
  /\ UNCHANGED <<refunded, book, edited>>

Refund(o) ==
  /\ Disturb
  /\ o \notin refunded /\ refunded' = refunded \cup {o}
  /\ UNCHANGED <<fee, book, edited>>

\* The manager chooses another label, enters a prepayment, or takes it back.
EditLabel(o) ==
  /\ Disturb
  /\ \E label \in (Labels \ {"prom"}) \ {pay[o]} : pay' = [pay EXCEPT ![o] = label]
  /\ edited' = IF pc \in {"rewrite", "secure", "record", "label"}
               THEN edited \cup {o} ELSE edited
  /\ UNCHANGED <<prom, cell, renumbered, journal>>

EditNumber(o) ==
  /\ Disturb
  /\ renumbered' = IF o \in renumbered THEN renumbered \ {o} ELSE renumbered \cup {o}
  /\ edited' = IF o \in Parts /\ job # "none" THEN edited \cup {o} ELSE edited
  /\ UNCHANGED <<prom, cell, pay, journal>>

Disturbance ==
  \/ \E o \in Parts : FeeMoves(o) \/ Refund(o) \/ EditNumber(o)
  \/ \E o \in Cards : EditLabel(o) \/ EditNumber(o)

Next == Sync \/ Fetch \/ Reconciliation \/ Payments \/ Crash \/ Disturbance

Spec == Init /\ [][Next]_vars

-----------------------------------------------------------------------------
(* What must hold.                                                         *)

\* Every variable keeps its type, and no marker is in the audit sheet twice.
TypeOK ==
  /\ fee \in [Parts -> 0 .. MaxFee]
  /\ refunded \subseteq Parts
  /\ cell \in [Parts -> FeeState]
  /\ pay \in [Cards -> Labels]
  /\ renumbered \subseteq Parts \cup Cards
  /\ journal \in [Markers -> {0, 1}]
  /\ pc \in Phases /\ job \in Jobs
  /\ ids \subseteq Parts /\ answers \in [Parts -> FeeState]
  /\ todo \subseteq Parts \cup Cards
  /\ failures \in 0 .. DetailLimit /\ skipped \in BOOLEAN
  /\ plan \subseteq Cards \cup (Parts \X FeeState) \cup (Cards \X Labels)
  /\ asked \subseteq Parts /\ edited \subseteq Parts \cup Cards
  /\ disturbances \in 0 .. MaxDisturbances /\ faults \in 0 .. MaxFaults

\* A positive fee that is no estimate gives way only to one Prom has named in
\* the same job, whatever calls fail and whichever job writes: neither silence,
\* nor an open circuit, nor a refund destroys it. (The cell is that of an order;
\* rows that shift between the read and the write of a job are SheetRebuild's.)
KnownFeesSurvive ==
  [][\A o \in Parts :
       /\ cell[o].amount > 0 /\ cell[o].source \notin Estimated
       /\ cell'[o].amount # cell[o].amount
       => o \in asked /\ cell'[o].source = "reported"]_vars

\* The reconciliation puts an order to "unresolved" only after Prom itself, in
\* the same job, had no fee for it; a failed or skipped call is no answer.
UnresolvedOnlyIfAsked ==
  [][\A o \in Parts :
       /\ job = "reconcile"
       /\ cell[o].amount > 0 /\ cell'[o] = Unresolved
       => o \in asked]_vars

\* A reconciliation that comes to its end leaves no fee it has asked about
\* without its marker, those included that a lost job has written and not
\* journaled, unless the manager changed the order's number meanwhile.
ReconciledIsJournaled ==
  pc = "reconciled" =>
    \A o \in asked \ (refunded \cup edited) :
      o \notin renumbered /\ cell[o].source = "reported"
        => Journaled(FeeMarker(o, cell[o]))

\* The correction changes no label that is not in the audit sheet by then,
\* however many requests it takes and wherever it is lost; and neither it nor
\* the hourly run changes a protected label to "prom", unless the manager
\* protected it after that job had read the row and before it wrote.
LabelsJournaledFirst ==
  [][\A o \in Cards :
       pay'[o] = "prom" /\ pay[o] # "prom" =>
         /\ job = "payments" => Journaled(PayMarker(o))
         /\ pay[o] = "cod" \/ o \in edited]_vars

=============================================================================
