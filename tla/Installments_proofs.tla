------------------------- MODULE Installments_proofs -------------------------
(***************************************************************************)
(* Theorems about Installments, for any orders, fees, limits and bounds.   *)
(***************************************************************************)
EXTENDS Installments, TLAPS

USE DEF prom, book, locals, Goto, FaultWhen, EndJob, Disturb

-----------------------------------------------------------------------------
(* The operators.                                                          *)

LEMMA NoAnswerTyped == NoAnswer \in FeeState /\ Unresolved \in FeeState
BY InstallmentsAssumption DEF NoAnswer, Unresolved, FeeState, Estimated

\* What resolve_installment_commission can return.
LEMMA ResolveReturns ==
  ASSUME NEW c \in FeeState, NEW a \in FeeState
  PROVE  /\ Resolve(c, a) \in FeeState
         /\ a.source = "reported" => Resolve(c, a) = a
         /\ a.source # "reported" /\ c.amount > 0 /\ c.source \notin Estimated
              => Resolve(c, a).amount = c.amount
         /\ a.source \notin {"reported", "unresolved"} /\ c.amount > 0
              => Resolve(c, a).amount = c.amount
<1> DEFINE kept == [c EXCEPT !.source = IF c.source = "" THEN "legacy" ELSE c.source]
<1>1. kept \in FeeState /\ kept.amount = c.amount
  BY DEF FeeState, Estimated
<1>2. CASE a.source = "reported"
  BY <1>2 DEF Resolve
<1>3. CASE a.source = "unresolved"
  <2>1. Resolve(c, a) = IF c.amount > 0 /\ c.source \notin Estimated THEN kept
                        ELSE Unresolved
    BY <1>3 DEF Resolve
  <2> QED BY <1>1, <1>3, <2>1, NoAnswerTyped
<1>4. CASE a.source \notin {"reported", "unresolved"}
  <2>1. Resolve(c, a) = IF c.amount > 0 THEN kept ELSE a
    BY <1>4 DEF Resolve
  <2> QED BY <1>1, <1>4, <2>1
<1> QED BY <1>2, <1>3, <1>4

LEMMA MissingAdded ==
  ASSUME journal \in [Markers -> {0, 1}], NEW M, journal' = WithMissing(M)
  PROVE  /\ journal' \in [Markers -> {0, 1}]
         /\ \A m \in Markers : Journaled(m) \/ m \in M => Journaled(m)'
BY DEF WithMissing, Journaled

LEMMA MarkersMade ==
  /\ \A o \in Parts, s \in FeeState : FeeMarker(o, s) \in Markers
  /\ \A o \in Cards : PayMarker(o) \in Markers
BY DEF Markers

LEMMA LabelRefreshed ==
  ASSUME NEW label \in Labels, NEW offered \in {"unseen", "cod", "prom"}
  PROVE  /\ RefreshedLabel(label, offered) \in Labels
         /\ RefreshedLabel(label, offered) = "prom" => label \in {"cod", "prom"}
<1>1. CASE offered = "unseen"
  BY <1>1 DEF RefreshedLabel, Labels
<1>2. CASE offered = "cod"
  BY <1>2 DEF RefreshedLabel, Overwritten, Labels
<1>3. CASE offered = "prom"
  BY <1>3 DEF RefreshedLabel, Labels
<1> QED BY <1>1, <1>2, <1>3

\* The value planned for an order is that of one of its entries.
LEMMA ValueOfEntry ==
  ASSUME NEW o, PlannedNow(o)
  PROVE  \E p \in plan : p[1] = o /\ p[2] = PlannedValue(o)
BY DEF PlannedNow, PlannedValue

-----------------------------------------------------------------------------
(* Types.                                                                  *)

LEMMA TypesInitially == Init => TypeOK
<1> SUFFICES ASSUME Init PROVE TypeOK
  OBVIOUS
<1>1. [amount |-> 1, source |-> ""] \in FeeState
  BY InstallmentsAssumption DEF FeeState, Estimated
<1>2. [amount |-> 1, source |-> "tariff"] \in FeeState
  BY InstallmentsAssumption DEF FeeState, Estimated
<1>3. cell \in [Parts -> FeeState] /\ answers \in [Parts -> FeeState]
  BY <1>1, <1>2, NoAnswerTyped DEF Init
<1>4. fee \in [Parts -> 0 .. MaxFee]
  <2>1. {0, 1} \subseteq 0 .. MaxFee
    BY InstallmentsAssumption
  <2> QED BY <2>1 DEF Init
<1>5. /\ failures \in 0 .. DetailLimit /\ disturbances \in 0 .. MaxDisturbances
      /\ faults \in 0 .. MaxFaults
  <2>1. 0 \in 0 .. DetailLimit /\ 0 \in 0 .. MaxDisturbances /\ 0 \in 0 .. MaxFaults
    BY InstallmentsAssumption
  <2> QED BY <2>1 DEF Init
<1>6. pay \in [Cards -> Labels] /\ journal \in [Markers -> {0, 1}]
  BY DEF Init, Labels
<1>7. pc \in Phases /\ job \in Jobs
  BY DEF Init, Phases, Jobs
<1> QED BY <1>3, <1>4, <1>5, <1>6, <1>7 DEF Init, TypeOK

\* The ends of a job.
LEMMA TypesAtEnd ==
  ASSUME TypeOK, EndJob, UNCHANGED <<prom, renumbered, disturbances>>,
         cell' \in [Parts -> FeeState], pay' \in [Cards -> Labels],
         journal' \in [Markers -> {0, 1}], faults' \in 0 .. MaxFaults
  PROVE  TypeOK'
<1>1. answers' \in [Parts -> FeeState]
  BY NoAnswerTyped
<1>2. failures' \in 0 .. DetailLimit
  BY InstallmentsAssumption
<1> QED BY <1>1, <1>2 DEF TypeOK, Phases, Jobs

LEMMA TypesInFetch ==
  ASSUME TypeOK, StartSync \/ StartReconciliation \/ Fetch
  PROVE  TypeOK'
<1> USE InstallmentsAssumption DEF TypeOK
<1>1. CASE StartSync
  BY <1>1 DEF StartSync, Phases, Jobs
<1>2. CASE StartReconciliation
  BY <1>2 DEF StartReconciliation, ReconciliationIds, Phases, Jobs
<1>3. CASE ListOrders
  <2>1. PICK offered \in SUBSET Parts :
          \E named \in SUBSET {o \in offered \ refunded : fee[o] > 0} :
            /\ answers' = [o \in Parts |->
                             CASE o \in named -> [amount |-> fee[o], source |-> "reported"]
                               [] o \in offered \ (named \cup refunded) -> Unresolved
                               [] OTHER -> NoAnswer]
            /\ todo' = (offered \ (named \cup refunded)) \cap ids
            /\ asked' = named
    BY <1>3 DEF ListOrders
  <2>2. PICK named \in SUBSET {o \in offered \ refunded : fee[o] > 0} :
            /\ answers' = [o \in Parts |->
                             CASE o \in named -> [amount |-> fee[o], source |-> "reported"]
                               [] o \in offered \ (named \cup refunded) -> Unresolved
                               [] OTHER -> NoAnswer]
            /\ todo' = (offered \ (named \cup refunded)) \cap ids
            /\ asked' = named
    BY <2>1
  <2>3. \A o \in Parts : [amount |-> fee[o], source |-> "reported"] \in FeeState
    BY DEF FeeState
  <2>4. answers' \in [Parts -> FeeState]
    <3> SUFFICES ASSUME NEW o \in Parts
                 PROVE  (CASE o \in named -> [amount |-> fee[o], source |-> "reported"]
                           [] o \in offered \ (named \cup refunded) -> Unresolved
                           [] OTHER -> NoAnswer) \in FeeState
      BY <2>2
    <3>1. CASE o \in named
      BY <2>3, <3>1
    <3>2. CASE o \in offered \ (named \cup refunded)
      BY NoAnswerTyped, <3>2
    <3>3. CASE o \notin named /\ o \notin offered \ (named \cup refunded)
      BY NoAnswerTyped, <3>3
    <3> QED BY <3>1, <3>2, <3>3
  <2>5. todo' \subseteq Parts \cup Cards /\ asked' \subseteq Parts
    BY <2>2
  <2> QED BY <1>3, <2>4, <2>5 DEF ListOrders, Phases
<1>4. CASE SkipDetails
  BY <1>4 DEF SkipDetails
<1>5. ASSUME NEW o \in Parts, AskDetail(o) PROVE TypeOK'
  <2>1. [amount |-> fee[o], source |-> "reported"] \in FeeState
    BY DEF FeeState
  <2>2. answers' \in [Parts -> FeeState]
    BY <1>5, <2>1 DEF AskDetail
  <2> QED BY <1>5, <2>2 DEF AskDetail
<1>6. ASSUME NEW o \in Parts, DetailFails(o) PROVE TypeOK'
  <2>1. failures' \in 0 .. DetailLimit
    BY <1>6 DEF DetailFails, CircuitOpen
  <2>2. faults' \in 0 .. MaxFaults
    BY <1>6 DEF DetailFails
  <2> QED BY <1>6, <2>1, <2>2 DEF DetailFails
<1> QED BY <1>1, <1>2, <1>3, <1>4, <1>5, <1>6 DEF Fetch

\* What the hourly run plans to write.
LEMMA RefreshPlanned ==
  ASSUME TypeOK, PlanRefresh, NEW p \in plan'
  PROVE  \/ /\ p \in Parts \X FeeState
            /\ p[2] = Resolve(cell[p[1]], answers[p[1]])
         \/ /\ p \in Cards \X Labels
            /\ p[2] = "prom" => pay[p[1]] = "cod"
<1>1. PICK seen \in SUBSET Offered, offered \in [Cards -> {"unseen", "cod", "prom"}] :
        plan' = {<<o, Resolve(cell[o], answers[o])>> :
                   o \in {q \in seen : Resolve(cell[q], answers[q]) # cell[q]}}
                \cup {<<o, RefreshedLabel(pay[o], offered[o])>> :
                   o \in {c \in Cards : RefreshedLabel(pay[c], offered[c]) # pay[c]}}
  BY DEF PlanRefresh
<1>2. CASE \E o \in seen : p = <<o, Resolve(cell[o], answers[o])>>
  <2>1. PICK o \in seen : p = <<o, Resolve(cell[o], answers[o])>>
    BY <1>2
  <2>2. o \in Parts /\ cell[o] \in FeeState /\ answers[o] \in FeeState
    BY DEF Offered, TypeOK
  <2> QED BY <2>1, <2>2, ResolveReturns
<1>3. CASE \E o \in Cards : /\ p = <<o, RefreshedLabel(pay[o], offered[o])>>
                            /\ RefreshedLabel(pay[o], offered[o]) # pay[o]
  <2>1. PICK o \in Cards : /\ p = <<o, RefreshedLabel(pay[o], offered[o])>>
                           /\ RefreshedLabel(pay[o], offered[o]) # pay[o]
    BY <1>3
  <2>2. pay[o] \in Labels /\ offered[o] \in {"unseen", "cod", "prom"}
    BY DEF TypeOK
  <2> QED BY <2>1, <2>2, LabelRefreshed
<1> QED BY <1>1, <1>2, <1>3

LEMMA TypesInSync ==
  ASSUME TypeOK, FetchedForSync \/ PlanRefresh
  PROVE  TypeOK'
<1>1. CASE FetchedForSync
  BY <1>1 DEF TypeOK, FetchedForSync, Phases
<1>2. CASE PlanRefresh
  <2>1. plan' \subseteq Cards \cup (Parts \X FeeState) \cup (Cards \X Labels)
    BY <1>2, RefreshPlanned
  <2> QED BY <1>2, <2>1 DEF TypeOK, PlanRefresh, Phases
<1> QED BY <1>1, <1>2

LEMMA TypesInReconciliation ==
  ASSUME TypeOK,
         \/ FetchedForReconciliation \/ RefuseDegraded
         \/ PlanFees \/ BackupFees \/ AuditFees \/ EndReconciliation
  PROVE  TypeOK'
<1>1. CASE FetchedForReconciliation
  BY <1>1 DEF TypeOK, FetchedForReconciliation, Phases
<1>2. CASE RefuseDegraded
  BY <1>2, TypesAtEnd DEF TypeOK, RefuseDegraded
<1>3. CASE PlanFees
  <2>1. PlanOfAll \subseteq Parts \X FeeState
    <3> SUFFICES ASSUME NEW o \in Planned
                 PROVE  <<o, Resolve(cell[o], answers[o])>> \in Parts \X FeeState
      BY DEF PlanOfAll
    <3>1. o \in Parts /\ cell[o] \in FeeState /\ answers[o] \in FeeState
      BY DEF TypeOK, Planned
    <3> QED BY <3>1, ResolveReturns
  <2> QED BY <1>3, <2>1 DEF TypeOK, PlanFees, Phases
<1>4. CASE BackupFees
  BY <1>4 DEF TypeOK, BackupFees, Phases
<1>5. CASE AuditFees
  BY <1>5, MissingAdded DEF TypeOK, AuditFees, Phases
<1>6. CASE EndReconciliation
  BY <1>6, TypesAtEnd DEF TypeOK, EndReconciliation
<1> QED BY <1>1, <1>2, <1>3, <1>4, <1>5, <1>6

LEMMA TypesInPayments ==
  ASSUME TypeOK, Payments
  PROVE  TypeOK'
<1>1. CASE StartPayments
  BY <1>1 DEF TypeOK, StartPayments, Phases, Jobs
<1>2. CASE RefuseNoCandidates \/ NothingToCorrect \/ EndPayments
  BY <1>2, TypesAtEnd DEF TypeOK, RefuseNoCandidates, NothingToCorrect, EndPayments
<1>3. CASE Preview \/ BackupPayments
  BY <1>3 DEF TypeOK, Preview, BackupPayments, Phases
<1>4. CASE PlanPayments
  <2>1. Correctable \subseteq todo /\ Correctable \subseteq Cards
    BY DEF Correctable
  <2> QED BY <1>4, <2>1 DEF TypeOK, PlanPayments, Phases
<1>5. CASE AuditPayments
  BY <1>5, MissingAdded DEF TypeOK, AuditPayments, Phases
<1>6. CASE WritePayments
  BY <1>6 DEF TypeOK, WritePayments, Labels
<1> QED BY <1>1, <1>2, <1>3, <1>4, <1>5, <1>6 DEF Payments

-----------------------------------------------------------------------------
(* The invariant.                                                          *)

\* A phase belongs to one job, or to the two that fetch.
JobInv ==
  /\ pc = "idle" <=> job = "none"
  /\ pc \in {"list", "details"} => job \in {"sync", "reconcile"}
  /\ pc \in {"refresh", "rewrite"} => job = "sync"
  /\ pc \in {"plan", "backup", "write", "audit", "reconciled"} => job = "reconcile"
  /\ pc \in {"settled", "correct", "secure", "record", "label"} => job = "payments"

\* What an answer says is known from Prom, or the fetch is degraded.
AnswerInv ==
  \A o \in Parts :
    /\ answers[o].source \in {"", "reported", "unresolved"}
    /\ answers[o].source = "reported" => o \in asked
    /\ o \in asked => answers[o].source # ""
    /\ pc = "details" /\ o \in todo => answers[o].source = "unresolved"
    /\ pc = "details" /\ answers[o].source = "unresolved" /\ o \in ids
         => o \in todo \/ o \in asked \/ Degraded
    /\ pc \in {"plan", "backup", "write"} /\ answers[o].source = "unresolved" /\ o \in ids
         => o \in asked

\* A fee whose marker is in the audit sheet.
Settled(o) == cell[o].source = "reported" /\ Journaled(FeeMarker(o, cell[o]))

\* Whatever fee the reconciliation learns, it plans its row or need not.
CoverInv ==
  \A o \in Parts \ (edited \cup renumbered) :
    /\ job = "reconcile" /\ pc \in {"list", "details", "plan"} => o \in ids \/ Settled(o)
    /\ pc \in {"backup", "write", "audit", "reconciled"} /\ o \in asked
         => PlannedNow(o) \/ Settled(o)

\* The plan follows from the cells before the write, and agrees with them after.
PlanInv ==
  pc \in {"backup", "write", "audit", "reconciled"} =>
    /\ plan \subseteq Parts \X FeeState
    /\ \A p \in plan :
         /\ p[1] \in ids
         /\ pc \in {"backup", "write"} => p[2] = Resolve(cell[p[1]], answers[p[1]])
         /\ pc \in {"audit", "reconciled"} => p[2] = cell[p[1]]
         /\ pc = "reconciled" => Journaled(FeeMarker(p[1], p[2]))

\* What is still to be corrected was cash on delivery when it was read.
LabelInv ==
  pc \in {"secure", "record", "label"} =>
    /\ plan \subseteq Cards /\ todo \subseteq plan
    /\ \A o \in todo : pay[o] = "cod" \/ o \in edited
    /\ pc = "label" => \A o \in plan : Journaled(PayMarker(o))

\* What the hourly run is about to write follows from the fees that stand there
\* and from the labels, as far as these were not edited since.
RefreshInv ==
  pc = "rewrite" =>
    \A p \in plan :
      \/ p \in Parts \X FeeState /\ p[2] = Resolve(cell[p[1]], answers[p[1]])
      \/ /\ p \in Cards \X Labels
         /\ p[2] = "prom" => pay[p[1]] = "cod" \/ p[1] \in edited

IInv == TypeOK /\ JobInv /\ AnswerInv /\ CoverInv /\ PlanInv /\ LabelInv /\ RefreshInv

LEMMA InvInitially == Init => IInv
<1> SUFFICES ASSUME Init PROVE IInv
  OBVIOUS
<1>1. JobInv
  BY DEF Init, JobInv
<1>2. AnswerInv
  BY DEF Init, AnswerInv, NoAnswer
<1>3. CoverInv /\ PlanInv /\ LabelInv /\ RefreshInv
  BY DEF Init, CoverInv, PlanInv, LabelInv, RefreshInv
<1> QED BY <1>1, <1>2, <1>3, TypesInitially DEF IInv

\* The end of a job.
LEMMA InvAtEnd ==
  ASSUME EndJob, TypeOK'
  PROVE  IInv'
<1>1. \A o \in Parts : answers'[o].source = ""
  BY DEF NoAnswer
<1>2. JobInv'
  BY DEF JobInv
<1>3. AnswerInv'
  BY <1>1 DEF AnswerInv
<1>4. CoverInv' /\ PlanInv' /\ LabelInv' /\ RefreshInv'
  BY DEF CoverInv, PlanInv, LabelInv, RefreshInv
<1> QED BY <1>2, <1>3, <1>4 DEF IInv

LEMMA InvInStarts ==
  ASSUME IInv, StartSync \/ StartReconciliation \/ StartPayments
  PROVE  IInv'
<1>1. TypeOK'
  BY TypesInFetch, TypesInPayments DEF IInv, Payments
<1>2. JobInv'
  BY DEF JobInv, StartSync, StartReconciliation, StartPayments
<1>3. AnswerInv'
  BY DEF IInv, AnswerInv, StartSync, StartReconciliation, StartPayments
<1>4. CoverInv'
  <2>1. CASE StartReconciliation
    BY <2>1 DEF StartReconciliation, CoverInv, ReconciliationIds, Settled, Journaled
  <2>2. CASE StartSync \/ StartPayments
    BY <2>2 DEF StartSync, StartPayments, CoverInv
  <2> QED BY <2>1, <2>2
<1>5. PlanInv' /\ LabelInv' /\ RefreshInv'
  BY DEF PlanInv, LabelInv, RefreshInv, StartSync, StartReconciliation, StartPayments
<1> QED BY <1>1, <1>2, <1>3, <1>4, <1>5 DEF IInv

LEMMA InvInFetch ==
  ASSUME IInv, Fetch
  PROVE  IInv'
<1> USE DEF IInv
<1>1. TypeOK'
  BY TypesInFetch
<1>2. /\ pc \in {"list", "details"} /\ pc' = "details"
      /\ UNCHANGED <<book, job, ids, edited>>
  BY DEF Fetch, ListOrders, SkipDetails, AskDetail, DetailFails
<1>3. JobInv'
  BY <1>2 DEF JobInv
<1>4. AnswerInv'
  <2>1. CASE ListOrders
    <3>1. PICK offered \in SUBSET Parts :
          \E named \in SUBSET {o \in offered \ refunded : fee[o] > 0} :
            /\ answers' = [o \in Parts |->
                             CASE o \in named -> [amount |-> fee[o], source |-> "reported"]
                               [] o \in offered \ (named \cup refunded) -> Unresolved
                               [] OTHER -> NoAnswer]
            /\ todo' = (offered \ (named \cup refunded)) \cap ids
            /\ asked' = named
      BY <2>1 DEF ListOrders
    <3>2. PICK named \in SUBSET {o \in offered \ refunded : fee[o] > 0} :
            /\ answers' = [o \in Parts |->
                             CASE o \in named -> [amount |-> fee[o], source |-> "reported"]
                               [] o \in offered \ (named \cup refunded) -> Unresolved
                               [] OTHER -> NoAnswer]
            /\ todo' = (offered \ (named \cup refunded)) \cap ids
            /\ asked' = named
      BY <3>1
    <3> SUFFICES ASSUME NEW o \in Parts
                 PROVE  /\ answers'[o].source \in {"", "reported", "unresolved"}
                        /\ answers'[o].source = "reported" => o \in asked'
                        /\ o \in asked' => answers'[o].source # ""
                        /\ o \in todo' => answers'[o].source = "unresolved"
                        /\ answers'[o].source = "unresolved" /\ o \in ids => o \in todo'
      BY <1>2 DEF AnswerInv
    <3>3. CASE o \in named
      <4>1. answers'[o] = [amount |-> fee[o], source |-> "reported"]
        BY <3>2, <3>3
      <4> QED BY <3>2, <3>3, <4>1
    <3>4. CASE o \in offered \ (named \cup refunded)
      <4>1. answers'[o] = Unresolved
        BY <3>2, <3>4
      <4> QED BY <3>2, <3>4, <4>1 DEF Unresolved
    <3>5. CASE o \notin named /\ o \notin offered \ (named \cup refunded)
      <4>1. answers'[o] = NoAnswer
        BY <3>2, <3>5
      <4> QED BY <3>2, <3>5, <4>1 DEF NoAnswer
    <3> QED BY <3>3, <3>4, <3>5
  <2>2. CASE SkipDetails
    BY <1>2, <2>2 DEF AnswerInv, SkipDetails, Degraded
  <2>3. ASSUME NEW p \in Parts, AskDetail(p) PROVE AnswerInv'
    <3>1. /\ pc = "details" /\ p \in todo /\ todo' = todo \ {p} /\ asked' = asked \cup {p}
          /\ UNCHANGED <<failures, skipped>>
      BY <2>3 DEF AskDetail
    <3>2. \A o \in Parts : \/ answers'[o] = answers[o]
                           \/ o = p /\ answers'[o].source = "reported"
      <4>1. answers \in [Parts -> FeeState]
        BY DEF TypeOK
      <4>2. [amount |-> fee[p], source |-> "reported"].source = "reported"
        OBVIOUS
      <4> QED BY <2>3, <4>1, <4>2 DEF AskDetail
    <3> QED BY <1>2, <3>1, <3>2 DEF AnswerInv, Degraded
  <2>4. ASSUME NEW p \in Parts, DetailFails(p) PROVE AnswerInv'
    <3>1. Degraded'
      BY <2>4 DEF DetailFails, Degraded, TypeOK
    <3> QED BY <1>2, <2>4, <3>1 DEF AnswerInv, DetailFails
  <2> QED BY <2>1, <2>2, <2>3, <2>4 DEF Fetch
<1>5. CoverInv'
  <2>1. \A o \in Parts : Settled(o) => Settled(o)'
    BY <1>2 DEF Settled, Journaled, FeeMarker
  <2>2. UNCHANGED <<edited, renumbered, job, ids>>
    BY <1>2
  <2> QED BY <1>2, <2>1, <2>2 DEF CoverInv
<1>6. PlanInv' /\ LabelInv' /\ RefreshInv'
  BY <1>2 DEF PlanInv, LabelInv, RefreshInv
<1> QED BY <1>1, <1>3, <1>4, <1>5, <1>6

\* What WriteFees leaves in a row.
LEMMA FeesWritten ==
  ASSUME IInv, WriteFees, NEW o \in Parts
  PROVE  \/ PlannedNow(o) /\ o \in ids /\ cell'[o] = Resolve(cell[o], answers[o])
         \/ ~ PlannedNow(o) /\ cell'[o] = cell[o]
<1>1. cell'[o] = IF PlannedNow(o) THEN PlannedValue(o) ELSE cell[o]
  BY DEF WriteFees, FeesByPlan
<1>2. CASE PlannedNow(o)
  <2>1. PICK q \in plan : q[1] = o /\ cell'[o] = q[2]
    BY <1>1, <1>2, ValueOfEntry
  <2>2. q[1] \in ids /\ q[2] = Resolve(cell[q[1]], answers[q[1]])
    BY DEF IInv, PlanInv, WriteFees
  <2> QED BY <1>2, <2>1, <2>2
<1>3. CASE ~ PlannedNow(o)
  BY <1>1, <1>3
<1> QED BY <1>2, <1>3

\* What WriteRefresh leaves in a row: a fee as planned, or a label.
LEMMA FeesRefreshed ==
  ASSUME IInv, WriteRefresh, NEW o \in Parts
  PROVE  cell'[o] = cell[o] \/ cell'[o] = Resolve(cell[o], answers[o])
<1>1. cell'[o] = IF PlannedNow(o) THEN PlannedValue(o) ELSE cell[o]
  BY DEF WriteRefresh, FeesByPlan
<1>2. ASSUME PlannedNow(o) PROVE PlannedValue(o) = Resolve(cell[o], answers[o])
  <2>1. PICK q \in plan : q[1] = o /\ q[2] = PlannedValue(o)
    BY <1>2, ValueOfEntry
  <2>2. o \notin Cards
    BY InstallmentsAssumption
  <2> QED BY <2>1, <2>2 DEF IInv, RefreshInv, WriteRefresh
<1> QED BY <1>1, <1>2

LEMMA LabelsRefreshed ==
  ASSUME IInv, WriteRefresh, NEW o \in Cards
  PROVE  /\ pay'[o] \in Labels
         /\ pay'[o] = "prom" => pay[o] \in {"cod", "prom"} \/ o \in edited
<1>1. pay'[o] = IF PlannedNow(o) THEN Overwritten(pay[o], PlannedValue(o)) ELSE pay[o]
  BY DEF WriteRefresh
<1>2. pay[o] \in Labels
  BY DEF IInv, TypeOK
<1>3. ASSUME PlannedNow(o)
      PROVE  /\ PlannedValue(o) \in Labels
             /\ PlannedValue(o) = "prom" => pay[o] = "cod" \/ o \in edited
  <2>1. PICK q \in plan : q[1] = o /\ q[2] = PlannedValue(o)
    BY <1>3, ValueOfEntry
  <2>2. o \notin Parts
    BY InstallmentsAssumption
  <2>3. \/ q \in Parts \X FeeState
        \/ q \in Cards \X Labels /\ (q[2] = "prom" => pay[q[1]] = "cod" \/ q[1] \in edited)
    BY DEF IInv, RefreshInv, WriteRefresh
  <2> QED BY <2>1, <2>2, <2>3
<1>4. CASE PlannedNow(o)
  BY <1>1, <1>2, <1>3, <1>4 DEF Overwritten
<1>5. CASE ~ PlannedNow(o)
  BY <1>1, <1>2, <1>5
<1> QED BY <1>4, <1>5

LEMMA InvInSync ==
  ASSUME IInv, FetchedForSync \/ PlanRefresh \/ WriteRefresh
  PROVE  IInv'
<1>1. CASE FetchedForSync
  <2>1. TypeOK'
    BY <1>1, TypesInSync DEF IInv
  <2> QED BY <1>1, <2>1
    DEF FetchedForSync, IInv, JobInv, AnswerInv, CoverInv, PlanInv, LabelInv, RefreshInv
<1>2. CASE PlanRefresh
  <2>1. TypeOK'
    BY <1>2, TypesInSync DEF IInv
  <2>2. /\ pc = "refresh" /\ pc' = "rewrite"
        /\ UNCHANGED <<book, job, ids, answers, asked, edited>>
    BY <1>2 DEF PlanRefresh
  <2>3. JobInv' /\ AnswerInv' /\ PlanInv' /\ LabelInv'
    BY <2>2 DEF IInv, JobInv, AnswerInv, PlanInv, LabelInv
  <2>4. CoverInv'
    BY <2>2 DEF IInv, JobInv, CoverInv
  <2>5. RefreshInv'
    BY <1>2, <2>2, RefreshPlanned DEF IInv, RefreshInv
  <2> QED BY <2>1, <2>3, <2>4, <2>5 DEF IInv
<1>3. CASE WriteRefresh
  <2>1. cell' \in [Parts -> FeeState]
    <3>1. \A o \in Parts : cell'[o] \in FeeState
      BY <1>3, FeesRefreshed, ResolveReturns DEF IInv, TypeOK
    <3>2. cell' = [o \in Parts |-> cell'[o]]
      BY <1>3 DEF WriteRefresh, FeesByPlan
    <3> QED BY <3>1, <3>2
  <2>2. pay' \in [Cards -> Labels]
    <3>1. \A o \in Cards : pay'[o] \in Labels
      BY <1>3, LabelsRefreshed
    <3>2. pay' = [o \in Cards |-> pay'[o]]
      BY <1>3 DEF WriteRefresh
    <3> QED BY <3>1, <3>2
  <2>3. EndJob /\ UNCHANGED <<prom, renumbered, journal, disturbances, faults>>
    BY <1>3 DEF WriteRefresh
  <2>4. TypeOK'
    BY <2>1, <2>2, <2>3, TypesAtEnd DEF IInv, TypeOK
  <2> QED BY <2>3, <2>4, InvAtEnd
<1> QED BY <1>1, <1>2, <1>3

LEMMA InvInWrite ==
  ASSUME IInv, WriteFees
  PROVE  IInv'
<1> USE DEF IInv
<1>1. cell' \in [Parts -> FeeState]
  <2>1. \A o \in Parts : cell'[o] \in FeeState
    BY FeesWritten, ResolveReturns DEF TypeOK
  <2>2. cell' = [o \in Parts |-> cell'[o]]
    BY DEF WriteFees, FeesByPlan
  <2> QED BY <2>1, <2>2
<1>2. TypeOK'
  BY <1>1 DEF TypeOK, WriteFees, Phases
<1>3. JobInv' /\ AnswerInv' /\ LabelInv' /\ RefreshInv'
  BY DEF WriteFees, JobInv, AnswerInv, LabelInv, RefreshInv
<1>4. CoverInv'
  <2>1. \A o \in Parts : PlannedNow(o) => PlannedNow(o)'
    BY DEF PlannedNow, WriteFees
  <2>2. \A o \in Parts : Settled(o) => PlannedNow(o)' \/ Settled(o)'
    BY <2>1, FeesWritten DEF Settled, Journaled, FeeMarker, WriteFees
  <2> QED BY <2>1, <2>2 DEF CoverInv, WriteFees
<1>5. PlanInv'
  <2> SUFFICES ASSUME NEW p \in plan PROVE p[1] \in ids /\ p[2] = cell'[p[1]]
    BY DEF PlanInv, WriteFees
  <2>1. p[1] \in Parts /\ p[1] \in ids /\ p[2] = Resolve(cell[p[1]], answers[p[1]])
    BY DEF PlanInv, WriteFees
  <2>2. PlannedNow(p[1])
    BY DEF PlannedNow
  <2> QED BY <2>1, <2>2, FeesWritten
<1> QED BY <1>2, <1>3, <1>4, <1>5

LEMMA InvInPlan ==
  ASSUME IInv, PlanFees
  PROVE  IInv'
<1> USE DEF IInv
<1>1. TypeOK'
  BY TypesInReconciliation
<1>2. /\ pc = "plan" /\ pc' \in {"backup", "audit"} /\ plan' = PlanOfAll
      /\ UNCHANGED <<book, job, ids, answers, asked, edited>>
      /\ pc' = "audit" => \A p \in PlanOfAll : cell[p[1]] = p[2]
  BY DEF PlanFees
<1>3. JobInv' /\ AnswerInv' /\ LabelInv' /\ RefreshInv'
  BY <1>2 DEF JobInv, AnswerInv, LabelInv, RefreshInv
<1>4. \A o \in Planned : <<o, Resolve(cell[o], answers[o])>> \in PlanOfAll
  BY DEF PlanOfAll
<1>5. CoverInv'
  <2> SUFFICES ASSUME NEW o \in Parts \ (edited \cup renumbered), o \in asked
               PROVE  PlannedNow(o)' \/ Settled(o)'
    BY <1>2 DEF CoverInv
  <2>1. CASE o \in ids
    <3>1. o \in Planned
      BY <2>1 DEF Planned, AnswerInv
    <3>2. <<o, Resolve(cell[o], answers[o])>>[1] = o
      OBVIOUS
    <3> QED BY <1>2, <1>4, <3>1, <3>2 DEF PlannedNow
  <2>2. CASE Settled(o)
    BY <1>2, <2>2 DEF Settled, Journaled, FeeMarker
  <2> QED BY <1>2, <2>1, <2>2 DEF CoverInv, JobInv
<1>6. PlanInv'
  <2> SUFFICES ASSUME NEW o \in Planned
               PROVE  /\ <<o, Resolve(cell[o], answers[o])>> \in Parts \X FeeState
                      /\ o \in ids
    BY <1>2 DEF PlanInv, PlanOfAll
  <2>1. o \in Parts /\ cell[o] \in FeeState /\ answers[o] \in FeeState /\ o \in ids
    BY DEF Planned, TypeOK
  <2> QED BY <2>1, ResolveReturns
<1> QED BY <1>1, <1>3, <1>5, <1>6

LEMMA InvInAudit ==
  ASSUME IInv, AuditFees
  PROVE  IInv'
<1> USE DEF IInv
<1>1. TypeOK'
  BY TypesInReconciliation
<1>2. /\ pc = "audit" /\ pc' = "reconciled"
      /\ journal' = WithMissing({FeeMarker(p[1], p[2]) : p \in plan})
      /\ UNCHANGED <<cell, renumbered, job, ids, answers, plan, asked, edited>>
  BY DEF AuditFees
<1>3. \A m \in Markers :
        Journaled(m) \/ m \in {FeeMarker(p[1], p[2]) : p \in plan} => Journaled(m)'
  BY <1>2, MissingAdded DEF TypeOK
<1>4. JobInv' /\ AnswerInv' /\ LabelInv' /\ RefreshInv'
  BY <1>2 DEF JobInv, AnswerInv, LabelInv, RefreshInv
<1>5. CoverInv'
  <2>1. \A o \in Parts : Settled(o) => Settled(o)'
    <3> SUFFICES ASSUME NEW o \in Parts, Settled(o) PROVE Settled(o)'
      OBVIOUS
    <3>1. FeeMarker(o, cell[o]) \in Markers
      BY MarkersMade DEF TypeOK
    <3> QED BY <1>2, <1>3, <3>1 DEF Settled, Journaled, FeeMarker
  <2>2. \A o \in Parts : PlannedNow(o) => PlannedNow(o)'
    BY <1>2 DEF PlannedNow
  <2> QED BY <1>2, <2>1, <2>2 DEF CoverInv
<1>6. PlanInv'
  <2> SUFFICES ASSUME NEW p \in plan
               PROVE  Journaled(FeeMarker(p[1], p[2]))'
    BY <1>2 DEF PlanInv, FeeMarker, Journaled
  <2>1. p[1] \in Parts /\ p[2] \in FeeState
    BY <1>2 DEF PlanInv
  <2>2. FeeMarker(p[1], p[2]) \in Markers
    BY <2>1, MarkersMade
  <2> QED BY <1>2, <1>3, <2>2 DEF Journaled, FeeMarker
<1> QED BY <1>1, <1>4, <1>5, <1>6

LEMMA InvInReconciliation ==
  ASSUME IInv, Reconciliation
  PROVE  IInv'
<1>1. CASE StartReconciliation
  BY <1>1, InvInStarts
<1>2. CASE FetchedForReconciliation
  <2>1. TypeOK'
    BY <1>2, TypesInReconciliation DEF IInv
  <2> QED BY <1>2, <2>1
    DEF FetchedForReconciliation, IInv, JobInv, AnswerInv, CoverInv, Settled,
        Journaled, PlanInv, LabelInv, RefreshInv
<1>3. CASE RefuseDegraded \/ EndReconciliation
  <2>1. TypeOK'
    BY <1>3, TypesInReconciliation DEF IInv
  <2> QED BY <1>3, <2>1, InvAtEnd DEF RefuseDegraded, EndReconciliation
<1>4. CASE BackupFees
  <2>1. TypeOK'
    BY <1>4, TypesInReconciliation DEF IInv
  <2>2. CoverInv'
    BY <1>4 DEF IInv, BackupFees, CoverInv, Settled, Journaled, PlannedNow
  <2> QED BY <1>4, <2>1, <2>2
    DEF BackupFees, IInv, JobInv, AnswerInv, PlanInv, LabelInv, RefreshInv
<1>5. CASE PlanFees \/ WriteFees \/ AuditFees
  BY <1>5, InvInPlan, InvInWrite, InvInAudit
<1> QED BY <1>1, <1>2, <1>3, <1>4, <1>5 DEF Reconciliation

LEMMA InvInPayments ==
  ASSUME IInv, Payments
  PROVE  IInv'
<1> USE DEF IInv
<1>1. TypeOK'
  BY TypesInPayments
<1>2. CASE StartPayments
  BY <1>2, InvInStarts
<1>3. CASE RefuseNoCandidates \/ NothingToCorrect \/ EndPayments
  BY <1>1, <1>3, InvAtEnd DEF RefuseNoCandidates, NothingToCorrect, EndPayments
<1>4. CASE Preview \/ PlanPayments \/ BackupPayments \/ AuditPayments \/ WritePayments
  <2>1. /\ pc \in {"settled", "correct", "secure", "record", "label"}
        /\ pc' \in {"correct", "secure", "record", "label"}
        /\ UNCHANGED <<job, ids, answers, asked, edited>>
    BY <1>4
    DEF Preview, PlanPayments, BackupPayments, AuditPayments, WritePayments
  <2>2. JobInv' /\ AnswerInv' /\ CoverInv' /\ PlanInv' /\ RefreshInv'
    BY <2>1 DEF JobInv, AnswerInv, CoverInv, PlanInv, RefreshInv
  <2>3. LabelInv'
    <3>1. CASE Preview
      BY <3>1 DEF Preview, LabelInv
    <3>2. CASE PlanPayments
      BY <3>2 DEF PlanPayments, LabelInv, Correctable
    <3>3. CASE BackupPayments
      BY <3>3 DEF BackupPayments, LabelInv
    <3>4. CASE AuditPayments
      <4>1. \A m \in Markers : m \in {PayMarker(o) : o \in plan} => Journaled(m)'
        BY <3>4, MissingAdded DEF AuditPayments, TypeOK
      <4>2. plan \subseteq Cards
        BY <3>4 DEF AuditPayments, LabelInv
      <4>3. \A o \in plan : Journaled(PayMarker(o))'
        <5> SUFFICES ASSUME NEW o \in plan PROVE Journaled(PayMarker(o))'
          OBVIOUS
        <5>1. PayMarker(o) \in Markers
          BY <4>2, MarkersMade
        <5> QED BY <4>1, <5>1 DEF Journaled, PayMarker
      <4> QED BY <3>4, <4>3 DEF AuditPayments, LabelInv
    <3>5. CASE WritePayments
      <4>1. PICK batch \in SUBSET todo :
              /\ pay' = [o \in Cards |-> IF o \in batch THEN "prom" ELSE pay[o]]
              /\ todo' = todo \ batch
        BY <3>5 DEF WritePayments
      <4>2. todo \subseteq Cards
        BY <3>5 DEF WritePayments, LabelInv
      <4> QED BY <3>5, <4>1, <4>2 DEF WritePayments, LabelInv, Journaled
    <3> QED BY <1>4, <3>1, <3>2, <3>3, <3>4, <3>5
  <2> QED BY <1>1, <2>2, <2>3
<1> QED BY <1>2, <1>3, <1>4 DEF Payments

LEMMA InvInCrash ==
  ASSUME IInv, Crash
  PROVE  IInv'
<1>1. TypeOK'
  <2>1. faults' \in 0 .. MaxFaults
    BY InstallmentsAssumption DEF Crash, IInv, TypeOK
  <2>2. EndJob /\ UNCHANGED <<prom, book, disturbances>>
    BY DEF Crash
  <2> QED BY <2>1, <2>2, TypesAtEnd DEF IInv, TypeOK
<1> QED BY <1>1, InvAtEnd DEF Crash

LEMMA InvInDisturbance ==
  ASSUME IInv, Disturbance
  PROVE  IInv'
<1> USE DEF IInv
<1>1. UNCHANGED <<cell, journal, pc, job, ids, answers, todo, failures, skipped, plan, asked>>
  BY DEF Disturbance, FeeMoves, Refund, EditLabel, EditNumber
<1> disturbances' \in 0 .. MaxDisturbances
  BY InstallmentsAssumption
  DEF Disturbance, FeeMoves, Refund, EditLabel, EditNumber, TypeOK
<1>2. ASSUME NEW o \in Parts, FeeMoves(o) \/ Refund(o) PROVE IInv'
  <2>1. TypeOK'
    BY <1>2 DEF TypeOK, FeeMoves, Refund
  <2>2. CoverInv'
    BY <1>1, <1>2 DEF CoverInv, Settled, Journaled, PlannedNow, FeeMoves, Refund
  <2> QED BY <1>1, <1>2, <2>1, <2>2
    DEF JobInv, AnswerInv, Degraded, PlanInv, LabelInv, RefreshInv, FeeMoves, Refund,
        Journaled
<1>3. ASSUME NEW o \in Cards, EditLabel(o) PROVE IInv'
  <2>1. TypeOK'
    BY <1>3 DEF TypeOK, EditLabel
  <2>2. CoverInv'
    <3>1. edited \subseteq edited' /\ UNCHANGED renumbered
      BY <1>3 DEF EditLabel
    <3>2. \A p \in Parts : /\ Settled(p)' <=> Settled(p)
                           /\ PlannedNow(p)' <=> PlannedNow(p)
      BY <1>1 DEF Settled, Journaled, PlannedNow
    <3> QED BY <1>1, <3>1, <3>2 DEF CoverInv
  <2>3. LabelInv'
    <3>1. pc \in {"secure", "record", "label"} => edited' = edited \cup {o}
      BY <1>3 DEF EditLabel
    <3>2. \A p \in Cards \ {o} : pay'[p] = pay[p]
      BY <1>3 DEF EditLabel, TypeOK
    <3> QED BY <1>1, <3>1, <3>2 DEF LabelInv, Journaled
  <2>4. RefreshInv'
    <3>1. pc = "rewrite" => edited' = edited \cup {o}
      BY <1>3 DEF EditLabel
    <3>2. \A p \in Cards \ {o} : pay'[p] = pay[p]
      BY <1>3 DEF EditLabel, TypeOK
    <3> QED BY <1>1, <3>1, <3>2 DEF RefreshInv
  <2> QED BY <1>1, <2>1, <2>2, <2>3, <2>4
    DEF JobInv, AnswerInv, Degraded, PlanInv, Journaled
<1>4. ASSUME NEW o \in Parts \cup Cards, EditNumber(o) PROVE IInv'
  <2>1. TypeOK'
    BY <1>4 DEF TypeOK, EditNumber
  <2>2. CoverInv'
    <3>1. \A p \in Parts : p \notin edited' \cup renumbered' /\ job # "none"
                             => p \notin edited \cup renumbered
      BY <1>4 DEF EditNumber
    <3>2. \A p \in Parts : /\ Settled(p)' <=> Settled(p)
                           /\ PlannedNow(p)' <=> PlannedNow(p)
      BY <1>1 DEF Settled, Journaled, PlannedNow
    <3> QED BY <1>1, <3>1, <3>2 DEF CoverInv, JobInv
  <2>3. LabelInv' /\ RefreshInv'
    BY <1>1, <1>4 DEF LabelInv, RefreshInv, Journaled, EditNumber
  <2> QED BY <1>1, <2>1, <2>2, <2>3
    DEF JobInv, AnswerInv, Degraded, PlanInv, Journaled
<1> QED BY <1>2, <1>3, <1>4 DEF Disturbance

LEMMA InvInductive == IInv /\ [Next]_vars => IInv'
<1> SUFFICES ASSUME IInv, [Next]_vars PROVE IInv'
  OBVIOUS
<1>1. CASE Sync
  BY <1>1, InvInStarts, InvInSync DEF Sync
<1>2. CASE UNCHANGED vars
  BY <1>2
  DEF vars, IInv, TypeOK, JobInv, AnswerInv, Degraded, CoverInv, Settled,
      Journaled, PlannedNow, PlanInv, LabelInv, RefreshInv
<1> QED BY <1>1, <1>2, InvInFetch, InvInReconciliation, InvInPayments, InvInCrash,
           InvInDisturbance DEF Next

LEMMA Invariant == Spec => []IInv
BY InvInitially, InvInductive, PTL DEF Spec

-----------------------------------------------------------------------------
(* The theorems.                                                           *)

\* Every reachable state is well typed, and no marker is in the audit sheet
\* twice, for any orders, fees, limits and bounds.
THEOREM TypeCorrect == Spec => []TypeOK
<1>1. IInv => TypeOK
  BY DEF IInv
<1> QED BY <1>1, Invariant, PTL

\* A reconciliation that comes to its end leaves no fee it has asked about
\* without its marker.
THEOREM FeesJournaled == Spec => []ReconciledIsJournaled
<1>1. IInv => ReconciledIsJournaled
  <2> SUFFICES ASSUME IInv, pc = "reconciled",
                      NEW o \in asked \ (refunded \cup edited), o \notin renumbered,
                      cell[o].source = "reported"
               PROVE  Journaled(FeeMarker(o, cell[o]))
    BY DEF ReconciledIsJournaled
  <2>1. o \in Parts
    BY DEF IInv, TypeOK
  <2>2. PlannedNow(o) \/ Settled(o)
    BY <2>1 DEF IInv, CoverInv
  <2>3. CASE PlannedNow(o)
    BY <2>3 DEF PlannedNow, IInv, PlanInv
  <2> QED BY <2>2, <2>3 DEF Settled
<1> QED BY <1>1, Invariant, PTL

\* Who changes the fee of a row, and how.
LEMMA FeesChange ==
  ASSUME IInv, [Next]_vars, NEW o \in Parts, cell'[o] # cell[o]
  PROVE  /\ cell'[o] = Resolve(cell[o], answers[o])
         /\ job = "reconcile" => pc = "write" /\ o \in ids
<1>1. CASE WriteRefresh
  <2>1. job = "sync"
    BY <1>1 DEF WriteRefresh, IInv, JobInv
  <2> QED BY <1>1, <2>1, FeesRefreshed
<1>2. CASE WriteFees
  BY <1>2, FeesWritten DEF WriteFees
<1>3. ASSUME ~ WriteRefresh, ~ WriteFees PROVE UNCHANGED cell
  <2>1. CASE Sync \/ Fetch
    BY <1>3, <2>1
    DEF Sync, StartSync, FetchedForSync, PlanRefresh, Fetch, ListOrders, SkipDetails, AskDetail,
        DetailFails
  <2>2. CASE Reconciliation
    BY <1>3, <2>2
    DEF Reconciliation, StartReconciliation, FetchedForReconciliation, RefuseDegraded,
        PlanFees, BackupFees, AuditFees, EndReconciliation
  <2>3. CASE Payments
    BY <2>3
    DEF Payments, StartPayments, RefuseNoCandidates, Preview, NothingToCorrect,
        PlanPayments, BackupPayments, AuditPayments, WritePayments, EndPayments
  <2>4. CASE Crash \/ Disturbance \/ UNCHANGED vars
    BY <2>4 DEF Crash, Disturbance, FeeMoves, Refund, EditLabel, EditNumber, vars
  <2> QED BY <2>1, <2>2, <2>3, <2>4 DEF Next
<1> QED BY <1>1, <1>2, <1>3

\* A positive fee that is no estimate gives way only to one Prom has named in
\* the same job, whatever calls fail and whichever job writes.
THEOREM FeesSurvive == Spec => KnownFeesSurvive
<1>1. ASSUME IInv, [Next]_vars, NEW o \in Parts,
             cell[o].amount > 0, cell[o].source \notin Estimated,
             cell'[o].amount # cell[o].amount
      PROVE  o \in asked /\ cell'[o].source = "reported"
  <2>1. cell'[o] = Resolve(cell[o], answers[o])
    BY <1>1, FeesChange
  <2>2. cell[o] \in FeeState /\ answers[o] \in FeeState
    BY <1>1 DEF IInv, TypeOK
  <2>3. answers[o].source = "reported"
    BY <1>1, <2>1, <2>2, ResolveReturns
  <2> QED BY <1>1, <2>1, <2>2, <2>3, ResolveReturns DEF IInv, AnswerInv
<1>2. IInv /\ [Next]_vars =>
        [\A o \in Parts :
           /\ cell[o].amount > 0 /\ cell[o].source \notin Estimated
           /\ cell'[o].amount # cell[o].amount
           => o \in asked /\ cell'[o].source = "reported"]_vars
  BY <1>1
<1> QED BY <1>2, Invariant, PTL DEF Spec, KnownFeesSurvive

\* The reconciliation puts an order to "unresolved" only after Prom itself, in
\* the same job, had no fee for it.
THEOREM SilenceIsNoAnswer == Spec => UnresolvedOnlyIfAsked
<1>1. ASSUME IInv, [Next]_vars, NEW o \in Parts, job = "reconcile",
             cell[o].amount > 0, cell'[o] = Unresolved
      PROVE  o \in asked
  <2>1. cell[o] \in FeeState /\ answers[o] \in FeeState
    BY <1>1 DEF IInv, TypeOK
  <2>2. cell'[o] # cell[o] /\ cell'[o].amount # cell[o].amount
    <3>1. cell'[o].amount = 0
      BY <1>1 DEF Unresolved
    <3> QED BY <1>1, <3>1
  <2>3. cell'[o] = Resolve(cell[o], answers[o]) /\ pc = "write" /\ o \in ids
    BY <1>1, <2>2, FeesChange
  <2>4. answers[o].source \in {"reported", "unresolved"}
    BY <1>1, <2>1, <2>2, <2>3, ResolveReturns
  <2> QED BY <1>1, <2>3, <2>4 DEF IInv, AnswerInv
<1>2. IInv /\ [Next]_vars =>
        [\A o \in Parts :
           /\ job = "reconcile"
           /\ cell[o].amount > 0 /\ cell'[o] = Unresolved
           => o \in asked]_vars
  BY <1>1
<1> QED BY <1>2, Invariant, PTL DEF Spec, UnresolvedOnlyIfAsked

\* The correction changes no label that is not in the audit sheet by then, and no
\* protected label becomes "prom" at either job's hand unless it was protected
\* between that job's read and its write.
THEOREM LabelsAfterJournal == Spec => LabelsJournaledFirst
<1>1. ASSUME IInv, [Next]_vars, NEW o \in Cards, pay'[o] = "prom", pay[o] # "prom"
      PROVE  /\ job = "payments" => Journaled(PayMarker(o))
             /\ pay[o] = "cod" \/ o \in edited
  <2>1. CASE WriteRefresh
    <3>1. job = "sync"
      BY <1>1, <2>1 DEF WriteRefresh, IInv, JobInv
    <3> QED BY <1>1, <2>1, <3>1, LabelsRefreshed
  <2>2. CASE WritePayments
    <3>1. o \in todo
      BY <1>1, <2>2 DEF WritePayments
    <3> QED BY <1>1, <2>2, <3>1 DEF WritePayments, IInv, LabelInv
  <2>3. ASSUME NEW p \in Cards, EditLabel(p) PROVE FALSE
    BY <1>1, <2>3 DEF EditLabel, IInv, TypeOK
  <2>4. ASSUME ~ WriteRefresh, ~ WritePayments, \A p \in Cards : ~ EditLabel(p)
        PROVE  UNCHANGED pay
    <3>1. CASE Sync \/ Fetch
      BY <2>4, <3>1
      DEF Sync, StartSync, FetchedForSync, PlanRefresh, Fetch, ListOrders, SkipDetails, AskDetail,
          DetailFails
    <3>2. CASE Reconciliation
      BY <3>2
      DEF Reconciliation, StartReconciliation, FetchedForReconciliation, RefuseDegraded,
          PlanFees, BackupFees, WriteFees, AuditFees, EndReconciliation
    <3>3. CASE Payments
      BY <2>4, <3>3
      DEF Payments, StartPayments, RefuseNoCandidates, Preview, NothingToCorrect,
          PlanPayments, BackupPayments, AuditPayments, EndPayments
    <3>4. CASE Crash \/ Disturbance \/ UNCHANGED vars
      BY <2>4, <3>4 DEF Crash, Disturbance, FeeMoves, Refund, EditNumber, vars
    <3> QED BY <1>1, <3>1, <3>2, <3>3, <3>4 DEF Next
  <2> QED BY <1>1, <2>1, <2>2, <2>3, <2>4
<1>2. IInv /\ [Next]_vars =>
        [\A o \in Cards :
           pay'[o] = "prom" /\ pay[o] # "prom" =>
             /\ job = "payments" => Journaled(PayMarker(o))
             /\ pay[o] = "cod" \/ o \in edited]_vars
  BY <1>1
<1> QED BY <1>2, Invariant, PTL DEF Spec, LabelsJournaledFirst

=============================================================================
