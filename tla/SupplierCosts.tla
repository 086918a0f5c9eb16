---------------------------- MODULE SupplierCosts ----------------------------
(***************************************************************************)
(* The cost column of the CRM worksheet: the prices two suppliers list in  *)
(* sheets of their own (IMAXI in hryvnias by parcel, Melad in dollars by   *)
(* parcel and product), resolved by SyncService and written by             *)
(* update_supplier_costs at the dollar rate the manager enters.            *)
(*                                                                         *)
(* Each order row has a parcel (ttn), a product code, a cost and the       *)
(* hidden columns that remember where the cost came from. The worksheet is *)
(* read twice before it is written, in several requests, and the manager   *)
(* works on it meanwhile.                                                  *)
(***************************************************************************)
EXTENDS Naturals, Sequences, FiniteSets, FiniteSetsExt

CONSTANTS
  Size,             \* number of order rows
  Ttns,             \* tracking numbers
  Codes,            \* product codes
  MeladSheets,      \* what Melad's sheet may list
  ImaxiPrice,       \* the price IMAXI asks for a parcel
  Manual,           \* the cost a manager enters
  MaxRate,          \* bound on the daily rate; 0 stands for none or a bad one
  BatchSize,        \* bundles of one write request
  MaxDisturbances,  \* bound on what managers and suppliers do
  MaxFaults         \* bound on failed requests, failed suppliers and lost runs

Suppliers == {"imaxi", "melad"}
Positions == 1 .. Size
AnyCode   == "any"
Keys      == Ttns \X (Codes \cup {AnyCode})
Phases    == {"fetch", "read", "reread", "write", "journal", "warned", "end"}

\* A line of Melad's sheet; price 0: the line has no usable price.
Item == [ttn : Ttns, code : Codes \cup {AnyCode}, price : Nat]

ASSUME SupplierAssumption ==
  /\ Size \in Nat \ {0} /\ AnyCode \notin Codes
  /\ MeladSheets \subseteq Seq(Item)
  /\ ImaxiPrice \in Nat \ {0} /\ Manual \in Nat \ {0}
  /\ MaxRate \in Nat \ {0} /\ BatchSize \in Nat \ {0}
  /\ MaxDisturbances \in Nat /\ MaxFaults \in Nat

VARIABLES
  melad,     \* the lines of Melad's sheet
  imaxi,     \* the price IMAXI's sheet has for a parcel, 0 for none
  rows,      \* the order rows of the worksheet
  rate,      \* the day's dollar rate in the worksheet
  pc,        \* the request that comes next
  offers,    \* the resolved prices of the run
  snap, snapRate,  \* the first read
  latest,    \* the second read
  todo,      \* positions still to be written
  events,    \* positions the run is going to report
  done,      \* observed: positions the run has written
  journal,   \* observed: positions the run has reported
  late,      \* observed: positions the manager changed after the second read
  disturbances, faults

suppliers == <<melad, imaxi>>
locals    == <<offers, snap, snapRate, latest, todo, events, done, journal, late>>
vars      == <<suppliers, rows, rate, pc, locals, disturbances, faults>>

-----------------------------------------------------------------------------
(* What the suppliers offer.                                               *)

NoRecord == [source |-> "none", price |-> 0]

ItemsOf(items, t) == {i \in DOMAIN items : items[i].ttn = t}

\* fetch_costs of Melad: a price for a product whose usable lines agree; one
\* for the whole parcel only when the parcel has a single line.
MeladPrice(items, t, c) ==
  LET lines  == IF c = AnyCode THEN ItemsOf(items, t)
                ELSE {i \in ItemsOf(items, t) : items[i].code = c}
      prices == {items[i].price : i \in lines} \ {0}
  IN  IF (\E p \in prices : prices = {p}) /\ (c = AnyCode => Cardinality(lines) = 1)
      THEN CHOOSE p \in prices : TRUE ELSE 0

MeladLists(items, t) == \E c \in Codes \cup {AnyCode} : MeladPrice(items, t, c) > 0

\* _resolve_supplier_costs: a parcel both suppliers list has no price at all.
Resolved(items, uah) ==
  [k \in Keys |->
     LET usd == MeladPrice(items, k[1], k[2]) IN
     CASE MeladLists(items, k[1]) /\ uah[k[1]] = 0 /\ usd > 0 ->
            [source |-> "melad", price |-> usd]
       [] ~ MeladLists(items, k[1]) /\ uah[k[1]] > 0 /\ k[2] = AnyCode ->
            [source |-> "imaxi", price |-> uah[k[1]]]
       [] OTHER -> NoRecord]

\* _with_melad_provenance_fallbacks: what Melad no longer lists keeps the price
\* of the first row that has it.
WithProvenance(o, s) ==
  [k \in Keys |->
     LET own == {i \in Positions : s[i].source = "melad" /\ <<s[i].ttn, s[i].code>> = k}
     IN  IF o[k] = NoRecord /\ o[<<k[1], AnyCode>>] = NoRecord /\ own # {}
         THEN [source |-> "melad", price |-> s[Min(own)].price]
         ELSE o[k]]

-----------------------------------------------------------------------------
(* What update_supplier_costs writes.                                      *)

Alone(s, t) == Cardinality({i \in Positions : s[i].ttn = t}) = 1

\* The record of a row: its product's, or that of a parcel with one row.
RecordOf(o, s, i) ==
  LET all   == WithProvenance(o, s)
      exact == all[<<s[i].ttn, s[i].code>>]
      any   == all[<<s[i].ttn, AnyCode>>]
  IN  CASE exact # NoRecord -> exact
        [] exact = NoRecord /\ Alone(s, s[i].ttn) -> any
        [] OTHER -> NoRecord

InHryvnias(rec, r) == IF rec.source = "melad" THEN rec.price * r ELSE rec.price

\* Mutant: a row without a daily rate is a candidate, too.
CandidatesWithoutRate(o, s, r) ==
  {i \in Positions :
     LET rec == RecordOf(o, s, i) IN
     /\ rec # NoRecord
     /\ s[i].cost = 0 \/ (rec.source = "melad" /\ s[i].source = "melad")}

\* Mutant: only blank cells are filled, nothing is recalculated.
CandidatesBlank(o, s, r) ==
  {i \in Positions :
     LET rec == RecordOf(o, s, i) IN
     /\ rec # NoRecord /\ s[i].cost = 0
     /\ rec.source = "melad" => r > 0}

\* _discover_supplier_cost_candidates: blank cells, and dollar prices whose
\* cell came from the same supplier.
Candidates(o, s, r) ==
  {i \in Positions :
     LET rec == RecordOf(o, s, i) IN
     /\ rec # NoRecord
     /\ s[i].cost = 0 \/ (rec.source = "melad" /\ s[i].source = "melad")
     /\ rec.source = "melad" => r > 0}

Planned(i) == RecordOf(offers, snap, i)

\* Mutant: the second read looks for the parcel, not for the cost.
ConfirmedByParcel(i) ==
  /\ rows[i].ttn = snap[i].ttn /\ rows[i].code = snap[i].code
  /\ Planned(i).source = "melad" => rate = snapRate

\* Mutant: the second read looks for the cost, not for the parcel.
ConfirmedByCost(i) ==
  /\ rows[i].cost = 0 \/ rows[i].source = Planned(i).source
  /\ Planned(i).source = "melad" => rate = snapRate

\* The second read still has the row, its cell and the rate.
Confirmed(i) ==
  /\ rows[i].ttn = snap[i].ttn /\ rows[i].code = snap[i].code
  /\ rows[i].cost = 0 \/ rows[i].source = Planned(i).source
  /\ Planned(i).source = "melad" => rate = snapRate

\* Mutant: the cost goes out without its origin.
WrittenRowWithoutOrigin(i) ==
  [rows[i] EXCEPT !.cost = InHryvnias(Planned(i), snapRate), !.by = "run"]

\* _append_supplier_cost_cell_updates: the cost and its origin.
WrittenRow(i) ==
  [rows[i] EXCEPT !.cost = InHryvnias(Planned(i), snapRate), !.by = "run",
                  !.source = Planned(i).source, !.price = Planned(i).price]

-----------------------------------------------------------------------------
Blank(t, c) == [ttn |-> t, code |-> c, cost |-> 0, source |-> "none",
                price |-> 0, by |-> "nobody"]

NoOffers == [k \in Keys |-> NoRecord]

\* New rows, without any cost yet.
Init ==
  /\ melad \in MeladSheets
  /\ imaxi \in [Ttns -> {0, ImaxiPrice}]
  /\ rows \in [Positions -> {Blank(t, c) : t \in Ttns, c \in Codes}]
  /\ rate \in 0 .. MaxRate
  /\ pc = "fetch" /\ offers = NoOffers
  /\ snap = <<>> /\ snapRate = 0 /\ latest = <<>>
  /\ todo = {} /\ events = {} /\ done = {} /\ journal = {} /\ late = {}
  /\ disturbances = 0 /\ faults = 0

EndRun ==
  /\ pc' = "fetch" /\ offers' = NoOffers
  /\ snap' = <<>> /\ snapRate' = 0 /\ latest' = <<>>
  /\ todo' = {} /\ events' = {} /\ done' = {} /\ journal' = {} /\ late' = {}

FaultWhen(failed) ==
  /\ failed => faults < MaxFaults
  /\ faults' = IF failed THEN faults + 1 ELSE faults

\* _fetch_supplier_costs: a supplier that cannot be read lists nothing.
FetchCosts ==
  /\ pc = "fetch" /\ pc' = "read"
  /\ \E down \in SUBSET Suppliers :
       /\ FaultWhen(down # {})
       /\ offers' = Resolved(IF "melad" \in down THEN <<>> ELSE melad,
                             IF "imaxi" \in down THEN [t \in Ttns |-> 0] ELSE imaxi)
  /\ UNCHANGED <<suppliers, rows, rate, snap, snapRate, latest, todo, events,
                 done, journal, late, disturbances>>

NothingToWrite ==
  /\ pc = "read"
  /\ Candidates(offers, rows, rate) = {}
  /\ EndRun
  /\ UNCHANGED <<suppliers, rows, rate, disturbances, faults>>

ReadCosts ==
  /\ pc = "read" /\ pc' = "reread"
  /\ Candidates(offers, rows, rate) # {}
  /\ snap' = rows /\ snapRate' = rate
  /\ UNCHANGED <<suppliers, rows, rate, offers, latest, todo, events, done,
                 journal, late, disturbances, faults>>

\* The second read decides what is written and reported.
RereadCosts ==
  /\ pc = "reread" /\ pc' = "write"
  /\ latest' = rows
  /\ todo' = {i \in Candidates(offers, snap, snapRate) :
                /\ Confirmed(i)
                /\ rows[i].cost # InHryvnias(Planned(i), snapRate)}
  /\ events' = todo'
  /\ UNCHANGED <<suppliers, rows, rate, offers, snap, snapRate, done, journal,
                 late, disturbances, faults>>

\* One request: the first bundles, each with the cost and its origin.
WriteCosts ==
  LET batch == {i \in todo : Cardinality({j \in todo : j < i}) < BatchSize} IN
  /\ pc = "write" /\ todo # {}
  /\ rows' = [i \in Positions |-> IF i \in batch THEN WrittenRow(i) ELSE rows[i]]
  /\ todo' = todo \ batch
  /\ done' = done \cup batch
  /\ UNCHANGED <<suppliers, rate, pc, offers, snap, snapRate, latest, events,
                 journal, late, disturbances, faults>>

\* The formulas that depend on the costs are written last.
WriteFormulas ==
  /\ pc = "write" /\ pc' = "journal"
  /\ todo = {}
  /\ UNCHANGED <<suppliers, rows, rate, locals, disturbances, faults>>

\* Mutant: the events of a failed write are reported.
FailedWriteReported ==
  /\ pc = "write" /\ pc' = "journal"
  /\ FaultWhen(TRUE)
  /\ todo' = {}
  /\ UNCHANGED <<suppliers, rows, rate, offers, snap, snapRate, latest, events,
                 done, journal, late, disturbances>>

\* A failed request is a warning; the result, with its events, is not there.
WriteFails ==
  /\ pc = "write" /\ pc' = "warned"
  /\ FaultWhen(TRUE)
  /\ todo' = {} /\ events' = {}
  /\ UNCHANGED <<suppliers, rows, rate, offers, snap, snapRate, latest, done,
                 journal, late, disturbances>>

AppendSupplierAudit ==
  /\ pc = "journal" /\ pc' = "end"
  /\ journal' = events
  /\ UNCHANGED <<suppliers, rows, rate, offers, snap, snapRate, latest, todo,
                 events, done, late, disturbances, faults>>

GoOn ==
  /\ pc \in {"end", "warned"}
  /\ EndRun
  /\ UNCHANGED <<suppliers, rows, rate, disturbances, faults>>

\* A failed read or audit request, the step timeout or a lost runner.
Crash ==
  /\ pc # "fetch"
  /\ FaultWhen(TRUE)
  /\ EndRun
  /\ UNCHANGED <<suppliers, rows, rate, disturbances>>

RunStep == \/ FetchCosts \/ NothingToWrite \/ ReadCosts \/ RereadCosts
           \/ WriteCosts \/ WriteFormulas \/ AppendSupplierAudit \/ GoOn

-----------------------------------------------------------------------------
(* The manager and the suppliers.                                          *)

Disturb ==
  /\ disturbances < MaxDisturbances
  /\ disturbances' = disturbances + 1
  /\ UNCHANGED <<pc, offers, snap, snapRate, latest, todo, events, done,
                 journal, faults>>

NoteLate(S) == late' = IF pc = "write" THEN late \cup S ELSE late

\* The hidden columns stay as they are.
EditCost(i) ==
  /\ Disturb
  /\ \E v \in {0, Manual} \ {rows[i].cost} :
       rows' = [rows EXCEPT ![i].cost = v,
                            ![i].by = IF v = 0 THEN "nobody" ELSE "manager"]
  /\ NoteLate({i})
  /\ UNCHANGED <<suppliers, rate>>

\* The parcel is sent anew, or goes with another order's.
EditTtn(i) ==
  /\ Disturb
  /\ \E t \in Ttns \ {rows[i].ttn} : rows' = [rows EXCEPT ![i].ttn = t]
  /\ NoteLate({i})
  /\ UNCHANGED <<suppliers, rate>>

SwapRows(i, j) ==
  /\ Disturb
  /\ rows[i] # rows[j]
  /\ rows' = [rows EXCEPT ![i] = rows[j], ![j] = rows[i]]
  /\ NoteLate({i, j})
  /\ UNCHANGED <<suppliers, rate>>

EditRate ==
  /\ Disturb
  /\ rate' \in (0 .. MaxRate) \ {rate}
  /\ UNCHANGED <<suppliers, rows, late>>

MeladEdits ==
  /\ Disturb
  /\ melad' \in MeladSheets \ {melad}
  /\ UNCHANGED <<imaxi, rows, rate, late>>

ImaxiEdits ==
  /\ Disturb
  /\ \E t \in Ttns : imaxi' = [imaxi EXCEPT ![t] = ImaxiPrice - @]
  /\ UNCHANGED <<melad, rows, rate, late>>

Disturbance ==
  \/ EditRate \/ MeladEdits \/ ImaxiEdits
  \/ \E i \in Positions : \/ EditCost(i) \/ EditTtn(i)
                          \/ \E j \in Positions : SwapRows(i, j)

Next == RunStep \/ WriteFails \/ Crash \/ Disturbance

\* The scheduler starts runs, and no call of a run lasts for ever.
CallEnds == pc' \in Phases

Fairness == WF_pc(CallEnds)

Spec     == Init /\ [][Next]_vars
FairSpec == Spec /\ Fairness

-----------------------------------------------------------------------------
(* What must hold.                                                         *)

Row == [ttn : Ttns, code : Codes, cost : Nat, source : Suppliers \cup {"none"},
        price : Nat, by : {"nobody", "manager", "run"}]

Record == [source : Suppliers \cup {"none"}, price : Nat]

\* Every variable keeps its type; a cost somebody has entered is not zero.
TypeOK ==
  /\ melad \in MeladSheets /\ imaxi \in [Ttns -> {0, ImaxiPrice}]
  /\ rows \in [Positions -> Row] /\ rate \in 0 .. MaxRate
  /\ \A i \in Positions : rows[i].cost = 0 <=> rows[i].by = "nobody"
  /\ pc \in Phases
  /\ offers \in [Keys -> Record]
  /\ snap \in {<<>>} \cup [Positions -> Row] /\ snapRate \in 0 .. MaxRate
  /\ latest \in {<<>>} \cup [Positions -> Row]
  /\ UNION {todo, events, done, journal, late} \subseteq Positions
  /\ disturbances \in 0 .. MaxDisturbances /\ faults \in 0 .. MaxFaults

\* Whatever requests fail and whichever rows move meanwhile, a cost the run has
\* written says where it came from, and a dollar cost is a multiple of the price
\* beside it: it can always be told from a manual one and recalculated.
FilledCostsHaveOrigin ==
  \A i \in Positions :
    rows[i].by = "run" =>
      \/ rows[i].source = "imaxi" /\ rows[i].cost = rows[i].price
      \/ /\ rows[i].source = "melad"
         /\ \E r \in 1 .. MaxRate : rows[i].cost = rows[i].price * r

\* A cost the manager has entered where no supplier's cost stood before is
\* changed by no run, also when it is entered between the run's two reads.
ManualCostsUntouched ==
  [][\A i \in Positions \ late :
       rows[i].by = "manager" /\ rows[i].source = "none"
       /\ rows'[i].cost # rows[i].cost => disturbances' # disturbances]_vars

\* A run fills a row only with a price offered for that row's parcel, or with
\* the stored price of a row of the same parcel and product, even if rows were
\* moved and parcels replaced between the two reads.
CostsFitTheirParcel ==
  [][\A i \in Positions \ late :
       rows'[i].cost # rows[i].cost /\ rows'[i].by = "run" /\ disturbances' = disturbances =>
         LET found == [source |-> rows'[i].source, price |-> rows'[i].price] IN
         \/ offers[<<rows[i].ttn, rows[i].code>>] = found
         \/ offers[<<rows[i].ttn, AnyCode>>] = found
         \/ \E j \in Positions :
              /\ snap[j].ttn = rows[i].ttn /\ snap[j].code = rows[i].code
              /\ snap[j].source = found.source /\ snap[j].price = found.price]_vars

\* The journal has no cost that was not written.
JournaledCostsWereWritten == pc = "end" => journal \subseteq done

\* Melad's price gives way to that of another supplier, or to no one's if the
\* parcel has several rows and only a price for all of it is listed.
Shadowed(i) ==
  LET o == Resolved(melad, imaxi)
      t == rows[i].ttn
  IN  /\ o[<<t, rows[i].code>>] = NoRecord
      /\ o[<<t, AnyCode>>].source = "imaxi"
           \/ (o[<<t, AnyCode>>].source = "melad" /\ ~ Alone(rows, t))

AtRate(i) ==
  \/ rows[i].cost = rows[i].price * rate
  \/ rows[i].cost = InHryvnias(RecordOf(Resolved(melad, imaxi), rows, i), rate)

\* The costs that came from Melad end up at the day's rate, after any order of
\* edits, new prices, archived lines, failed suppliers and failed writes.
CostsSettle ==
  <>[](\A i \in Positions :
         rows[i].source = "melad" /\ rate > 0 => AtRate(i) \/ Shadowed(i))

(* What the documentation says and the program does not do.                *)

\* README.md: manual costs are preserved. A cost by which the manager corrects
\* one of Melad's goes with the next run: the hidden columns still name Melad.
ManualCorrectionsKept ==
  [][\A i \in Positions \ late :
       rows[i].by = "manager" /\ rows'[i].cost # rows[i].cost
         => disturbances' # disturbances]_vars

\* The warning of SyncService.run: "supplier cost write is unavailable; existing
\* cost cells were preserved". The requests before the failed one went through.
FailedWriteKeepsCosts ==
  pc = "warned" =>
    \A i \in Positions \ late :
      latest[i].cost # 0 => rows[i].cost = latest[i].cost

=============================================================================
