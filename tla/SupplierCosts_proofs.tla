------------------------ MODULE SupplierCosts_proofs ------------------------
(***************************************************************************)
(* Theorems about SupplierCosts, for any number of rows, suppliers' sheets,*)
(* rates, request sizes and bounds.                                        *)
(***************************************************************************)
EXTENDS SupplierCosts, WellFoundedInduction, TLAPS

USE DEF suppliers, locals, EndRun, FaultWhen, Disturb, NoteLate, Suppliers

-----------------------------------------------------------------------------
(* The operators.                                                          *)

\* A usable price: of a supplier, and positive.
Usable(rec) == rec \in Record /\ rec.source \in Suppliers /\ rec.price > 0

UsableOrNone(o) == \A k \in Keys : o[k] = NoRecord \/ Usable(o[k])

\* A row that names a supplier has its price.
Priced(s) == \A i \in Positions : s[i].source # "none" => s[i].price > 0

LEMMA NoRecordTyped == NoRecord \in Record /\ NoRecord.source = "none"
BY DEF NoRecord, Record

LEMMA MeladPriceTyped ==
  ASSUME NEW items \in Seq(Item), NEW t, NEW c
  PROVE  MeladPrice(items, t, c) \in Nat
<1> DEFINE lines  == IF c = AnyCode THEN ItemsOf(items, t)
                     ELSE {i \in ItemsOf(items, t) : items[i].code = c}
           prices == {items[i].price : i \in lines} \ {0}
<1>1. MeladPrice(items, t, c) =
        IF (\E p \in prices : prices = {p}) /\ (c = AnyCode => Cardinality(lines) = 1)
        THEN CHOOSE p \in prices : TRUE ELSE 0
  BY DEF MeladPrice
<1>2. prices \subseteq Nat
  <2>1. \A i \in DOMAIN items : items[i].price \in Nat
    <3>1. \A i \in DOMAIN items : items[i] \in Item
      OBVIOUS
    <3> QED BY <3>1 DEF Item
  <2>2. lines \subseteq DOMAIN items
    BY DEF ItemsOf
  <2> QED BY <2>1, <2>2
<1>3. CASE \E p \in prices : prices = {p}
  <2>1. (CHOOSE p \in prices : TRUE) \in prices
    BY <1>3
  <2>2. (CHOOSE p \in prices : TRUE) \in Nat
    BY <1>2, <2>1
  <2> QED BY <1>1, <2>2
<1>4. CASE ~ \E p \in prices : prices = {p}
  BY <1>1, <1>4
<1> QED BY <1>3, <1>4

LEMMA ResolvedUsable ==
  ASSUME NEW items \in Seq(Item), NEW uah \in [Ttns -> Nat]
  PROVE  /\ Resolved(items, uah) \in [Keys -> Record]
         /\ UsableOrNone(Resolved(items, uah))
<1> SUFFICES ASSUME NEW k \in Keys
             PROVE  /\ Resolved(items, uah)[k] \in Record
                    /\ Resolved(items, uah)[k] = NoRecord \/ Usable(Resolved(items, uah)[k])
  BY DEF UsableOrNone, Resolved
<1> DEFINE usd == MeladPrice(items, k[1], k[2])
<1>1. usd \in Nat /\ uah[k[1]] \in Nat
  BY MeladPriceTyped DEF Keys
<1>2. Resolved(items, uah)[k] =
        CASE MeladLists(items, k[1]) /\ uah[k[1]] = 0 /\ usd > 0 ->
               [source |-> "melad", price |-> usd]
          [] ~ MeladLists(items, k[1]) /\ uah[k[1]] > 0 /\ k[2] = AnyCode ->
               [source |-> "imaxi", price |-> uah[k[1]]]
          [] OTHER -> NoRecord
  BY DEF Resolved
<1> HIDE DEF usd
<1>3. CASE MeladLists(items, k[1]) /\ uah[k[1]] = 0 /\ usd > 0
  <2>1. Resolved(items, uah)[k] = [source |-> "melad", price |-> usd]
    BY <1>2, <1>3
  <2> QED BY <1>1, <1>3, <2>1 DEF Usable, Record
<1>4. CASE ~ MeladLists(items, k[1]) /\ uah[k[1]] > 0 /\ k[2] = AnyCode
  <2>1. Resolved(items, uah)[k] = [source |-> "imaxi", price |-> uah[k[1]]]
    BY <1>2, <1>4
  <2> QED BY <1>1, <1>4, <2>1 DEF Usable, Record
<1>5. CASE /\ ~ (MeladLists(items, k[1]) /\ uah[k[1]] = 0 /\ usd > 0)
           /\ ~ (~ MeladLists(items, k[1]) /\ uah[k[1]] > 0 /\ k[2] = AnyCode)
  <2>1. Resolved(items, uah)[k] = NoRecord
    BY <1>2, <1>5
  <2> QED BY <2>1, NoRecordTyped
<1> QED BY <1>3, <1>4, <1>5

LEMMA LeastPosition ==
  ASSUME NEW S \in SUBSET Positions, S # {}
  PROVE  Min(S) \in S
<1>1. S \subseteq Nat
  BY SupplierAssumption DEF Positions
<1>2. \E i \in S : \A j \in S : ~ (<<j, i>> \in OpToRel(<, Nat))
  BY <1>1, WFMin, NatLessThanWellFounded
<1>3. \A i, j \in Nat : i < j => <<i, j>> \in OpToRel(<, Nat)
  BY DEF OpToRel
<1>4. \E i \in S : \A j \in S : ~ (j < i)
  BY <1>1, <1>2, <1>3
<1>5. \E i \in S : \A j \in S : i <= j
  BY <1>1, <1>4
<1> QED BY <1>5 DEF Min

\* A price is offered for the key, or stored beside a row of it.
LEMMA ProvenanceReturns ==
  ASSUME NEW o, NEW s \in [Positions -> Row], NEW k \in Keys
  PROVE  \/ WithProvenance(o, s)[k] = o[k]
         \/ \E j \in Positions :
              /\ s[j].source = "melad" /\ <<s[j].ttn, s[j].code>> = k
              /\ WithProvenance(o, s)[k] = [source |-> "melad", price |-> s[j].price]
<1> DEFINE own == {i \in Positions : s[i].source = "melad" /\ <<s[i].ttn, s[i].code>> = k}
<1>1. WithProvenance(o, s)[k] =
        IF o[k] = NoRecord /\ o[<<k[1], AnyCode>>] = NoRecord /\ own # {}
        THEN [source |-> "melad", price |-> s[Min(own)].price]
        ELSE o[k]
  BY DEF WithProvenance
<1>2. own # {} => Min(own) \in own
  BY LeastPosition
<1> QED BY <1>1, <1>2

\* What the record of a row can be.
LEMMA RecordReturns ==
  ASSUME NEW o, NEW s \in [Positions -> Row], NEW i \in Positions
  PROVE  \/ RecordOf(o, s, i) = NoRecord
         \/ RecordOf(o, s, i) = o[<<s[i].ttn, s[i].code>>]
         \/ RecordOf(o, s, i) = o[<<s[i].ttn, AnyCode>>]
         \/ \E j \in Positions :
              /\ s[j].source = "melad" /\ s[j].ttn = s[i].ttn /\ s[j].code = s[i].code
              /\ RecordOf(o, s, i) = [source |-> "melad", price |-> s[j].price]
<1> DEFINE all   == WithProvenance(o, s)
           own   == <<s[i].ttn, s[i].code>>
           whole == <<s[i].ttn, AnyCode>>
<1>1. own \in Keys /\ whole \in Keys
  BY DEF Row, Keys
<1>2. RecordOf(o, s, i) \in {all[own], all[whole], NoRecord}
  <2>1. RecordOf(o, s, i) =
          CASE all[own] # NoRecord -> all[own]
            [] all[own] = NoRecord /\ Alone(s, s[i].ttn) -> all[whole]
            [] OTHER -> NoRecord
    BY DEF RecordOf
  <2> HIDE DEF all, own, whole
  <2>2. CASE all[own] # NoRecord
    BY <2>1, <2>2
  <2>3. CASE all[own] = NoRecord /\ Alone(s, s[i].ttn)
    BY <2>1, <2>3
  <2>4. CASE all[own] = NoRecord /\ ~ Alone(s, s[i].ttn)
    BY <2>1, <2>4
  <2> QED BY <2>2, <2>3, <2>4
<1>3. \A j \in Positions : s[j].code # AnyCode
  BY SupplierAssumption DEF Row
<1>4. \A k \in Keys :
         \/ all[k] = o[k]
         \/ \E j \in Positions :
              /\ s[j].source = "melad" /\ <<s[j].ttn, s[j].code>> = k
              /\ all[k] = [source |-> "melad", price |-> s[j].price]
  BY ProvenanceReturns
<1> HIDE DEF all
<1>5. all[whole] = o[whole]
  BY <1>1, <1>3, <1>4
<1>6. \/ all[own] = o[own]
      \/ \E j \in Positions :
           /\ s[j].source = "melad" /\ <<s[j].ttn, s[j].code>> = own
           /\ all[own] = [source |-> "melad", price |-> s[j].price]
  BY <1>1, <1>4
<1> QED BY <1>2, <1>5, <1>6

LEMMA RecordUsable ==
  ASSUME NEW o \in [Keys -> Record], UsableOrNone(o),
         NEW s \in [Positions -> Row], Priced(s), NEW i \in Positions
  PROVE  RecordOf(o, s, i) = NoRecord \/ Usable(RecordOf(o, s, i))
<1>1. <<s[i].ttn, s[i].code>> \in Keys /\ <<s[i].ttn, AnyCode>> \in Keys
  BY DEF Row, Keys
<1>2. \A j \in Positions :
        s[j].source = "melad" => Usable([source |-> "melad", price |-> s[j].price])
  <2> SUFFICES ASSUME NEW j \in Positions, s[j].source = "melad"
               PROVE  Usable([source |-> "melad", price |-> s[j].price])
    OBVIOUS
  <2>1. s[j].price \in Nat /\ s[j].price > 0
    BY DEF Row, Priced
  <2> QED BY <2>1 DEF Usable, Record
<1> QED BY <1>1, <1>2, RecordReturns DEF UsableOrNone

LEMMA CostPositive ==
  ASSUME NEW rec, Usable(rec), NEW r \in Nat, rec.source = "melad" => r > 0
  PROVE  InHryvnias(rec, r) \in Nat /\ InHryvnias(rec, r) > 0
<1>1. rec.price \in Nat /\ rec.price > 0
  BY DEF Usable, Record
<1>2. \A p, q \in Nat : p > 0 /\ q > 0 => p * q \in Nat /\ p * q > 0
  OBVIOUS
<1> QED BY <1>1, <1>2 DEF InHryvnias

-----------------------------------------------------------------------------
(* The invariant.                                                          *)

RowsInv == Priced(rows) /\ FilledCostsHaveOrigin

\* What a run knows of the offers and of its first read.
ReadInv ==
  /\ UsableOrNone(offers)
  /\ pc \in {"reread", "write"} => snap \in [Positions -> Row] /\ Priced(snap)

\* What is still to be written was confirmed, and is so until the manager
\* changes it.
TodoInv ==
  /\ pc # "write" => todo = {}
  /\ pc = "write" =>
       \A i \in todo :
         /\ Usable(Planned(i)) /\ (Planned(i).source = "melad" => snapRate > 0)
         /\ i \notin late =>
              /\ rows[i].ttn = snap[i].ttn /\ rows[i].code = snap[i].code
              /\ rows[i].cost = 0 \/ rows[i].source = Planned(i).source

\* What is reported was written.
EventInv ==
  /\ pc \in {"fetch", "read", "reread"} => events = {}
  /\ pc = "write" => events \subseteq done \cup todo
  /\ pc = "journal" => events \subseteq done
  /\ pc = "end" => journal \subseteq done

IInv == TypeOK /\ RowsInv /\ ReadInv /\ TodoInv /\ EventInv

LEMMA InvInitially == Init => IInv
<1> SUFFICES ASSUME Init PROVE IInv
  OBVIOUS
<1> USE SupplierAssumption
<1>1. \A t \in Ttns, c \in Codes : /\ Blank(t, c) \in Row
                                   /\ Blank(t, c).cost = 0 /\ Blank(t, c).by = "nobody"
                                   /\ Blank(t, c).source = "none"
  BY DEF Blank, Row
<1>2. \A i \in Positions : \E t \in Ttns, c \in Codes : rows[i] = Blank(t, c)
  BY DEF Init
<1>3. rows \in [Positions -> Row]
  BY <1>1 DEF Init
<1>4. /\ Priced(rows) /\ FilledCostsHaveOrigin
      /\ \A i \in Positions : rows[i].cost = 0 <=> rows[i].by = "nobody"
  BY <1>1, <1>2 DEF Priced, FilledCostsHaveOrigin
<1>5. offers \in [Keys -> Record] /\ UsableOrNone(offers)
  BY NoRecordTyped DEF Init, NoOffers, UsableOrNone
<1>6. 0 \in 0 .. MaxRate /\ 0 \in 0 .. MaxDisturbances /\ 0 \in 0 .. MaxFaults
  OBVIOUS
<1>7. TypeOK
  BY <1>3, <1>4, <1>5, <1>6 DEF Init, TypeOK, Phases
<1> QED BY <1>4, <1>5, <1>7 DEF Init, IInv, RowsInv, ReadInv, TodoInv, EventInv

\* The end of a run.
LEMMA InvAtEnd ==
  ASSUME IInv, EndRun, UNCHANGED <<suppliers, rows, rate, disturbances>>,
         faults' \in 0 .. MaxFaults
  PROVE  IInv'
<1>1. offers' \in [Keys -> Record] /\ UsableOrNone(offers)'
  BY NoRecordTyped DEF NoOffers, UsableOrNone
<1>2. snapRate' \in 0 .. MaxRate
  BY SupplierAssumption
<1>3. TypeOK'
  BY <1>1, <1>2 DEF IInv, TypeOK, Phases
<1>4. RowsInv'
  BY DEF IInv, RowsInv, Priced, FilledCostsHaveOrigin
<1> QED BY <1>1, <1>3, <1>4 DEF IInv, ReadInv, TodoInv, EventInv

LEMMA FaultsBounded ==
  ASSUME TypeOK, NEW failed \in BOOLEAN, FaultWhen(failed)
  PROVE  faults' \in 0 .. MaxFaults
BY SupplierAssumption DEF TypeOK

LEMMA InvInFetch ==
  ASSUME IInv, FetchCosts
  PROVE  IInv'
<1>1. PICK down \in SUBSET Suppliers :
        /\ FaultWhen(down # {})
        /\ offers' = Resolved(IF "melad" \in down THEN <<>> ELSE melad,
                              IF "imaxi" \in down THEN [t \in Ttns |-> 0] ELSE imaxi)
  BY DEF FetchCosts
<1>2. (IF "melad" \in down THEN <<>> ELSE melad) \in Seq(Item)
  BY SupplierAssumption DEF IInv, TypeOK
<1>3. (IF "imaxi" \in down THEN [t \in Ttns |-> 0] ELSE imaxi) \in [Ttns -> Nat]
  BY SupplierAssumption DEF IInv, TypeOK
<1>4. offers' \in [Keys -> Record] /\ UsableOrNone(offers')
  BY <1>1, <1>2, <1>3, ResolvedUsable
<1>5. faults' \in 0 .. MaxFaults
  BY <1>1, FaultsBounded DEF IInv
<1>6. TypeOK'
  BY <1>4, <1>5 DEF IInv, TypeOK, FetchCosts, Phases
<1>7. RowsInv' /\ TodoInv' /\ EventInv'
  BY DEF IInv, RowsInv, Priced, FilledCostsHaveOrigin, TodoInv, EventInv, FetchCosts
<1>8. ReadInv'
  BY <1>4 DEF ReadInv, FetchCosts, UsableOrNone
<1> QED BY <1>6, <1>7, <1>8 DEF IInv

LEMMA InvInRead ==
  ASSUME IInv, ReadCosts
  PROVE  IInv'
<1>1. TypeOK'
  BY DEF IInv, TypeOK, ReadCosts, Phases
<1>2. RowsInv' /\ TodoInv' /\ EventInv'
  BY DEF IInv, RowsInv, Priced, FilledCostsHaveOrigin, TodoInv, EventInv, ReadCosts
<1>3. ReadInv'
  BY DEF IInv, TypeOK, RowsInv, ReadInv, UsableOrNone, Priced, ReadCosts
<1> QED BY <1>1, <1>2, <1>3 DEF IInv

LEMMA InvInReread ==
  ASSUME IInv, RereadCosts
  PROVE  IInv'
<1> USE DEF IInv
<1>1. /\ pc = "reread" /\ pc' = "write" /\ events' = todo'
      /\ UNCHANGED <<suppliers, rows, rate, offers, snap, snapRate, done, journal,
                     late, disturbances, faults>>
  BY DEF RereadCosts
<1>2. \A i \in todo' :
        /\ i \in Positions /\ i \in Candidates(offers, snap, snapRate)
        /\ Confirmed(i)
  BY DEF RereadCosts, Candidates
<1>3. TypeOK'
  BY <1>1, <1>2 DEF RereadCosts, TypeOK, Phases
<1>4. \A i \in Positions : (Planned(i))' = Planned(i)
  BY <1>1 DEF Planned, RecordOf, WithProvenance, Alone
<1>5. TodoInv'
  <2> SUFFICES ASSUME NEW i \in todo'
               PROVE  /\ Usable(Planned(i)) /\ (Planned(i).source = "melad" => snapRate > 0)
                      /\ rows[i].ttn = snap[i].ttn /\ rows[i].code = snap[i].code
                      /\ rows[i].cost = 0 \/ rows[i].source = Planned(i).source
    BY <1>1, <1>2, <1>4 DEF TodoInv
  <2>1. Planned(i) # NoRecord /\ (Planned(i).source = "melad" => snapRate > 0)
    BY <1>2 DEF Candidates, Planned
  <2>2. Usable(Planned(i))
    BY <1>1, <1>2, <2>1, RecordUsable DEF Planned, ReadInv, TypeOK
  <2> QED BY <1>2, <2>1, <2>2 DEF Confirmed
<1>6. RowsInv' /\ ReadInv' /\ EventInv'
  BY <1>1
  DEF RowsInv, Priced, FilledCostsHaveOrigin, ReadInv, UsableOrNone, EventInv
<1> QED BY <1>3, <1>5, <1>6

\* What a request leaves in a row.
LEMMA CostsWritten ==
  ASSUME IInv, WriteCosts, NEW i \in Positions
  PROVE  \/ i \notin todo /\ rows'[i] = rows[i]
         \/ i \in todo /\ i \in todo' /\ rows'[i] = rows[i]
         \/ i \in todo /\ i \in done' /\ i \notin todo' /\ rows'[i] = WrittenRow(i)
BY DEF WriteCosts

\* A written row.
LEMMA WrittenRowHolds ==
  ASSUME IInv, pc = "write", NEW i \in todo
  PROVE  /\ WrittenRow(i) \in Row /\ WrittenRow(i).by = "run" /\ WrittenRow(i).cost > 0
         /\ WrittenRow(i).price > 0
         /\ WrittenRow(i).source = Planned(i).source
         /\ WrittenRow(i).price = Planned(i).price
         /\ \/ WrittenRow(i).source = "imaxi" /\ WrittenRow(i).cost = WrittenRow(i).price
            \/ /\ WrittenRow(i).source = "melad"
               /\ \E r \in 1 .. MaxRate : WrittenRow(i).cost = WrittenRow(i).price * r
<1>1. /\ Usable(Planned(i)) /\ (Planned(i).source = "melad" => snapRate > 0)
      /\ i \in Positions /\ rows[i] \in Row /\ snapRate \in 0 .. MaxRate
  BY DEF IInv, TodoInv, TypeOK
<1>2. InHryvnias(Planned(i), snapRate) \in Nat /\ InHryvnias(Planned(i), snapRate) > 0
  <2>1. snapRate \in Nat
    BY <1>1, SupplierAssumption
  <2> QED BY <1>1, <2>1, CostPositive
<1> DEFINE cost == InHryvnias(Planned(i), snapRate)
<1>3. WrittenRow(i) = [rows[i] EXCEPT !.cost = cost, !.by = "run",
                         !.source = Planned(i).source, !.price = Planned(i).price]
  BY DEF WrittenRow
<1>4. Planned(i).source \in Suppliers /\ Planned(i).price \in Nat /\ Planned(i).price > 0
  BY <1>1 DEF Usable, Record
<1> HIDE DEF cost
<1>5. /\ WrittenRow(i).cost = cost /\ WrittenRow(i).by = "run"
      /\ WrittenRow(i).source = Planned(i).source
      /\ WrittenRow(i).price = Planned(i).price
  BY <1>1, <1>3 DEF Row
<1>6. WrittenRow(i) \in Row
  BY <1>1, <1>2, <1>3, <1>4 DEF Row, cost
<1>7. CASE Planned(i).source = "imaxi"
  BY <1>2, <1>4, <1>5, <1>6, <1>7 DEF InHryvnias, cost
<1>8. CASE Planned(i).source = "melad"
  <2>1. cost = Planned(i).price * snapRate
    BY <1>8 DEF InHryvnias, cost
  <2>2. snapRate \in 1 .. MaxRate
    BY <1>1, <1>8, SupplierAssumption
  <2> QED BY <1>2, <1>4, <1>5, <1>6, <1>8, <2>1, <2>2 DEF cost
<1> QED BY <1>4, <1>7, <1>8

LEMMA InvInWrite ==
  ASSUME IInv, WriteCosts
  PROVE  IInv'
<1>2. \A i \in Positions : rows'[i] = rows[i] \/ (i \in todo /\ rows'[i] = WrittenRow(i))
  BY CostsWritten
<1> USE DEF IInv
<1>1. /\ pc = "write" /\ todo' \subseteq todo /\ done \subseteq done'
      /\ todo \subseteq done' \cup todo'
      /\ done' \subseteq done \cup todo
      /\ UNCHANGED <<suppliers, rate, pc, offers, snap, snapRate, latest, events,
                     journal, late, disturbances, faults>>
  BY DEF WriteCosts
<1>3. \A i \in todo' : i \in Positions /\ rows'[i] = rows[i]
  <2>1. todo' \subseteq Positions
    BY <1>1 DEF TypeOK
  <2>2. \A i \in todo' : i \notin todo \/ rows'[i] = rows[i]
    BY <2>1, CostsWritten
  <2> QED BY <1>1, <2>1, <2>2
<1>4. rows' \in [Positions -> Row]
  <2>1. \A i \in Positions : rows'[i] \in Row
    BY <1>1, <1>2, WrittenRowHolds DEF TypeOK
  <2>2. rows' = [i \in Positions |-> rows'[i]]
    BY DEF WriteCosts
  <2> QED BY <2>1, <2>2
<1>5. \A i \in Positions : rows'[i].cost = 0 <=> rows'[i].by = "nobody"
  <2>1. \A i \in todo : WrittenRow(i).cost > 0 /\ WrittenRow(i).by = "run"
    BY <1>1, WrittenRowHolds
  <2>2. \A i \in Positions : rows[i].cost = 0 <=> rows[i].by = "nobody"
    BY DEF TypeOK
  <2> QED BY <1>2, <2>1, <2>2
<1>6. TypeOK'
  BY <1>1, <1>4, <1>5 DEF TypeOK
<1>7. RowsInv'
  BY <1>1, <1>2, WrittenRowHolds DEF RowsInv, Priced, FilledCostsHaveOrigin
<1>8. ReadInv' /\ EventInv'
  BY <1>1 DEF ReadInv, UsableOrNone, EventInv
<1>9. \A i \in Positions : (Planned(i))' = Planned(i)
  BY <1>1 DEF Planned, RecordOf, WithProvenance, Alone
<1>10. TodoInv'
  BY <1>1, <1>3, <1>9 DEF TodoInv
<1> QED BY <1>6, <1>7, <1>8, <1>10

LEMMA InvAfterWrite ==
  ASSUME IInv, WriteFormulas \/ WriteFails \/ AppendSupplierAudit
  PROVE  IInv'
<1> USE DEF IInv
<1>1. faults' \in 0 .. MaxFaults
  BY FaultsBounded DEF WriteFormulas, WriteFails, AppendSupplierAudit, TypeOK
<1>2. TypeOK'
  BY <1>1 DEF WriteFormulas, WriteFails, AppendSupplierAudit, TypeOK, Phases
<1>3. RowsInv' /\ ReadInv' /\ TodoInv'
  BY DEF WriteFormulas, WriteFails, AppendSupplierAudit, RowsInv, Priced,
         FilledCostsHaveOrigin, ReadInv, UsableOrNone, TodoInv
<1>4. EventInv'
  BY DEF WriteFormulas, WriteFails, AppendSupplierAudit, EventInv
<1> QED BY <1>2, <1>3, <1>4

LEMMA InvInRun ==
  ASSUME IInv, RunStep \/ WriteFails \/ Crash
  PROVE  IInv'
<1>1. CASE NothingToWrite \/ GoOn
  <2>1. EndRun /\ UNCHANGED <<suppliers, rows, rate, disturbances, faults>>
    BY <1>1 DEF NothingToWrite, GoOn
  <2> QED BY <2>1, InvAtEnd DEF IInv, TypeOK
<1>2. CASE Crash
  <2>1. EndRun /\ FaultWhen(TRUE) /\ UNCHANGED <<suppliers, rows, rate, disturbances>>
    BY <1>2 DEF Crash
  <2>2. faults' \in 0 .. MaxFaults
    BY <2>1, FaultsBounded DEF IInv
  <2> QED BY <2>1, <2>2, InvAtEnd
<1> QED BY <1>1, <1>2, InvInFetch, InvInRead, InvInReread, InvInWrite, InvAfterWrite
        DEF RunStep

\* What the manager does to the rows.
OriginOf(r) ==
  \/ r.source = "imaxi" /\ r.cost = r.price
  \/ r.source = "melad" /\ \E q \in 1 .. MaxRate : r.cost = r.price * q

\* A row keeps the invariant if it carries on an old one, or has no cost of a run.
LEMMA RowsCarryOn ==
  ASSUME RowsInv,
         \A p \in Positions :
           \E q \in Positions :
             /\ rows'[p].source = rows[q].source /\ rows'[p].price = rows[q].price
             /\ \/ rows'[p].by # "run"
                \/ rows'[p].by = rows[q].by /\ rows'[p].cost = rows[q].cost
  PROVE  RowsInv'
<1>1. Priced(rows)'
  BY DEF RowsInv, Priced
<1>2. \A p \in Positions : rows[p].by = "run" => OriginOf(rows[p])
  BY DEF RowsInv, FilledCostsHaveOrigin, OriginOf
<1>3. \A p \in Positions : rows'[p].by = "run" => OriginOf(rows'[p])
  BY <1>2 DEF OriginOf
<1>4. FilledCostsHaveOrigin'
  BY <1>3 DEF FilledCostsHaveOrigin, OriginOf
<1> QED BY <1>1, <1>4 DEF RowsInv

LEMMA ManagerEdits ==
  ASSUME TypeOK, RowsInv, NEW i \in Positions, NEW j \in Positions,
         EditCost(i) \/ EditTtn(i) \/ SwapRows(i, j)
  PROVE  /\ rows' \in [Positions -> Row]
         /\ \A p \in Positions : rows'[p].cost = 0 <=> rows'[p].by = "nobody"
         /\ RowsInv'
         /\ \A p \in Positions : rows'[p] = rows[p] \/ (pc = "write" => p \in late')
         /\ late \subseteq late' /\ late' \subseteq Positions
<1> USE DEF TypeOK
<1>0. \A p \in Positions : rows[p].cost = 0 <=> rows[p].by = "nobody"
  OBVIOUS
<1>1. CASE EditCost(i)
  <2>1. PICK v \in {0, Manual} \ {rows[i].cost} :
          rows' = [rows EXCEPT ![i].cost = v,
                               ![i].by = IF v = 0 THEN "nobody" ELSE "manager"]
    BY <1>1 DEF EditCost
  <2>2. v \in Nat /\ (v = Manual => v # 0)
    BY SupplierAssumption
  <2> DEFINE by == IF v = 0 THEN "nobody" ELSE "manager"
  <2>3. rows' = [rows EXCEPT ![i] = [rows[i] EXCEPT !.cost = v, !.by = by]]
    BY <2>1
  <2>4. rows[i] \in Row /\ by \in {"nobody", "manager"} /\ (v = 0 <=> by = "nobody")
    OBVIOUS
  <2> HIDE DEF by
  <2>5. /\ rows'[i] = [rows[i] EXCEPT !.cost = v, !.by = by]
        /\ rows'[i] \in Row /\ rows'[i].by = by /\ rows'[i].cost = v
        /\ rows'[i].source = rows[i].source /\ rows'[i].price = rows[i].price
    BY <2>2, <2>3, <2>4 DEF Row
  <2>6. \A p \in Positions \ {i} : rows'[p] = rows[p]
    BY <2>3
  <2>7. rows' \in [Positions -> Row]
    BY <2>3, <2>5
  <2>8. late' = IF pc = "write" THEN late \cup {i} ELSE late
    BY <1>1 DEF EditCost
  <2>9. RowsInv'
    BY <2>4, <2>5, <2>6, RowsCarryOn
  <2>10. \A p \in Positions : rows'[p].cost = 0 <=> rows'[p].by = "nobody"
    <3>1. ASSUME NEW p \in Positions, p # i
          PROVE  rows'[p].cost = 0 <=> rows'[p].by = "nobody"
      BY <1>0, <2>6, <3>1
    <3>2. rows'[i].cost = 0 <=> rows'[i].by = "nobody"
      BY <2>4, <2>5
    <3> QED BY <3>1, <3>2
  <2>11. /\ \A p \in Positions : rows'[p] = rows[p] \/ (pc = "write" => p \in late')
         /\ late \subseteq late' /\ late' \subseteq Positions
    BY <2>6, <2>8
  <2> QED BY <2>7, <2>9, <2>10, <2>11
<1>2. CASE EditTtn(i)
  <2>1. PICK t \in Ttns : rows' = [rows EXCEPT ![i].ttn = t]
    BY <1>2 DEF EditTtn
  <2>2. rows[i] \in Row
    OBVIOUS
  <2>3. /\ rows'[i] = [rows[i] EXCEPT !.ttn = t] /\ rows'[i] \in Row
        /\ rows'[i].by = rows[i].by /\ rows'[i].cost = rows[i].cost
        /\ rows'[i].source = rows[i].source /\ rows'[i].price = rows[i].price
    BY <2>1, <2>2 DEF Row
  <2>4. \A p \in Positions \ {i} : rows'[p] = rows[p]
    BY <2>1
  <2>5. rows' \in [Positions -> Row]
    BY <2>1, <2>3
  <2>6. late' = IF pc = "write" THEN late \cup {i} ELSE late
    BY <1>2 DEF EditTtn
  <2>7. RowsInv'
    BY <2>3, <2>4, RowsCarryOn
  <2>8. \A p \in Positions : rows'[p].cost = 0 <=> rows'[p].by = "nobody"
    <3>1. ASSUME NEW p \in Positions, p # i
          PROVE  rows'[p].cost = 0 <=> rows'[p].by = "nobody"
      BY <1>0, <2>4, <3>1
    <3>2. rows'[i].cost = 0 <=> rows'[i].by = "nobody"
      BY <1>0, <2>3
    <3> QED BY <3>1, <3>2
  <2>9. /\ \A p \in Positions : rows'[p] = rows[p] \/ (pc = "write" => p \in late')
        /\ late \subseteq late' /\ late' \subseteq Positions
    BY <2>4, <2>6
  <2> QED BY <2>5, <2>7, <2>8, <2>9
<1>3. CASE SwapRows(i, j)
  <2>1. /\ rows' = [rows EXCEPT ![i] = rows[j], ![j] = rows[i]]
        /\ late' = IF pc = "write" THEN late \cup {i, j} ELSE late
        /\ UNCHANGED rate
    BY <1>3 DEF SwapRows
  <2>2. /\ rows'[i] = rows[j] /\ rows'[j] = rows[i]
        /\ \A p \in Positions \ {i, j} : rows'[p] = rows[p]
        /\ rows' \in [Positions -> Row]
    BY <2>1
  <2>3. \A p \in Positions : \E q \in Positions : rows'[p] = rows[q]
    BY <2>2
  <2>4. RowsInv'
    BY <2>3, RowsCarryOn
  <2>5. \A p \in Positions : rows'[p].cost = 0 <=> rows'[p].by = "nobody"
    <3> SUFFICES ASSUME NEW p \in Positions
                 PROVE  rows'[p].cost = 0 <=> rows'[p].by = "nobody"
      OBVIOUS
    <3>1. PICK q \in Positions : rows'[p] = rows[q]
      BY <2>3
    <3> QED BY <1>0, <3>1
  <2> QED BY <2>1, <2>2, <2>4, <2>5
<1> QED BY <1>1, <1>2, <1>3

LEMMA InvInDisturbance ==
  ASSUME IInv, Disturbance
  PROVE  IInv'
<1> USE DEF IInv
<1>1. /\ disturbances' \in 0 .. MaxDisturbances
      /\ UNCHANGED <<pc, offers, snap, snapRate, latest, todo, events, done, journal,
                     faults>>
  BY SupplierAssumption
  DEF Disturbance, EditRate, MeladEdits, ImaxiEdits, EditCost, EditTtn, SwapRows, TypeOK
<1>2. \A i \in Positions : (Planned(i))' = Planned(i)
  BY <1>1 DEF Planned, RecordOf, WithProvenance, Alone
<1>3. ReadInv' /\ EventInv'
  BY <1>1 DEF ReadInv, UsableOrNone, Priced, EventInv
<1>4. CASE EditRate \/ MeladEdits \/ ImaxiEdits
  <2>1. imaxi' \in [Ttns -> {0, ImaxiPrice}]
    <3>1. CASE ImaxiEdits
      <4>1. PICK t \in Ttns : imaxi' = [imaxi EXCEPT ![t] = ImaxiPrice - imaxi[t]]
        BY <3>1 DEF ImaxiEdits
      <4>2. ImaxiPrice - imaxi[t] \in {0, ImaxiPrice}
        BY SupplierAssumption DEF TypeOK
      <4> QED BY <4>1, <4>2 DEF TypeOK
    <3>2. CASE ~ ImaxiEdits
      BY <1>4, <3>2 DEF EditRate, MeladEdits, TypeOK
    <3> QED BY <3>1, <3>2
  <2>2. TypeOK'
    BY <1>1, <1>4, <2>1 DEF TypeOK, EditRate, MeladEdits, ImaxiEdits
  <2>3. UNCHANGED <<rows, late>>
    BY <1>4 DEF EditRate, MeladEdits, ImaxiEdits
  <2>4. RowsInv' /\ TodoInv'
    BY <1>1, <1>2, <2>2, <2>3
    DEF RowsInv, Priced, FilledCostsHaveOrigin, TodoInv, TypeOK
  <2> QED BY <1>3, <2>2, <2>4
<1>5. ASSUME NEW i \in Positions, NEW j \in Positions,
             EditCost(i) \/ EditTtn(i) \/ SwapRows(i, j)
      PROVE  IInv'
  <2>1. UNCHANGED <<suppliers, rate>>
    BY <1>5 DEF EditCost, EditTtn, SwapRows
  <2>2. /\ rows' \in [Positions -> Row]
        /\ \A p \in Positions : rows'[p].cost = 0 <=> rows'[p].by = "nobody"
        /\ RowsInv'
        /\ \A p \in Positions : rows'[p] = rows[p] \/ (pc = "write" => p \in late')
        /\ late \subseteq late' /\ late' \subseteq Positions
    BY <1>5, ManagerEdits
  <2>3. TypeOK'
    BY <1>1, <2>1, <2>2 DEF TypeOK
  <2>4. TodoInv'
    BY <1>1, <1>2, <2>2, <2>3 DEF TodoInv, TypeOK
  <2> QED BY <1>3, <2>2, <2>3, <2>4
<1> QED BY <1>4, <1>5 DEF Disturbance

LEMMA InvInductive == IInv /\ [Next]_vars => IInv'
<1> SUFFICES ASSUME IInv, [Next]_vars PROVE IInv'
  OBVIOUS
<1>1. CASE UNCHANGED vars
  <2>1. \A i \in Positions : (Planned(i))' = Planned(i)
    BY <1>1 DEF vars, Planned, RecordOf, WithProvenance, Alone
  <2> QED BY <1>1, <2>1
      DEF vars, IInv, TypeOK, RowsInv, Priced, FilledCostsHaveOrigin, ReadInv,
          UsableOrNone, TodoInv, EventInv
<1> QED BY <1>1, InvInRun, InvInDisturbance DEF Next

LEMMA Invariant == Spec => []IInv
BY InvInitially, InvInductive, PTL DEF Spec

-----------------------------------------------------------------------------
(* The theorems.                                                           *)

\* Every reachable state is well typed, and a cost somebody entered is not zero.
THEOREM TypeCorrect == Spec => []TypeOK
<1>1. IInv => TypeOK
  BY DEF IInv
<1> QED BY <1>1, Invariant, PTL

\* A cost the run has written says where it came from, and a dollar cost is a
\* multiple of the price beside it.
THEOREM CostsHaveOrigin == Spec => []FilledCostsHaveOrigin
<1>1. IInv => FilledCostsHaveOrigin
  BY DEF IInv, RowsInv
<1> QED BY <1>1, Invariant, PTL

\* The journal has no cost that was not written.
THEOREM JournalIsTrue == Spec => []JournaledCostsWereWritten
<1>1. IInv => JournaledCostsWereWritten
  BY DEF IInv, EventInv, JournaledCostsWereWritten
<1> QED BY <1>1, Invariant, PTL

\* Only a request of the run, or a disturbance, changes a row.
LEMMA RowsChange ==
  ASSUME TypeOK, [Next]_vars, rows' # rows
  PROVE  WriteCosts \/ disturbances' # disturbances
<1>1. CASE Disturbance
  <2>1. disturbances' = disturbances + 1
    BY <1>1
    DEF Disturbance, EditRate, MeladEdits, ImaxiEdits, EditCost, EditTtn, SwapRows
  <2>2. disturbances \in Nat
    BY SupplierAssumption DEF TypeOK
  <2> QED BY <2>1, <2>2
<1>2. CASE WriteFails \/ Crash \/ UNCHANGED vars
  BY <1>2 DEF WriteFails, Crash, vars
<1>3. CASE RunStep
  BY <1>3
  DEF RunStep, FetchCosts, NothingToWrite, ReadCosts, RereadCosts, WriteFormulas,
      AppendSupplierAudit, GoOn
<1> QED BY <1>1, <1>2, <1>3 DEF Next

\* A cost the manager has entered where no supplier's cost stood before is
\* changed by no run.
THEOREM ManualCostsStay == Spec => ManualCostsUntouched
<1>1. ASSUME IInv, [Next]_vars, NEW i \in Positions \ late,
             rows[i].by = "manager", rows[i].source = "none",
             rows'[i].cost # rows[i].cost, disturbances' = disturbances
      PROVE  FALSE
  <2>1. WriteCosts
    BY <1>1, RowsChange DEF IInv, TypeOK
  <2>2. i \in todo /\ pc = "write"
    BY <1>1, <2>1, CostsWritten DEF WriteCosts
  <2>3. rows[i].cost = 0 \/ rows[i].source = Planned(i).source
    BY <1>1, <2>2 DEF IInv, TodoInv
  <2>4. Planned(i).source # "none"
    BY <1>1, <2>2 DEF IInv, TodoInv, Usable
  <2>5. rows[i].cost # 0
    BY <1>1 DEF IInv, TypeOK
  <2> QED BY <1>1, <2>3, <2>4, <2>5
<1>2. IInv /\ [Next]_vars =>
        [\A i \in Positions \ late :
           rows[i].by = "manager" /\ rows[i].source = "none"
           /\ rows'[i].cost # rows[i].cost => disturbances' # disturbances]_vars
  BY <1>1
<1> QED BY <1>2, Invariant, PTL DEF Spec, ManualCostsUntouched

\* A run fills a row only with a price offered for that row's parcel, or with
\* the stored price of a row of the same parcel and product.
THEOREM CostsFit == Spec => CostsFitTheirParcel
<1> DEFINE Found(i) == [source |-> rows'[i].source, price |-> rows'[i].price]
           Fits(i) == \/ offers[<<rows[i].ttn, rows[i].code>>] = Found(i)
                      \/ offers[<<rows[i].ttn, AnyCode>>] = Found(i)
                      \/ \E j \in Positions :
                           /\ snap[j].ttn = rows[i].ttn /\ snap[j].code = rows[i].code
                           /\ snap[j].source = Found(i).source
                           /\ snap[j].price = Found(i).price
<1>1. ASSUME IInv, [Next]_vars, NEW i \in Positions \ late,
             rows'[i].cost # rows[i].cost, rows'[i].by = "run",
             disturbances' = disturbances
      PROVE  Fits(i)
  <2>1. WriteCosts
    BY <1>1, RowsChange DEF IInv, TypeOK
  <2>2. i \in todo /\ pc = "write" /\ rows'[i] = WrittenRow(i)
    BY <1>1, <2>1, CostsWritten DEF WriteCosts
  <2>3. /\ Usable(Planned(i)) /\ snap \in [Positions -> Row]
        /\ rows[i].ttn = snap[i].ttn /\ rows[i].code = snap[i].code
    BY <1>1, <2>2 DEF IInv, TodoInv, ReadInv
  <2>4. Found(i) = Planned(i)
    <3>1. Found(i) = [source |-> Planned(i).source, price |-> Planned(i).price]
      BY <1>1, <2>2, WrittenRowHolds
    <3>2. Planned(i) \in Record
      BY <2>3 DEF Usable
    <3>3. \A r \in Record : [source |-> r.source, price |-> r.price] = r
      BY DEF Record
    <3> QED BY <3>1, <3>2, <3>3
  <2>5. Planned(i) # NoRecord
    BY <2>3 DEF Usable, NoRecord
  <2>6. \/ Planned(i) = offers[<<snap[i].ttn, snap[i].code>>]
        \/ Planned(i) = offers[<<snap[i].ttn, AnyCode>>]
        \/ \E j \in Positions :
             /\ snap[j].source = "melad"
             /\ snap[j].ttn = snap[i].ttn /\ snap[j].code = snap[i].code
             /\ Planned(i) = [source |-> "melad", price |-> snap[j].price]
    BY <1>1, <2>3, <2>5, RecordReturns DEF Planned
  <2> HIDE DEF Found
  <2>7. CASE \E j \in Positions :
               /\ snap[j].source = "melad"
               /\ snap[j].ttn = snap[i].ttn /\ snap[j].code = snap[i].code
               /\ Planned(i) = [source |-> "melad", price |-> snap[j].price]
    BY <2>3, <2>4, <2>7
  <2> QED BY <2>3, <2>4, <2>6, <2>7
<1>2. IInv /\ [Next]_vars =>
        [\A i \in Positions \ late :
           rows'[i].cost # rows[i].cost /\ rows'[i].by = "run" /\ disturbances' = disturbances =>
             LET found == [source |-> rows'[i].source, price |-> rows'[i].price] IN
             \/ offers[<<rows[i].ttn, rows[i].code>>] = found
             \/ offers[<<rows[i].ttn, AnyCode>>] = found
             \/ \E j \in Positions :
                  /\ snap[j].ttn = rows[i].ttn /\ snap[j].code = rows[i].code
                  /\ snap[j].source = found.source /\ snap[j].price = found.price]_vars
  BY <1>1
<1> QED BY <1>2, Invariant, PTL DEF Spec, CostsFitTheirParcel

=============================================================================
