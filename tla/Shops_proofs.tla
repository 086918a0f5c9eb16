---------------------------- MODULE Shops_proofs ----------------------------
(***************************************************************************)
(* Proofs about the two clients of MCShops, for any orders, page sizes,    *)
(* retries and changes.                                                    *)
(*                                                                         *)
(*   NothingIsPassedOver   the pages Prom cuts by its cursor have no gap   *)
(*                         between them, so a fetch that returns has every *)
(*                         order it should have;                           *)
(*   MissedByDrift         the pages OpenCart cuts by an offset may have   *)
(*                         one, but no wider than the places that orders   *)
(*                         changed meanwhile have left.                    *)
(***************************************************************************)
EXTENDS MCShops, Ordinals_proofs, FiniteSetTheorems, SequenceTheorems, TLAPS

USE DEF prom, fetch, notes, vars, Statuses, Lists, Phases, None

-----------------------------------------------------------------------------
(* Pages.                                                                  *)

LEMMA HasGreatest ==
  ASSUME NEW S \in SUBSET Ids, S # {}
  PROVE  \E i \in S : \A j \in S : j <= i
<1> DEFINE Below == {Top - i : i \in S}
<1>1. Below \in SUBSET Nat /\ Below # {}
  <2>1. \A i \in 1 .. Top - 1 : Top - i \in Nat
    BY PromAssumption
  <2> QED BY <2>1, PromAssumption
<1>2. PICK d \in Below : \A e \in Below : d <= e
  BY <1>1, HasLeast
<1>3. PICK i \in S : d = Top - i
  BY <1>2
<1>4. \A j \in S : d <= Top - j
  BY <1>2
<1>5. \A j \in S : j <= i
  <2> TAKE j \in S
  <2>1. i \in Int /\ j \in Int /\ Top \in Int
    BY PromAssumption
  <2> QED BY <1>3, <1>4, <2>1
<1> QED BY <1>5

LEMMA MatchingFinite ==
  ASSUME NEW c
  PROVE  /\ Matching(c) \subseteq Ids
         /\ \A o \in Matching(c) : o \in Nat
         /\ \A T \in SUBSET Matching(c) : IsFiniteSet(T) /\ Cardinality(T) \in Nat
<1>1. Matching(c) \subseteq Ids
  BY DEF Matching
<1>2. IsFiniteSet(1 .. Top - 1)
  BY PromAssumption, FS_Interval
<1>3. \A T \in SUBSET Ids : IsFiniteSet(T)
  BY <1>2, FS_Subset, PromAssumption
<1>4. ASSUME NEW T \in SUBSET Matching(c)
      PROVE  IsFiniteSet(T) /\ Cardinality(T) \in Nat
  <2>1. IsFiniteSet(T)
    BY <1>1, <1>3
  <2> QED BY <2>1, FS_CardinalityType
<1>5. \A o \in Ids : o \in 1 .. Top - 1
  BY PromAssumption
<1>6. \A o \in 1 .. Top - 1 : o \in Nat
  BY PromAssumption
<1>7. \A o \in Matching(c) : o \in Nat
  BY <1>1, <1>5, <1>6
<1> QED BY <1>1, <1>4, <1>7

\* A page has every order of its list above its own last one.
LEMMA PageHasAllAbove ==
  ASSUME NEW c, NEW m \in Page(c), NEW o \in Matching(c), m <= o
  PROVE  o \in Page(c)
<1> DEFINE Above(i) == {p \in Matching(c) : p > i}
<1>1. m \in Matching(c) /\ Cardinality(Above(m)) < PageSize
  BY DEF Page
<1>2. \A p \in Matching(c) : p \in Nat
  BY MatchingFinite
<1>3. Above(o) \in SUBSET Above(m)
  <2>1. \A p \in Nat : p > o => p > m
    BY <1>1, <1>2
  <2> QED BY <1>2, <2>1
<1>4. Above(m) \in SUBSET Matching(c)
  OBVIOUS
<1>5. IsFiniteSet(Above(m)) /\ Cardinality(Above(m)) \in Nat
  BY <1>4, MatchingFinite
<1>6. Cardinality(Above(o)) <= Cardinality(Above(m))
  BY <1>3, <1>5, FS_Subset
<1>7. Cardinality(Above(o)) \in Nat
  BY <1>3, <1>4, MatchingFinite
<1>8. \A i, j \in Nat : i <= j /\ j < PageSize => i < PageSize
  BY PromAssumption
<1>9. Cardinality(Above(o)) < PageSize
  BY <1>1, <1>5, <1>6, <1>7, <1>8
<1> QED BY <1>9 DEF Page

\* A page that is not full has all that is left of its list.
LEMMA ShortPageIsAll ==
  ASSUME NEW c, Cardinality(Page(c)) < PageSize
  PROVE  Page(c) = Matching(c)
<1>1. Page(c) \subseteq Matching(c)
  BY DEF Page
<1>2. SUFFICES ASSUME Matching(c) \ Page(c) # {}
               PROVE  FALSE
  BY <1>1
<1>3. Matching(c) \subseteq Ids /\ \A p \in Matching(c) : p \in Nat
  BY MatchingFinite
<1>4. PICK x \in Matching(c) \ Page(c) : \A y \in Matching(c) \ Page(c) : y <= x
  BY <1>2, <1>3, HasGreatest
<1> DEFINE Above == {p \in Matching(c) : p > x}
<1>5. Above \in SUBSET Page(c)
  <2>1. x \in Nat /\ \A y \in Nat : y <= x => ~ (y > x)
    BY <1>3, <1>4
  <2> QED BY <1>3, <1>4, <2>1
<1>6. IsFiniteSet(Page(c)) /\ Cardinality(Page(c)) \in Nat
  BY <1>1, MatchingFinite
<1>7. Cardinality(Above) <= Cardinality(Page(c))
  BY <1>5, <1>6, FS_Subset
<1>8. Cardinality(Above) \in Nat
  BY MatchingFinite
<1>9. \A i, j \in Nat : i <= j /\ j < PageSize => i < PageSize
  BY PromAssumption
<1>10. Cardinality(Above) < PageSize
  BY <1>6, <1>7, <1>8, <1>9
<1>11. x \in Page(c)
  BY <1>4, <1>10 DEF Page
<1> QED BY <1>4, <1>11

\* A full page has a last order, the next cursor is right below it, and the page
\* has all of its list between the two cursors.
LEMMA NextCursorIsBelow ==
  ASSUME NEW c, Cardinality(Page(c)) = PageSize
  PROVE  /\ NextCursor(Page(c)) \in Int /\ NextCursor(Page(c)) < Top
         /\ \A o \in Matching(c) : o > NextCursor(Page(c)) => o \in Page(c)
<1>1. /\ Page(c) \subseteq Matching(c) /\ Matching(c) \subseteq Ids
      /\ \A p \in Matching(c) : p \in Nat
  BY MatchingFinite DEF Page
<1>2. IsFiniteSet(Page(c))
  BY <1>1, MatchingFinite
<1>3. Page(c) # {}
  <2>1. PageSize # 0
    BY PromAssumption
  <2> QED BY <2>1, FS_EmptySet
<1>4. \E o \in Page(c) : \A p \in Page(c) : o <= p
  BY <1>1, <1>3, HasLeast
<1> DEFINE m == CHOOSE o \in Page(c) : \A p \in Page(c) : o <= p
<1>5. m \in Page(c)
  BY <1>4
<1>6. m \in 1 .. Top - 1
  BY <1>1, <1>5, PromAssumption
<1>7. NextCursor(Page(c)) = m - 1
  BY DEF NextCursor
<1> HIDE DEF m
<1>8. ASSUME NEW o \in Matching(c), o > m - 1
      PROVE  o \in Page(c)
  <2>1. o \in Nat /\ m \in Nat
    BY <1>1, <1>6
  <2>2. \A i, j \in Nat : i > j - 1 => j <= i
    OBVIOUS
  <2>3. m <= o
    BY <1>8, <2>1, <2>2
  <2> QED BY <1>5, <2>3, PageHasAllAbove
<1> QED BY <1>6, <1>7, <1>8, PromAssumption

-----------------------------------------------------------------------------
(* Types.                                                                  *)

LEMMA InitType == Init => TypeOK
<1> SUFFICES ASSUME Init PROVE TypeOK
  OBVIOUS
<1>1. Top \in Int /\ 0 \in 0 .. MaxRetries /\ 0 \in 0 .. MaxChanges
  BY PromAssumption
<1>2. /\ cursor \in Int /\ seen_cursors = {} /\ ~ (cursor < Top)
      /\ attempt \in 0 .. MaxRetries /\ attempt = 0 /\ changes \in 0 .. MaxChanges
  BY <1>1 DEF Init
<1>3. /\ status \in [Ids -> Statuses] /\ start \in [Ids -> Statuses]
      /\ raw_by_id \in [Ids -> Lists \cup {None}] /\ modified = {}
  BY DEF Init
<1>4. /\ honours \in BOOLEAN /\ ~ rejected /\ rejected \in BOOLEAN /\ late \in BOOLEAN
      /\ pages = {} /\ pc \in Phases /\ list \in Lists
  BY DEF Init
<1> QED BY <1>2, <1>3, <1>4 DEF TypeOK

LEMMA CollectType ==
  ASSUME TypeOK, NEW listed
  PROVE  Collect(listed) \in [Ids -> Lists \cup {None}]
BY DEF TypeOK, Collect

LEMMA TypeStep == TypeOK /\ [Next]_vars => TypeOK'
<1> SUFFICES ASSUME TypeOK, [Next]_vars PROVE TypeOK'
  OBVIOUS
<1> USE DEF TypeOK
<1>0. Top \in Int /\ 0 \in 0 .. MaxRetries
  BY PromAssumption
<1>1. CASE StartFetch
  <2>1. /\ cursor' \in Int /\ seen_cursors' = {} /\ ~ (cursor' < Top)
        /\ attempt' \in 0 .. MaxRetries /\ changes' \in 0 .. MaxChanges
    BY <1>0, <1>1 DEF StartFetch, BeginList
  <2>2. start' \in [Ids -> Statuses] /\ raw_by_id' \in [Ids -> Lists \cup {None}]
    BY <1>1 DEF StartFetch
  <2>3. /\ pc' = "page" /\ list' \in Lists /\ late' \in BOOLEAN /\ modified' = {}
        /\ pages' = {} /\ ~ rejected' /\ rejected' \in BOOLEAN
    BY <1>1 DEF StartFetch, BeginList
  <2> QED BY <1>1, <2>1, <2>2, <2>3 DEF StartFetch
<1>2. CASE LastPage
  <2>1. raw_by_id' \in [Ids -> Lists \cup {None}]
    BY <1>2, CollectType DEF LastPage
  <2>2. CASE list = "delivered"
    BY <1>0, <1>2, <2>1, <2>2 DEF LastPage, EndList, BeginList
  <2>3. CASE list # "delivered"
    <3>1. UNCHANGED <<status, honours, list, cursor, seen_cursors, rejected, late,
                      modified, start, changes>>
      BY <1>2, <2>3 DEF LastPage, EndList, Return
    <3>2. pc' = "returned" /\ pages' = {} /\ attempt' = 0
      BY <1>2, <2>3 DEF LastPage, EndList, Return
    <3> QED BY <1>0, <2>1, <3>1, <3>2
  <2> QED BY <2>2, <2>3
<1>3. CASE FullPage
  <2> DEFINE next == NextCursor(Page(cursor))
  <2>1. pages' \subseteq Ids /\ pc = "page"
    BY <1>3 DEF FullPage, Page, Matching
  <2>2. next \in Int /\ next < Top
    BY <1>3, NextCursorIsBelow DEF FullPage
  <2>3. next < cursor /\ cursor' = next /\ seen_cursors' = seen_cursors \cup {next}
    BY <1>3 DEF FullPage, Advances
  <2> HIDE DEF next
  <2>4. cursor' \in Int /\ seen_cursors' \subseteq Int /\ cursor' \in seen_cursors'
    BY <2>2, <2>3
  <2>5. \A c \in seen_cursors' : cursor' <= c /\ c < Top
    BY <2>2, <2>3
  <2> QED BY <1>0, <1>3, <2>1, <2>4, <2>5 DEF FullPage
<1>4. CASE StuckPage
  BY <1>0, <1>4 DEF StuckPage, Raise
<1>5. CASE RejectedList
  BY <1>0, <1>5 DEF RejectedList, Return
<1>6. CASE RetryRequest
  <2>1. attempt' \in 0 .. MaxRetries
    BY <1>6, PromAssumption DEF RetryRequest
  <2> QED BY <1>6, <2>1 DEF RetryRequest
<1>7. CASE RequestFails
  BY <1>0, <1>7 DEF RequestFails, Raise
<1>8. CASE EndFetch
  BY <1>0, <1>8 DEF EndFetch, Raise
<1>9. CASE SecondPasses
  BY <1>9 DEF SecondPasses
<1>10. ASSUME NEW o \in Ids, Deliver(o) \/ Cancel(o) \/ Touch(o)
       PROVE  TypeOK'
  <2>1. Change(o) /\ status' \in [Ids -> Statuses]
    BY <1>10 DEF Deliver, Cancel, Touch
  <2>2. changes' \in 0 .. MaxChanges
    BY <2>1, PromAssumption DEF Change
  <2> QED BY <2>1, <2>2 DEF Change
<1>11. CASE UNCHANGED vars
  BY <1>11
<1> QED BY <1>1, <1>2, <1>3, <1>4, <1>5, <1>6, <1>7, <1>8, <1>9, <1>10, <1>11
        DEF Next, Request

\* Every reachable state is well typed, and the cursor only ever goes down.
THEOREM TypeCorrect == Spec => []TypeOK
<1>1. Init => TypeOK
  BY InitType
<1>2. TypeOK /\ [Next]_vars => TypeOK'
  BY TypeStep
<1> QED BY <1>1, <1>2, PTL DEF Spec

-----------------------------------------------------------------------------
(* What the fetch has collected so far.                                    *)

\* Orders move on only: to delivered, to cancelled.
MovesOn ==
  \A o \in Ids :
    /\ start[o] = "canceled" => status[o] = "canceled"
    /\ start[o] = "delivered" => status[o] # "received"
    /\ raw_by_id[o] = "delivered" => status[o] # "received"
    /\ raw_by_id[o] = "canceled" => status[o] = "canceled"
    /\ o \in pages => IF list = "canceled" THEN status[o] = "canceled"
                      ELSE status[o] # "received"

\* The list of delivered orders is the first one. Its pages have everything above
\* the cursor that is and was delivered.
DeliveredSoFar ==
  list = "delivered" =>
    \A o \in Ids :
      /\ raw_by_id[o] = None
      /\ /\ pc = "page" /\ o \notin modified /\ cursor < o
         /\ start[o] = "delivered" /\ status[o] = "delivered"
         => o \in pages

\* Once it is left, everything is collected that was not cancelled by then.
DeliveredAll ==
  list = "canceled" =>
    \A o \in Ids \ modified : start[o] = "delivered" => raw_by_id[o] # None

\* The pages of cancelled orders have everything above the cursor; at last, unless
\* one of them is refused, all is collected.
CanceledSoFar ==
  list = "canceled" =>
    \A o \in Ids \ modified :
      start[o] = "canceled" =>
        /\ pc = "page" /\ cursor < o => o \in pages
        /\ pc = "returned" /\ ~ rejected => raw_by_id[o] = "canceled"

IInv ==
  /\ TypeOK
  /\ pc = "returned" => list = "canceled"
  /\ MovesOn
  /\ DeliveredSoFar
  /\ DeliveredAll
  /\ CanceledSoFar

LEMMA InitIInv == Init => IInv
<1> SUFFICES ASSUME Init PROVE IInv
  OBVIOUS
<1>1. TypeOK
  BY InitType
<1> QED BY <1>1
        DEF Init, IInv, MovesOn, DeliveredSoFar, DeliveredAll, CanceledSoFar

\* What goes on at Prom disturbs nothing that is said of unmodified orders.
LEMMA ChangeKeepsIInv ==
  ASSUME IInv, TypeOK', NEW o \in Ids, Deliver(o) \/ Cancel(o) \/ Touch(o)
  PROVE  IInv'
<1>1. Change(o) /\ status' \in [Ids -> Statuses]
  BY DEF IInv, TypeOK, Deliver, Cancel, Touch
<1>2. UNCHANGED <<honours, fetch, rejected, late, start>> /\ modified \subseteq modified'
  BY <1>1 DEF Change
<1>3. \A p \in Ids : /\ status[p] = "canceled" => status'[p] = "canceled"
                     /\ status[p] # "received" => status'[p] # "received"
                     /\ status'[p] = "delivered" => status[p] # "canceled"
  BY DEF IInv, TypeOK, Deliver, Cancel, Touch
<1>4. MovesOn'
  BY <1>2, <1>3 DEF IInv, MovesOn
<1>5. ASSUME NEW p \in Ids, start[p] = "delivered", status'[p] = "delivered"
      PROVE  status[p] = "delivered"
  BY <1>3, <1>5 DEF IInv, TypeOK, MovesOn
<1>6. DeliveredSoFar'
  BY <1>2, <1>5 DEF IInv, DeliveredSoFar
<1>7. DeliveredAll'
  BY <1>2 DEF IInv, DeliveredAll
<1>8. CanceledSoFar'
  BY <1>2 DEF IInv, CanceledSoFar
<1> QED BY <1>2, <1>4, <1>6, <1>7, <1>8 DEF IInv

\* What a list puts into the collection, and what it leaves there.
LEMMA CollectEffect ==
  ASSUME IInv, NEW listed, NEW o \in Ids, raw_by_id' = Collect(listed)
  PROVE  /\ o \in listed /\ list = "canceled" => raw_by_id'[o] = "canceled"
         /\ o \in listed => raw_by_id'[o] # None
         /\ raw_by_id'[o] # raw_by_id[o] => o \in listed /\ raw_by_id'[o] = list
         /\ raw_by_id[o] # None => raw_by_id'[o] # None
BY DEF IInv, TypeOK, Collect

\* What is on a page now, and what the pages of the list have shown.
LEMMA OnPages ==
  ASSUME IInv, NEW c, NEW o \in pages \cup Page(c)
  PROVE  /\ o \in Ids /\ status[o] # "received"
         /\ list = "canceled" => status[o] = "canceled"
BY DEF IInv, TypeOK, MovesOn, Page, Matching

LEMMA LastPageKeepsIInv ==
  ASSUME IInv, TypeOK', LastPage
  PROVE  IInv'
<1> DEFINE listed == pages \cup Page(cursor)
<1>1. raw_by_id' = Collect(listed) /\ Page(cursor) = Matching(cursor)
  BY ShortPageIsAll DEF LastPage
<1>2. UNCHANGED <<status, honours, rejected, modified>> /\ pc = "page" /\ ~ rejected
  BY DEF LastPage, IInv, TypeOK
<1>3. \A o \in Ids : o \notin modified /\ status[o] = list /\ (honours => o <= cursor)
                      => o \in listed
  BY <1>1 DEF Matching
<1>4. \A o \in Ids : ~ (cursor < o) => o <= cursor
  BY PromAssumption DEF IInv, TypeOK
<1>5. pages' = {}
  BY DEF LastPage, EndList, BeginList, Return
<1>6. \A o \in listed : /\ o \in Ids /\ status[o] # "received"
                        /\ list = "canceled" => status[o] = "canceled"
  BY OnPages
<1>7. \A o \in Ids : /\ raw_by_id'[o] = "delivered" => status[o] # "received"
                     /\ raw_by_id'[o] = "canceled" => status[o] = "canceled"
  <2> SUFFICES ASSUME NEW o \in Ids
               PROVE  /\ raw_by_id'[o] = "delivered" => status[o] # "received"
                      /\ raw_by_id'[o] = "canceled" => status[o] = "canceled"
    OBVIOUS
  <2>1. raw_by_id'[o] # raw_by_id[o] => o \in listed /\ raw_by_id'[o] = list
    BY <1>1, CollectEffect
  <2> HIDE DEF listed
  <2> QED BY <1>6, <2>1 DEF IInv, MovesOn
<1> HIDE DEF listed
<1>8. CASE list = "delivered"
  <2>1. /\ pc' = "page" /\ list' = "canceled" /\ cursor' = Top
        /\ start' = [o \in Ids |-> IF status[o] = "canceled" /\ o \notin modified
                                  THEN "canceled" ELSE start[o]]
    BY <1>8 DEF LastPage, EndList, BeginList
  <2>2. \A o \in Ids : start'[o] = "canceled" => status[o] = "canceled"
    BY <2>1 DEF IInv, MovesOn
  <2>3. \A o \in Ids : start'[o] = "delivered" => start[o] = "delivered"
    BY <2>1
  <2>4. MovesOn'
    BY <1>2, <1>5, <1>7, <2>2, <2>3 DEF IInv, MovesOn
  <2>5. ASSUME NEW o \in Ids, o \notin modified, start'[o] = "delivered"
        PROVE  raw_by_id'[o] # None
    <3>1. start[o] = "delivered" /\ status[o] = "delivered"
      BY <2>1, <2>5 DEF IInv, MovesOn, TypeOK
    <3>2. o \in listed
      <4>1. CASE cursor < o
        BY <1>2, <1>8, <2>5, <3>1, <4>1 DEF IInv, DeliveredSoFar, listed
      <4>2. CASE ~ (cursor < o)
        BY <1>3, <1>4, <1>8, <2>5, <3>1, <4>2
      <4> QED BY <4>1, <4>2
    <3> QED BY <1>1, <3>2, CollectEffect
  <2>6. DeliveredAll'
    BY <1>2, <2>5 DEF DeliveredAll
  <2>7. \A o \in Ids : ~ (Top < o)
    BY PromAssumption
  <2>8. CanceledSoFar'
    BY <2>1, <2>7 DEF CanceledSoFar
  <2> QED BY <2>1, <2>4, <2>6, <2>8 DEF IInv, DeliveredSoFar
<1>9. CASE list = "canceled"
  <2>1. pc' = "returned" /\ list' = "canceled" /\ start' = start
    BY <1>9 DEF LastPage, EndList, Return
  <2>2. MovesOn'
    BY <1>2, <1>5, <1>7, <2>1 DEF IInv, MovesOn
  <2>3. DeliveredAll'
    BY <1>1, <1>2, <1>9, <2>1, CollectEffect DEF IInv, DeliveredAll
  <2>4. ASSUME NEW o \in Ids, o \notin modified, start[o] = "canceled"
        PROVE  raw_by_id'[o] = "canceled"
    <3>1. o \in listed
      <4>1. CASE cursor < o
        BY <1>2, <1>9, <2>4, <4>1 DEF IInv, CanceledSoFar, listed
      <4>2. CASE ~ (cursor < o)
        BY <1>3, <1>4, <1>9, <2>4, <4>2 DEF IInv, MovesOn
      <4> QED BY <4>1, <4>2
    <3> QED BY <1>1, <1>9, <3>1, CollectEffect
  <2>5. CanceledSoFar'
    BY <1>2, <2>1, <2>4 DEF CanceledSoFar
  <2> QED BY <2>1, <2>2, <2>3, <2>5 DEF IInv, DeliveredSoFar
<1> QED BY <1>8, <1>9 DEF IInv, TypeOK

LEMMA FullPageKeepsIInv ==
  ASSUME IInv, TypeOK', FullPage
  PROVE  IInv'
<1>1. /\ pages' = pages \cup Page(cursor) /\ cursor' = NextCursor(Page(cursor))
      /\ pc = "page"
      /\ UNCHANGED <<status, honours, rejected, pc, list, raw_by_id, modified, start>>
  BY DEF FullPage
<1>2. \A o \in Matching(cursor) : cursor' < o => o \in Page(cursor)
  <2>1. Cardinality(Page(cursor)) = PageSize
    BY DEF FullPage
  <2>2. \A o \in Matching(cursor) : cursor' < o => o > cursor'
    BY MatchingFinite DEF TypeOK
  <2> QED BY <1>1, <2>1, <2>2, NextCursorIsBelow
<1>3. \A o \in Ids : ~ (cursor < o) => o <= cursor
  BY PromAssumption DEF IInv, TypeOK
<1>4. MovesOn'
  BY <1>1, OnPages DEF IInv, MovesOn
<1>5. ASSUME NEW o \in Ids, o \notin modified, cursor' < o,
             start[o] = list, status[o] = list
      PROVE  o \in pages'
  <2>1. CASE cursor < o
    <3>1. list = "delivered" \/ list = "canceled"
      BY DEF IInv, TypeOK
    <3> QED BY <1>1, <1>5, <2>1, <3>1 DEF IInv, DeliveredSoFar, CanceledSoFar
  <2>2. CASE ~ (cursor < o)
    BY <1>1, <1>2, <1>3, <1>5, <2>2 DEF Matching
  <2> QED BY <2>1, <2>2
<1>6. DeliveredSoFar'
  BY <1>1, <1>5 DEF IInv, DeliveredSoFar
<1>7. DeliveredAll'
  BY <1>1 DEF IInv, DeliveredAll
<1>8. CanceledSoFar'
  BY <1>1, <1>5 DEF IInv, MovesOn, CanceledSoFar
<1> QED BY <1>1, <1>4, <1>6, <1>7, <1>8 DEF IInv

LEMMA IInvStep == IInv /\ [Next]_vars => IInv'
<1> SUFFICES ASSUME IInv, [Next]_vars PROVE IInv'
  OBVIOUS
<1>0. TypeOK'
  BY TypeStep DEF IInv
<1>1. CASE StartFetch
  <2>1. /\ pc' = "page" /\ list' = "delivered" /\ cursor' = Top
        /\ raw_by_id' = [o \in Ids |-> None] /\ pages' = {} /\ start' = status
        /\ UNCHANGED status
    BY <1>1 DEF StartFetch, BeginList
  <2>2. \A o \in Ids : ~ (Top < o)
    BY PromAssumption
  <2> QED BY <1>0, <2>1, <2>2
          DEF IInv, MovesOn, DeliveredSoFar, DeliveredAll, CanceledSoFar
<1>2. CASE LastPage
  BY <1>0, <1>2, LastPageKeepsIInv
<1>3. CASE FullPage
  BY <1>0, <1>3, FullPageKeepsIInv
<1>4. CASE StuckPage \/ RequestFails \/ EndFetch
  <2>1. /\ pc' = "idle" /\ list' = "delivered" /\ raw_by_id' = [o \in Ids |-> None]
        /\ pages' = {} /\ UNCHANGED <<status, start>>
    BY <1>4 DEF StuckPage, RequestFails, EndFetch, Raise
  <2> QED BY <1>0, <2>1
          DEF IInv, MovesOn, DeliveredSoFar, DeliveredAll, CanceledSoFar
<1>5. CASE RejectedList
  <2>1. /\ pc' = "returned" /\ list = "canceled" /\ list' = "canceled" /\ rejected'
        /\ pages' = {} /\ UNCHANGED <<status, raw_by_id, modified, start>>
    BY <1>5 DEF RejectedList, Return
  <2> QED BY <1>0, <2>1
          DEF IInv, MovesOn, DeliveredSoFar, DeliveredAll, CanceledSoFar
<1>6. CASE RetryRequest \/ SecondPasses \/ UNCHANGED vars
  <2>1. UNCHANGED <<status, rejected, pc, list, cursor, pages, raw_by_id, modified,
                    start>>
    BY <1>6 DEF RetryRequest, SecondPasses
  <2> QED BY <1>0, <2>1
          DEF IInv, MovesOn, DeliveredSoFar, DeliveredAll, CanceledSoFar
<1>7. ASSUME NEW o \in Ids, Deliver(o) \/ Cancel(o) \/ Touch(o)
      PROVE  IInv'
  BY <1>0, <1>7, ChangeKeepsIInv
<1> QED BY <1>1, <1>2, <1>3, <1>4, <1>5, <1>6, <1>7 DEF Next, Request

\* A fetch that returns has every order it should have, for any orders, page size
\* and changes between the pages; the cancelled ones unless Prom refuses a page of them.
THEOREM NothingIsPassedOver == Spec => []UnmodifiedAreFetched
<1>1. Init => IInv
  BY InitIInv
<1>2. IInv /\ [Next]_vars => IInv'
  BY IInvStep
<1>3. IInv => UnmodifiedAreFetched
  <2> SUFFICES ASSUME IInv, pc = "returned", NEW o \in Ids \ modified
               PROVE  /\ start[o] = "canceled" /\ ~ rejected => raw_by_id[o] = "canceled"
                      /\ start[o] = "delivered"
                           => raw_by_id[o] \in {"delivered", status[o]}
                      /\ start[o] = "received" /\ status[o] = "received"
                           => raw_by_id[o] = None
    BY DEF UnmodifiedAreFetched
  <2>1. list = "canceled" /\ raw_by_id[o] \in Lists \cup {None}
    BY DEF IInv, TypeOK
  <2>2. start[o] = "canceled" /\ ~ rejected => raw_by_id[o] = "canceled"
    BY <2>1 DEF IInv, CanceledSoFar
  <2>3. start[o] = "delivered" => raw_by_id[o] # None
    BY <2>1 DEF IInv, DeliveredAll
  <2>4. raw_by_id[o] = "canceled" => status[o] = "canceled"
    BY DEF IInv, MovesOn
  <2>5. status[o] = "received" => raw_by_id[o] = None
    BY <2>1 DEF IInv, MovesOn
  <2> QED BY <2>1, <2>2, <2>3, <2>4, <2>5
<1> QED BY <1>1, <1>2, <1>3, PTL DEF Spec

-----------------------------------------------------------------------------
(* The list OpenCart answers from.                                         *)

\* The orders certainly before an order in the list, and how many they are.
Before(o) == {p \in complete : date_modified[p] < date_modified[o]}
Rank(o)   == Cardinality(Before(o))

\* What the paging has gone past for good: orders that are not tied, not collected,
\* and before the offset of the next page.
Lost == {o \in begun \ touched :
           /\ o \notin fetched /\ ~ Cart!Tied(o)
           /\ phase = "page" => Rank(o) < offset}

LostUpto(t) == {o \in Lost : date_modified[o] <= t}
LeftUpto(t) == {i \in DOMAIN left : left[i] <= t}

\* Up to every second, no more orders are lost than places were given up.
DriftCovers == \A t \in Nat : Cardinality(LostUpto(t)) <= Cardinality(LeftUpto(t))

CartInv ==
  /\ Cart!TypeOK
  /\ Len(left) <= edits
  /\ phase # "idle" => begun \ touched \subseteq complete /\ DriftCovers

\* Cart counts as we do.
LEMMA CartCardinality == \A S : Cart!Cardinality(S) = Cardinality(S)
<1>1. \A S : Cart!IsFiniteSet(S) <=> IsFiniteSet(S)
  BY DEF Cart!IsFiniteSet, IsFiniteSet
<1> QED BY <1>1 DEF Cart!Cardinality, Cardinality

LEMMA CompleteFinite ==
  ASSUME complete \subseteq Orders
  PROVE  \A T \in SUBSET complete : IsFiniteSet(T) /\ Cardinality(T) \in Nat
BY OpenCartAssumption, FS_Subset, FS_CardinalityType

\* An order no other shares its second with is in the first n or is not, whatever
\* the query chooses.
LEMMA UntiedHasItsPlace ==
  ASSUME Cart!TypeOK, NEW n \in Nat, NEW first \in Cart!Firsts(n), NEW o \in complete,
         ~ Cart!Tied(o)
  PROVE  o \in first <=> Rank(o) < n
<1>1. /\ first \subseteq complete /\ Cart!Sorted(first)
      /\ \/ Cardinality(first) = n
         \/ Cardinality(first) < n /\ first = complete
  BY CartCardinality DEF Cart!Firsts
<1>2. complete \subseteq Orders /\ \A p \in complete : date_modified[p] \in Nat
  BY DEF Cart!TypeOK
<1>3. \A p \in complete : p # o => date_modified[p] # date_modified[o]
  BY DEF Cart!Tied
<1>4. \A T \in SUBSET complete : IsFiniteSet(T) /\ Cardinality(T) \in Nat
  BY <1>2, CompleteFinite
<1>5. Before(o) \subseteq complete /\ o \notin Before(o)
  BY <1>2 DEF Before
<1>6. IsFiniteSet(Before(o)) /\ Rank(o) \in Nat
  BY <1>4, <1>5 DEF Rank
<1>7. IsFiniteSet(first) /\ Cardinality(first) \in Nat
  BY <1>1, <1>4
<1>8. ASSUME o \in first
      PROVE  Rank(o) < n
  <2>1. ASSUME NEW p \in Before(o), p \notin first
        PROVE  FALSE
    <3>1. date_modified[o] <= date_modified[p] /\ date_modified[p] < date_modified[o]
      BY <1>1, <1>8, <2>1 DEF Before, Cart!Sorted
    <3> QED BY <1>2, <1>5, <3>1
  <2>2. Before(o) \cup {o} \in SUBSET first
    BY <1>8, <2>1
  <2>3. Cardinality(Before(o) \cup {o}) = Rank(o) + 1
    BY <1>5, <1>6, FS_AddElement DEF Rank
  <2>4. Cardinality(Before(o) \cup {o}) <= Cardinality(first)
    BY <1>7, <2>2, FS_Subset
  <2> QED BY <1>1, <1>6, <1>7, <2>3, <2>4
<1>9. ASSUME o \notin first
      PROVE  ~ (Rank(o) < n)
  <2>1. Cardinality(first) = n
    BY <1>1, <1>9
  <2>2. ASSUME NEW p \in first
        PROVE  p \in Before(o)
    <3>1. p \in complete /\ p # o /\ date_modified[p] <= date_modified[o]
      BY <1>1, <1>9 DEF Cart!Sorted
    <3> QED BY <1>2, <1>3, <3>1 DEF Before
  <2>3. Cardinality(first) <= Rank(o)
    BY <1>6, <2>2, FS_Subset DEF Rank
  <2> QED BY <1>6, <2>1, <2>3
<1> QED BY <1>8, <1>9

\* Such an order at the offset or after it is in the page, unless the page is full
\* before.
LEMMA PageHasItsPlaces ==
  ASSUME Cart!TypeOK, NEW page \in Cart!Pages, NEW o \in complete, ~ Cart!Tied(o),
         ~ (Rank(o) < offset), Rank(o) < offset + Limit \/ Cardinality(page) < Limit
  PROVE  o \in page
<1>1. PICK before \in Cart!Firsts(offset), upto \in Cart!Firsts(offset + Limit) :
        before \subseteq upto /\ page = upto \ before
  BY DEF Cart!Pages
<1>2. offset \in Nat /\ Limit \in Nat /\ offset + Limit \in Nat
  BY OpenCartAssumption DEF Cart!TypeOK
<1>3. o \notin before
  BY <1>2, UntiedHasItsPlace
<1>4. CASE Rank(o) < offset + Limit
  <2>1. o \in upto
    BY <1>2, <1>4, UntiedHasItsPlace
  <2> QED BY <1>1, <1>3, <2>1
<1>5. CASE Cardinality(page) < Limit
  <2>1. SUFFICES ASSUME o \notin upto PROVE FALSE
    BY <1>1, <1>3
  <2>2. before \subseteq complete /\ upto \subseteq complete /\ complete \subseteq Orders
    BY DEF Cart!Firsts, Cart!TypeOK
  <2>3. /\ IsFiniteSet(before) /\ Cardinality(before) \in Nat
        /\ IsFiniteSet(upto) /\ Cardinality(upto) \in Nat
        /\ Cardinality(page) \in Nat
    BY <1>1, <2>2, CompleteFinite
  <2>4. Cardinality(upto) = offset + Limit
    BY <2>1, CartCardinality DEF Cart!Firsts
  <2>5. Cardinality(before) <= offset
    BY <1>2, <2>3, CartCardinality DEF Cart!Firsts
  <2>6. upto \cap before = before
    BY <1>1
  <2>7. Cardinality(page) = Cardinality(upto) - Cardinality(before)
    BY <1>1, <2>3, <2>6, FS_Difference
  <2> QED BY <1>2, <1>5, <2>3, <2>4, <2>5, <2>7
<1> QED BY <1>4, <1>5

\* Orders that are not tied have places of their own.
LEMMA PlacesDiffer ==
  ASSUME Cart!TypeOK, NEW o \in complete, NEW p \in complete, ~ Cart!Tied(o), o # p
  PROVE  Rank(o) # Rank(p)
<1>1. complete \subseteq Orders /\ \A q \in complete : date_modified[q] \in Nat
  BY DEF Cart!TypeOK
<1>2. \A T \in SUBSET complete : IsFiniteSet(T) /\ Cardinality(T) \in Nat
  BY <1>1, CompleteFinite
<1>3. ASSUME NEW x \in complete, NEW y \in complete, date_modified[x] < date_modified[y]
      PROVE  Rank(x) < Rank(y)
  <2>1. \A q \in complete : date_modified[q] < date_modified[x]
                              => date_modified[q] < date_modified[y]
    BY <1>1, <1>3
  <2>2. Before(x) \cup {x} \in SUBSET Before(y)
    BY <1>3, <2>1 DEF Before
  <2>3. x \notin Before(x)
    BY <1>1 DEF Before
  <2>4. /\ IsFiniteSet(Before(x)) /\ Rank(x) \in Nat
        /\ IsFiniteSet(Before(y)) /\ Rank(y) \in Nat
    BY <1>2 DEF Before, Rank
  <2>5. Cardinality(Before(x) \cup {x}) = Rank(x) + 1
    BY <2>3, <2>4, FS_AddElement DEF Rank
  <2>6. Cardinality(Before(x) \cup {x}) <= Rank(y)
    BY <2>2, <2>4, FS_Subset DEF Rank
  <2> QED BY <2>4, <2>5, <2>6
<1>4. date_modified[o] # date_modified[p]
  BY DEF Cart!Tied
<1>5. date_modified[o] < date_modified[p] \/ date_modified[p] < date_modified[o]
  BY <1>1, <1>4
<1>6. Rank(o) \in Nat /\ Rank(p) \in Nat
  BY <1>2 DEF Before, Rank
<1>7. Rank(o) < Rank(p) \/ Rank(p) < Rank(o)
  BY <1>3, <1>5
<1> QED BY <1>6, <1>7

-----------------------------------------------------------------------------
(* Types.                                                                  *)

USE DEF Cart!shop, Cart!fetch, Cart!notes, Cart!vars, Cart!Seconds

LEMMA CartInitType == Cart!Init => CartInv
<1> SUFFICES ASSUME Cart!Init PROVE CartInv
  OBVIOUS
<1>1. /\ complete \subseteq Orders /\ now = 1 /\ date_modified \in [Orders -> 0 .. now]
      /\ phase = "idle" /\ offset = 0 /\ fetched = {} /\ begun = {} /\ touched = {}
      /\ left = <<>> /\ edits = 0
  BY DEF Cart!Init
<1>2. 1 \in 0 .. MaxNow /\ 0 \in 0 .. MaxEdits
  BY OpenCartAssumption
<1>3. left \in Seq(0 .. MaxNow) /\ Len(left) = 0
  BY <1>1
<1> QED BY <1>1, <1>2, <1>3 DEF CartInv, Cart!TypeOK

\* What a change of an order does to the list, whatever its new status.
Moved(q) ==
  /\ edits < MaxEdits /\ edits' = edits + 1
  /\ date_modified' = [date_modified EXCEPT ![q] = now]
  /\ touched' = touched \cup {q}
  /\ complete \ {q} = complete' \ {q} /\ complete' \subseteq Orders
  /\ \/ left' = left /\ ~ (q \in complete /\ date_modified[q] < now)
        /\ (q \in complete => q \in complete')
     \/ left' = Append(left, date_modified[q]) /\ q \in complete
  /\ UNCHANGED <<now, phase, offset, fetched, begun>>

LEMMA ChangesMove ==
  ASSUME Cart!TypeOK, NEW q \in Orders, Cart!Complete(q) \/ Cart!Edit(q) \/ Cart!Reopen(q)
  PROVE  Moved(q)
<1>1. complete \subseteq Orders
  BY DEF Cart!TypeOK
<1>2. CASE Cart!Complete(q)
  BY <1>1, <1>2 DEF Cart!Complete, Cart!Change, Moved
<1>3. CASE Cart!Edit(q)
  BY <1>1, <1>3 DEF Cart!Edit, Cart!Change, Moved
<1>4. CASE Cart!Reopen(q)
  BY <1>1, <1>4 DEF Cart!Reopen, Moved
<1> QED BY <1>2, <1>3, <1>4

\* One more place given up is one more to count, from its second on.
LEMMA LeftGrows ==
  ASSUME left \in Seq(Nat), left' \in Seq(Nat), NEW t \in Nat, NEW d \in Nat,
         left' = left \/ left' = Append(left, d)
  PROVE  /\ Cardinality(LeftUpto(t)) \in Nat /\ Cardinality(LeftUpto(t)') \in Nat
         /\ Cardinality(LeftUpto(t)) <= Cardinality(LeftUpto(t)')
         /\ left' = Append(left, d) /\ d <= t
              => Cardinality(LeftUpto(t)') = Cardinality(LeftUpto(t)) + 1
<1>1. DOMAIN left = 1 .. Len(left) /\ DOMAIN left' = 1 .. Len(left') /\ Len(left) \in Nat
      /\ Len(left') \in Nat
  BY LenProperties
<1>2. IsFiniteSet(1 .. Len(left)) /\ IsFiniteSet(1 .. Len(left'))
  <2>1. \A k \in Nat : IsFiniteSet(1 .. k)
    BY FS_Interval
  <2> QED BY <1>1, <2>1
<1>3. LeftUpto(t) \in SUBSET (1 .. Len(left)) /\ LeftUpto(t)' \in SUBSET (1 .. Len(left'))
  BY <1>1 DEF LeftUpto
<1>4. IsFiniteSet(LeftUpto(t)) /\ IsFiniteSet(LeftUpto(t)')
  BY <1>2, <1>3, FS_Subset
<1>5. Cardinality(LeftUpto(t)) \in Nat /\ Cardinality(LeftUpto(t)') \in Nat
  BY <1>4, FS_CardinalityType
<1>6. CASE left' = left
  <2>1. LeftUpto(t)' = LeftUpto(t)
    BY <1>6 DEF LeftUpto
  <2>2. ASSUME left' = Append(left, d)
        PROVE  FALSE
    <3>1. Len(left') = Len(left) + 1
      BY <2>2, AppendProperties
    <3> QED BY <1>1, <1>6, <3>1
  <2> QED BY <1>5, <2>1, <2>2
<1>7. CASE left' = Append(left, d)
  <2> DEFINE n == Len(left) + 1
  <2>1. /\ Len(left') = n /\ left'[n] = d
        /\ \A i \in 1 .. Len(left) : left'[i] = left[i]
    BY <1>7, AppendProperties
  <2>0. \A k \in Nat : /\ \A i \in 1 .. k + 1 : i \in 1 .. k \/ i = k + 1
                       /\ k + 1 \in 1 .. k + 1 /\ k + 1 \notin 1 .. k
                       /\ 1 .. k \subseteq 1 .. k + 1
    OBVIOUS
  <2>2. \A i \in 1 .. n : i \in 1 .. Len(left) \/ i = n
    BY <1>1, <2>0
  <2>3. n \in 1 .. n /\ n \notin 1 .. Len(left) /\ 1 .. Len(left) \subseteq 1 .. n
    BY <1>1, <2>0
  <2>4. LeftUpto(t)' = IF d <= t THEN LeftUpto(t) \cup {n} ELSE LeftUpto(t)
    <3> HIDE DEF n
    <3>1. LeftUpto(t)' = {i \in 1 .. n : left'[i] <= t}
      BY <1>1, <2>1 DEF LeftUpto
    <3>2. LeftUpto(t) = {i \in 1 .. Len(left) : left[i] <= t}
      BY <1>1 DEF LeftUpto
    <3> QED BY <2>1, <2>2, <2>3, <3>1, <3>2
  <2>5. n \notin LeftUpto(t)
    BY <1>3, <2>3
  <2> HIDE DEF n
  <2>6. d <= t => Cardinality(LeftUpto(t)') = Cardinality(LeftUpto(t)) + 1
    BY <1>4, <2>4, <2>5, FS_AddElement
  <2>7. ~ (d <= t) => Cardinality(LeftUpto(t)') = Cardinality(LeftUpto(t))
    BY <2>4
  <2> QED BY <1>5, <1>7, <2>6, <2>7
<1> QED BY <1>6, <1>7

LEMMA CartTypeStep ==
  Cart!TypeOK /\ Len(left) <= edits /\ [Cart!Next]_Cart!vars
    => Cart!TypeOK' /\ Len(left') <= edits'
<1> SUFFICES ASSUME Cart!TypeOK, Len(left) <= edits, [Cart!Next]_Cart!vars
             PROVE  Cart!TypeOK' /\ Len(left') <= edits'
  OBVIOUS
<1> USE DEF Cart!TypeOK
<1>0. Limit \in Nat /\ Limit > 0 /\ MaxNow \in Nat /\ MaxEdits \in Nat
  BY OpenCartAssumption
<1>1. CASE Cart!StartFetch
  <2>1. left' = <<>> /\ left' \in Seq(0 .. MaxNow) /\ Len(left') = 0
    BY <1>1 DEF Cart!StartFetch
  <2> QED BY <1>0, <1>1, <2>1 DEF Cart!StartFetch
<1>2. CASE Cart!FullPage
  <2>1. PICK page \in Cart!Pages : Cardinality(page) = Limit /\ fetched' = fetched \cup page
    BY <1>2, CartCardinality DEF Cart!FullPage
  <2>2. page \subseteq complete
    BY <2>1 DEF Cart!Pages, Cart!Firsts
  <2>3. fetched' \subseteq Orders /\ IsFiniteSet(fetched')
    BY <2>1, <2>2, OpenCartAssumption, FS_Subset
  <2>4. Cardinality(fetched') >= Limit
    <3>1. Cardinality(page) <= Cardinality(fetched')
      BY <2>1, <2>3, FS_Subset
    <3>2. Cardinality(fetched') \in Nat
      BY <2>3, FS_CardinalityType
    <3> QED BY <1>0, <2>1, <3>1, <3>2
  <2>5. Cart!Cardinality(fetched') >= Limit
    BY <2>4, CartCardinality
  <2>6. offset' \in Nat
    BY <1>0, <1>2 DEF Cart!FullPage, Cart!NextOffset
  <2> QED BY <1>2, <2>3, <2>5, <2>6 DEF Cart!FullPage
<1>3. CASE Cart!LastPage
  <2>1. PICK page \in Cart!Pages : fetched' = fetched \cup page
    BY <1>3 DEF Cart!LastPage
  <2>2. page \subseteq complete
    BY <2>1 DEF Cart!Pages, Cart!Firsts
  <2>3. fetched' \subseteq Orders /\ IsFiniteSet(fetched')
    BY <2>1, <2>2, OpenCartAssumption, FS_Subset
  <2>4. Cardinality(fetched) <= Cardinality(fetched') /\ Cardinality(fetched') \in Nat
        /\ Cardinality(fetched) \in Nat
    BY <2>1, <2>3, OpenCartAssumption, FS_Subset, FS_CardinalityType
  <2>5. offset' > 0 => Cart!Cardinality(fetched') >= Limit
    <3>1. offset' > 0 => Cardinality(fetched) >= Limit
      BY <1>3, CartCardinality DEF Cart!LastPage
    <3>2. offset' > 0 => Cardinality(fetched') >= Limit
      BY <1>0, <2>4, <3>1
    <3> QED BY <3>2, CartCardinality
  <2> QED BY <1>3, <2>3, <2>5 DEF Cart!LastPage
<1>4. CASE Cart!RequestFails \/ Cart!EndFetch
  BY <1>4 DEF Cart!RequestFails, Cart!EndFetch, Cart!Forget
<1>5. CASE Cart!SecondPasses
  <2>1. now' \in 0 .. MaxNow /\ 0 .. now \subseteq 0 .. now'
    BY <1>0, <1>5 DEF Cart!SecondPasses
  <2>2. date_modified' \in [Orders -> 0 .. now']
    BY <1>5, <2>1 DEF Cart!SecondPasses
  <2> QED BY <1>5, <2>1, <2>2 DEF Cart!SecondPasses
<1>6. ASSUME NEW q \in Orders, Cart!Complete(q) \/ Cart!Edit(q) \/ Cart!Reopen(q)
      PROVE  Cart!TypeOK' /\ Len(left') <= edits'
  <2>1. Moved(q)
    BY <1>6, ChangesMove
  <2>2. date_modified' \in [Orders -> 0 .. now'] /\ edits' \in 0 .. MaxEdits
    BY <1>0, <2>1 DEF Moved
  <2>3. date_modified[q] \in 0 .. MaxNow
    BY <1>0
  <2>4. left' \in Seq(0 .. MaxNow) /\ Len(left') <= Len(left) + 1 /\ Len(left) \in Nat
    <3>1. left \in Seq(0 .. MaxNow) /\ Len(left) \in Nat
      BY LenProperties
    <3>2. left' = left \/ left' = Append(left, date_modified[q])
      BY <2>1 DEF Moved
    <3>3. CASE left' = left
      BY <3>1, <3>3
    <3>4. CASE left' = Append(left, date_modified[q])
      BY <2>3, <3>1, <3>4, AppendProperties
    <3> QED BY <3>2, <3>3, <3>4
  <2>5. Len(left') <= edits' /\ Len(left') <= MaxEdits
    <3>1. Len(left') \in Nat
      BY <2>4, LenProperties
    <3> QED BY <1>0, <2>1, <2>2, <2>4, <3>1 DEF Moved
  <2> QED BY <2>1, <2>2, <2>4, <2>5 DEF Moved
<1>7. CASE UNCHANGED Cart!vars
  BY <1>7
<1> QED BY <1>1, <1>2, <1>3, <1>4, <1>5, <1>6, <1>7 DEF Cart!Next, Cart!Request

-----------------------------------------------------------------------------
(* What a page and a change do to the lost orders.                         *)

LEMMA LostFinite ==
  ASSUME Cart!TypeOK, NEW t
  PROVE  \A T \in SUBSET LostUpto(t) :
           T \subseteq begun /\ IsFiniteSet(T) /\ Cardinality(T) \in Nat
<1>1. LostUpto(t) \subseteq begun /\ begun \subseteq Orders
  BY DEF LostUpto, Lost, Cart!TypeOK
<1> QED BY <1>1, OpenCartAssumption, FS_Subset, FS_CardinalityType

\* A page loses nothing: what the offset passes and the page leaves out was lost
\* before.
LEMMA PagesLoseNothing ==
  ASSUME CartInv, Cart!TypeOK', phase = "page",
         Cart!FullPage \/ Cart!LastPage
  PROVE  DriftCovers' /\ begun' \ touched' \subseteq complete'
<1> USE DEF CartInv
<1>1. UNCHANGED <<complete, date_modified, now, begun, touched, left>>
  BY DEF Cart!FullPage, Cart!LastPage
<1>2. PICK page \in Cart!Pages :
        /\ fetched' = fetched \cup page
        /\ \/ Cardinality(page) = Limit /\ phase' = "page" /\ offset' = offset + Limit
           \/ Cardinality(page) < Limit /\ phase' = "returned"
  <2>1. CASE Cart!FullPage
    BY <2>1, CartCardinality DEF Cart!FullPage, Cart!NextOffset
  <2>2. CASE Cart!LastPage
    BY <2>2, CartCardinality DEF Cart!LastPage
  <2> QED BY <2>1, <2>2
<1>3. \A o : Cart!Tied(o)' <=> Cart!Tied(o)
  BY <1>1 DEF Cart!Tied
<1>4. \A o : Rank(o)' = Rank(o)
  BY <1>1 DEF Rank, Before
<1>5. Lost' \subseteq Lost
  <2> SUFFICES ASSUME NEW o \in begun \ touched, o \notin fetched, o \notin page,
                      ~ Cart!Tied(o), phase' = "page" => Rank(o) < offset'
               PROVE  Rank(o) < offset
    BY <1>1, <1>2, <1>3, <1>4 DEF Lost
  <2>1. o \in complete
    OBVIOUS
  <2>2. Rank(o) < offset + Limit \/ Cardinality(page) < Limit
    BY <1>2
  <2> QED BY <2>1, <2>2, PageHasItsPlaces
<1>6. ASSUME NEW t \in Nat
      PROVE  Cardinality(LostUpto(t)') <= Cardinality(LeftUpto(t)')
  <2>1. LostUpto(t)' \in SUBSET LostUpto(t) /\ LeftUpto(t)' = LeftUpto(t)
    BY <1>1, <1>5 DEF LostUpto, LeftUpto
  <2>2. IsFiniteSet(LostUpto(t)) /\ Cardinality(LostUpto(t)) \in Nat
        /\ Cardinality(LostUpto(t)') \in Nat
    BY <2>1, LostFinite
  <2>3. Cardinality(LostUpto(t)') <= Cardinality(LostUpto(t))
    BY <2>1, <2>2, FS_Subset
  <2>4. left \in Seq(Nat)
    BY OpenCartAssumption DEF Cart!TypeOK
  <2>5. Cardinality(LeftUpto(t)) \in Nat
    BY <1>1, <2>4, LeftGrows
  <2>6. Cardinality(LostUpto(t)) <= Cardinality(LeftUpto(t))
    BY DEF DriftCovers
  <2> QED BY <2>1, <2>2, <2>3, <2>5, <2>6
<1> QED BY <1>1, <1>6 DEF DriftCovers

\* A tie with an order that moves away goes on with the place it leaves.
LEMMA TiesStay ==
  ASSUME Cart!TypeOK, left' \in Seq(Nat), NEW q \in Orders, Moved(q), NEW o \in complete,
         o # q, Cart!Tied(o)
  PROVE  Cart!Tied(o)'
<1>1. /\ complete \subseteq Orders /\ date_modified \in [Orders -> 0 .. now]
      /\ date_modified' = [date_modified EXCEPT ![q] = now]
      /\ \A p \in complete : p # q => p \in complete'
      /\ now \in Nat
  BY OpenCartAssumption DEF Moved, Cart!TypeOK
<1>2. date_modified'[o] = date_modified[o]
  BY <1>1
<1>3. left \in Seq(Nat)
  BY OpenCartAssumption DEF Cart!TypeOK
<1>4. \A i \in DOMAIN left : i \in DOMAIN left' /\ left'[i] = left[i]
  <2>1. left' = left \/ (date_modified[q] \in Nat /\ left' = Append(left, date_modified[q]))
    BY <1>1 DEF Moved
  <2>2. CASE left' = Append(left, date_modified[q]) /\ date_modified[q] \in Nat
    <3>1. /\ Len(left') = Len(left) + 1
          /\ \A i \in 1 .. Len(left) : left'[i] = left[i]
      BY <1>3, <2>2, AppendProperties
    <3>2. DOMAIN left = 1 .. Len(left) /\ DOMAIN left' = 1 .. Len(left') /\ Len(left) \in Nat
      BY <1>3, LenProperties
    <3>3. \A k \in Nat : 1 .. k \subseteq 1 .. k + 1
      OBVIOUS
    <3> QED BY <3>1, <3>2, <3>3
  <2> QED BY <2>1, <2>2
<1>5. CASE \E i \in DOMAIN left : left[i] = date_modified[o]
  BY <1>2, <1>4, <1>5 DEF Cart!Tied
<1>6. ASSUME NEW p \in complete \ {o}, date_modified[p] = date_modified[o], p # q
      PROVE  Cart!Tied(o)'
  BY <1>1, <1>2, <1>6 DEF Cart!Tied
<1>7. ASSUME q \in complete, date_modified[q] = date_modified[o]
      PROVE  Cart!Tied(o)'
  <2>1. CASE left' = Append(left, date_modified[q])
    <3>1. Len(left) + 1 \in DOMAIN left' /\ left'[Len(left) + 1] = date_modified[q]
      <4>1. Len(left') = Len(left) + 1 /\ left'[Len(left) + 1] = date_modified[q]
        BY <1>1, <1>3, <2>1, AppendProperties
      <4>2. DOMAIN left' = 1 .. Len(left') /\ Len(left) \in Nat
        BY <1>3, LenProperties
      <4> QED BY <4>1, <4>2
    <3> QED BY <1>2, <1>7, <3>1 DEF Cart!Tied
  <2>2. CASE ~ (q \in complete /\ date_modified[q] < now) /\ (q \in complete => q \in complete')
    <3>1. date_modified[q] = now /\ date_modified'[q] = now
      BY <1>1, <1>7, <2>2
    <3> QED BY <1>2, <1>7, <2>2, <3>1 DEF Cart!Tied
  <2> QED BY <2>1, <2>2 DEF Moved
<1> QED BY <1>5, <1>6, <1>7 DEF Cart!Tied

\* A change moves the changed order behind all others.
LEMMA OthersMoveUp ==
  ASSUME Cart!TypeOK, NEW q \in Orders, Moved(q), NEW o \in complete, o # q
  PROVE  date_modified'[o] = date_modified[o] /\ Before(o)' = Before(o) \ {q}
<1>1. /\ complete \subseteq Orders /\ date_modified \in [Orders -> 0 .. now]
      /\ date_modified' = [date_modified EXCEPT ![q] = now]
      /\ complete \ {q} = complete' \ {q} /\ complete' \subseteq Orders /\ now \in Nat
  BY OpenCartAssumption DEF Moved, Cart!TypeOK
<1>2. date_modified'[o] = date_modified[o] /\ ~ (date_modified'[q] < date_modified[o])
  BY <1>1
<1>3. \A p \in complete' : p # q => date_modified'[p] = date_modified[p]
  BY <1>1
<1> QED BY <1>1, <1>2, <1>3 DEF Before

LEMMA ChangesLoseOne ==
  ASSUME CartInv, Cart!TypeOK', NEW q \in Orders, Moved(q), phase # "idle"
  PROVE  DriftCovers' /\ begun' \ touched' \subseteq complete'
<1> USE DEF CartInv
<1>1. /\ touched' = touched \cup {q} /\ complete \ {q} = complete' \ {q}
      /\ UNCHANGED <<phase, offset, fetched, begun>>
  BY DEF Moved
<1>2. begun' \ touched' \subseteq complete'
  BY <1>1
<1>3. left \in Seq(Nat) /\ left' \in Seq(Nat) /\ date_modified[q] \in Nat /\ offset \in Nat
  BY OpenCartAssumption DEF Cart!TypeOK
<1>4. left' = left \/ left' = Append(left, date_modified[q])
  BY DEF Moved
\* An order that is lost from now on had the place at the offset, and the changed
\* order one before it.
<1>5. ASSUME NEW o \in Lost', o \notin Lost
      PROVE  /\ o \in complete /\ ~ Cart!Tied(o) /\ Rank(o) = offset
             /\ q \in complete /\ date_modified[q] < date_modified[o]
             /\ left' = Append(left, date_modified[q])
  <2>1. o \in begun \ touched /\ o # q /\ o \notin fetched /\ ~ Cart!Tied(o)'
        /\ (phase = "page" => Rank(o)' < offset)
    BY <1>1, <1>5 DEF Lost
  <2>2. o \in complete
    BY <2>1
  <2>3. ~ Cart!Tied(o)
    BY <1>3, <2>1, <2>2, TiesStay
  <2>4. phase = "page" /\ ~ (Rank(o) < offset)
    BY <1>5, <2>1, <2>3 DEF Lost
  <2>5. Before(o)' = Before(o) \ {q}
    BY <2>1, <2>2, OthersMoveUp
  <2>6. IsFiniteSet(Before(o)) /\ Rank(o) \in Nat
    BY CompleteFinite DEF Before, Rank, Cart!TypeOK
  <2>7. Rank(o)' = IF q \in Before(o) THEN Rank(o) - 1 ELSE Rank(o)
    BY <2>5, <2>6, FS_RemoveElement DEF Rank
  <2>8. q \in Before(o) /\ Rank(o) = offset
    BY <1>3, <2>1, <2>4, <2>6, <2>7
  <2>9. q \in complete /\ date_modified[q] < date_modified[o]
    BY <2>8 DEF Before
  <2>10. date_modified[q] < now
    <3>1. date_modified[o] \in 0 .. now /\ date_modified[q] \in 0 .. now /\ now \in Nat
      BY <2>2, OpenCartAssumption DEF Cart!TypeOK
    <3> QED BY <2>9, <3>1
  <2>11. left' = Append(left, date_modified[q])
    BY <2>9, <2>10 DEF Moved
  <2> QED BY <2>2, <2>3, <2>8, <2>9, <2>11
<1>6. \A o, p \in Lost' : o \notin Lost /\ p \notin Lost => o = p
  BY <1>5, PlacesDiffer
<1>7. \A o \in Lost' : date_modified'[o] = date_modified[o]
  <2>1. \A o \in Lost' : o # q /\ o \in complete
    BY <1>1 DEF Lost
  <2> QED BY <2>1, OthersMoveUp
<1>8. ASSUME NEW t \in Nat
      PROVE  Cardinality(LostUpto(t)') <= Cardinality(LeftUpto(t)')
  <2>1. /\ Cardinality(LeftUpto(t)) \in Nat /\ Cardinality(LeftUpto(t)') \in Nat
        /\ Cardinality(LeftUpto(t)) <= Cardinality(LeftUpto(t)')
        /\ left' = Append(left, date_modified[q]) /\ date_modified[q] <= t
             => Cardinality(LeftUpto(t)') = Cardinality(LeftUpto(t)) + 1
    BY <1>3, <1>4, LeftGrows
  <2>2. Cardinality(LostUpto(t)) <= Cardinality(LeftUpto(t))
    BY DEF DriftCovers
  <2>3. IsFiniteSet(LostUpto(t)) /\ Cardinality(LostUpto(t)) \in Nat
    BY LostFinite
  <2>4. LostUpto(t)' \subseteq Orders /\ Cardinality(LostUpto(t)') \in Nat
    <3>1. LostUpto(t)' \in SUBSET Orders
      BY <1>1 DEF LostUpto, Lost, Cart!TypeOK
    <3> QED BY <3>1, OpenCartAssumption, FS_Subset, FS_CardinalityType
  <2>5. CASE LostUpto(t)' \subseteq LostUpto(t)
    <3>1. Cardinality(LostUpto(t)') <= Cardinality(LostUpto(t))
      BY <2>3, <2>5, FS_Subset
    <3> QED BY <2>1, <2>2, <2>3, <2>4, <3>1
  <2>6. CASE ~ (LostUpto(t)' \subseteq LostUpto(t))
    <3>1. PICK o \in LostUpto(t)' : o \notin LostUpto(t)
      BY <2>6
    <3>2. o \in Lost' /\ date_modified[o] <= t /\ o \notin Lost
      BY <1>7, <3>1 DEF LostUpto
    <3>3. LostUpto(t)' \in SUBSET (LostUpto(t) \cup {o})
      BY <1>6, <1>7, <3>2 DEF LostUpto
    <3>4. /\ IsFiniteSet(LostUpto(t) \cup {o})
          /\ Cardinality(LostUpto(t) \cup {o}) = Cardinality(LostUpto(t)) + 1
      BY <2>3, <3>1, FS_AddElement
    <3>5. Cardinality(LostUpto(t)') <= Cardinality(LostUpto(t)) + 1
      BY <3>3, <3>4, FS_Subset
    <3>6. left' = Append(left, date_modified[q]) /\ date_modified[q] <= t
      <4>1. date_modified[q] < date_modified[o] /\ left' = Append(left, date_modified[q])
            /\ o \in complete
        BY <1>5, <3>2
      <4>2. date_modified[o] \in Nat
        BY <4>1 DEF Cart!TypeOK
      <4> QED BY <1>3, <3>2, <4>1, <4>2
    <3> QED BY <2>1, <2>2, <2>3, <2>4, <3>5, <3>6
  <2> QED BY <2>5, <2>6
<1> QED BY <1>2, <1>8 DEF DriftCovers

LEMMA CartInvStep == CartInv /\ [Cart!Next]_Cart!vars => CartInv'
<1> SUFFICES ASSUME CartInv, [Cart!Next]_Cart!vars PROVE CartInv'
  OBVIOUS
<1>0. Cart!TypeOK' /\ Len(left') <= edits'
  BY CartTypeStep DEF CartInv
<1>1. CASE Cart!StartFetch
  <2>1. /\ phase' = "page" /\ offset' = 0 /\ begun' = complete /\ touched' = {}
        /\ left' = <<>> /\ UNCHANGED complete
    BY <1>1 DEF Cart!StartFetch
  <2>2. complete' \subseteq Orders
    BY <1>0 DEF Cart!TypeOK
  <2>3. \A o : Rank(o)' \in Nat
    <3> TAKE o
    <3>1. Before(o)' \in SUBSET Orders
      BY <2>2 DEF Before
    <3> QED BY <3>1, OpenCartAssumption, FS_Subset, FS_CardinalityType DEF Rank
  <2>4. Lost' = {}
    BY <2>1, <2>3 DEF Lost
  <2>5. ASSUME NEW t \in Nat
        PROVE  Cardinality(LostUpto(t)') <= Cardinality(LeftUpto(t)')
    <3>1. Cardinality(LostUpto(t)') = 0
      BY <2>4, FS_EmptySet DEF LostUpto
    <3>2. left' \in Seq(Nat)
      BY <1>0, OpenCartAssumption DEF Cart!TypeOK
    <3>3. Cardinality(LeftUpto(t)') \in Nat
      <4>1. LeftUpto(t)' \in SUBSET (1 .. Len(left')) /\ Len(left') \in Nat
        BY <3>2, LenProperties DEF LeftUpto
      <4>2. \A k \in Nat : IsFiniteSet(1 .. k)
        BY FS_Interval
      <4> QED BY <4>1, <4>2, FS_Subset, FS_CardinalityType
    <3> QED BY <3>1, <3>3
  <2> QED BY <1>0, <2>1, <2>5 DEF CartInv, DriftCovers
<1>2. CASE Cart!FullPage \/ Cart!LastPage
  <2>1. phase = "page"
    BY <1>2 DEF Cart!FullPage, Cart!LastPage
  <2> QED BY <1>0, <1>2, <2>1, PagesLoseNothing DEF CartInv
<1>3. CASE Cart!RequestFails \/ Cart!EndFetch
  <2>1. phase' = "idle"
    BY <1>3 DEF Cart!RequestFails, Cart!EndFetch, Cart!Forget
  <2> QED BY <1>0, <2>1 DEF CartInv
<1>4. CASE Cart!SecondPasses \/ UNCHANGED Cart!vars
  <2>1. UNCHANGED <<complete, date_modified, phase, offset, fetched, begun, touched, left>>
    BY <1>4 DEF Cart!SecondPasses
  <2>2. DriftCovers' <=> DriftCovers
    BY <2>1 DEF DriftCovers, LostUpto, LeftUpto, Lost, Cart!Tied, Rank, Before
  <2> QED BY <1>0, <2>1, <2>2 DEF CartInv
<1>5. ASSUME NEW q \in Orders, Cart!Complete(q) \/ Cart!Edit(q) \/ Cart!Reopen(q)
      PROVE  CartInv'
  <2>1. Moved(q)
    BY <1>5, ChangesMove DEF CartInv
  <2>2. CASE phase = "idle"
    BY <1>0, <2>1, <2>2 DEF CartInv, Moved
  <2>3. CASE phase # "idle"
    BY <1>0, <2>1, <2>3, ChangesLoseOne DEF CartInv
  <2> QED BY <2>2, <2>3
<1> QED BY <1>1, <1>2, <1>3, <1>4, <1>5 DEF Cart!Next, Cart!Request

LEMMA DriftCoversTheMissed == CartInv => Cart!MissedOnlyByDrift
<1> SUFFICES ASSUME CartInv, phase = "returned", NEW o \in Cart!Missed, ~ Cart!Tied(o)
             PROVE  Cart!Cardinality({p \in Cart!Missed : /\ ~ Cart!Tied(p)
                                        /\ date_modified[p] <= date_modified[o]})
                      <= Cart!Cardinality({i \in DOMAIN left : left[i] <= date_modified[o]})
  BY DEF Cart!MissedOnlyByDrift, Cart!Missed
<1>1. o \in complete
  BY DEF CartInv, Cart!Missed
<1>2. date_modified[o] \in Nat
  BY <1>1 DEF CartInv, Cart!TypeOK
<1>3. {p \in Cart!Missed : ~ Cart!Tied(p) /\ date_modified[p] <= date_modified[o]}
        = LostUpto(date_modified[o])
  BY DEF Cart!Missed, LostUpto, Lost
<1>4. {i \in DOMAIN left : left[i] <= date_modified[o]} = LeftUpto(date_modified[o])
  BY DEF LeftUpto
<1>5. Cardinality(LostUpto(date_modified[o])) <= Cardinality(LeftUpto(date_modified[o]))
  BY <1>2 DEF CartInv, DriftCovers
<1> QED BY <1>3, <1>4, <1>5, CartCardinality

-----------------------------------------------------------------------------
(* Both clients.                                                           *)

\* One client runs and the other stays as it is, so what is true of each alone is
\* true of both.
THEOREM ShopsRunBoth == ShopsSpec => Spec /\ Cart!Spec
<1>1. PromAlone \/ CartAlone => Init /\ Cart!Init
  <2>1. PromAlone => Init /\ Cart!Init
    BY DEF PromAlone, Cart!Init
  <2>2. CartAlone => Init /\ Cart!Init
    BY DEF CartAlone, Init
  <2> QED BY <2>1, <2>2
<1>2. [ShopsNext]_<<client, vars, cart>> => [Next]_vars /\ [Cart!Next]_Cart!vars
  BY DEF ShopsNext, cart
<1> QED BY <1>1, <1>2, PTL DEF ShopsSpec, Spec, Cart!Spec

\* Neither client leaves its types, and no fetch of OpenCart is past a page that
\* was not full.
THEOREM BothTypesCorrect == ShopsSpec => []BothTypeOK
<1>1. Cart!Spec => []Cart!TypeOK
  <2>1. CartInv => Cart!TypeOK
    BY DEF CartInv
  <2> QED BY <2>1, CartInitType, CartInvStep, PTL DEF Cart!Spec
<1> QED BY <1>1, TypeCorrect, ShopsRunBoth, PTL DEF BothTypeOK

\* For any orders, limit and changes: a fetch from OpenCart misses an order nobody
\* touched only when another of its second makes their order a matter of chance,
\* or another gave up a place before it, and never more orders than places.
THEOREM MissedByDrift == ShopsSpec => []MissedOnlyByDrift
<1>1. Cart!Spec => []Cart!MissedOnlyByDrift
  BY CartInitType, CartInvStep, DriftCoversTheMissed, PTL DEF Cart!Spec
<1> QED BY <1>1, ShopsRunBoth, PTL DEF MissedOnlyByDrift

\* What NothingIsPassedOver says of Prom alone, where the run has both.
THEOREM NothingIsPassedOverInShops == ShopsSpec => []UnmodifiedAreFetched
BY NothingIsPassedOver, ShopsRunBoth, PTL

=============================================================================
