------------------------ MODULE RozetkaOrders_proofs ------------------------
(***************************************************************************)
(* Proofs about RozetkaOrders, for any orders, page size and changes.      *)
(*                                                                         *)
(*   BestIsKept     an order has the best of the payloads it is kept from: *)
(*                  each version is merged into the best of those before,  *)
(*                  and a row that is left out disturbs nothing;           *)
(*   LostByDrift    an order that no one moved in the list being read is   *)
(*                  handled, or in the page, or ahead of the fetch: behind *)
(*                  the pages that were read, or in a list still to come.  *)
(***************************************************************************)
EXTENDS RozetkaOrders, Ordinals_proofs, FiniteSetTheorems, SequenceTheorems, TLAPS

USE DEF rozetka, cursor, notes, bounds, vars

\* An order of which a version or a message is kept.
Handled(o) == orders[o] # NoVersion \/ o \in warned
Waiting(o) == \E i \in DOMAIN left : left[i].id = o
InHand(o)  == pc \in {"detail", "keep"} /\ row.id = o

\* The lists are read in the sequence of the lifecycle, so what is further on is in
\* a list to come. In the list being read it is what the pages so far end before.
Ahead(o) ==
  \/ Rank(status[o]) > type
  \/ /\ status[o] = Types[type]
     /\ \/ pc = "search" /\ Number(ListOf(type), o) > (page - 1) * PageSize
        \/ pc # "search" /\ ~ last /\ Number(ListOf(type), o) > page * PageSize

Fetching == pc \in {"search", "rows", "detail", "keep"}

ReachInv ==
  /\ TypeOK
  /\ pc = "search" => left = <<>>
  /\ \A o \in Orders : before[o] \in Eligible /\ o \notin drifted =>
       /\ Fetching => Handled(o) \/ Waiting(o) \/ InHand(o) \/ Ahead(o)
       /\ pc = "returned" => Handled(o)

\* Until a version is kept, an order has shown nothing.
BestInv ==
  /\ TypeOK
  /\ BestOfAll
  /\ \A o \in Orders : orders[o] = NoVersion => shown[o] = {}

-----------------------------------------------------------------------------
(* Lists and pages.                                                        *)

LEMMA TypesAreRanks ==
  /\ Len(Types) = 3
  /\ \A t \in 1 .. 3 : Types[t] \in Eligible /\ Rank(Types[t]) = t
  /\ \A s \in Statuses : /\ Rank(s) \in 0 .. 3 /\ (s \in Eligible <=> Rank(s) > 0)
                         /\ \A t \in 1 .. 3 : Rank(s) = t => s = Types[t]
<1>1. Len(Types) = 3 /\ Types[1] = "shipped" /\ Types[2] = "completed"
      /\ Types[3] = "cancelled"
  BY DEF Types
<1>2. /\ Rank("processing") = 0 /\ Rank("shipped") = 1 /\ Rank("completed") = 2
      /\ Rank("cancelled") = 3
  BY DEF Rank
<1>3. \A t \in 1 .. 3 : t = 1 \/ t = 2 \/ t = 3
  OBVIOUS
<1>4. \A s \in Statuses : \/ s = "processing" \/ s = "shipped" \/ s = "completed"
                          \/ s = "cancelled"
  BY DEF Statuses
<1>5. Eligible = {"shipped", "completed", "cancelled"}
  BY DEF Eligible, Statuses
<1>6. \A t \in 1 .. 3 : Types[t] \in Eligible /\ Rank(Types[t]) = t
  BY <1>1, <1>2, <1>3, <1>5
<1>7. ASSUME NEW s \in Statuses
      PROVE  /\ Rank(s) \in 0 .. 3 /\ (s \in Eligible <=> Rank(s) > 0)
             /\ \A t \in 1 .. 3 : Rank(s) = t => s = Types[t]
  BY <1>1, <1>2, <1>3, <1>4, <1>5
<1> QED BY <1>1, <1>6, <1>7

LEMMA PageBounds ==
  ASSUME NEW n \in Nat, NEW m \in Nat \ {0}, NEW p \in Nat \ {0}
  PROVE  /\ p * m \in Nat /\ (p - 1) * m \in Nat /\ p * m = (p - 1) * m + m
         /\ (p + 1 - 1) * m = p * m
         /\ (n + m - 1) \div m \in Nat
         /\ p <= (n + m - 1) \div m => (p - 1) * m < n
         /\ p = (n + m - 1) \div m => n <= p * m
         /\ (n + m - 1) \div m = 0 => n = 0
OBVIOUS

LEMMA FiniteLists ==
  ASSUME NEW L \in SUBSET Orders
  PROVE  IsFiniteSet(L) /\ Cardinality(L) \in Nat
BY RozetkaAssumption, FS_Subset, FS_CardinalityType

\* As many places as orders.
LEMMA PlacesOfOrders ==
  ASSUME place \in Places, NEW L \in SUBSET Orders
  PROVE  /\ {place[o] : o \in L} \subseteq Nat
         /\ IsFiniteSet({place[o] : o \in L})
         /\ Cardinality({place[o] : o \in L}) = Cardinality(L)
<1> DEFINE P == {place[o] : o \in L}
           f == [o \in L |-> place[o]]
<1>1. P \subseteq Nat
  <2>1. Cardinality(Orders) \in Nat
    BY FiniteLists
  <2>2. \A o \in Orders : place[o] \in 1 .. Cardinality(Orders)
    BY DEF Places
  <2> QED BY <2>1, <2>2
<1>2. f \in Bijection(L, P)
  <2>1. f \in [L -> P]
    OBVIOUS
  <2>2. \A o, p \in L : f[o] = f[p] => o = p
    BY DEF Places
  <2>3. \A x \in P : \E o \in L : f[o] = x
    OBVIOUS
  <2> HIDE DEF f, P
  <2>4. f \in Injection(L, P)
    BY <2>1, <2>2 DEF Injection, IsInjective
  <2>5. f \in Surjection(L, P)
    BY <2>1, <2>3 DEF Surjection
  <2> QED BY <2>4, <2>5 DEF Bijection
<1>3. IsFiniteSet(L)
  BY FiniteLists
<1> HIDE DEF f, P
<1>4. ExistsBijection(L, P)
  BY <1>2 DEF ExistsBijection
<1>5. IsFiniteSet(P) /\ Cardinality(P) = Cardinality(L)
  BY <1>3, <1>4, FS_Bijection
<1> QED BY <1>1, <1>5 DEF P

LEMMA NumberIsCount ==
  ASSUME place \in Places, NEW L \in SUBSET Orders, NEW o \in L
  PROVE  Number(L, o) = CountUpTo({place[p] : p \in L}, place[o])
<1> DEFINE U == {p \in L : place[p] <= place[o]}
<1>1. {j \in {place[p] : p \in L} : j <= place[o]} = {place[p] : p \in U}
  OBVIOUS
<1>2. Cardinality({place[p] : p \in U}) = Cardinality(U)
  BY PlacesOfOrders
<1> QED BY <1>1, <1>2 DEF Number, CountUpTo

\* The orders of a list are numbered.
LEMMA Numbers ==
  ASSUME place \in Places, NEW L \in SUBSET Orders
  PROVE  /\ \A o \in L : Number(L, o) \in 1 .. Cardinality(L)
         /\ \A o, p \in L : Number(L, o) = Number(L, p) => o = p
         /\ \A n \in 1 .. Cardinality(L) : \E o \in L : Number(L, o) = n
<1> DEFINE P == {place[p] : p \in L}
<1>1. P \subseteq Nat /\ IsFiniteSet(P) /\ Cardinality(P) = Cardinality(L)
  BY PlacesOfOrders
<1>2. \A o \in L : place[o] \in P /\ Number(L, o) = CountUpTo(P, place[o])
  BY NumberIsCount
<1>3. \A x \in P : \E o \in L : x = place[o]
  OBVIOUS
<1>4. \A o, p \in L : place[o] = place[p] => o = p
  BY DEF Places
<1> HIDE DEF P
<1>5. \A o \in L : Number(L, o) \in 1 .. Cardinality(L)
  BY <1>1, <1>2, CountInRange
<1>6. ASSUME NEW o \in L, NEW p \in L, Number(L, o) = Number(L, p)
      PROVE  o = p
  <2>1. CountUpTo(P, place[o]) = CountUpTo(P, place[p]) /\ place[o] \in P /\ place[p] \in P
    BY <1>2, <1>6
  <2>2. \A i, j \in P : CountUpTo(P, i) = CountUpTo(P, j) => i = j
    BY <1>1, CountIsOneToOne
  <2> QED BY <1>4, <2>1, <2>2
<1>7. ASSUME NEW n \in 1 .. Cardinality(L)
      PROVE  \E o \in L : Number(L, o) = n
  <2>1. Nth(P, n) \in P /\ CountUpTo(P, Nth(P, n)) = n
    BY <1>1, NthIsThere
  <2> QED BY <1>2, <1>3, <2>1
<1> QED BY <1>5, <1>6, <1>7

\* A page has the orders of its numbers; after the last one there are none.
LEMMA PageHasItsNumbers ==
  ASSUME TypeOK, page <= PageCount
  PROVE  /\ PageRows \in Seq([id : Orders, status : Eligible])
         /\ \A o \in ListOf(type) :
              /\ Number(ListOf(type), o) > (page - 1) * PageSize
                   => \/ \E i \in DOMAIN PageRows : PageRows[i].id = o
                      \/ Number(ListOf(type), o) > page * PageSize
              /\ page = PageCount => ~ (Number(ListOf(type), o) > page * PageSize)
<1> DEFINE L == ListOf(type)
           a == (page - 1) * PageSize
           b == page * PageSize
           c == Cardinality(L)
           upto == IF b < c THEN b ELSE c
           who(i) == CHOOSE p \in L : Number(L, p) = a + i
<1>1. L \in SUBSET Orders /\ \A o \in L : status[o] = Types[type]
  BY DEF ListOf
<1>2. c \in Nat /\ place \in Places
  BY <1>1, FiniteLists DEF TypeOK
<1>3. /\ a \in Nat /\ b \in Nat /\ a < c /\ a <= b
      /\ (page = PageCount => c <= b)
  <2>1. PageSize \in Nat \ {0} /\ page \in Nat \ {0}
    BY RozetkaAssumption DEF TypeOK
  <2>2. PageCount = (c + PageSize - 1) \div PageSize
    BY DEF PageCount
  <2> HIDE DEF L
  <2>3. /\ page * PageSize \in Nat /\ (page - 1) * PageSize \in Nat
        /\ (page - 1) * PageSize <= page * PageSize
        /\ page <= PageCount => (page - 1) * PageSize < c
        /\ page = PageCount => c <= page * PageSize
    <3> HIDE DEF c
    <3> QED BY <1>2, <2>1, <2>2, PageBounds
  <2> QED BY <2>3
<1>4. PageRows = [i \in 1 .. upto - a |-> [id |-> who(i), status |-> status[who(i)]]]
  BY DEF PageRows
<1> HIDE DEF L, a, b, c
<1>5. \A o \in L : Number(L, o) \in 1 .. c
  BY <1>1, <1>2, Numbers DEF c
<1>6. \A i \in 1 .. upto - a : a + i \in 1 .. c
  BY <1>2, <1>3
<1>7. ASSUME NEW i \in 1 .. upto - a
      PROVE  who(i) \in L /\ Number(L, who(i)) = a + i
  <2>1. \E p \in L : Number(L, p) = a + i
    BY <1>1, <1>2, <1>6, Numbers DEF c
  <2> QED BY <2>1
<1>8. upto - a \in Int /\ (upto - a > 0 => upto - a \in Nat)
  BY <1>2, <1>3
<1>9. PageRows \in Seq([id : Orders, status : Eligible])
  <2>1. Types[type] \in Eligible
    BY TypesAreRanks DEF TypeOK
  <2>2. \A i \in 1 .. upto - a :
          [id |-> who(i), status |-> status[who(i)]] \in [id : Orders, status : Eligible]
    BY <1>1, <1>7, <2>1
  <2>3. upto - a \in Nat
    BY <1>2, <1>3
  <2>4. PageRows \in [1 .. upto - a -> [id : Orders, status : Eligible]]
    BY <1>4, <2>2
  <2>5. \A S : \A k \in Nat : [1 .. k -> S] \subseteq Seq(S)
    OBVIOUS
  <2> HIDE DEF upto, who
  <2> QED BY <2>3, <2>4, <2>5
<1>10. ASSUME NEW o \in L, Number(L, o) > a, ~ (Number(L, o) > b)
       PROVE  \E i \in DOMAIN PageRows : PageRows[i].id = o
  <2> DEFINE k == Number(L, o) - a
  <2>1. k \in 1 .. upto - a /\ a + k = Number(L, o)
    BY <1>2, <1>3, <1>5, <1>10
  <2> HIDE DEF k, upto
  <2>2. who(k) = o
    <3>1. who(k) \in L /\ Number(L, who(k)) = Number(L, o)
      BY <1>7, <2>1
    <3> HIDE DEF who
    <3>2. \A x, y \in L : Number(L, x) = Number(L, y) => x = y
      BY <1>1, <1>2, Numbers
    <3> QED BY <3>1, <3>2
  <2> HIDE DEF who
  <2> QED BY <1>4, <2>1, <2>2
<1>11. ASSUME page = PageCount, NEW o \in L
       PROVE  ~ (Number(L, o) > b)
  BY <1>2, <1>3, <1>5, <1>11
<1> QED BY <1>9, <1>10, <1>11 DEF L, a, b

-----------------------------------------------------------------------------
(* Orders that move.                                                       *)

LEMMA FrontIsAPlace ==
  ASSUME place \in Places, NEW x \in Orders
  PROVE  /\ ToFront(x) \in Places /\ ToFront(x)[x] = 1
         /\ \A o, p \in Orders : o # x /\ p # x /\ place[p] <= place[o]
                                   => ToFront(x)[p] <= ToFront(x)[o]
         /\ \A o \in Orders : 1 <= ToFront(x)[o]
<1> DEFINE N == Cardinality(Orders)
<1>1. N \in Nat /\ place \in [Orders -> 1 .. N]
      /\ \A o, p \in Orders : place[o] = place[p] => o = p
  BY FiniteLists DEF Places
<1> HIDE DEF N
<1>2. ASSUME NEW o \in Orders
      PROVE  /\ ToFront(x)[o] = IF o = x THEN 1
                                ELSE IF place[o] < place[x] THEN place[o] + 1 ELSE place[o]
             /\ ToFront(x)[o] \in 1 .. N
  <2>1. ToFront(x)[o] = IF o = x THEN 1
                        ELSE IF place[o] < place[x] THEN place[o] + 1 ELSE place[o]
    BY DEF ToFront
  <2> QED BY <1>1, <2>1
<1>3. \A o \in Orders : o # x => ToFront(x)[o] > 1
  <2> SUFFICES ASSUME NEW o \in Orders, o # x PROVE ToFront(x)[o] > 1
    OBVIOUS
  <2>1. place[o] # place[x] /\ place[o] \in 1 .. N /\ place[x] \in 1 .. N
    BY <1>1
  <2> QED BY <1>1, <1>2, <2>1
<1>4. \A o, p \in Orders : o # x /\ p # x =>
        /\ place[p] <= place[o] => ToFront(x)[p] <= ToFront(x)[o]
        /\ ToFront(x)[p] = ToFront(x)[o] => place[p] = place[o]
  <2> SUFFICES ASSUME NEW o \in Orders, NEW p \in Orders, o # x, p # x
               PROVE  /\ place[p] <= place[o] => ToFront(x)[p] <= ToFront(x)[o]
                      /\ ToFront(x)[p] = ToFront(x)[o] => place[p] = place[o]
    OBVIOUS
  <2>1. /\ place[o] # place[x] /\ place[p] # place[x]
        /\ place[o] \in 1 .. N /\ place[x] \in 1 .. N /\ place[p] \in 1 .. N
    BY <1>1
  <2> QED BY <1>1, <1>2, <2>1
<1>5. ToFront(x) \in [Orders -> 1 .. N]
  <2>1. ToFront(x) = [o \in Orders |-> ToFront(x)[o]]
    BY DEF ToFront
  <2> QED BY <1>2, <2>1
<1>6. \A o, p \in Orders : ToFront(x)[o] = ToFront(x)[p] => o = p
  <2> SUFFICES ASSUME NEW o \in Orders, NEW p \in Orders, ToFront(x)[o] = ToFront(x)[p]
               PROVE  o = p
    OBVIOUS
  <2>1. ToFront(x)[x] = 1 /\ ToFront(x)[o] \in 1 .. N
    BY <1>2
  <2>2. o = x <=> p = x
    BY <1>1, <1>3, <2>1
  <2> QED BY <1>1, <1>4, <2>2
<1> QED BY <1>1, <1>2, <1>4, <1>5, <1>6 DEF N, Places

\* In a list an order comes no nearer to the front, unless it moves itself or
\* another leaves the list before it.
LEMMA NumbersGrow ==
  ASSUME TypeOK, TypeOK', NEW x \in Orders, place' = ToFront(x),
         \A p \in Orders : p # x => status'[p] = status[p],
         NEW o \in ListOf(type), o # x, status' = status \/ o \notin Behind(x),
         type' = type
  PROVE  /\ o \in ListOf(type)'
         /\ Number(ListOf(type), o) \in Nat
         /\ Number(ListOf(type), o)' \in Nat
         /\ Number(ListOf(type), o) <= Number(ListOf(type), o)'
<1> DEFINE U == {p \in ListOf(type) : place[p] <= place[o]}
           V == {p \in ListOf(type)' : place'[p] <= place'[o]}
<1>1. /\ ListOf(type) \in SUBSET Orders /\ ListOf(type)' \in SUBSET Orders
      /\ place \in Places
      /\ \A p \in Orders : /\ p \in ListOf(type) <=> status[p] = Types[type]
                           /\ p \in ListOf(type)' <=> status'[p] = Types[type]
  BY DEF TypeOK, ListOf
<1>2. o \in ListOf(type)' /\ o \in Orders
  BY <1>1
<1>3. ASSUME NEW p \in U
      PROVE  p \in V
  <2>1. p \in Orders /\ status[p] = Types[type] /\ place[p] <= place[o]
    BY <1>1
  <2>2. CASE p # x
    <3>1. place'[p] <= place'[o] /\ status'[p] = status[p]
      BY <1>1, <1>2, <2>1, <2>2, FrontIsAPlace
    <3> QED BY <1>1, <2>1, <3>1
  <2>3. CASE p = x
    <3>1. place[o] > place[x]
      <4>1. place[x] # place[o]
        BY <1>1, <1>2 DEF Places
      <4>2. place[x] \in Nat /\ place[o] \in Nat
        BY <1>1, <1>2, FiniteLists DEF Places
      <4> QED BY <2>1, <2>3, <4>1, <4>2
    <3>2. o \in Behind(x)
      BY <1>1, <1>2, <2>1, <2>3, <3>1 DEF Behind
    <3>3. place'[x] = 1 /\ place'[x] <= place'[o]
      BY <1>1, <1>2, FrontIsAPlace
    <3> QED BY <1>1, <2>1, <2>3, <3>2, <3>3
  <2> QED BY <2>2, <2>3
<1>4. U \in SUBSET Orders /\ V \in SUBSET Orders
  BY <1>1
<1>5. /\ IsFiniteSet(V) /\ Cardinality(U) \in Nat /\ Cardinality(V) \in Nat
  BY <1>4, FiniteLists
<1>6. Cardinality(U) <= Cardinality(V)
  BY <1>3, <1>5, FS_Subset
<1>7. Number(ListOf(type), o) = Cardinality(U) /\ Number(ListOf(type), o)' = Cardinality(V)
  BY DEF Number
<1> QED BY <1>2, <1>5, <1>6, <1>7

-----------------------------------------------------------------------------
(* Types.                                                                  *)

LEMMA ResetType ==
  ASSUME TypeOK, Reset, pc' \in {"idle", "search"}, UNCHANGED <<status, place, token>>,
         before' \in [Orders -> Statuses],
         moves' \in 0 .. MaxMoves, flaws' \in 0 .. MaxFlaws, faults' \in 0 .. MaxFaults
  PROVE  TypeOK'
<1>1. /\ type' = 1 /\ page' = 1 /\ last' = FALSE /\ left' = <<>> /\ row' = NoRow
      /\ details' = [o \in Orders |-> Unasked]
      /\ orders' = [o \in Orders |-> NoVersion]
      /\ drifted' = {} /\ warned' = {}
      /\ shown' = [o \in Orders |-> {}] /\ dates' = [o \in Orders |-> {}]
  BY DEF Reset
<1>2. details' \in [Orders -> [status : Statuses \cup {"unasked", "unavailable"},
                               dated : Dates, goods : Goods]]
  BY <1>1 DEF Unasked, Dates, Goods
<1>3. left' \in Seq([id : Orders, status : Eligible]) /\ pc' \in Phases
      /\ pc' \notin {"detail", "keep"}
  BY <1>1 DEF Phases
<1>4. type' \in 1 .. 3 /\ page' \in Nat \ {0} /\ last' \in BOOLEAN
  <2>1. type' \in 1 .. 3 /\ page' \in Nat \ {0}
    BY <1>1
  <2> QED BY <1>1, <2>1
<1>5. /\ \A o \in Orders : orders'[o] = NoVersion /\ dates'[o] = {}
      /\ orders' \in [Orders -> [status : Statuses, at : Dates]]
      /\ drifted' \subseteq Orders /\ warned' \subseteq Orders
      /\ shown' \in [Orders -> SUBSET Statuses] /\ dates' \in [Orders -> SUBSET Dates]
  BY <1>1 DEF NoVersion, Statuses, Dates
<1>6. status' \in [Orders -> Statuses] /\ token' \in {"valid", "refused"}
      /\ place' \in Places
  BY DEF TypeOK
<1> QED BY <1>1, <1>2, <1>3, <1>4, <1>5, <1>6 DEF TypeOK

LEMMA InitTypeOK == Init => TypeOK
<1> SUFFICES ASSUME Init PROVE TypeOK
  OBVIOUS
<1>1. /\ status \in [Orders -> Statuses] /\ token \in {"valid", "refused"}
      /\ place \in Places /\ before \in [Orders -> Statuses]
  BY DEF Init, Statuses
<1>2. details \in [Orders -> [status : Statuses \cup {"unasked", "unavailable"},
                              dated : Dates, goods : Goods]]
  BY DEF Init, Unasked, Dates, Goods
<1>3. left \in Seq([id : Orders, status : Eligible])
  BY DEF Init
<1>4. 0 \in 0 .. MaxMoves /\ 0 \in 0 .. MaxFlaws /\ 0 \in 0 .. MaxFaults
  BY RozetkaAssumption
<1>5. /\ pc = "idle" /\ pc \in Phases /\ type \in 1 .. 3 /\ page \in Nat \ {0}
      /\ last \in BOOLEAN /\ row = NoRow
  <2>1. pc = "idle" /\ type = 1 /\ page = 1 /\ last = FALSE /\ row = NoRow
    BY DEF Init
  <2>2. type \in 1 .. 3 /\ page \in Nat \ {0}
    BY <2>1
  <2> QED BY <2>1, <2>2 DEF Phases
<1>6. /\ \A o \in Orders : orders[o] = NoVersion /\ dates[o] = {}
      /\ orders \in [Orders -> [status : Statuses, at : Dates]]
      /\ drifted \subseteq Orders /\ warned \subseteq Orders
      /\ shown \in [Orders -> SUBSET Statuses] /\ dates \in [Orders -> SUBSET Dates]
  BY DEF Init, NoVersion, Statuses, Dates
<1>7. moves \in 0 .. MaxMoves /\ flaws \in 0 .. MaxFlaws /\ faults \in 0 .. MaxFaults
  BY <1>4 DEF Init
<1> QED BY <1>1, <1>2, <1>3, <1>5, <1>6, <1>7 DEF TypeOK

\* Failed requests and flawed payloads are counted up to their bounds.
LEMMA CountsType ==
  ASSUME TypeOK
  PROVE  /\ Refused => faults' \in 0 .. MaxFaults
         /\ \A b \in BOOLEAN : /\ FaultWhen(b) => faults' \in 0 .. MaxFaults
                               /\ FlawWhen(b) => flaws' \in 0 .. MaxFlaws
         /\ Disturb => moves' \in 0 .. MaxMoves
<1>1. /\ MaxMoves \in Nat /\ MaxFlaws \in Nat /\ MaxFaults \in Nat
      /\ moves \in 0 .. MaxMoves /\ flaws \in 0 .. MaxFlaws /\ faults \in 0 .. MaxFaults
  BY RozetkaAssumption DEF TypeOK
<1>2. \A b \in BOOLEAN : FaultWhen(b) => faults' \in 0 .. MaxFaults
  BY <1>1 DEF FaultWhen
<1>3. \A b \in BOOLEAN : FlawWhen(b) => flaws' \in 0 .. MaxFlaws
  BY <1>1 DEF FlawWhen
<1>4. Disturb => moves' \in 0 .. MaxMoves
  BY <1>1 DEF Disturb
<1> QED BY <1>1, <1>2, <1>3, <1>4 DEF Refused

\* What KeepRow makes of the row in hand.
HydratedRow == row.asks /\ Hydrated(details[row.id])
RowStatus   == IF HydratedRow THEN Prefer(row.status, details[row.id].status)
               ELSE row.status
RowGoods    == IF HydratedRow THEN MergedGoods(details[row.id]) ELSE row.goods
RowIsKept   == RowStatus # "processing" /\ RowGoods = "whole"
ShownByRow  == {row.status} \cup (IF HydratedRow THEN {details[row.id].status} ELSE {})
Version(at) == [status |-> RowStatus, at |-> at]

KeepsVersion(at) ==
  /\ orders' = [orders EXCEPT ![row.id] = IF @ = NoVersion THEN Version(at)
                                          ELSE Merge(@, Version(at))]
  /\ dates' = [dates EXCEPT ![row.id] = @ \cup {at}]

LEMMA RowInHand ==
  ASSUME TypeOK, pc \in {"detail", "keep"}
  PROVE  /\ row \in [id : Orders, status : Statuses, dated : Dates, goods : Goods,
                     asks : BOOLEAN]
         /\ row.id \in Orders /\ row.status \in Statuses /\ row.dated \in Dates
         /\ details[row.id] \in [status : Statuses \cup {"unasked", "unavailable"},
                                 dated : Dates, goods : Goods]
BY DEF TypeOK

LEMMA DatesOfRows ==
  ASSUME TypeOK, pc = "keep"
  PROVE  /\ \A a, b \in Dates : Earlier(a, b) \in {a, b}
         /\ MergedDates(details[row.id]) \subseteq Dates
         /\ \A s, a : a \in Dates => At(s, a) \in Dates
<1>1. \A a, b \in Dates : Earlier(a, b) \in {a, b}
  BY DEF Earlier, Dates
<1>2. row.dated \in Dates /\ details[row.id].dated \in Dates
  BY RowInHand
<1>3. MergedDates(details[row.id]) \subseteq Dates
  BY <1>1, <1>2 DEF MergedDates
<1> QED BY <1>1, <1>3 DEF At, Dates

LEMMA KeepRowEffect ==
  ASSUME TypeOK, KeepRow
  PROVE  /\ pc = "keep" /\ pc' = "rows" /\ row' = NoRow /\ RowStatus \in Statuses
         /\ UNCHANGED <<rozetka, cursor, details, before, drifted, bounds>>
         /\ \/ /\ RowIsKept /\ UNCHANGED warned
               /\ shown' = [shown EXCEPT ![row.id] = shown[row.id] \cup ShownByRow]
               /\ \E at \in Dates : KeepsVersion(at)
            \/ /\ ~ RowIsKept /\ warned' = warned \cup {row.id}
               /\ UNCHANGED <<orders, dates, shown>>
<1> DEFINE o == row.id
           d == details[o]
           hydrated == row.asks /\ Hydrated(d)
           s == IF hydrated THEN Prefer(row.status, d.status) ELSE row.status
           goods == IF hydrated THEN MergedGoods(d) ELSE row.goods
           both == {row.status} \cup (IF hydrated THEN {d.status} ELSE {})
           version(dated) == [status |-> s, at |-> At(s, dated)]
           keeps(dated) ==
             /\ orders' = [orders EXCEPT ![o] = IF @ = NoVersion THEN version(dated)
                                                ELSE Merge(@, version(dated))]
             /\ dates' = [dates EXCEPT ![o] = @ \cup {version(dated).at}]
<1>1. /\ pc = "keep" /\ pc' = "rows" /\ row' = NoRow
      /\ UNCHANGED <<rozetka, cursor, details, before, drifted, bounds>>
      /\ \/ /\ s # "processing" /\ goods = "whole"
            /\ \E dated \in IF hydrated THEN MergedDates(d) ELSE {row.dated} : keeps(dated)
            /\ shown' = [shown EXCEPT ![o] = @ \cup {row.status}
                                               \cup (IF hydrated THEN {d.status} ELSE {})]
            /\ UNCHANGED warned
         \/ /\ s = "processing" \/ goods # "whole"
            /\ warned' = warned \cup {o}
            /\ UNCHANGED <<orders, dates, shown>>
  BY DEF KeepRow
<1>2. /\ s = RowStatus /\ goods = RowGoods /\ both = ShownByRow
      /\ s # "processing" /\ goods = "whole" <=> RowIsKept
  BY DEF HydratedRow, RowStatus, RowGoods, RowIsKept, ShownByRow
<1>3. RowStatus \in Statuses
  BY <1>1, RowInHand DEF RowStatus, HydratedRow, Hydrated, Prefer
<1>4. ASSUME NEW dated \in Dates, keeps(dated)
      PROVE  \E at \in Dates : KeepsVersion(at)
  <2>1. At(s, dated) \in Dates
    BY <1>1, DatesOfRows
  <2>2. version(dated) = Version(At(s, dated)) /\ version(dated).at = At(s, dated)
    BY <1>2 DEF Version
  <2>3. KeepsVersion(At(s, dated))
    <3> HIDE DEF version, s
    <3> QED BY <1>4, <2>2 DEF KeepsVersion
  <2> QED BY <2>1, <2>3
<1>5. CASE RowIsKept
  <2>1. PICK dated \in IF hydrated THEN MergedDates(d) ELSE {row.dated} : keeps(dated)
    BY <1>1, <1>2, <1>5
  <2>2. dated \in Dates
    BY <1>1, RowInHand, DatesOfRows
  <2>3. \E at \in Dates : KeepsVersion(at)
    <3> HIDE DEF keeps
    <3> QED BY <1>4, <2>1, <2>2
  <2>4. UNCHANGED warned /\ shown' = [shown EXCEPT ![o] = shown[o] \cup both]
    <3>1. \A x : x \cup both = x \cup {row.status}
                                 \cup (IF hydrated THEN {d.status} ELSE {})
      OBVIOUS
    <3> QED BY <1>1, <1>2, <1>5, <3>1
  <2> HIDE DEF both
  <2> QED BY <1>1, <1>2, <1>3, <1>5, <2>3, <2>4
<1>6. CASE ~ RowIsKept
  <2>1. warned' = warned \cup {o} /\ UNCHANGED <<orders, dates, shown>>
    <3> HIDE DEF s, goods, keeps
    <3> QED BY <1>1, <1>2, <1>6
  <2> QED BY <1>1, <1>3, <1>6, <2>1
<1> QED BY <1>5, <1>6

\* A version that is kept is of an eligible status and of one of the dates.
LEMMA KeptVersion ==
  ASSUME TypeOK, pc = "keep", RowStatus \in Statuses, RowIsKept, NEW at \in Dates,
         KeepsVersion(at)
  PROVE  /\ dates' \in [Orders -> SUBSET Dates]
         /\ orders' \in [Orders -> [status : Statuses, at : Dates]]
         /\ dates'[row.id] = dates[row.id] \cup {at}
         /\ orders'[row.id] = IF orders[row.id] = NoVersion THEN Version(at)
                              ELSE Merge(orders[row.id], Version(at))
         /\ orders'[row.id].status \in Eligible /\ orders'[row.id].at \in dates'[row.id]
         /\ \A o \in Orders : o # row.id => orders'[o] = orders[o] /\ dates'[o] = dates[o]
<1> DEFINE o == row.id
<1>1. /\ o \in Orders /\ dates \in [Orders -> SUBSET Dates]
      /\ orders \in [Orders -> [status : Statuses, at : Dates]]
  BY RowInHand DEF TypeOK
<1>2. /\ dates' = [dates EXCEPT ![o] = dates[o] \cup {at}]
      /\ orders' = [orders EXCEPT ![o] = IF orders[o] = NoVersion THEN Version(at)
                                         ELSE Merge(orders[o], Version(at))]
  BY <1>1 DEF KeepsVersion
<1>3. /\ Version(at) \in [status : Statuses, at : Dates] /\ Version(at).at = at
      /\ Version(at).status \in Eligible
  BY DEF Version, RowIsKept, Eligible
<1>4. ASSUME orders[o] # NoVersion
      PROVE  /\ Merge(orders[o], Version(at)) \in [status : Statuses, at : Dates]
             /\ Merge(orders[o], Version(at)).status \in Eligible
             /\ Merge(orders[o], Version(at)).at \in dates[o] \cup {at}
  <2>1. /\ orders[o].status \in Eligible /\ orders[o].at \in dates[o]
        /\ orders[o].at \in Dates
    BY <1>1, <1>4 DEF TypeOK
  <2>2. Earlier(orders[o].at, at) \in {orders[o].at, at}
    BY <2>1, DatesOfRows
  <2>3. /\ Merge(orders[o], Version(at)).at = Earlier(orders[o].at, at)
        /\ Merge(orders[o], Version(at)).status \in {orders[o].status, Version(at).status}
        /\ DOMAIN Merge(orders[o], Version(at)) = {"status", "at"}
    BY <1>3 DEF Merge
  <2>4. Merge(orders[o], Version(at)) = [status |-> Merge(orders[o], Version(at)).status,
                                        at |-> Merge(orders[o], Version(at)).at]
    BY DEF Merge
  <2> QED BY <1>3, <2>1, <2>2, <2>3, <2>4 DEF Eligible
<1>5. dates' \in [Orders -> SUBSET Dates] /\ dates'[o] = dates[o] \cup {at}
  BY <1>1, <1>2
<1>6. /\ orders'[o] = IF orders[o] = NoVersion THEN Version(at)
                      ELSE Merge(orders[o], Version(at))
      /\ \A p \in Orders : p # o => orders'[p] = orders[p] /\ dates'[p] = dates[p]
  BY <1>1, <1>2
<1>7. orders'[o].status \in Eligible /\ orders'[o].at \in dates'[o]
  BY <1>3, <1>4, <1>5, <1>6
<1>8. orders' \in [Orders -> [status : Statuses, at : Dates]]
  <2>1. (IF orders[o] = NoVersion THEN Version(at) ELSE Merge(orders[o], Version(at)))
          \in [status : Statuses, at : Dates]
    BY <1>3, <1>4
  <2> QED BY <1>1, <1>2, <2>1
<1> QED BY <1>5, <1>6, <1>7, <1>8

LEMMA PageType ==
  ASSUME TypeOK, SearchPage \/ EmptyType \/ PageDone
  PROVE  TypeOK'
<1>1. CASE SearchPage
  <2>1. left' \in Seq([id : Orders, status : Eligible])
    BY <1>1, PageHasItsNumbers DEF SearchPage
  <2>2. last' \in BOOLEAN /\ pc' = "rows" /\ pc = "search"
    BY <1>1 DEF SearchPage
  <2> QED BY <1>1, <2>1, <2>2 DEF SearchPage, TypeOK, Phases
<1>2. CASE EmptyType \/ PageDone
  <2>1. /\ UNCHANGED <<rozetka, row, details, orders, notes, bounds>>
        /\ \/ NextType
           \/ pc' = "search" /\ page' = page + 1 /\ last' = FALSE /\ UNCHANGED <<type, left>>
        /\ pc \in {"search", "rows"}
    BY <1>2 DEF EmptyType, PageDone
  <2>2. Len(Types) = 3
    BY TypesAreRanks
  <2>3. pc' \in {"returned", "search"} /\ left' \in Seq([id : Orders, status : Eligible])
        /\ last' = FALSE
    <3>1. left' = left \/ left' = <<>>
      BY <2>1 DEF NextType
    <3>2. left' \in Seq([id : Orders, status : Eligible])
      <4>1. left \in Seq([id : Orders, status : Eligible])
        BY DEF TypeOK
      <4>2. \A S : <<>> \in Seq(S)
        OBVIOUS
      <4> QED BY <3>1, <4>1, <4>2
    <3>3. pc' \in {"returned", "search"} /\ last' = FALSE
      BY <2>1 DEF NextType
    <3> QED BY <3>2, <3>3
  <2>4. type' \in 1 .. 3 /\ page' \in Nat \ {0}
    <3>1. type \in 1 .. 3 /\ page \in Nat \ {0}
      BY DEF TypeOK
    <3>2. type' = type \/ (type # 3 /\ type' = type + 1)
      BY <2>1, <2>2 DEF NextType
    <3>3. page' = 1 \/ page' = page + 1
      BY <2>1 DEF NextType
    <3> QED BY <3>1, <3>2, <3>3
  <2>5. last' \in BOOLEAN /\ pc' \in Phases /\ pc' \notin {"detail", "keep"}
    BY <2>3 DEF Phases
  <2> QED BY <2>1, <2>3, <2>4, <2>5 DEF TypeOK
<1> QED BY <1>1, <1>2

LEMMA RowType ==
  ASSUME TypeOK, TakeRow \/ GetDetail \/ DetailFails
  PROVE  TypeOK'
<1>1. CASE TakeRow
  <2>1. /\ left \in Seq([id : Orders, status : Eligible]) /\ left # <<>>
        /\ left' = Tail(left)
        /\ UNCHANGED <<rozetka, type, page, last, details, orders, notes, moves, faults>>
    BY <1>1 DEF TakeRow, TypeOK
  <2>2. Head(left) \in [id : Orders, status : Eligible]
        /\ left' \in Seq([id : Orders, status : Eligible])
    <3>1. \A S : left \in Seq(S) => Head(left) \in S /\ left' \in Seq(S)
      BY <2>1, HeadTailProperties
    <3> QED BY <2>1, <3>1
  <2>3. PICK readable \in BOOLEAN, commented \in BOOLEAN, dated \in Dates,
             goods \in Goods :
          LET r == Head(left)
              s == IF readable THEN r.status ELSE "processing"
              asks == \/ s = "processing" \/ Incomplete(goods, commented)
                      \/ s = "completed" /\ ~ ShowsShipment(dated)
          IN  /\ FlawWhen(~ readable \/ ~ commented \/ dated # "shipped"
                          \/ goods # "whole")
              /\ row' = [id |-> r.id, status |-> s, dated |-> dated, goods |-> goods,
                         asks |-> asks]
              /\ pc' = IF asks /\ details[r.id] = Unasked THEN "detail" ELSE "keep"
    BY <1>1 DEF TakeRow
  <2>4. pc' \in {"detail", "keep"} /\ flaws' \in 0 .. MaxFlaws
    BY <2>3, CountsType
  <2>5. row' \in [id : Orders, status : Statuses, dated : Dates, goods : Goods,
                  asks : BOOLEAN]
    <3>1. \A s \in Eligible \cup {"processing"} : s \in Statuses
      BY DEF Eligible, Statuses
    <3>2. (Incomplete(goods, commented)) \in BOOLEAN
      BY DEF Incomplete
    <3> QED BY <2>2, <2>3, <3>1, <3>2
  <2> QED BY <2>1, <2>2, <2>4, <2>5 DEF TypeOK, Phases
<1>2. CASE GetDetail
  <2>1. PICK s \in Statuses, dated \in Dates, goods \in Goods :
          /\ FlawWhen(s # status[row.id] \/ dated # "shipped" \/ goods # "whole")
          /\ details' = [details EXCEPT ![row.id] =
                           [status |-> s, dated |-> dated, goods |-> goods]]
    BY <1>2 DEF GetDetail
  <2>2. flaws' \in 0 .. MaxFlaws
    BY <2>1, CountsType
  <2>3. details' \in [Orders -> [status : Statuses \cup {"unasked", "unavailable"},
                                 dated : Dates, goods : Goods]]
    BY <2>1 DEF TypeOK
  <2> QED BY <1>2, <2>2, <2>3 DEF GetDetail, TypeOK, Phases
<1>3. CASE DetailFails
  <2>1. faults' \in 0 .. MaxFaults
    BY <1>3, CountsType DEF DetailFails
  <2>2. Unavailable \in [status : Statuses \cup {"unasked", "unavailable"},
                         dated : Dates, goods : Goods]
    BY DEF Unavailable, Unasked, Dates, Goods
  <2>3. details' \in [Orders -> [status : Statuses \cup {"unasked", "unavailable"},
                                 dated : Dates, goods : Goods]]
    BY <1>3, <2>2 DEF DetailFails, TypeOK
  <2> QED BY <1>3, <2>1, <2>3 DEF DetailFails, TypeOK, Phases
<1> QED BY <1>1, <1>2, <1>3

Dated(o) == IF dates[o] = {} THEN orders[o] = NoVersion
            ELSE orders[o].status \in Eligible /\ orders[o].at \in dates[o]

LEMMA KeepType ==
  ASSUME TypeOK, KeepRow
  PROVE  TypeOK'
<1>1. /\ pc = "keep" /\ pc' = "rows" /\ row' = NoRow /\ RowStatus \in Statuses
      /\ UNCHANGED <<rozetka, cursor, details, before, drifted, bounds>>
      /\ \/ /\ RowIsKept /\ UNCHANGED warned
            /\ shown' = [shown EXCEPT ![row.id] = shown[row.id] \cup ShownByRow]
            /\ \E at \in Dates : KeepsVersion(at)
         \/ /\ ~ RowIsKept /\ warned' = warned \cup {row.id}
            /\ UNCHANGED <<orders, dates, shown>>
  BY KeepRowEffect
<1>2. row.id \in Orders /\ row.status \in Statuses
  BY <1>1, RowInHand
<1>3. shown' \in [Orders -> SUBSET Statuses]
  <2>1. HydratedRow => details[row.id].status \in Statuses
    BY DEF HydratedRow, Hydrated
  <2>2. ShownByRow \subseteq Statuses
    BY <1>2, <2>1 DEF ShownByRow
  <2> QED BY <1>1, <1>2, <2>2 DEF TypeOK
<1>4. warned' \subseteq Orders
  BY <1>1, <1>2 DEF TypeOK
<1>5. /\ orders' \in [Orders -> [status : Statuses, at : Dates]]
      /\ dates' \in [Orders -> SUBSET Dates]
      /\ \A o \in Orders : Dated(o)'
  <2>1. CASE UNCHANGED <<orders, dates>>
    BY <2>1 DEF TypeOK, Dated
  <2>2. CASE RowIsKept /\ \E at \in Dates : KeepsVersion(at)
    <3>0. PICK at \in Dates : KeepsVersion(at)
      BY <2>2
    <3>1. /\ orders' \in [Orders -> [status : Statuses, at : Dates]]
          /\ dates' \in [Orders -> SUBSET Dates]
          /\ orders'[row.id].status \in Eligible /\ orders'[row.id].at \in dates'[row.id]
          /\ \A o \in Orders : o # row.id => orders'[o] = orders[o] /\ dates'[o] = dates[o]
      BY <1>1, <2>2, <3>0, KeptVersion
    <3>2. dates'[row.id] # {}
      BY <3>1
    <3>3. ASSUME NEW o \in Orders
          PROVE  Dated(o)'
      <4>1. CASE o = row.id
        BY <3>1, <3>2, <4>1 DEF Dated
      <4>2. CASE o # row.id
        BY <3>1, <4>2 DEF TypeOK, Dated
      <4> QED BY <4>1, <4>2
    <3> QED BY <3>1, <3>3
  <2> QED BY <1>1, <2>1, <2>2
<1> QED BY <1>1, <1>3, <1>4, <1>5 DEF TypeOK, Dated, Phases

LEMMA MoveType ==
  ASSUME TypeOK, NEW o \in Orders, Move(o) \/ Touch(o)
  PROVE  /\ TypeOK'
         /\ UNCHANGED <<token, pc, cursor, row, details, orders, before, warned, shown,
                        dates, flaws, faults>>
         /\ place' = ToFront(o)
         /\ \A p \in Orders : p # o => status'[p] = status[p]
         /\ \/ /\ status' = status
               /\ drifted' = IF Reading(status[o]) THEN drifted \cup {o} ELSE drifted
            \/ /\ Rank(status'[o]) > Rank(status[o]) /\ status'[o] \in Statuses
               /\ drifted' = IF Reading(status[o]) THEN drifted \cup Behind(o) ELSE drifted
<1>1. Disturb /\ place' = ToFront(o)
  BY DEF Move, Touch
<1>2. moves' \in 0 .. MaxMoves
  BY <1>1, CountsType
<1>3. UNCHANGED <<token, pc, cursor, row, details, orders, before, warned, shown,
                  dates, flaws, faults>>
  BY <1>1 DEF Disturb
<1>4. place' \in Places
  BY <1>1, FrontIsAPlace DEF TypeOK
<1>5. CASE Touch(o)
  <2>1. UNCHANGED status
        /\ drifted' = IF Reading(status[o]) THEN drifted \cup {o} ELSE drifted
    BY <1>5 DEF Touch
  <2>2. drifted' \subseteq Orders
    BY <2>1 DEF TypeOK
  <2> QED BY <1>1, <1>2, <1>3, <1>4, <2>1, <2>2 DEF TypeOK
<1>6. CASE Move(o)
  <2>1. PICK s \in Statuses : Rank(s) > Rank(status[o]) /\ status' = [status EXCEPT ![o] = s]
    BY <1>6 DEF Move
  <2>2. status' \in [Orders -> Statuses] /\ status'[o] = s
        /\ \A p \in Orders : p # o => status'[p] = status[p]
    BY <2>1 DEF TypeOK
  <2>3. drifted' = IF Reading(status[o]) THEN drifted \cup Behind(o) ELSE drifted
    BY <1>6 DEF Move
  <2>4. drifted' \subseteq Orders
    BY <2>3 DEF TypeOK, Behind
  <2> QED BY <1>1, <1>2, <1>3, <1>4, <2>1, <2>2, <2>3, <2>4 DEF TypeOK
<1> QED BY <1>5, <1>6

\* The fetch is given up or over, and what it collected is forgotten.
GivesUp == PageGone \/ SearchFails \/ EndFetch

LEMMA GivenUp ==
  ASSUME TypeOK, GivesUp
  PROVE  TypeOK' /\ Reset /\ pc' = "idle" /\ UNCHANGED <<rozetka, before>>
<1>1. faults' \in 0 .. MaxFaults
  BY CountsType DEF GivesUp, PageGone, SearchFails, EndFetch, TypeOK
<1>2. /\ Reset /\ pc' = "idle" /\ UNCHANGED <<rozetka, before, moves, flaws>>
  BY DEF GivesUp, PageGone, SearchFails, EndFetch
<1>3. TypeOK'
  BY <1>1, <1>2, ResetType DEF TypeOK
<1> QED BY <1>2, <1>3

LEMMA TypeStep == TypeOK /\ [Next]_vars => TypeOK'
<1> SUFFICES ASSUME TypeOK, [Next]_vars PROVE TypeOK'
  OBVIOUS
<1>1. CASE StartFetch
  <2>1. /\ Reset /\ pc' = "search" /\ before' = status /\ UNCHANGED <<rozetka, bounds>>
    BY <1>1 DEF StartFetch
  <2> QED BY <2>1, ResetType DEF TypeOK
<1>2. CASE SearchPage \/ EmptyType \/ PageDone
  BY <1>2, PageType
<1>3. CASE GivesUp
  BY <1>3, GivenUp
<1>4. CASE TakeRow \/ GetDetail \/ DetailFails
  BY <1>4, RowType
<1>5. CASE KeepRow
  BY <1>5, KeepType
<1>6. ASSUME NEW o \in Orders, Move(o) \/ Touch(o)
      PROVE  TypeOK'
  BY <1>6, MoveType
<1>7. CASE ExpireToken
  <2>1. faults' \in 0 .. MaxFaults
    BY <1>7, CountsType DEF ExpireToken
  <2> QED BY <1>7, <2>1 DEF ExpireToken, TypeOK
<1>8. CASE UNCHANGED vars
  BY <1>8 DEF TypeOK
<1> QED BY <1>1, <1>2, <1>3, <1>4, <1>5, <1>6, <1>7, <1>8
        DEF Next, Search, Row, GivesUp

\* Every reachable state is well typed: a kept version has a status it can be kept
\* with and one of its own dates.
THEOREM TypeCorrect == Spec => []TypeOK
BY InitTypeOK, TypeStep, PTL DEF Spec

-----------------------------------------------------------------------------
(* Orders the fetch can still reach.                                       *)

\* What the invariant says of one order.
Reached(o) ==
  before[o] \in Eligible /\ o \notin drifted =>
    /\ Fetching => Handled(o) \/ Waiting(o) \/ InHand(o) \/ Ahead(o)
    /\ pc = "returned" => Handled(o)

LEMMA ReachInvIs ==
  ReachInv <=> /\ TypeOK
               /\ pc = "search" => left = <<>>
               /\ \A o \in Orders : Reached(o)
BY DEF ReachInv, Reached

\* In a list that is begun, everything is ahead.
LEMMA BeginsAhead ==
  ASSUME TypeOK', pc' = "search", page' = 1, NEW o \in Orders, Rank(status'[o]) >= type'
  PROVE  Ahead(o)'
<1> DEFINE V == {p \in ListOf(type)' : place'[p] <= place'[o]}
<1>1. Rank(status'[o]) \in 0 .. 3 /\ type' \in 1 .. 3 /\ status'[o] \in Statuses
  BY TypesAreRanks DEF TypeOK
<1>2. CASE Rank(status'[o]) > type'
  BY <1>2 DEF Ahead
<1>3. CASE Rank(status'[o]) = type'
  <2>1. status'[o] = Types[type'] /\ o \in ListOf(type)' /\ ListOf(type)' \subseteq Orders
    BY <1>1, <1>3, TypesAreRanks DEF ListOf
  <2>2. o \in V /\ V \in SUBSET Orders
    <3>1. place'[o] \in Nat
      BY FiniteLists DEF TypeOK, Places
    <3> QED BY <2>1, <3>1
  <2>3. Cardinality(V) \in Nat /\ Cardinality(V) # 0
    BY <2>2, FiniteLists, FS_EmptySet
  <2>4. Number(ListOf(type), o)' > 0
    BY <2>3 DEF Number
  <2>5. (page' - 1) * PageSize = 0
    BY RozetkaAssumption
  <2> QED BY <2>1, <2>4, <2>5 DEF Ahead
<1> QED BY <1>1, <1>2, <1>3

\* A list that is done has nothing more ahead.
LEMMA NextTypeReaches ==
  ASSUME TypeOK, TypeOK', NextType, UNCHANGED <<rozetka, orders, before, warned>>,
         NEW o \in Orders, Handled(o) \/ Rank(status[o]) > type
  PROVE  /\ Fetching' => Handled(o)' \/ Ahead(o)'
         /\ pc' = "returned" => Handled(o)'
<1>1. CASE Handled(o)
  BY <1>1 DEF Handled
<1>2. CASE Rank(status[o]) > type
  <2>1. Rank(status[o]) \in 0 .. 3 /\ type \in 1 .. 3
    BY TypesAreRanks DEF TypeOK
  <2>2. Len(Types) = 3
    BY TypesAreRanks
  <2>3. type # 3
    BY <1>2, <2>1
  <2>4. type' = type + 1 /\ page' = 1 /\ pc' = "search"
    BY <2>2, <2>3 DEF NextType
  <2>5. Rank(status'[o]) >= type'
    BY <1>2, <2>1, <2>4
  <2>6. Ahead(o)'
    BY <2>4, <2>5, BeginsAhead
  <2> QED BY <2>4, <2>6
<1> QED BY <1>1, <1>2

LEMMA SearchReaches ==
  ASSUME ReachInv, TypeOK', SearchPage, NEW o \in Orders
  PROVE  Reached(o)'
<1> SUFFICES ASSUME before[o] \in Eligible, o \notin drifted
             PROVE  Handled(o)' \/ Waiting(o)' \/ Ahead(o)'
  <2>1. pc' = "rows" /\ UNCHANGED <<before, drifted>>
    BY DEF SearchPage
  <2> QED BY <2>1 DEF Reached
<1>1. /\ pc = "search" /\ page <= PageCount /\ pc' = "rows" /\ left' = PageRows
      /\ last' = (page = PageCount)
      /\ UNCHANGED <<rozetka, type, page, row, details, orders, notes, bounds>>
  BY DEF SearchPage
<1>2. TypeOK /\ left = <<>> /\ (Handled(o) \/ Waiting(o) \/ InHand(o) \/ Ahead(o))
  BY <1>1, ReachInvIs DEF Reached, Fetching
<1>3. ~ Waiting(o) /\ ~ InHand(o)
  BY <1>1, <1>2 DEF Waiting, InHand
<1>4. CASE Handled(o)
  BY <1>1, <1>4 DEF Handled
<1>5. CASE Rank(status[o]) > type
  BY <1>1, <1>5 DEF Ahead
<1>6. CASE status[o] = Types[type] /\ Number(ListOf(type), o) > (page - 1) * PageSize
  <2>1. o \in ListOf(type)
    BY <1>6 DEF ListOf
  <2>2. /\ \/ \E i \in DOMAIN PageRows : PageRows[i].id = o
           \/ Number(ListOf(type), o) > page * PageSize
        /\ page = PageCount => ~ (Number(ListOf(type), o) > page * PageSize)
    BY <1>1, <1>2, <1>6, <2>1, PageHasItsNumbers
  <2>3. CASE \E i \in DOMAIN PageRows : PageRows[i].id = o
    BY <1>1, <2>3 DEF Waiting
  <2>4. CASE Number(ListOf(type), o) > page * PageSize
    <3>1. ~ last'
      BY <1>1, <2>2, <2>4
    <3>2. Number(ListOf(type), o)' = Number(ListOf(type), o)
      BY <1>1 DEF Number, ListOf
    <3> QED BY <1>1, <1>6, <2>4, <3>1, <3>2 DEF Ahead
  <2> QED BY <2>2, <2>3, <2>4
<1> QED BY <1>1, <1>2, <1>3, <1>4, <1>5, <1>6 DEF Ahead

\* A page that is done has nothing more waiting.
LEMMA PageDoneReaches ==
  ASSUME ReachInv, TypeOK', EmptyType \/ PageDone, NEW o \in Orders
  PROVE  Reached(o)'
<1> SUFFICES ASSUME before[o] \in Eligible, o \notin drifted
             PROVE  /\ Fetching' => Handled(o)' \/ Ahead(o)'
                    /\ pc' = "returned" => Handled(o)'
  <2>1. UNCHANGED <<before, drifted>>
    BY DEF EmptyType, PageDone
  <2> QED BY <2>1 DEF Reached
<1>1. /\ pc \in {"search", "rows"} /\ left = <<>>
      /\ UNCHANGED <<rozetka, row, details, orders, notes, bounds>>
  BY ReachInvIs DEF EmptyType, PageDone
<1>2. TypeOK /\ (Handled(o) \/ Ahead(o))
  <2>1. TypeOK /\ (Handled(o) \/ Waiting(o) \/ InHand(o) \/ Ahead(o))
    BY <1>1, ReachInvIs DEF Reached, Fetching
  <2> QED BY <1>1, <2>1 DEF Waiting, InHand
<1>3. CASE EmptyType
  <2>1. NextType /\ PageCount = 0
    BY <1>3 DEF EmptyType
  <2>2. ~ (status[o] = Types[type])
    <3>1. ListOf(type) \in SUBSET Orders
      BY DEF ListOf
    <3>2. IsFiniteSet(ListOf(type)) /\ Cardinality(ListOf(type)) \in Nat
      BY <3>1, FiniteLists
    <3>3. Cardinality(ListOf(type)) = 0
      <4>1. \A n \in Nat : (n + PageSize - 1) \div PageSize = 0 => n = 0
        BY RozetkaAssumption, PageBounds, 1 \in Nat \ {0}
      <4> QED BY <2>1, <3>2, <4>1 DEF PageCount
    <3>4. ListOf(type) = {}
      BY <3>2, <3>3, FS_EmptySet
    <3> QED BY <3>4 DEF ListOf
  <2>3. Handled(o) \/ Rank(status[o]) > type
    BY <1>2, <2>2 DEF Ahead
  <2> QED BY <1>1, <1>2, <2>1, <2>3, NextTypeReaches
<1>4. CASE PageDone /\ last
  <2>1. NextType /\ pc = "rows"
    BY <1>4 DEF PageDone
  <2>2. Handled(o) \/ Rank(status[o]) > type
    BY <1>2, <1>4, <2>1 DEF Ahead
  <2> QED BY <1>1, <1>2, <2>1, <2>2, NextTypeReaches
<1>5. CASE PageDone /\ ~ last
  <2>1. /\ pc = "rows" /\ pc' = "search" /\ page' = page + 1
        /\ UNCHANGED <<type, rozetka, orders, warned>>
    BY <1>1, <1>5 DEF PageDone
  <2>2. CASE Handled(o)
    BY <2>1, <2>2 DEF Handled
  <2>3. CASE Rank(status[o]) > type
    BY <2>1, <2>3 DEF Ahead
  <2>4. CASE status[o] = Types[type] /\ Number(ListOf(type), o) > page * PageSize
    <3>1. Number(ListOf(type), o)' = Number(ListOf(type), o)
      BY <2>1 DEF Number, ListOf
    <3>2. (page' - 1) * PageSize = page * PageSize
      <4>1. page' - 1 = page
        BY <1>2, <2>1 DEF TypeOK
      <4> QED BY <4>1
    <3> QED BY <2>1, <2>4, <3>1, <3>2 DEF Ahead
  <2> QED BY <1>2, <2>1, <2>2, <2>3, <2>4 DEF Ahead
<1> QED BY <1>3, <1>4, <1>5

LEMMA RowReaches ==
  ASSUME ReachInv, TakeRow \/ GetDetail \/ DetailFails, NEW o \in Orders
  PROVE  Reached(o)'
<1> SUFFICES ASSUME before[o] \in Eligible, o \notin drifted
             PROVE  Handled(o)' \/ Waiting(o)' \/ InHand(o)' \/ Ahead(o)'
  <2>1. pc' # "returned" /\ UNCHANGED <<before, drifted>>
    BY DEF TakeRow, GetDetail, DetailFails
  <2> QED BY <2>1 DEF Reached
<1>1. TypeOK /\ (Handled(o) \/ Waiting(o) \/ InHand(o) \/ Ahead(o))
  BY ReachInvIs DEF Reached, Fetching, TakeRow, GetDetail, DetailFails
<1>2. /\ pc # "search" /\ pc' \in {"detail", "keep"}
      /\ UNCHANGED <<rozetka, type, page, last, orders, notes>>
  BY DEF TakeRow, GetDetail, DetailFails
<1>3. CASE Handled(o)
  BY <1>2, <1>3 DEF Handled
<1>4. CASE Ahead(o)
  <2>1. Number(ListOf(type), o)' = Number(ListOf(type), o)
    BY <1>2 DEF Number, ListOf
  <2> QED BY <1>2, <1>4, <2>1 DEF Ahead
<1>5. CASE GetDetail \/ DetailFails
  <2>1. pc = "detail" /\ UNCHANGED <<left, row>>
    BY <1>5 DEF GetDetail, DetailFails
  <2> QED BY <1>1, <1>2, <1>3, <1>4, <2>1 DEF Waiting, InHand
<1>6. CASE TakeRow /\ Waiting(o)
  <2>1. left \in Seq([id : Orders, status : Eligible]) /\ left # <<>>
        /\ row'.id = Head(left).id /\ left' = Tail(left)
    BY <1>1, <1>6 DEF TakeRow, TypeOK
  <2>2. PICK i \in DOMAIN left : left[i].id = o
    BY <1>6 DEF Waiting
  <2>3. CASE i = 1
    <3>1. Head(left) = left[1]
      BY <2>1
    <3> QED BY <1>2, <2>1, <2>2, <2>3, <3>1 DEF InHand
  <2>4. CASE i # 1
    <3>1. /\ DOMAIN left = 1 .. Len(left) /\ Len(left) \in Nat
          /\ DOMAIN left' = 1 .. Len(left')
          /\ Len(left') = Len(left) - 1
          /\ \A j \in 1 .. Len(left') : left'[j] = left[j + 1]
      BY <2>1, HeadTailProperties, LenProperties
    <3>2. i - 1 \in 1 .. Len(left') /\ i - 1 + 1 = i
      BY <2>2, <2>4, <3>1
    <3>3. left'[i - 1] = left[i]
      BY <3>1, <3>2
    <3> QED BY <2>2, <3>1, <3>2, <3>3 DEF Waiting
  <2> QED BY <2>3, <2>4
<1>7. CASE TakeRow /\ InHand(o)
  BY <1>7 DEF TakeRow, InHand
<1> QED BY <1>1, <1>3, <1>4, <1>5, <1>6, <1>7

LEMMA KeepReaches ==
  ASSUME ReachInv, KeepRow, NEW o \in Orders
  PROVE  Reached(o)'
<1>0. TypeOK
  BY ReachInvIs
<1>1. /\ pc = "keep" /\ pc' = "rows" /\ RowStatus \in Statuses
      /\ UNCHANGED <<rozetka, cursor, details, before, drifted, bounds>>
      /\ \/ RowIsKept /\ UNCHANGED warned /\ \E at \in Dates : KeepsVersion(at)
         \/ /\ ~ RowIsKept /\ warned' = warned \cup {row.id}
            /\ UNCHANGED <<orders, dates>>
  BY <1>0, KeepRowEffect
<1>2. SUFFICES ASSUME before[o] \in Eligible, o \notin drifted
               PROVE  Handled(o)' \/ Waiting(o)' \/ Ahead(o)'
  BY <1>1 DEF Reached
<1>3. Handled(o) \/ Waiting(o) \/ InHand(o) \/ Ahead(o)
  BY <1>1, <1>2, ReachInvIs DEF Reached, Fetching
<1>4. CASE Waiting(o)
  BY <1>1, <1>4 DEF Waiting
<1>5. CASE Ahead(o)
  <2>1. Number(ListOf(type), o)' = Number(ListOf(type), o)
    BY <1>1 DEF Number, ListOf
  <2> QED BY <1>1, <1>5, <2>1 DEF Ahead
<1>6. CASE Handled(o) \/ InHand(o)
  <2>1. CASE ~ RowIsKept
    BY <1>1, <1>6, <2>1 DEF Handled, InHand
  <2>2. CASE RowIsKept
    <3>1. PICK at \in Dates : KeepsVersion(at)
      BY <1>1, <2>2
    <3>2. /\ orders'[row.id].status \in Eligible
          /\ \A p \in Orders : p # row.id => orders'[p] = orders[p]
      BY <1>0, <1>1, <2>2, <3>1, KeptVersion
    <3>3. orders'[row.id] # NoVersion
      BY <3>2 DEF NoVersion, Eligible
    <3> QED BY <1>1, <1>6, <2>2, <3>2, <3>3 DEF Handled, InHand
  <2> QED BY <2>1, <2>2
<1> QED BY <1>3, <1>4, <1>5, <1>6

\* A move at Rozetka takes no order out of reach but those it is noted for.
LEMMA MovesReach ==
  ASSUME ReachInv, TypeOK', NEW x \in Orders, Move(x) \/ Touch(x), NEW o \in Orders
  PROVE  Reached(o)'
<1>0. TypeOK
  BY ReachInvIs
<1>1. /\ UNCHANGED <<token, pc, cursor, row, details, orders, before, warned, shown,
                     dates, flaws, faults>>
      /\ place' = ToFront(x)
      /\ \A p \in Orders : p # x => status'[p] = status[p]
      /\ \/ /\ status' = status
            /\ drifted' = IF Reading(status[x]) THEN drifted \cup {x} ELSE drifted
         \/ /\ Rank(status'[x]) > Rank(status[x]) /\ status'[x] \in Statuses
            /\ drifted' = IF Reading(status[x]) THEN drifted \cup Behind(x) ELSE drifted
  BY <1>0, MoveType
<1>2. SUFFICES ASSUME before[o] \in Eligible, o \notin drifted'
               PROVE  /\ Fetching => Handled(o)' \/ Waiting(o)' \/ InHand(o)' \/ Ahead(o)'
                      /\ pc = "returned" => Handled(o)'
  BY <1>1 DEF Reached, Fetching
<1>3. o \notin drifted
  BY <1>1, <1>2
<1>4. /\ Fetching => Handled(o) \/ Waiting(o) \/ InHand(o) \/ Ahead(o)
      /\ pc = "returned" => Handled(o)
  BY <1>2, <1>3, ReachInvIs DEF Reached
<1>5. /\ Handled(o) => Handled(o)'
      /\ Waiting(o) => Waiting(o)'
      /\ InHand(o) => InHand(o)'
  BY <1>1 DEF Handled, Waiting, InHand
<1>6. ASSUME Fetching, Ahead(o)
      PROVE  Ahead(o)'
  <2>1. /\ Rank(status[o]) \in 0 .. 3 /\ Rank(status'[o]) \in 0 .. 3 /\ type \in 1 .. 3
        /\ status[o] = Types[type] => Rank(status[o]) = type
    BY <1>0, TypesAreRanks DEF TypeOK
  <2>2. Rank(status'[o]) >= Rank(status[o])
    BY <1>1, <2>1
  <2>3. CASE Rank(status'[o]) > type
    BY <1>1, <2>3 DEF Ahead
  <2>4. CASE pc = "search" /\ page = 1
    <3>1. Rank(status'[o]) >= type
      BY <1>6, <2>1, <2>2 DEF Ahead
    <3> QED BY <1>1, <2>4, <3>1, BeginsAhead
  <2>5. CASE ~ (Rank(status'[o]) > type) /\ ~ (pc = "search" /\ page = 1)
    <3>1. Rank(status[o]) = type /\ Rank(status'[o]) = type
      BY <1>6, <2>1, <2>2, <2>5 DEF Ahead
    <3>2. /\ status[o] = Types[type] /\ o \in ListOf(type)
          /\ \/ pc = "search" /\ Number(ListOf(type), o) > (page - 1) * PageSize
             \/ pc # "search" /\ ~ last /\ Number(ListOf(type), o) > page * PageSize
      BY <1>6, <2>1, <3>1 DEF Ahead, ListOf
    <3>3. status[x] = Types[type] => Reading(status[x])
      <4>1. page \in Nat \ {0}
        BY <1>0 DEF TypeOK
      <4> QED BY <1>6, <2>5, <4>1 DEF Reading, Fetching
    <3>4. o # x /\ (status' = status \/ o \notin Behind(x))
      <4>1. CASE status' = status /\ drifted' = IF Reading(status[x]) THEN drifted \cup {x}
                                                ELSE drifted
        BY <1>2, <3>2, <3>3, <4>1
      <4>2. CASE /\ Rank(status'[x]) > Rank(status[x])
                 /\ drifted' = IF Reading(status[x]) THEN drifted \cup Behind(x) ELSE drifted
        <5>1. o # x
          BY <2>1, <3>1, <4>2
        <5>2. status[x] = status[o] => o \notin Behind(x)
          BY <1>2, <3>2, <3>3, <4>2
        <5> QED BY <5>1, <5>2 DEF Behind
      <4> QED BY <1>1, <4>1, <4>2
    <3>5. /\ o \in ListOf(type)'
          /\ Number(ListOf(type), o) \in Nat /\ Number(ListOf(type), o)' \in Nat
          /\ Number(ListOf(type), o) <= Number(ListOf(type), o)'
      BY <1>0, <1>1, <3>2, <3>4, NumbersGrow
    <3>6. status'[o] = Types[type]
      BY <1>1, <3>5 DEF ListOf
    <3>7. (page - 1) * PageSize \in Nat /\ page * PageSize \in Nat
      BY <1>0, RozetkaAssumption, PageBounds DEF TypeOK
    <3>8. CASE pc = "search" /\ Number(ListOf(type), o) > (page - 1) * PageSize
      <4>1. Number(ListOf(type), o)' > (page - 1) * PageSize
        BY <3>5, <3>7, <3>8
      <4> QED BY <1>1, <3>6, <3>8, <4>1 DEF Ahead
    <3>9. CASE pc # "search" /\ ~ last /\ Number(ListOf(type), o) > page * PageSize
      <4>1. Number(ListOf(type), o)' > page * PageSize
        BY <3>5, <3>7, <3>9
      <4> QED BY <1>1, <3>6, <3>9, <4>1 DEF Ahead
    <3> QED BY <3>2, <3>8, <3>9
  <2> QED BY <2>3, <2>4, <2>5
<1> QED BY <1>4, <1>5, <1>6

LEMMA ReachStep == ReachInv /\ [Next]_vars => ReachInv'
<1> SUFFICES ASSUME ReachInv, [Next]_vars PROVE ReachInv'
  OBVIOUS
<1>0. TypeOK /\ TypeOK'
  BY TypeStep, ReachInvIs
<1>1. /\ pc' = "search" => left' = <<>>
      /\ \A o \in Orders : Reached(o)'
  <2>1. CASE StartFetch
    <3>1. /\ pc' = "search" /\ before' = status /\ UNCHANGED status
          /\ type' = 1 /\ page' = 1 /\ left' = <<>>
      BY <2>1 DEF StartFetch, Reset
    <3>2. ASSUME NEW o \in Orders, before'[o] \in Eligible
          PROVE  Ahead(o)'
      <4>1. Rank(status'[o]) >= 1
        <5>1. Rank(status[o]) \in 0 .. 3 /\ Rank(status[o]) > 0
          BY <1>0, <3>1, <3>2, TypesAreRanks DEF TypeOK
        <5> QED BY <3>1, <5>1
      <4> QED BY <1>0, <3>1, <4>1, BeginsAhead
    <3> QED BY <3>1, <3>2 DEF Reached
  <2>2. CASE SearchPage
    <3>1. pc' = "rows"
      BY <2>2 DEF SearchPage
    <3> QED BY <1>0, <2>2, <3>1, SearchReaches
  <2>3. CASE EmptyType \/ PageDone
    <3>1. left' = <<>>
      BY <2>3, ReachInvIs DEF EmptyType, PageDone, NextType
    <3> QED BY <1>0, <2>3, <3>1, PageDoneReaches
  <2>4. CASE GivesUp
    <3>1. pc' = "idle"
      BY <1>0, <2>4, GivenUp
    <3> QED BY <3>1 DEF Reached, Fetching
  <2>5. CASE TakeRow \/ GetDetail \/ DetailFails
    <3>1. pc' # "search"
      BY <2>5 DEF TakeRow, GetDetail, DetailFails
    <3> QED BY <2>5, <3>1, RowReaches
  <2>6. CASE KeepRow
    <3>1. pc' # "search"
      BY <2>6 DEF KeepRow
    <3> QED BY <2>6, <3>1, KeepReaches
  <2>7. ASSUME NEW x \in Orders, Move(x) \/ Touch(x)
        PROVE  /\ pc' = "search" => left' = <<>>
               /\ \A o \in Orders : Reached(o)'
    <3>1. UNCHANGED <<pc, left>>
      BY <1>0, <2>7, MoveType
    <3> QED BY <1>0, <2>7, <3>1, MovesReach, ReachInvIs
  <2>8. CASE ExpireToken \/ UNCHANGED vars
    <3>1. UNCHANGED <<status, place, pc, cursor, row, orders, notes>>
      BY <2>8 DEF ExpireToken
    <3>2. \A o : Reached(o)' <=> Reached(o)
      BY <3>1 DEF Reached, Fetching, Handled, Waiting, InHand, Ahead, Number, ListOf
    <3> QED BY <3>1, <3>2, ReachInvIs
  <2> QED BY <2>1, <2>2, <2>3, <2>4, <2>5, <2>6, <2>7, <2>8
          DEF Next, Search, Row, GivesUp
<1> QED BY <1>0, <1>1 DEF ReachInv, Reached

\* For any orders, page size and moves between the requests: what was eligible
\* when the fetch began has a version or a message when it returns, unless a move
\* in the list being read brought it towards the front.
THEOREM LostByDrift == Spec => []LostOnlyByDrift
<1>1. Init => ReachInv
  <2>1. Init => TypeOK /\ pc = "idle"
    BY InitTypeOK DEF Init
  <2> QED BY <2>1 DEF ReachInv, Fetching
<1>2. ReachInv => LostOnlyByDrift
  BY DEF ReachInv, LostOnlyByDrift, Handled
<1> QED BY <1>1, <1>2, ReachStep, PTL DEF Spec

-----------------------------------------------------------------------------
(* The best of the payloads.                                               *)

LEMMA PreferIsFurther ==
  ASSUME NEW s \in Statuses, NEW t \in Statuses
  PROVE  /\ Prefer(s, t) \in {s, t}
         /\ Rank(s) <= Rank(Prefer(s, t)) /\ Rank(t) <= Rank(Prefer(s, t))
<1>1. Rank(s) \in 0 .. 3 /\ Rank(t) \in 0 .. 3
  BY TypesAreRanks
<1> QED BY <1>1 DEF Prefer

\* The earliest exact date of a set of dates.
Earliest(D) == CASE "shipped" \in D -> "shipped"
                 [] "changed" \in D -> "changed"
                 [] OTHER -> "observed"

LEMMA EarliestGrows ==
  ASSUME NEW D \in SUBSET Dates, NEW at \in Dates
  PROVE  /\ Earliest({at}) = at
         /\ Earlier(Earliest(D), at) = Earliest(D \cup {at})
<1>1. at = "shipped" \/ at = "changed" \/ at = "observed"
  BY DEF Dates
<1>2. CASE "shipped" \in D
  BY <1>1, <1>2 DEF Earliest, Earlier
<1>3. CASE "shipped" \notin D /\ "changed" \in D
  BY <1>1, <1>3 DEF Earliest, Earlier
<1>4. CASE "shipped" \notin D /\ "changed" \notin D
  BY <1>1, <1>4 DEF Earliest, Earlier
<1> QED BY <1>2, <1>3, <1>4

\* What BestOfAll says of one order: the version best stands for the payloads that
\* have shown the statuses S and for versions of the dates D.
IsBest(best, S, D) ==
  best # NoVersion =>
    /\ \A s \in S : Rank(s) <= Rank(best.status)
    /\ best.status \in S
    /\ best.at = Earliest(D)

LEMMA BestOfAllIs ==
  /\ BestOfAll <=> \A o \in Orders : IsBest(orders[o], shown[o], dates[o])
  /\ BestOfAll' <=> \A o \in Orders : IsBest(orders'[o], shown'[o], dates'[o])
BY DEF BestOfAll, IsBest, Earliest

\* A version of a status that is the furthest of the payload's, kept beside the best.
LEMMA MergedIsBest ==
  ASSUME NEW best \in [status : Statuses, at : Dates],
         NEW S \in SUBSET Statuses, NEW D \in SUBSET Dates,
         NEW T \in SUBSET Statuses, NEW s \in T, NEW at \in Dates,
         \A t \in T : Rank(t) <= Rank(s),
         best # NoVersion, IsBest(best, S, D)
  PROVE  IsBest(Merge(best, [status |-> s, at |-> at]), S \cup T, D \cup {at})
<1> DEFINE new == Merge(best, [status |-> s, at |-> at])
<1>1. /\ \A t \in S : Rank(t) <= Rank(best.status)
      /\ best.status \in S /\ best.at = Earliest(D)
  BY DEF IsBest
<1>2. /\ new.status = IF Rank(s) >= Rank(best.status) THEN s ELSE best.status
      /\ new.at = Earlier(best.at, at)
  BY DEF Merge
<1> HIDE DEF new
<1>3. new.at = Earliest(D \cup {at})
  BY <1>1, <1>2, EarliestGrows
<1>4. \A t \in S \cup T : Rank(t) \in 0 .. 3
  BY TypesAreRanks
<1>5. Rank(best.status) <= Rank(new.status) /\ Rank(s) <= Rank(new.status)
  BY <1>1, <1>2, <1>4
<1>6. new.status \in S \cup T
  BY <1>1, <1>2
<1>7. \A t \in S \cup T : Rank(t) <= Rank(new.status)
  BY <1>1, <1>4, <1>5, <1>6
<1> QED BY <1>3, <1>6, <1>7 DEF IsBest, new

\* The status KeepRow goes on with is the furthest the row and its detail show.
LEMMA RowStatusIsFurthest ==
  ASSUME TypeOK, pc = "keep"
  PROVE  /\ ShownByRow \subseteq Statuses /\ RowStatus \in ShownByRow
         /\ \A s \in ShownByRow : Rank(s) <= Rank(RowStatus)
<1>1. row.status \in Statuses /\ Rank(row.status) \in 0 .. 3
  BY RowInHand, TypesAreRanks
<1>2. CASE HydratedRow
  <2>1. details[row.id].status \in Statuses
    BY <1>2 DEF HydratedRow, Hydrated
  <2>2. RowStatus = Prefer(row.status, details[row.id].status)
    BY <1>2 DEF RowStatus
  <2> QED BY <1>1, <1>2, <2>1, <2>2, PreferIsFurther DEF ShownByRow
<1>3. CASE ~ HydratedRow
  BY <1>1, <1>3 DEF RowStatus, ShownByRow
<1> QED BY <1>2, <1>3

LEMMA KeepIsBest ==
  ASSUME BestInv, TypeOK', KeepRow
  PROVE  BestInv'
<1> DEFINE S == ShownByRow
           r == row.id
<1>0. TypeOK
  BY DEF BestInv
<1>1. /\ pc = "keep" /\ RowStatus \in Statuses
      /\ \/ /\ RowIsKept /\ shown' = [shown EXCEPT ![r] = shown[r] \cup S]
            /\ \E at \in Dates : KeepsVersion(at)
         \/ ~ RowIsKept /\ UNCHANGED <<orders, dates, shown>>
  BY <1>0, KeepRowEffect
<1>2. CASE ~ RowIsKept
  BY <1>0, <1>1, <1>2 DEF BestInv, BestOfAll
<1>3. CASE RowIsKept
  <2>1. PICK at \in Dates : KeepsVersion(at)
    BY <1>1, <1>3
  <2>2. /\ r \in Orders /\ shown \in [Orders -> SUBSET Statuses]
        /\ dates \in [Orders -> SUBSET Dates]
        /\ orders \in [Orders -> [status : Statuses, at : Dates]]
    BY <1>0, <1>1, RowInHand DEF TypeOK
  <2>3. S \subseteq Statuses /\ RowStatus \in S /\ \A s \in S : Rank(s) <= Rank(RowStatus)
    BY <1>0, <1>1, RowStatusIsFurthest
  <2>4. /\ dates'[r] = dates[r] \cup {at}
        /\ orders'[r] = IF orders[r] = NoVersion THEN Version(at)
                        ELSE Merge(orders[r], Version(at))
        /\ orders'[r].status \in Eligible
        /\ \A o \in Orders : o # r => orders'[o] = orders[o] /\ dates'[o] = dates[o]
    BY <1>0, <1>1, <1>3, <2>1, KeptVersion
  <2> HIDE DEF S, r
  <2>5. /\ shown'[r] = shown[r] \cup S
        /\ \A o \in Orders : o # r => shown'[o] = shown[o]
    BY <1>1, <1>3, <2>2
  <2>6. \A o \in Orders : /\ orders[o] = NoVersion => shown[o] = {}
                          /\ IsBest(orders[o], shown[o], dates[o])
    BY BestOfAllIs DEF BestInv
  <2>7. IsBest(orders'[r], shown'[r], dates'[r])
    <3>1. CASE orders[r] = NoVersion
      <4>1. orders'[r].status = RowStatus /\ orders'[r].at = at
        BY <2>4, <3>1 DEF Version
      <4>2. dates[r] = {}
        <5>1. orders[r].status \notin Eligible
          BY <3>1 DEF NoVersion, Eligible
        <5>2. IF dates[r] = {} THEN orders[r] = NoVersion
              ELSE orders[r].status \in Eligible /\ orders[r].at \in dates[r]
          BY <1>0, <2>2 DEF TypeOK
        <5> QED BY <5>1, <5>2
      <4>3. dates'[r] = {at} /\ Earliest({at}) = at
        BY <2>4, <4>2 DEF Earliest, Dates
      <4>4. shown'[r] = S
        BY <2>2, <2>5, <2>6, <3>1
      <4> QED BY <2>3, <4>1, <4>3, <4>4 DEF IsBest
    <3>2. CASE orders[r] # NoVersion
      <4>1. orders[r] \in [status : Statuses, at : Dates] /\ shown[r] \in SUBSET Statuses
            /\ dates[r] \in SUBSET Dates /\ IsBest(orders[r], shown[r], dates[r])
        BY <2>2, <2>6
      <4>2. IsBest(Merge(orders[r], [status |-> RowStatus, at |-> at]),
                   shown[r] \cup S, dates[r] \cup {at})
        BY <2>3, <3>2, <4>1, MergedIsBest
      <4> QED BY <2>4, <2>5, <3>2, <4>2 DEF Version
    <3> QED BY <3>1, <3>2
  <2>8. orders'[r] # NoVersion
    BY <2>4 DEF NoVersion, Eligible
  <2>9. ASSUME NEW o \in Orders
        PROVE  /\ IsBest(orders'[o], shown'[o], dates'[o])
               /\ orders'[o] = NoVersion => shown'[o] = {}
    <3>1. CASE o = r
      BY <2>7, <2>8, <3>1
    <3>2. CASE o # r
      <4>1. orders'[o] = orders[o] /\ dates'[o] = dates[o] /\ shown'[o] = shown[o]
        BY <2>4, <2>5, <3>2
      <4> QED BY <2>6, <4>1
    <3> QED BY <3>1, <3>2
  <2>10. BestOfAll'
    BY <2>9, BestOfAllIs
  <2> QED BY <2>9, <2>10 DEF BestInv
<1> QED BY <1>2, <1>3

LEMMA BestStep == BestInv /\ [Next]_vars => BestInv'
<1> SUFFICES ASSUME BestInv, [Next]_vars PROVE BestInv'
  OBVIOUS
<1>0. TypeOK /\ TypeOK'
  BY TypeStep DEF BestInv
<1>1. CASE KeepRow
  BY <1>0, <1>1, KeepIsBest
<1>2. CASE StartFetch \/ GivesUp
  <2>1. Reset
    BY <1>0, <1>2, GivenUp DEF StartFetch
  <2>2. \A o \in Orders : orders'[o] = NoVersion /\ shown'[o] = {}
    BY <2>1 DEF Reset
  <2> QED BY <1>0, <2>2 DEF BestInv, BestOfAll
<1>3. CASE SearchPage \/ EmptyType \/ PageDone \/ TakeRow \/ GetDetail \/ DetailFails
  <2>1. UNCHANGED <<orders, shown, dates>>
    BY <1>3 DEF SearchPage, EmptyType, PageDone, TakeRow, GetDetail, DetailFails
  <2> QED BY <1>0, <2>1 DEF BestInv, BestOfAll
<1>4. CASE \/ \E o \in Orders : Move(o) \/ Touch(o)
           \/ ExpireToken \/ UNCHANGED vars
  <2>1. UNCHANGED <<orders, shown, dates>>
    BY <1>0, <1>4, MoveType DEF ExpireToken
  <2> QED BY <1>0, <2>1 DEF BestInv, BestOfAll
<1> QED BY <1>1, <1>2, <1>3, <1>4 DEF Next, Search, Row, GivesUp

\* For any orders, however the payloads an order is kept from disagree, and whatever
\* rows are left out between them: the order has the furthest status these payloads
\* have shown, and the earliest of their exact dates.
THEOREM BestIsKept == Spec => []BestOfAll
<1>1. Init => BestInv
  BY InitTypeOK DEF Init, BestInv, BestOfAll
<1>2. BestInv => BestOfAll
  BY DEF BestInv
<1> QED BY <1>1, <1>2, BestStep, PTL DEF Spec

=============================================================================
